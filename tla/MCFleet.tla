---------------------------- MODULE MCFleet ----------------------------
(* Fleet on small instances: which invocation works on which host, for which
   repository, and as which command. *)
EXTENDS Fleet, TLC

CONSTANTS v1, v2, p1, p2, p3, d1, d2, d3, r1, r2

OneHost_RepoOf == d1 :> r1
ThreeDirs_RepoOf == d1 :> r1 @@ d2 :> r1 @@ d3 :> r2

Together_DirOf == [p \in Proc |-> d1]
ThreeApart_DirOf == p1 :> d1 @@ p2 :> d2 @@ p3 :> d3

AnyCommand == [p \in Proc |-> Command]
NoDown == [p \in Proc |-> {"up", "sweep"}]
UpUpSweep == p1 :> {"up"} @@ p2 :> {"up"} @@ p3 :> {"sweep"}
UpUpClean == p1 :> {"up"} @@ p2 :> {"up"} @@ p3 :> {"sweep", "down"}
UpUpDown == p1 :> {"up"} @@ p2 :> {"up"} @@ p3 :> {"down"}

VmSymmetry == Permutations(Vm)
=======================================================================
