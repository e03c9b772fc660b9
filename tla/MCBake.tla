---------------------------- MODULE MCBake ----------------------------
(* Instances of Bake with three invocations and one old image, of r1. *)
EXTENDS Bake, TLC

CONSTANTS b1, b2, b3, o1, r1, r2, kA, kB

TwoAndOne_RepoFor == (b1 :> r1) @@ (b2 :> r1) @@ (b3 :> r2) @@ (o1 :> r1)

(* r1's two invocations agree on the key, r2's has one of its own. *)
Agree_KeyFor == (b1 :> kA) @@ (b2 :> kA) @@ (b3 :> kB) @@ (o1 :> NoKey)

(* r1's two invocations disagree, and r2's bakes the key of one of them. *)
Disagree_KeyFor == (b1 :> kA) @@ (b2 :> kB) @@ (b3 :> kA) @@ (o1 :> NoKey)
=======================================================================
