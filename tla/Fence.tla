---------------------------- MODULE Fence ----------------------------
(* What burst promises of one instance, whoever launches, sweeps or tears down:
   it is launched once, fenced by a kill schedule, and once fenced it leaves
   that state only by dying.  There is no way back from fenced to exposed and
   none back from dead. *)

CONSTANT Vm
VARIABLE stage

Stage == {"absent", "exposed", "fenced", "dead"}

Init == stage = [v \in Vm |-> "absent"]

Launch(v) ==
  /\ stage[v] = "absent"
  /\ stage' = [stage EXCEPT ![v] = "exposed"]

Arm(v) ==
  /\ stage[v] = "exposed"
  /\ stage' = [stage EXCEPT ![v] = "fenced"]

(* Several at once: one TerminateInstances call may name the whole fleet. *)
Die(S) ==
  /\ \A v \in S : stage[v] \in {"exposed", "fenced"}
  /\ stage' = [v \in Vm |-> IF v \in S THEN "dead" ELSE stage[v]]

Next ==
  \/ \E v \in Vm : Launch(v) \/ Arm(v)
  \/ \E S \in SUBSET Vm : Die(S)

Spec == Init /\ [][Next]_stage
=======================================================================
