---------------------------- MODULE Cloud ----------------------------
(* EC2 instances and their one-shot kill schedules: the fenced calls of
   src/cloud/aws.rs, and what AWS does by itself.

   Paging, credentials and the IAM propagation retries inside one call are left
   out: a call either takes effect or fails, and a failed call is the caller's
   error path.  The builder instance of `bake` is not an instance of the fleet
   here. *)
EXTENDS World

VARIABLES
  vm,       \* [Vm -> VmState]
  tag,      \* [Vm -> Repo \cup {NoRepo}]: burst-actions-repo, set by the launch
  expired,  \* [Vm -> BOOLEAN]: burst-actions-expires has passed
  seen,     \* [Vm -> BOOLEAN]: DescribeInstances shows the instance
  armed     \* [Vm -> BOOLEAN]: its kill schedule exists

cloudVars == <<vm, tag, expired, seen, armed>>

(* "live" is what InstanceState::is_live calls live.  A fleet instance stops
   only by terminating (shutdown behaviour "terminate"), so shutting-down and
   terminated are all that follows. *)
VmState == {"absent", "live", "shutting", "gone"}

CloudTypeOK ==
  /\ vm \in [Vm -> VmState]
  /\ tag \in [Vm -> Repo \cup {NoRepo}]
  /\ expired \in [Vm -> BOOLEAN]
  /\ seen \in [Vm -> BOOLEAN]
  /\ armed \in [Vm -> BOOLEAN]

CloudInit ==
  /\ vm = [v \in Vm |-> "absent"]
  /\ tag = [v \in Vm |-> NoRepo]
  /\ expired = [v \in Vm |-> FALSE]
  /\ seen = [v \in Vm |-> FALSE]
  /\ armed = [v \in Vm |-> FALSE]

------------------------------------------------------------------------
(* The listings. *)

IsLive(v) == vm[v] = "live"

(* The state filter both listings send: terminated instances are not shown. *)
ListAllTagged == {v \in Vm : seen[v] /\ vm[v] \in {"live", "shutting"}}

ShownLive == {v \in ListAllTagged : IsLive(v)}

ListTagged(r) == {v \in ListAllTagged : tag[v] = r}

ListArmedKills == {v \in Vm : armed[v]}

------------------------------------------------------------------------
(* The calls that change something. *)

(* DescribeInstances does not show an instance the moment it is launched. *)
Launch(v, r) ==
  /\ vm' = [vm EXCEPT ![v] = "live"]
  /\ tag' = [tag EXCEPT ![v] = r]
  /\ UNCHANGED <<expired, seen, armed>>

(* All or nothing: one id DescribeInstances does not show refuses the lot. *)
Terminate(S) ==
  /\ \A v \in S : seen[v]
  /\ vm' = [v \in Vm |-> IF v \in S /\ IsLive(v) THEN "shutting" ELSE vm[v]]
  /\ UNCHANGED <<tag, expired, seen, armed>>

ArmKill(v) ==
  /\ armed' = [armed EXCEPT ![v] = TRUE]
  /\ UNCHANGED <<vm, tag, expired, seen>>

(* A schedule that is already gone is not an error. *)
DisarmKill(v) ==
  /\ armed' = [armed EXCEPT ![v] = FALSE]
  /\ UNCHANGED <<vm, tag, expired, seen>>

------------------------------------------------------------------------
(* What happens to an instance outside the program. *)

(* The VM powers itself off: its job is done, or its idle, bootstrap or TTL
   timer ran out.  Instance-initiated shutdown is termination. *)
PowerOff(v) ==
  /\ IsLive(v)
  /\ vm' = [vm EXCEPT ![v] = "shutting"]
  /\ UNCHANGED <<tag, expired, seen, armed>>

(* EC2 finishes the termination. *)
Terminated(v) ==
  /\ vm[v] = "shutting"
  /\ vm' = [vm EXCEPT ![v] = "gone"]
  /\ UNCHANGED <<tag, expired, seen, armed>>

(* The moment in the tag burst-actions-expires, also the schedule's, passes. *)
Expire(v) ==
  /\ IsLive(v) \/ armed[v]
  /\ ~expired[v]
  /\ expired' = [expired EXCEPT ![v] = TRUE]
  /\ UNCHANGED <<vm, tag, seen, armed>>

(* EventBridge Scheduler fires: it terminates the instance, dead or alive, and
   deletes the one-shot (ActionAfterCompletion::Delete). *)
KillFires(v) ==
  /\ armed[v] /\ expired[v]
  /\ armed' = [armed EXCEPT ![v] = FALSE]
  /\ vm' = [vm EXCEPT ![v] = IF IsLive(v) THEN "shutting" ELSE @]
  /\ UNCHANGED <<tag, expired, seen>>

(* DescribeInstances catches up with a launch. *)
BecomesVisible(v) ==
  /\ vm[v] # "absent"
  /\ ~seen[v]
  /\ seen' = [seen EXCEPT ![v] = TRUE]
  /\ UNCHANGED <<vm, tag, expired, armed>>
=======================================================================
