------------------------- MODULE FleetProofs -------------------------
(* Theorems about Fleet, for any number of hosts, repositories, invocations and
   instances. *)
EXTENDS Fleet, TLAPS

(* The operators that only abbreviate. *)
USE DEF At, Goto, MyDir, MyRepo, IsLive, Holds, LockFree

------------------------------------------------------------------------
(* Type correctness. *)

(* The variables have their types whatever step is taken. *)
LEMMA TypeStep == TypeOK /\ [Next]_vars => TypeOK'
<1> SUFFICES ASSUME TypeOK, [Next]_vars
             PROVE  TypeOK'
  OBVIOUS
<1> USE DEF TypeOK, GitHubTypeOK, CloudTypeOK, RepoStateTypeOK, FleetTypeOK,
            ghVars, cloudVars, stateVars, localVars,
            planVars, StateFile, Empty, RegState, VmState, Command, Label, InHand
<1> USE DirOfType, RepoOfType
<1>1. ASSUME NEW p \in Proc, Leave(p) PROVE /\ FleetTypeOK'
                                            /\ lock' \in [Dir -> Proc \cup {NoProc}]
  BY <1>1 DEF Leave, Unlock
<1>2. ASSUME NEW p \in Proc, Start(p) PROVE TypeOK'
  <2>1. CASE StartUp(p)
    BY <2>1 DEF StartUp, Lock
  <2>2. CASE StartSweep(p)
    BY <2>2 DEF StartSweep, Lock
  <2>3. CASE StartDown(p)
    BY <2>3 DEF StartDown, ListTagged, ListAllTagged
  <2> QED BY <1>2, <2>1, <2>2, <2>3 DEF Start
<1>3. ASSUME NEW p \in Proc, Progress(p) PROVE TypeOK'
  <2>1. CASE UpReconcile(p)
    BY <2>1 DEF UpReconcile, Reconcile, ListTagged, ListAllTagged
  <2>2. CASE UpCommit(p)
    BY <2>2 DEF UpCommit, Write
  <2>3. CASE SweepListTagged(p)
    BY <2>3 DEF SweepListTagged, ListTagged, ListAllTagged
  <2>4. CASE SweepListAll(p)
    BY <2>4 DEF SweepListAll, ShownLive, ListAllTagged
  <2>5. CASE SweepListArmed(p)
    BY <2>5 DEF SweepListArmed, ListArmedKills
  <2>6. CASE SweepPlan(p)
    BY <2>6 DEF SweepPlan, DeadRegistrations
  <2>7. CASE SweepDisarm(p)
    BY <2>7 DEF SweepDisarm, DisarmKill
  <2>8. CASE SweepDone(p)
    BY <1>1, <2>8 DEF SweepDone
  <2>9. ASSUME NEW v \in Vm, SweepTerminate(p, v) PROVE TypeOK'
    BY <2>9 DEF SweepTerminate, Terminate
  <2>10. ASSUME NEW v \in Vm, SweepRecheck(p, v) PROVE TypeOK'
    <3>1. CASE v \in ShownLive
      BY <2>10, <3>1 DEF SweepRecheck
    <3>2. CASE v \notin ShownLive
      <4>1. /\ pc' = [pc EXCEPT ![p] = "disarm"]
            /\ cur' = [cur EXCEPT ![p] = v]
            /\ disarm' = [disarm EXCEPT ![p] = @ \ {v}]
            /\ UNCHANGED <<ghVars, cloudVars, stateVars, cmd, manifest, names, view, reap, dead>>
        BY <2>10, <3>2 DEF SweepRecheck
      <4> HIDE <2>10
      <4> QED BY <4>1
    <3> QED BY <3>1, <3>2
  <2>11. ASSUME NEW v \in Vm, SweepDelete(p, v) PROVE TypeOK'
    BY <2>11 DEF SweepDelete, DeleteRunner
  <2>12. CASE UpNothingToLaunch(p)
    BY <1>1, <2>12 DEF UpNothingToLaunch
  <2>13. CASE UpLaunch(p)
    BY <2>13 DEF UpLaunch, Launch
  <2>14. CASE UpArm(p)
    BY <2>14 DEF UpArm, ArmKill
  <2>15. CASE UpArmFails(p)
    BY <2>15 DEF UpArmFails, ArmKill
  <2>16. CASE UpDisown(p)
    BY <1>1, <2>16 DEF UpDisown, Terminate
  <2>17. CASE UpRecord(p)
    BY <2>17 DEF UpRecord, Write, Record
  <2>18. CASE UpLaunched(p)
    BY <2>18 DEF UpLaunched
  <2>19. ASSUME NEW v \in Vm, UpMint(p, v) PROVE TypeOK'
    BY <2>19 DEF UpMint, MintJitConfig
  <2>20. CASE UpFleetGone(p)
    BY <2>20 DEF UpFleetGone
  <2>21. CASE UpCollectNames(p)
    BY <2>21 DEF UpCollectNames
  <2>22. CASE UpForget(p)
    BY <1>1, <2>22 DEF UpForget, Delete
  <2>23. CASE DownTerminate(p)
    BY <2>23 DEF DownTerminate, Terminate
  <2>24. CASE DownReadNames(p)
    BY <2>24 DEF DownReadNames
  <2>25. CASE DownForget(p)
    BY <1>1, <2>25 DEF DownForget, Delete
  <2>26. CASE DownLeavesFile(p)
    BY <1>1, <2>26 DEF DownLeavesFile
  <2>27. ASSUME NEW v \in Vm, TeardownDisarm(p, v) PROVE TypeOK'
    BY <2>27 DEF TeardownDisarm, DisarmKill
  <2>28. ASSUME NEW v \in Vm, TidyDelete(p, v) PROVE TypeOK'
    BY <2>28 DEF TidyDelete, DeleteRunner
  <2>29. CASE TidyList(p)
    BY <2>29 DEF TidyList, DeadRegistrations
  <2>30. CASE TidyDone(p) \/ TidyFails(p)
    <3>1. EndTidy(p)
      BY <2>30 DEF TidyDone, TidyFails
    <3> QED BY <3>1 DEF EndTidy
  <2> QED
    BY <1>3, <2>1, <2>2, <2>3, <2>4, <2>5, <2>6, <2>7, <2>8, <2>9, <2>10,
       <2>11, <2>12, <2>13, <2>14, <2>15, <2>16, <2>17, <2>18, <2>19, <2>20,
       <2>21, <2>22, <2>23, <2>24, <2>25, <2>26, <2>27, <2>28, <2>29, <2>30
    DEF Progress
<1>4. ASSUME NEW p \in Proc, UpDetach(p) \/ Quit(p) PROVE TypeOK'
  BY <1>1, <1>4 DEF UpDetach, Quit
<1>5. ASSUME NEW v \in Vm, Environment(v) PROVE TypeOK'
  <2>1. CASE RunnerConnects(v) \/ RunnerDrops(v) \/ GitHubStep(v)
    <3>1. CASE RunnerConnects(v)
      BY <3>1 DEF RunnerConnects
    <3>2. CASE RunnerDrops(v)
      BY <3>2 DEF RunnerDrops
    <3>3. CASE GitHubStep(v)
      BY <3>3 DEF GitHubStep, RunnerFinishes
    <3> QED BY <2>1, <3>1, <3>2, <3>3
  <2>2. CASE CloudStep(v)
    <3>1. UNCHANGED <<ghVars, stateVars, localVars>>
      BY <2>2 DEF CloudStep
    <3>2. CASE PowerOff(v) \/ Terminated(v)
      BY <3>1, <3>2 DEF PowerOff, Terminated
    <3>3. CASE Expire(v) \/ BecomesVisible(v)
      BY <3>1, <3>3 DEF Expire, BecomesVisible
    <3>4. CASE KillFires(v)
      BY <3>1, <3>4 DEF KillFires
    <3> QED BY <2>2, <3>2, <3>3, <3>4 DEF CloudStep
  <2> QED BY <1>5, <2>1, <2>2 DEF Environment
<1>6. CASE UNCHANGED vars
  BY <1>6 DEF vars
<1> QED BY <1>2, <1>3, <1>4, <1>5, <1>6 DEF Next

(* The variables start with their types. *)
LEMMA TypeInit == Init => TypeOK
BY DEF Init, GitHubInit, CloudInit, RepoStateInit, TypeOK, GitHubTypeOK, CloudTypeOK,
       RepoStateTypeOK, FleetTypeOK, StateFile, Empty, RegState, VmState, Label, Command, InHand

(* Every reachable state is well typed. *)
THEOREM TypeCorrect == Spec => []TypeOK
BY TypeInit, TypeStep, PTL DEF Spec

------------------------------------------------------------------------
(* The statefile and the lock. *)

(* The label an invocation is at tells which command it can be running. *)
CommandFitsLabel ==
  \A p \in Proc :
    /\ pc[p] \in {"new", "ended"} <=> cmd[p] = "none"
    /\ pc[p] \in {"list", "commit", "mint", "launch", "arm", "disown", "record", "watch"}
         => cmd[p] = "up"
    /\ pc[p] \in {"sweep", "all", "armed", "runners", "execute", "disarm"}
         => cmd[p] \in {"up", "sweep"}
    /\ pc[p] = "terminate" => cmd[p] = "down"
    /\ pc[p] \in {"schedules", "tidy", "tidying", "forget"} => cmd[p] \in {"up", "down"}

(* A running up or sweep holds the lock of its directory, so there is at most
   one of them on a directory. *)
LockIsHeld == \A p \in Proc : cmd[p] \in {"up", "sweep"} => Holds(p)

(* Inductive: without the lock, another up could write the file this one has in
   memory, and without the labels a step could not be told to be up's. *)
StatefileInv == TypeOK /\ CommandFitsLabel /\ LockIsHeld /\ ManifestOnDisk

(* No step leaves the invariant. *)
LEMMA StatefileStep == StatefileInv /\ [Next]_vars => StatefileInv'
<1> SUFFICES ASSUME StatefileInv, [Next]_vars
             PROVE  CommandFitsLabel' /\ LockIsHeld' /\ ManifestOnDisk'
  BY TypeStep DEF StatefileInv
<1> USE DEF StatefileInv, CommandFitsLabel, LockIsHeld, ManifestOnDisk,
            TypeOK, RepoStateTypeOK, FleetTypeOK, Label, Command, StateFile, Empty,
            ghVars, cloudVars, stateVars, localVars, planVars
<1> USE DirOfType, NoProcIsNone
<1>1. ASSUME NEW p \in Proc, Leave(p),
             \/ UNCHANGED file
             \/ Delete(MyDir(p)) /\ (LockFree(MyDir(p)) \/ cmd[p] = "up")
      PROVE  CommandFitsLabel' /\ LockIsHeld' /\ ManifestOnDisk'
  BY <1>1 DEF Leave, Unlock, Delete
<1>2. ASSUME NEW p \in Proc, Start(p)
      PROVE  CommandFitsLabel' /\ LockIsHeld' /\ ManifestOnDisk'
  <2>1. CASE StartUp(p)
    BY <2>1 DEF StartUp, Lock
  <2>2. CASE StartSweep(p)
    BY <2>2 DEF StartSweep, Lock
  <2>3. CASE StartDown(p)
    BY <2>3 DEF StartDown
  <2> QED BY <1>2, <2>1, <2>2, <2>3 DEF Start
<1>3. ASSUME NEW p \in Proc, Progress(p)
      PROVE  CommandFitsLabel' /\ LockIsHeld' /\ ManifestOnDisk'
  <2>1. CASE UpReconcile(p)
    BY <2>1 DEF UpReconcile
  <2>2. CASE UpCommit(p)
    BY <2>2 DEF UpCommit, Write
  <2>3. CASE \/ SweepListTagged(p) \/ SweepListAll(p) \/ SweepListArmed(p)
             \/ SweepPlan(p) \/ SweepDisarm(p)
    <3>1. CASE SweepListTagged(p)
      BY <3>1 DEF SweepListTagged
    <3>2. CASE SweepListAll(p)
      BY <3>2 DEF SweepListAll
    <3>3. CASE SweepListArmed(p)
      BY <3>3 DEF SweepListArmed
    <3>4. CASE SweepPlan(p)
      BY <3>4 DEF SweepPlan
    <3>5. CASE SweepDisarm(p)
      BY <3>5 DEF SweepDisarm
    <3> QED BY <2>3, <3>1, <3>2, <3>3, <3>4, <3>5
  <2>4. CASE SweepDone(p)
    <3>1. CASE cmd[p] = "sweep"
      <4>1. Leave(p) /\ UNCHANGED file
        BY <2>4, <3>1 DEF SweepDone
      <4> QED BY <1>1, <4>1
    <3>2. CASE cmd[p] = "up"
      <4>1. At(p, "execute") /\ Goto(p, "mint") /\ UNCHANGED <<stateVars, cmd, manifest>>
        BY <2>4, <3>2 DEF SweepDone
      <4> QED BY <3>2, <4>1
    <3> QED BY <2>4, <3>1, <3>2 DEF SweepDone
  <2>5. ASSUME NEW v \in Vm, SweepTerminate(p, v) \/ SweepRecheck(p, v) \/ SweepDelete(p, v)
        PROVE  CommandFitsLabel' /\ LockIsHeld' /\ ManifestOnDisk'
    <3>1. /\ At(p, "execute") /\ pc' \in {pc, [pc EXCEPT ![p] = "disarm"]}
          /\ UNCHANGED <<stateVars, cmd, manifest>>
      BY <2>5 DEF SweepTerminate, SweepRecheck, SweepDelete
    <3>2. CASE UNCHANGED pc
      BY <3>1, <3>2
    <3>3. CASE pc' = [pc EXCEPT ![p] = "disarm"]
      <4>1. Goto(p, "disarm")
        BY <3>3
      <4> QED BY <3>1, <4>1
    <3> QED BY <3>1, <3>2, <3>3
  <2>6. CASE UpNothingToLaunch(p)
    BY <1>1, <2>6 DEF UpNothingToLaunch
  <2>7. CASE UpLaunch(p) \/ UpArm(p) \/ UpArmFails(p) \/ UpLaunched(p)
    <3>1. CASE UpLaunch(p)
      BY <3>1 DEF UpLaunch
    <3>2. CASE UpArm(p)
      BY <3>2 DEF UpArm
    <3>3. CASE UpArmFails(p)
      BY <3>3 DEF UpArmFails
    <3>4. CASE UpLaunched(p)
      BY <3>4 DEF UpLaunched
    <3> QED BY <2>7, <3>1, <3>2, <3>3, <3>4
  <2>8. CASE UpDisown(p)
    <3>1. Leave(p) /\ UNCHANGED file
      BY <2>8 DEF UpDisown
    <3> QED BY <1>1, <3>1
  <2>9. CASE UpRecord(p)
    BY <2>9 DEF UpRecord, Write, Record
  <2>10. ASSUME NEW v \in Vm, UpMint(p, v)
         PROVE  CommandFitsLabel' /\ LockIsHeld' /\ ManifestOnDisk'
    BY <2>10 DEF UpMint
  <2>11. CASE UpFleetGone(p) \/ UpCollectNames(p)
    BY <2>11 DEF UpFleetGone, UpCollectNames
  <2>12. CASE UpForget(p)
    BY <1>1, <2>12 DEF UpForget
  <2>13. CASE DownTerminate(p) \/ DownReadNames(p)
    BY <2>13 DEF DownTerminate, DownReadNames
  <2>14. CASE DownForget(p) \/ DownLeavesFile(p)
    <3>1. CASE DownForget(p)
      BY <1>1, <3>1 DEF DownForget
    <3>2. CASE DownLeavesFile(p)
      BY <1>1, <3>2 DEF DownLeavesFile
    <3> QED BY <2>14, <3>1, <3>2
  <2>15. ASSUME NEW v \in Vm, TeardownDisarm(p, v) \/ TidyDelete(p, v)
         PROVE  CommandFitsLabel' /\ LockIsHeld' /\ ManifestOnDisk'
    BY <2>15 DEF TeardownDisarm, TidyDelete
  <2>16. CASE TidyList(p) \/ TidyDone(p) \/ TidyFails(p)
    <3>1. CASE TidyList(p)
      BY <3>1 DEF TidyList
    <3>2. CASE TidyDone(p)
      BY <3>2 DEF TidyDone, EndTidy
    <3>3. CASE TidyFails(p)
      BY <3>3 DEF TidyFails, EndTidy
    <3> QED BY <2>16, <3>1, <3>2, <3>3
  <2> QED
    BY <1>3, <2>1, <2>2, <2>3, <2>4, <2>5, <2>6, <2>7, <2>8, <2>9, <2>10, <2>11,
       <2>12, <2>13, <2>14, <2>15, <2>16
    DEF Progress
<1>4. ASSUME NEW p \in Proc, UpDetach(p) \/ Quit(p)
      PROVE  CommandFitsLabel' /\ LockIsHeld' /\ ManifestOnDisk'
  BY <1>1, <1>4 DEF UpDetach, Quit
<1>5. CASE (\E v \in Vm : Environment(v)) \/ UNCHANGED vars
  <2>1. UNCHANGED <<stateVars, localVars>>
    BY <1>5 DEF Environment, RunnerConnects, RunnerDrops, GitHubStep, CloudStep, vars
  <2> QED BY <2>1
<1> QED BY <1>2, <1>3, <1>4, <1>5 DEF Next

(* Under a running up, the statefile is its manifest: the lock and down's
   try_lock keep everybody else on the host away from it. *)
THEOREM ManifestIsOnDisk == Spec => []ManifestOnDisk
<1>1. Init => StatefileInv
  BY TypeInit DEF Init, StatefileInv, CommandFitsLabel, LockIsHeld, ManifestOnDisk
<1>2. StatefileInv => ManifestOnDisk
  BY DEF StatefileInv
<1> QED BY <1>1, <1>2, StatefileStep, PTL DEF Spec

------------------------------------------------------------------------
(* What a step does to the instances. *)

(* Nothing is launched, minted again or given another tag. *)
Steady ==
  \A v \in Vm :
    /\ vm'[v] = "absent" <=> vm[v] = "absent"
    /\ vm'[v] = "live" => vm[v] = "live"
    /\ tag'[v] = tag[v]
    /\ mintedBy[v] # NoDir => mintedBy'[v] = mintedBy[v]

(* Every step but a launch is like that. *)
LEMMA StepSteady ==
  ASSUME TypeOK, [Next]_vars, \A p \in Proc : ~UpLaunch(p)
  PROVE  Steady
<1> USE DEF TypeOK, CloudTypeOK, GitHubTypeOK, FleetTypeOK, VmState, InHand,
            Steady, ghVars, cloudVars
<1>1. CASE UNCHANGED <<mintedBy, vm, tag>>
  BY <1>1
<1>2. ASSUME NEW S \in SUBSET Vm, Terminate(S), UNCHANGED ghVars PROVE Steady
  BY <1>2 DEF Terminate
<1>3. ASSUME NEW p \in Proc, NEW v \in Vm, UpMint(p, v) PROVE Steady
  BY <1>3 DEF UpMint, MintJitConfig, FreshName
<1>4. ASSUME NEW v \in Vm, Environment(v) PROVE Steady
  <2>1. CASE RunnerConnects(v) \/ RunnerDrops(v) \/ GitHubStep(v)
    BY <2>1 DEF RunnerConnects, RunnerDrops, GitHubStep, RunnerFinishes
  <2>2. CASE CloudStep(v)
    BY <2>2 DEF CloudStep, PowerOff, Terminated, Expire, KillFires, BecomesVisible
  <2> QED BY <1>4, <2>1, <2>2 DEF Environment
<1>5. ASSUME NEW p \in Proc, Progress(p) PROVE Steady
  <2>1. CASE \/ UpDisown(p) \/ DownTerminate(p) \/ \E v \in Vm : SweepTerminate(p, v)
    BY <1>2, <2>1 DEF UpDisown, DownTerminate, SweepTerminate
  <2>2. CASE \/ UpReconcile(p) \/ UpCommit(p)
             \/ SweepListTagged(p) \/ SweepListAll(p) \/ SweepListArmed(p)
             \/ SweepPlan(p) \/ SweepDone(p) \/ \E v \in Vm : SweepRecheck(p, v)
    BY <1>1, <2>2 DEF UpReconcile, UpCommit, SweepListTagged, SweepListAll, SweepListArmed,
                      SweepPlan, SweepDone, SweepRecheck
  <2>3. CASE \/ UpNothingToLaunch(p) \/ UpRecord(p) \/ UpLaunched(p)
             \/ UpFleetGone(p) \/ UpCollectNames(p) \/ UpForget(p)
    BY <1>1, <2>3 DEF UpNothingToLaunch, UpRecord, UpLaunched, UpFleetGone,
                      UpCollectNames, UpForget
  <2>4. CASE \/ DownReadNames(p) \/ DownForget(p) \/ DownLeavesFile(p)
             \/ TidyList(p) \/ TidyDone(p) \/ TidyFails(p)
    BY <1>1, <2>4 DEF DownReadNames, DownForget, DownLeavesFile, TidyList, TidyDone,
                      TidyFails, EndTidy
  <2>5. CASE \/ SweepDisarm(p) \/ \E v \in Vm : TeardownDisarm(p, v)
             \/ UpArm(p) \/ UpArmFails(p)
    BY <1>1, <2>5 DEF SweepDisarm, TeardownDisarm, UpArm, UpArmFails, DisarmKill, ArmKill
  <2>6. CASE \E v \in Vm : SweepDelete(p, v) \/ TidyDelete(p, v)
    BY <1>1, <2>6 DEF SweepDelete, TidyDelete, DeleteRunner
  <2> QED
    BY <1>3, <1>5, <2>1, <2>2, <2>3, <2>4, <2>5, <2>6 DEF Progress
<1>6. ASSUME NEW p \in Proc, Start(p) \/ UpDetach(p) \/ Quit(p) PROVE Steady
  BY <1>1, <1>6 DEF Start, StartUp, StartSweep, StartDown, UpDetach, Quit
<1>7. CASE UNCHANGED vars
  BY <1>1, <1>7 DEF vars
<1> QED BY <1>4, <1>5, <1>6, <1>7 DEF Next

(* What has expired stays expired. *)
LEMMA StepExpires ==
  ASSUME TypeOK, [Next]_vars
  PROVE  \A v \in Vm : expired[v] => expired'[v]
<1> USE DEF TypeOK, CloudTypeOK, cloudVars
<1>1. ASSUME NEW p \in Proc, Progress(p) PROVE expired' = expired
  <2> USE <1>1 DEF Terminate, DisarmKill, ArmKill, Launch
  <2>1. CASE \/ UpReconcile(p) \/ UpCommit(p)
             \/ SweepListTagged(p) \/ SweepListAll(p) \/ SweepListArmed(p)
             \/ SweepPlan(p) \/ SweepDisarm(p) \/ SweepDone(p)
    BY <2>1 DEF UpReconcile, UpCommit, SweepListTagged, SweepListAll, SweepListArmed,
                SweepPlan, SweepDisarm, SweepDone
  <2>2. CASE \E v \in Vm : SweepTerminate(p, v) \/ SweepRecheck(p, v) \/ SweepDelete(p, v)
    BY <2>2 DEF SweepTerminate, SweepRecheck, SweepDelete
  <2>3. CASE \/ UpNothingToLaunch(p) \/ UpLaunch(p) \/ UpArm(p) \/ UpArmFails(p) \/ UpDisown(p) \/ UpRecord(p)
             \/ UpLaunched(p) \/ UpFleetGone(p) \/ UpCollectNames(p) \/ UpForget(p)
             \/ \E v \in Vm : UpMint(p, v)
    BY <2>3 DEF UpNothingToLaunch, UpLaunch, UpArm, UpArmFails, UpDisown, UpRecord, UpLaunched,
                UpFleetGone, UpCollectNames, UpForget, UpMint
  <2>4. CASE \/ DownTerminate(p) \/ DownReadNames(p) \/ DownForget(p) \/ DownLeavesFile(p)
             \/ TidyList(p) \/ TidyDone(p) \/ TidyFails(p)
             \/ \E v \in Vm : TeardownDisarm(p, v) \/ TidyDelete(p, v)
    BY <2>4 DEF DownTerminate, DownReadNames, DownForget, DownLeavesFile, TidyList, TidyDone,
                TidyFails, EndTidy, TeardownDisarm, TidyDelete
  <2> QED BY <1>1, <2>1, <2>2, <2>3, <2>4 DEF Progress
<1>2. ASSUME NEW p \in Proc, Start(p) \/ UpDetach(p) \/ Quit(p) PROVE expired' = expired
  BY <1>2 DEF Start, StartUp, StartSweep, StartDown, UpDetach, Quit
<1>3. ASSUME NEW v \in Vm, Environment(v) PROVE \A u \in Vm : expired[u] => expired'[u]
  <2>1. CASE RunnerConnects(v) \/ RunnerDrops(v) \/ GitHubStep(v)
    BY <2>1 DEF RunnerConnects, RunnerDrops, GitHubStep
  <2>2. CASE CloudStep(v)
    BY <2>2 DEF CloudStep, PowerOff, Terminated, Expire, KillFires, BecomesVisible
  <2> QED BY <1>3, <2>1, <2>2 DEF Environment
<1>4. CASE UNCHANGED vars
  BY <1>4 DEF vars
<1> QED BY <1>1, <1>2, <1>3, <1>4 DEF Next
=======================================================================
