------------------------- MODULE FenceProofs -------------------------
(* No kill schedule is lost: theorems about Fleet, for any number of hosts,
   repositories, invocations and instances, where a listing shows a live instance
   by the time its schedule is armed (PromptSpec). *)
EXTENDS FleetProofs

USE DEF At, Goto, MyDir, MyRepo, IsLive

------------------------------------------------------------------------
(* The inductive invariant. *)

Dying(v) == vm[v] \in {"shutting", "gone"}

(* An instance is minted before it is launched, launched before it is armed,
   and shown, if it lives, once it is armed. *)
OriginInv ==
  /\ \A v \in Vm : vm[v] # "absent" => mintedBy[v] # NoDir
  /\ \A v \in Vm : armed[v] => vm[v] # "absent"
  /\ ShownOnceArmed

(* A listing without the instance says that it is dead. *)
Listed(v) == vm[v] # "absent" /\ (IsLive(v) => seen[v])

(* What a record says of the instances of repository r: they were launched for
   it, listings show them, and those under a name of this host are fenced while
   they live. *)
Accounted(m, r) ==
  /\ \A v \in m.ids : Listed(v) /\ tag[v] = r
  /\ m.named \subseteq m.ids
  /\ \A v \in m.named : IsLive(v) => armed[v]

(* What invocation p relies on, by the label it is at. *)
LocalInv(p) ==
  /\ Accounted(manifest[p], MyRepo(p))
  /\ pc[p] = "launch" => vm[cur[p]] = "absent" /\ mintedBy[cur[p]] # NoDir
  /\ pc[p] \in {"arm", "disown", "record"} => vm[cur[p]] # "absent" /\ tag[cur[p]] = MyRepo(p)
  /\ pc[p] = "record" /\ IsLive(cur[p]) => armed[cur[p]]
  /\ pc[p] \in {"runners", "execute", "disarm"} => \A v \in disarm[p] : Listed(v)
  /\ pc[p] = "disarm" => Dying(cur[p])
  /\ pc[p] = "terminate" => \A v \in reap[p] : vm[v] # "absent"
  /\ pc[p] = "schedules" => \A v \in disarm[p] : Dying(v)

(* Two invocations never hold the same fresh name. *)
LaunchesApart ==
  \A p, q \in Proc :
    pc[p] = "launch" /\ pc[q] = "launch" /\ cur[p] = cur[q] => p = q

(* Inductive.  What makes a disarm safe is LocalInv's last four lines, and they
   hold because a listing that leaves an instance out says that it is dead: the
   instance has been armed (OriginInv) or is on record (Accounted), so it is
   shown while it lives. *)
FenceInv ==
  /\ TypeOK
  /\ OriginInv
  /\ \A d \in Dir : Accounted(file[d], RepoOf[d])
  /\ \A p \in Proc : LocalInv(p)
  /\ LaunchesApart

------------------------------------------------------------------------
(* What every step but a launch does to the instances. *)

(* An attempt to arm, which may take effect although it failed. *)
TriesToArm(p) == UpArm(p) \/ UpArmFails(p)

Frame ==
  \A v \in Vm :
    /\ vm'[v] = "absent" <=> vm[v] = "absent"
    /\ Dying(v) => Dying(v)'
    /\ vm'[v] = "live" => vm[v] = "live"
    /\ tag'[v] = tag[v]
    /\ mintedBy[v] # NoDir => mintedBy'[v] # NoDir
    /\ seen[v] => seen'[v]
    /\ armed[v] /\ vm'[v] = "live" => armed'[v]
    /\ armed'[v] /\ ~armed[v] => vm[v] # "absent" /\ \E p \in Proc : TriesToArm(p) /\ v = cur[p]

(* A step other than a launch neither creates an instance nor revives one, nor
   takes the schedule of a live one. *)
LEMMA StepFrame == FenceInv /\ [Next]_vars => Frame \/ \E p \in Proc : UpLaunch(p)
<1> SUFFICES ASSUME FenceInv, [Next]_vars, \A p \in Proc : ~UpLaunch(p)
             PROVE  Frame
  OBVIOUS
<1> USE DEF FenceInv, TypeOK, CloudTypeOK, GitHubTypeOK, FleetTypeOK, VmState, InHand,
            Frame, Dying, ghVars, cloudVars
<1> USE NoDirIsNone, DirOfType
<1>1. CASE UNCHANGED <<ghVars, cloudVars>>
  BY <1>1
<1>2. ASSUME NEW S \in SUBSET Vm, Terminate(S), UNCHANGED ghVars PROVE Frame
  BY <1>2 DEF Terminate
<1>3. ASSUME NEW p \in Proc, SweepDisarm(p) PROVE Frame
  BY <1>3 DEF SweepDisarm, DisarmKill, LocalInv
<1>4. ASSUME NEW p \in Proc, NEW v \in Vm, TeardownDisarm(p, v) PROVE Frame
  BY <1>4 DEF TeardownDisarm, DisarmKill, LocalInv
<1>5. ASSUME NEW p \in Proc, NEW v \in Vm, UpMint(p, v) PROVE Frame
  BY <1>5 DEF UpMint, MintJitConfig
<1>6. ASSUME NEW p \in Proc, TriesToArm(p) PROVE Frame
  <2>1. /\ armed' = [armed EXCEPT ![cur[p]] = TRUE] \/ UNCHANGED armed
        /\ UNCHANGED <<ghVars, vm, tag, expired, seen>>
    BY <1>6 DEF TriesToArm, UpArm, UpArmFails, ArmKill
  <2>2. cur[p] \in Vm /\ vm[cur[p]] # "absent"
    BY <1>6 DEF TriesToArm, UpArm, UpArmFails, LocalInv
  <2>3. CASE UNCHANGED armed
    BY <2>1, <2>3
  <2>4. CASE armed' = [armed EXCEPT ![cur[p]] = TRUE]
    <3>1. \A v \in Vm : armed'[v] = (armed[v] \/ v = cur[p])
      BY <2>2, <2>4
    <3> QED BY <1>6, <2>1, <2>2, <3>1
  <2> QED BY <2>1, <2>3, <2>4
<1>7. ASSUME NEW v \in Vm, DeleteRunner(v), UNCHANGED cloudVars PROVE Frame
  BY <1>7 DEF DeleteRunner
<1>8. ASSUME NEW v \in Vm, Environment(v) PROVE Frame
  <2>1. CASE RunnerConnects(v) \/ RunnerDrops(v) \/ GitHubStep(v)
    BY <2>1 DEF RunnerConnects, RunnerDrops, GitHubStep, RunnerFinishes
  <2>2. CASE CloudStep(v)
    BY <2>2 DEF CloudStep, PowerOff, Terminated, Expire, KillFires, BecomesVisible
  <2> QED BY <1>8, <2>1, <2>2 DEF Environment
<1>9. ASSUME NEW p \in Proc, Progress(p) PROVE Frame
  <2>1. CASE \E v \in Vm : SweepTerminate(p, v)
    BY <1>2, <2>1 DEF SweepTerminate
  <2>2. CASE UpDisown(p)
    BY <1>2, <2>2 DEF UpDisown
  <2>3. CASE DownTerminate(p)
    BY <1>2, <2>3 DEF DownTerminate
  <2>4. CASE \E v \in Vm : SweepDelete(p, v) \/ TidyDelete(p, v)
    BY <1>7, <2>4 DEF SweepDelete, TidyDelete
  <2>5. CASE \/ UpReconcile(p) \/ UpCommit(p)
             \/ SweepListTagged(p) \/ SweepListAll(p) \/ SweepListArmed(p)
             \/ SweepPlan(p) \/ SweepDone(p) \/ \E v \in Vm : SweepRecheck(p, v)
    BY <1>1, <2>5 DEF UpReconcile, UpCommit, SweepListTagged, SweepListAll, SweepListArmed,
                      SweepPlan, SweepDone, SweepRecheck
  <2>6. CASE \/ UpNothingToLaunch(p) \/ UpRecord(p) \/ UpLaunched(p)
             \/ UpFleetGone(p) \/ UpCollectNames(p) \/ UpForget(p)
    BY <1>1, <2>6 DEF UpNothingToLaunch, UpRecord, UpLaunched, UpFleetGone,
                      UpCollectNames, UpForget
  <2>7. CASE \/ DownReadNames(p) \/ DownForget(p) \/ DownLeavesFile(p)
             \/ TidyList(p) \/ TidyDone(p) \/ TidyFails(p)
    BY <1>1, <2>7 DEF DownReadNames, DownForget, DownLeavesFile, TidyList, TidyDone,
                      TidyFails, EndTidy
  <2> QED
    BY <1>3, <1>4, <1>5, <1>6, <1>9, <2>1, <2>2, <2>3, <2>4, <2>5, <2>6, <2>7
    DEF Progress, TriesToArm
<1>10. ASSUME NEW p \in Proc, Start(p) \/ UpDetach(p) \/ Quit(p) PROVE Frame
  BY <1>1, <1>10 DEF Start, StartUp, StartSweep, StartDown, UpDetach, Quit
<1>11. CASE UNCHANGED vars
  BY <1>1, <1>11 DEF vars
<1> QED BY <1>8, <1>9, <1>10, <1>11 DEF Next

(* Such a step keeps a statefile that it does not write true, *)
LEMMA FrameKeepsFile ==
  ASSUME FenceInv, Frame, NEW d \in Dir, file'[d] = file[d]
  PROVE  Accounted(file[d], RepoOf[d])'
<1>1. file[d] \in StateFile
  BY DEF FenceInv, TypeOK, RepoStateTypeOK
<1>2. Accounted(file[d], RepoOf[d])
  BY DEF FenceInv
<1> QED BY <1>1, <1>2 DEF Frame, Accounted, Listed, StateFile

(* a manifest that does not change, *)
LEMMA FrameKeepsManifest ==
  ASSUME FenceInv, Frame, NEW p \in Proc, manifest'[p] = manifest[p]
  PROVE  Accounted(manifest[p], MyRepo(p))'
<1>1. manifest[p] \in StateFile
  BY DEF FenceInv, TypeOK, FleetTypeOK
<1>2. Accounted(manifest[p], MyRepo(p))
  BY DEF FenceInv, LocalInv
<1> QED BY <1>1, <1>2 DEF Frame, Accounted, Listed, StateFile

(* and all that an invocation relies on which does not move. *)
LEMMA FrameKeepsLocal ==
  ASSUME FenceInv, Frame, NEW p \in Proc,
         pc'[p] = pc[p], manifest'[p] = manifest[p], reap'[p] = reap[p],
         disarm'[p] = disarm[p], cur'[p] = cur[p]
  PROVE  LocalInv(p)'
<1>1. /\ disarm[p] \subseteq Vm /\ reap[p] \subseteq Vm
      /\ pc[p] \in InHand => cur[p] \in Vm
  BY DEF FenceInv, TypeOK, FleetTypeOK
<1>2. LocalInv(p)
  BY DEF FenceInv
<1> QED BY <1>1, <1>2, FrameKeepsManifest DEF LocalInv, Frame, Listed, Dying, InHand

(* An invocation that ends relies on nothing. *)
LEMMA LeaveKeepsLocal ==
  ASSUME FenceInv, NEW p \in Proc, Leave(p)
  PROVE  LocalInv(p)'
BY DEF Leave, LocalInv, Accounted, Empty, FenceInv, TypeOK, FleetTypeOK

------------------------------------------------------------------------
(* The invocation that moves. *)

(* Its own step gives it what it relies on next. *)
LEMMA MoverKeepsLocal ==
  ASSUME FenceInv, Frame, NEW p \in Proc,
         Start(p) \/ Progress(p) \/ UpDetach(p) \/ Quit(p), ~UpLaunch(p)
  PROVE  LocalInv(p)'
<1> USE DEF FenceInv, TypeOK, FleetTypeOK, InHand, planVars, LocalInv
<1> USE DirOfType
<1>1. CASE StartUp(p)
  <2>1. /\ file'[MyDir(p)] = file[MyDir(p)]
        /\ manifest'[p] = file[MyDir(p)]
        /\ pc'[p] = "list"
    BY <1>1 DEF StartUp
  <2>2. Accounted(file[MyDir(p)], MyRepo(p))'
    BY <2>1, FrameKeepsFile
  <2> QED BY <2>1, <2>2 DEF Accounted
<1>2. CASE StartSweep(p)
  BY <1>2, FrameKeepsManifest DEF StartSweep
<1>3. CASE StartDown(p)
  BY <1>3, FrameKeepsManifest DEF StartDown, ListTagged, ListAllTagged, cloudVars
<1>4. CASE UpReconcile(p)
  BY <1>4 DEF UpReconcile, Reconcile, Accounted, Listed, ListTagged, ListAllTagged, cloudVars
<1>5. CASE \/ UpCommit(p) \/ SweepListTagged(p) \/ SweepListAll(p)
           \/ UpCollectNames(p) \/ DownReadNames(p)
           \/ TidyList(p) \/ TidyDone(p) \/ TidyFails(p)
  <2>1. manifest'[p] = manifest[p] /\ pc'[p] \in {"sweep", "all", "armed", "tidy", "tidying", "forget"}
    BY <1>5 DEF UpCommit, SweepListTagged, SweepListAll, UpCollectNames, DownReadNames,
                TidyList, TidyDone, TidyFails, EndTidy
  <2> QED BY <2>1, FrameKeepsManifest
<1>6. CASE SweepListArmed(p)
  BY <1>6, FrameKeepsManifest
     DEF SweepListArmed, ListArmedKills, OriginInv, ShownOnceArmed, Listed, cloudVars
<1>7. CASE SweepPlan(p)
  BY <1>7, FrameKeepsManifest DEF SweepPlan, Listed, cloudVars
<1>8. CASE SweepDisarm(p)
  BY <1>8, FrameKeepsManifest DEF SweepDisarm, DisarmKill, Listed
<1>9. ASSUME NEW v \in Vm, SweepTerminate(p, v) PROVE LocalInv(p)'
  <2>1. /\ pc[p] = "execute" /\ pc'[p] = "execute"
        /\ manifest'[p] = manifest[p] /\ disarm'[p] = disarm[p]
    BY <1>9 DEF SweepTerminate
  <2>2. \A u \in disarm[p] : Listed(u)'
    BY <2>1 DEF Frame, Listed
  <2> QED BY <2>1, <2>2, FrameKeepsManifest
<1>10. ASSUME NEW v \in Vm, SweepDelete(p, v) PROVE LocalInv(p)'
  BY <1>10, FrameKeepsLocal DEF SweepDelete
<1>11. ASSUME NEW v \in Vm, SweepRecheck(p, v) PROVE LocalInv(p)'
  <2>1. Dying(v) \/ v \in ShownLive
    BY <1>11 DEF SweepRecheck, ShownLive, ListAllTagged, Listed, CloudTypeOK, VmState, Dying
  <2>2. disarm'[p] \subseteq disarm[p] /\ UNCHANGED cloudVars /\ manifest'[p] = manifest[p]
    BY <1>11 DEF SweepRecheck
  <2>3. \/ pc'[p] = "execute"
        \/ pc'[p] = "disarm" /\ cur'[p] = v /\ v \notin ShownLive
    <3>1. CASE v \in ShownLive
      BY <1>11, <3>1 DEF SweepRecheck
    <3>2. CASE v \notin ShownLive
      BY <1>11, <3>2 DEF SweepRecheck
    <3> QED BY <3>1, <3>2
  <2>4. pc[p] = "execute"
    BY <1>11 DEF SweepRecheck
  <2> QED BY <2>1, <2>2, <2>3, <2>4, FrameKeepsManifest DEF Dying, Listed, cloudVars
<1>12. CASE \/ UpNothingToLaunch(p) \/ UpDisown(p) \/ UpForget(p)
            \/ DownForget(p) \/ DownLeavesFile(p) \/ UpDetach(p) \/ Quit(p)
  BY <1>12, LeaveKeepsLocal
     DEF UpNothingToLaunch, UpDisown, UpForget, DownForget, DownLeavesFile, UpDetach, Quit
<1>13. CASE SweepDone(p)
  <2>1. Leave(p) \/ (manifest'[p] = manifest[p] /\ pc'[p] = "mint")
    BY <1>13 DEF SweepDone
  <2> QED BY <2>1, LeaveKeepsLocal, FrameKeepsManifest
<1>14. CASE UpLaunched(p)
  BY <1>14, FrameKeepsManifest DEF UpLaunched
<1>15. ASSUME NEW v \in Vm, UpMint(p, v) PROVE LocalInv(p)'
  BY <1>15, FrameKeepsManifest, NoDirIsNone DEF UpMint, MintJitConfig, FreshName, OriginInv, GitHubTypeOK, cloudVars
<1>16. CASE UpArm(p)
  BY <1>16, FrameKeepsManifest DEF UpArm, ArmKill, CloudTypeOK
<1>17. CASE UpArmFails(p)
  BY <1>17, FrameKeepsManifest DEF UpArmFails, ArmKill, cloudVars
<1>18. CASE UpRecord(p)
  BY <1>18 DEF UpRecord, Record, Accounted, Listed, OriginInv, ShownOnceArmed, cloudVars
<1>19. CASE UpFleetGone(p)
  <2>1. /\ pc'[p] = "schedules" /\ manifest'[p] = manifest[p]
        /\ disarm'[p] = manifest[p].ids /\ vm' = vm /\ Watched(p) = {}
    BY <1>19 DEF UpFleetGone, cloudVars
  <2>2. manifest[p].ids \subseteq Vm
    BY DEF StateFile
  <2>3. \A v \in manifest[p].ids : Listed(v) /\ tag[v] = MyRepo(p)
    <3>1. Accounted(manifest[p], MyRepo(p))
      OBVIOUS
    <3> QED BY <3>1 DEF Accounted
  <2>4. \A v \in manifest[p].ids : vm[v] \in VmState
    BY <2>2 DEF CloudTypeOK
  <2>5. \A v \in manifest[p].ids : Dying(v)
    BY <2>1, <2>2, <2>3, <2>4 DEF Watched, ListTagged, ListAllTagged, Listed, VmState, Dying
  <2> QED BY <2>1, <2>5, FrameKeepsManifest DEF Dying
<1>20. CASE DownTerminate(p)
  BY <1>20, FrameKeepsManifest DEF DownTerminate, Terminate, Dying, CloudTypeOK, VmState
<1>21. ASSUME NEW v \in Vm, TeardownDisarm(p, v) PROVE LocalInv(p)'
  BY <1>21, FrameKeepsManifest DEF TeardownDisarm, DisarmKill, Dying
<1>22. ASSUME NEW v \in Vm, TidyDelete(p, v) PROVE LocalInv(p)'
  BY <1>22, FrameKeepsManifest DEF TidyDelete
<1> QED
  BY <1>1, <1>2, <1>3, <1>4, <1>5, <1>6, <1>7, <1>8, <1>9, <1>10, <1>11, <1>12, <1>13,
     <1>14, <1>15, <1>16, <1>17, <1>18, <1>19, <1>20, <1>21, <1>22
  DEF Start, Progress

(* An invocation moves nothing of another's. *)
LEMMA OthersStay ==
  ASSUME TypeOK, NEW p \in Proc, NEW q \in Proc, q # p,
         Start(p) \/ Progress(p) \/ UpDetach(p) \/ Quit(p)
  PROVE  /\ pc'[q] = pc[q] /\ manifest'[q] = manifest[q] /\ reap'[q] = reap[q]
         /\ disarm'[q] = disarm[q] /\ cur'[q] = cur[q]
         /\ names'[q] = names[q] /\ dead'[q] = dead[q] /\ cmd'[q] = cmd[q]
<1> USE DEF TypeOK, FleetTypeOK, localVars, planVars
<1>1. CASE Leave(p)
  BY <1>1 DEF Leave
<1>2. CASE Start(p)
  BY <1>2 DEF Start, StartUp, StartSweep, StartDown
<1>3. CASE \/ UpReconcile(p) \/ UpCommit(p) \/ SweepListTagged(p) \/ SweepListAll(p)
           \/ SweepListArmed(p) \/ SweepPlan(p) \/ SweepDisarm(p)
  BY <1>3 DEF UpReconcile, UpCommit, SweepListTagged, SweepListAll, SweepListArmed,
              SweepPlan, SweepDisarm
<1>4. CASE SweepDone(p)
  BY <1>1, <1>4 DEF SweepDone
<1>5. CASE \E v \in Vm : SweepTerminate(p, v) \/ SweepDelete(p, v)
  BY <1>5 DEF SweepTerminate, SweepDelete
<1>6. CASE \E v \in Vm : SweepRecheck(p, v)
  <2>1. PICK v \in Vm : SweepRecheck(p, v)
    BY <1>6
  <2>2. pc'[q] = pc[q] /\ cur'[q] = cur[q]
    BY <2>1 DEF SweepRecheck
  <2> QED BY <2>1, <2>2 DEF SweepRecheck
<1>7. CASE \/ UpLaunch(p) \/ UpArm(p) \/ UpArmFails(p) \/ UpRecord(p) \/ UpLaunched(p)
           \/ \E v \in Vm : UpMint(p, v)
  BY <1>7 DEF UpLaunch, UpArm, UpArmFails, UpRecord, UpLaunched, UpMint
<1>8. CASE UpFleetGone(p) \/ UpCollectNames(p)
  BY <1>8 DEF UpFleetGone, UpCollectNames
<1>9. CASE DownTerminate(p) \/ DownReadNames(p)
  BY <1>9 DEF DownTerminate, DownReadNames
<1>10. CASE \/ UpNothingToLaunch(p) \/ UpDisown(p) \/ UpForget(p)
            \/ DownForget(p) \/ DownLeavesFile(p) \/ UpDetach(p) \/ Quit(p)
  BY <1>1, <1>10
     DEF UpNothingToLaunch, UpDisown, UpForget, DownForget, DownLeavesFile, UpDetach, Quit
<1>11. CASE \/ \E v \in Vm : TeardownDisarm(p, v) \/ TidyDelete(p, v)
            \/ TidyList(p) \/ TidyDone(p) \/ TidyFails(p)
  BY <1>11 DEF TeardownDisarm, TidyDelete, TidyList, TidyDone, TidyFails, EndTidy
<1> QED
  BY <1>2, <1>3, <1>4, <1>5, <1>6, <1>7, <1>8, <1>9, <1>10, <1>11 DEF Progress

------------------------------------------------------------------------
(* The statefiles and the fresh names. *)

(* Only four calls write or delete a statefile. *)
LEMMA OnlyFourWrite ==
  ASSUME [Next]_vars,
         \A p \in Proc : ~(UpCommit(p) \/ UpRecord(p) \/ UpForget(p) \/ DownForget(p))
  PROVE  file' = file
<1> USE DEF stateVars
<1>1. ASSUME NEW p \in Proc, Progress(p) PROVE file' = file
  BY <1>1
     DEF Progress, UpReconcile, SweepListTagged, SweepListAll, SweepListArmed, SweepPlan,
         SweepDisarm, SweepDone, SweepTerminate, SweepRecheck, SweepDelete,
         UpNothingToLaunch, UpLaunch, UpArm, UpArmFails, UpDisown, UpLaunched, UpMint,
         UpFleetGone, UpCollectNames, DownTerminate, DownReadNames, DownLeavesFile,
         TeardownDisarm, TidyDelete, TidyList, TidyDone, TidyFails, EndTidy
<1>2. ASSUME NEW p \in Proc, Start(p) \/ UpDetach(p) \/ Quit(p) PROVE file' = file
  BY <1>2 DEF Start, StartUp, StartSweep, StartDown, UpDetach, Quit
<1>3. CASE (\E v \in Vm : Environment(v)) \/ UNCHANGED vars
  BY <1>3 DEF Environment, RunnerConnects, RunnerDrops, GitHubStep, CloudStep, vars
<1> QED BY <1>1, <1>2, <1>3 DEF Next

(* What is written to a statefile is true of the instances. *)
LEMMA FilesStayTrue ==
  ASSUME FenceInv, Frame, [Next]_vars, NEW d \in Dir
  PROVE  Accounted(file[d], RepoOf[d])'
<1> USE DirOfType
<1>1. CASE file'[d] = file[d]
  BY <1>1, FrameKeepsFile
<1>2. CASE file'[d] = Empty
  BY <1>2 DEF Accounted, Empty
<1>3. ASSUME NEW p \in Proc, UpCommit(p) PROVE Accounted(file[d], RepoOf[d])'
  <2>1. /\ d = MyDir(p) => file'[d] = manifest[p]
        /\ d # MyDir(p) => file'[d] = file[d]
    BY <1>3 DEF UpCommit, Write, FenceInv, TypeOK, RepoStateTypeOK
  <2>2. manifest'[p] = manifest[p]
    BY <1>3 DEF UpCommit
  <2>3. Accounted(manifest[p], MyRepo(p))'
    BY <2>2, FrameKeepsManifest
  <2> QED BY <1>1, <2>1, <2>2, <2>3 DEF Accounted
<1>4. ASSUME NEW p \in Proc, UpRecord(p) PROVE Accounted(file[d], RepoOf[d])'
  <2>1. /\ d = MyDir(p) => file'[d] = Record(manifest[p], cur[p])
        /\ d # MyDir(p) => file'[d] = file[d]
    BY <1>4 DEF UpRecord, Write, FenceInv, TypeOK, RepoStateTypeOK, FleetTypeOK
  <2>2. LocalInv(p) /\ pc[p] = "record" /\ UNCHANGED cloudVars
    BY <1>4 DEF UpRecord, FenceInv
  <2> QED
    BY <1>1, <2>1, <2>2
       DEF LocalInv, Accounted, Listed, Record, FenceInv, OriginInv, ShownOnceArmed, TypeOK,
           FleetTypeOK, InHand, cloudVars
<1>5. ASSUME NEW p \in Proc, UpForget(p) \/ DownForget(p)
      PROVE  Accounted(file[d], RepoOf[d])'
  <2>1. file'[d] \in {file[d], Empty}
    BY <1>5 DEF UpForget, DownForget, Delete, FenceInv, TypeOK, RepoStateTypeOK
  <2> QED BY <1>1, <1>2, <2>1
<1>6. CASE \A p \in Proc : ~(UpCommit(p) \/ UpRecord(p) \/ UpForget(p) \/ DownForget(p))
  <2>1. file' = file
    BY <1>6, OnlyFourWrite
  <2> QED BY <1>1, <2>1
<1> QED BY <1>3, <1>4, <1>5, <1>6

(* A mint takes a name that no other invocation has in hand. *)
LEMMA NamesStayApart ==
  ASSUME TypeOK, LaunchesApart,
         \A q \in Proc : pc[q] = "launch" => mintedBy[cur[q]] # NoDir,
         NEW p \in Proc, Start(p) \/ Progress(p) \/ UpDetach(p) \/ Quit(p)
  PROVE  LaunchesApart'
<1> USE DEF TypeOK, FleetTypeOK
<1>1. \A q \in Proc : q # p => pc'[q] = pc[q] /\ cur'[q] = cur[q]
  BY OthersStay
<1>2. pc'[p] = "launch" => \A q \in Proc : pc[q] = "launch" => cur'[p] # cur[q]
  <2>1. CASE \E v \in Vm : UpMint(p, v)
    <3>1. PICK v \in Vm : UpMint(p, v)
      BY <2>1
    <3>2. mintedBy[v] = NoDir /\ cur'[p] = v
      BY <3>1 DEF UpMint, MintJitConfig, FreshName
    <3> QED BY <3>2
  <2>2. CASE \A v \in Vm : ~UpMint(p, v)
    <3> USE DEF localVars, planVars
    <3>1. CASE Start(p) \/ UpDetach(p) \/ Quit(p)
      BY <3>1 DEF Start, StartUp, StartSweep, StartDown, UpDetach, Quit, Leave
    <3>2. CASE \/ UpReconcile(p) \/ UpCommit(p) \/ SweepListTagged(p) \/ SweepListAll(p)
               \/ SweepListArmed(p) \/ SweepPlan(p) \/ SweepDisarm(p) \/ SweepDone(p)
      BY <3>2 DEF UpReconcile, UpCommit, SweepListTagged, SweepListAll, SweepListArmed,
                  SweepPlan, SweepDisarm, SweepDone, Leave
    <3>3. CASE \E v \in Vm : SweepTerminate(p, v) \/ SweepRecheck(p, v) \/ SweepDelete(p, v)
      BY <3>3 DEF SweepTerminate, SweepRecheck, SweepDelete
    <3>4. CASE \/ UpNothingToLaunch(p) \/ UpLaunch(p) \/ UpArm(p) \/ UpArmFails(p)
               \/ UpDisown(p) \/ UpRecord(p) \/ UpLaunched(p) \/ UpFleetGone(p)
               \/ UpCollectNames(p) \/ UpForget(p)
      BY <3>4 DEF UpNothingToLaunch, UpLaunch, UpArm, UpArmFails, UpDisown, UpRecord,
                  UpLaunched, UpFleetGone, UpCollectNames, UpForget, Leave
    <3>5. CASE \/ DownTerminate(p) \/ DownReadNames(p) \/ DownForget(p) \/ DownLeavesFile(p)
               \/ \E v \in Vm : TeardownDisarm(p, v) \/ TidyDelete(p, v)
               \/ TidyList(p) \/ TidyDone(p) \/ TidyFails(p)
      BY <3>5 DEF DownTerminate, DownReadNames, DownForget, DownLeavesFile, TeardownDisarm,
                  TidyDelete, TidyList, TidyDone, TidyFails, EndTidy, Leave
    <3> QED BY <2>2, <3>1, <3>2, <3>3, <3>4, <3>5 DEF Progress
  <2> QED BY <2>1, <2>2
<1> QED BY <1>1, <1>2 DEF LaunchesApart

------------------------------------------------------------------------
(* A launch touches one instance, and nobody else relies on that one. *)

LEMMA LaunchStep ==
  ASSUME FenceInv, NEW p \in Proc, UpLaunch(p), ShownOnceArmed'
  PROVE  /\ OriginInv'
         /\ \A d \in Dir : Accounted(file[d], RepoOf[d])'
         /\ \A q \in Proc : LocalInv(q)'
<1> DEFINE v == cur[p]
<1>1. /\ v \in Vm /\ vm[v] = "absent" /\ mintedBy[v] # NoDir
      /\ pc[p] = "launch" /\ pc'[p] = "arm"
      /\ UNCHANGED <<mintedBy, armed, file, manifest, disarm, reap, cur>>
  BY DEF UpLaunch, FenceInv, LocalInv, TypeOK, FleetTypeOK, InHand, Launch, ghVars,
         stateVars, planVars
<1>2. /\ vm'[v] = "live" /\ tag'[v] = MyRepo(p)
      /\ \A u \in Vm : u # v => vm'[u] = vm[u] /\ tag'[u] = tag[u] /\ seen'[u] = seen[u]
  BY <1>1 DEF UpLaunch, Launch, FenceInv, TypeOK, CloudTypeOK
<1> HIDE DEF v
<1>3. OriginInv'
  BY <1>1, <1>2 DEF FenceInv, OriginInv
<1>4. ASSUME NEW m \in StateFile, NEW r, Accounted(m, r)
      PROVE  /\ \A u \in m.ids : Listed(u)' /\ tag'[u] = r
             /\ \A u \in m.named : vm'[u] = "live" => armed'[u]
  BY <1>1, <1>2, <1>4 DEF Accounted, Listed, StateFile
<1>5. ASSUME NEW d \in Dir PROVE Accounted(file[d], RepoOf[d])'
  <2>1. file[d] \in StateFile /\ Accounted(file[d], RepoOf[d])
    BY DEF FenceInv, TypeOK, RepoStateTypeOK
  <2> QED BY <1>1, <1>4, <2>1 DEF Accounted
<1>6. ASSUME NEW q \in Proc PROVE LocalInv(q)'
  <2>1. manifest[q] \in StateFile /\ LocalInv(q) /\ Accounted(manifest[q], MyRepo(q))
    BY DEF FenceInv, TypeOK, FleetTypeOK, LocalInv
  <2>2. Accounted(manifest[q], MyRepo(q))'
    BY <1>1, <1>4, <2>1 DEF Accounted
  <2>3. CASE q = p
    BY <1>1, <1>2, <2>2, <2>3 DEF LocalInv, v
  <2>4. CASE q # p
    <3>1. pc'[q] = pc[q] /\ disarm[q] \subseteq Vm /\ reap[q] \subseteq Vm
          /\ (pc[q] \in InHand => cur[q] \in Vm)
      BY <2>4, OthersStay DEF Progress, FenceInv, TypeOK, FleetTypeOK
    <3>2. pc[q] = "launch" => cur[q] # v
      BY <1>1, <2>4 DEF FenceInv, LaunchesApart, v
    <3> QED BY <1>1, <1>2, <2>1, <2>2, <3>1, <3>2 DEF LocalInv, Listed, Dying, InHand
  <2> QED BY <2>3, <2>4
<1> QED BY <1>3, <1>5, <1>6

------------------------------------------------------------------------
(* The invariant, and what it is for. *)

LEMMA FenceInit == Init => FenceInv
BY TypeInit
   DEF Init, GitHubInit, CloudInit, RepoStateInit, FenceInv, OriginInv, Accounted, LocalInv,
       LaunchesApart, ShownOnceArmed, Empty

LEMMA FenceStep == FenceInv /\ [Next /\ ShownOnceArmed']_vars => FenceInv'
<1> SUFFICES ASSUME FenceInv, [Next]_vars, ShownOnceArmed'
             PROVE  FenceInv'
  <2>1. FenceInv /\ UNCHANGED vars => ShownOnceArmed'
    BY DEF FenceInv, OriginInv, ShownOnceArmed, vars, cloudVars
  <2> QED BY <2>1
<1>1. TypeOK'
  BY TypeStep DEF FenceInv
<1>2. CASE \E p \in Proc : UpLaunch(p)
  <2>1. PICK p \in Proc : UpLaunch(p)
    BY <1>2
  <2>2. LaunchesApart'
    BY <2>1, NamesStayApart DEF Progress, FenceInv, LocalInv
  <2> QED BY <1>1, <2>1, <2>2, LaunchStep DEF FenceInv
<1>3. CASE \A p \in Proc : ~UpLaunch(p)
  <2>1. Frame
    BY <1>3, StepFrame
  <2>2. OriginInv'
    BY <2>1 DEF Frame, FenceInv, OriginInv
  <2>3. \A d \in Dir : Accounted(file[d], RepoOf[d])'
    BY <2>1, FilesStayTrue
  <2>4. (\A p \in Proc : LocalInv(p)') /\ LaunchesApart'
    <3>1. CASE \E p \in Proc : Start(p) \/ Progress(p) \/ UpDetach(p) \/ Quit(p)
      <4>1. PICK p \in Proc : Start(p) \/ Progress(p) \/ UpDetach(p) \/ Quit(p)
        BY <3>1
      <4>2. LocalInv(p)'
        BY <1>3, <2>1, <4>1, MoverKeepsLocal
      <4>3. ASSUME NEW q \in Proc, q # p PROVE LocalInv(q)'
        BY <2>1, <4>1, <4>3, OthersStay, FrameKeepsLocal DEF FenceInv
      <4>4. LaunchesApart'
        BY <4>1, NamesStayApart DEF FenceInv, LocalInv
      <4> QED BY <4>1, <4>2, <4>3, <4>4
    <3>2. CASE (\E v \in Vm : Environment(v)) \/ UNCHANGED vars
      <4>1. UNCHANGED localVars
        BY <3>2 DEF Environment, RunnerConnects, RunnerDrops, GitHubStep, CloudStep, vars
      <4> QED BY <2>1, <4>1, FrameKeepsLocal DEF localVars, planVars, FenceInv, LaunchesApart
    <3> QED BY <3>1, <3>2 DEF Next
  <2> QED BY <1>1, <2>2, <2>3, <2>4 DEF FenceInv
<1> QED BY <1>2, <1>3

(* No step of any command, in any interleaving, takes the kill schedule of a
   live instance, as long as a listing shows what is armed. *)
THEOREM PromptNoLiveDisarm == PromptSpec => NeverDisarmLive
<1>1. FenceInv /\ [Next /\ ShownOnceArmed']_vars
        => [\A v \in Vm : armed[v] /\ ~armed'[v] => vm'[v] # "live"]_vars
  <2> SUFFICES ASSUME FenceInv, [Next]_vars
               PROVE  \A v \in Vm : armed[v] /\ ~armed'[v] => vm'[v] # "live"
    OBVIOUS
  <2>1. CASE Frame
    BY <2>1 DEF Frame
  <2>2. CASE \E p \in Proc : UpLaunch(p)
    BY <2>2 DEF UpLaunch, Launch
  <2> QED BY <2>1, <2>2, StepFrame
<1> QED BY <1>1, FenceInit, FenceStep, PTL DEF PromptSpec, NeverDisarmLive

(* An instance recorded under a name of this host is fenced while it lives. *)
THEOREM PromptNamedFenced == PromptSpec => []NamedIsFenced
<1>1. FenceInv => NamedIsFenced
  BY DEF FenceInv, Accounted, NamedIsFenced
<1> QED BY <1>1, FenceInit, FenceStep, PTL DEF PromptSpec

------------------------------------------------------------------------
(* The refinement of Fence. *)

LEMMA StageInit == Init => F!Init
BY DEF Init, CloudInit, F!Init, stageOf

(* Every step of Fleet is a launch, an arming or some deaths of Fence; a step
   that concerns no instance is no death at all. *)
LEMMA StageStep == FenceInv /\ [Next]_vars => F!Next
<1> SUFFICES ASSUME FenceInv, [Next]_vars
             PROVE  F!Next
  OBVIOUS
<1> USE DEF FenceInv, TypeOK, CloudTypeOK, FleetTypeOK, InHand
<1>1. CASE \E p \in Proc : UpLaunch(p)
  <2>1. PICK p \in Proc : UpLaunch(p)
    BY <1>1
  <2>2. /\ cur[p] \in Vm /\ vm[cur[p]] = "absent" /\ ~armed[cur[p]] /\ armed' = armed
        /\ vm' = [vm EXCEPT ![cur[p]] = "live"]
    BY <2>1 DEF UpLaunch, Launch, LocalInv, OriginInv
  <2>3. F!Launch(cur[p])
    BY <2>2 DEF F!Launch, stageOf
  <2> QED BY <2>2, <2>3 DEF F!Next
<1>2. CASE \E p \in Proc : TriesToArm(p)
  <2>1. PICK p \in Proc : TriesToArm(p)
    BY <1>2
  <2>2. /\ cur[p] \in Vm /\ vm[cur[p]] # "absent" /\ vm' = vm
        /\ armed' \in {armed, [armed EXCEPT ![cur[p]] = TRUE]}
    BY <2>1 DEF TriesToArm, UpArm, UpArmFails, ArmKill, LocalInv, cloudVars
  <2>3. CASE IsLive(cur[p]) /\ ~armed[cur[p]] /\ armed' # armed
    <3>1. F!Arm(cur[p])
      BY <2>2, <2>3 DEF F!Arm, stageOf
    <3> QED BY <2>2, <3>1 DEF F!Next
  <2>4. CASE ~(IsLive(cur[p]) /\ ~armed[cur[p]] /\ armed' # armed)
    <3>1. F!Die({})
      BY <2>2, <2>4 DEF F!Die, stageOf
    <3> QED BY <3>1 DEF F!Next
  <2> QED BY <2>3, <2>4
<1>3. CASE \A p \in Proc : ~UpLaunch(p) /\ ~TriesToArm(p)
  <2> DEFINE S == {v \in Vm : IsLive(v) /\ vm'[v] # "live"}
  <2>1. Frame
    BY <1>3, StepFrame
  <2>2. ASSUME NEW v \in Vm PROVE stageOf(v)' = IF v \in S THEN "dead" ELSE stageOf(v)
    <3>1. vm[v] \in VmState /\ vm'[v] \in VmState
      BY TypeStep
    <3> QED BY <1>3, <2>1, <3>1 DEF Frame, VmState, Dying, stageOf
  <2>3. \A v \in S : stageOf(v) \in {"exposed", "fenced"}
    BY DEF stageOf
  <2> HIDE DEF S
  <2>4. S \in SUBSET Vm
    BY DEF S
  <2>5. F!Die(S)
    BY <2>2, <2>3, <2>4 DEF F!Die
  <2> QED BY <2>4, <2>5 DEF F!Next
<1> QED BY <1>1, <1>2, <1>3

(* The three commands together implement Fence: an instance once fenced leaves
   that state only by dying. *)
THEOREM PromptImplementsFence == PromptSpec => ImplementsFence
<1>1. FenceInv /\ [Next /\ ShownOnceArmed']_vars => F!Next
  BY StageStep
<1> QED BY <1>1, FenceInit, FenceStep, StageInit, PTL DEF PromptSpec, ImplementsFence, F!Spec

=======================================================================
