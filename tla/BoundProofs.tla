------------------------- MODULE BoundProofs -------------------------
(* What is bounded: the work left to a command, which every call makes less, and
   the instances that can be left to run without a kill schedule.  Theorems
   about Fleet, for any number of hosts, repositories, invocations and
   instances. *)
EXTENDS OwnershipProofs, FiniteSetTheorems

USE DEF At, Goto, MyDir, MyRepo, IsLive

------------------------------------------------------------------------
(* Every call advances. *)

LEMMA PlaceIs ==
  /\ Place["list"][1] = 1 /\ Place["commit"][1] = 2 /\ Place["sweep"][1] = 3
  /\ Place["all"][1] = 4 /\ Place["armed"][1] = 5 /\ Place["runners"][1] = 6
  /\ Place["disarm"][1] = 7 /\ Place["execute"][1] = 7
  /\ Place["launch"][1] = 8 /\ Place["arm"][1] = 8 /\ Place["disown"][1] = 8
  /\ Place["record"][1] = 8 /\ Place["mint"][1] = 8 /\ Place["watch"][1] = 9
  /\ Place["terminate"][1] = 10 /\ Place["schedules"][1] = 11 /\ Place["tidy"][1] = 12
  /\ Place["tidying"][1] = 13 /\ Place["forget"][1] = 14
  /\ Place["new"][1] = 0 /\ Place["ended"][1] = 15
  /\ Place["disarm"][2] = 0 /\ Place["execute"][2] = 1
  /\ Place["launch"][2] = 0 /\ Place["arm"][2] = 1 /\ Place["disown"][2] = 2
  /\ Place["record"][2] = 2 /\ Place["mint"][2] = 3
BY DEF Place

(* The end is behind every other label. *)
LEMMA EndIsLast ==
  ASSUME NEW l \in Label, l # "ended"
  PROVE  Place[l][1] < Place["ended"][1] /\ Place[l][1] # Place["ended"][1]
BY PlaceIs DEF Label

(* An invocation that ends is at the last place. *)
LEMMA LeavingAdvances ==
  ASSUME TypeOK, NEW p \in Proc, Leave(p), pc[p] # "ended"
  PROVE  Advances(p)
<1>1. pc'[p] = "ended" /\ pc[p] \in Label
  BY DEF Leave, TypeOK, FleetTypeOK
<1> QED BY <1>1, EndIsLast DEF Advances

(* Whatever an invocation does on its way to the end advances it. *)
LEMMA CallAdvances ==
  ASSUME TypeOK, NEW p \in Proc, Progress(p)
  PROVE  Advances(p)
<1>0. /\ pc \in [Proc -> Label] /\ reap \in [Proc -> SUBSET Vm]
      /\ disarm \in [Proc -> SUBSET Vm] /\ dead \in [Proc -> SUBSET Vm]
      /\ mintedBy \in [Vm -> Dir \cup {NoDir}] /\ MyDir(p) \in Dir
  BY DirOfType DEF TypeOK, FleetTypeOK, GitHubTypeOK
<1> DEFINE Later == Place[pc[p]][1] < Place[pc'[p]][1]
           NextTurn == /\ Place[pc[p]][1] = Place[pc'[p]][1]
                       /\ PlanStays(p) /\ Place[pc[p]][2] < Place[pc'[p]][2]
           LessToDo == Place[pc[p]][1] = Place[pc'[p]][1] /\ PlanShrinks(p)
<1>1. SUFFICES Later \/ NextTurn \/ LessToDo \/ (pc[p] = "mint" /\ Unminted' # Unminted)
  BY DEF Advances
<1>2. CASE \/ UpReconcile(p) \/ UpCommit(p) \/ SweepListTagged(p) \/ SweepListAll(p)
           \/ SweepListArmed(p) \/ SweepPlan(p)
  <2>1. \/ pc[p] = "list" /\ pc'[p] = "commit"
        \/ pc[p] = "commit" /\ pc'[p] = "sweep"
        \/ pc[p] = "sweep" /\ pc'[p] = "all"
        \/ pc[p] = "all" /\ pc'[p] = "armed"
        \/ pc[p] = "armed" /\ pc'[p] = "runners"
        \/ pc[p] = "runners" /\ pc'[p] = "execute"
    BY <1>0, <1>2 DEF UpReconcile, UpCommit, SweepListTagged, SweepListAll, SweepListArmed,
       SweepPlan
  <2> QED BY <2>1, PlaceIs
<1>3. CASE \/ UpLaunched(p) \/ UpFleetGone(p) \/ UpCollectNames(p) \/ DownTerminate(p)
           \/ DownReadNames(p)
  <2>1. \/ pc[p] = "mint" /\ pc'[p] = "watch"
        \/ pc[p] = "watch" /\ pc'[p] = "schedules"
        \/ pc[p] = "schedules" /\ pc'[p] = "tidy"
        \/ pc[p] = "terminate" /\ pc'[p] = "schedules"
    BY <1>0, <1>3 DEF UpLaunched, UpFleetGone, UpCollectNames, DownTerminate, DownReadNames
  <2> QED BY <2>1, PlaceIs
<1>4. CASE TidyList(p) \/ TidyDone(p) \/ TidyFails(p)
  <2>1. pc[p] \in {"tidy", "tidying"} /\ pc'[p] \in {"tidying", "forget"} /\ pc'[p] # pc[p]
    BY <1>0, <1>4 DEF TidyList, TidyDone, TidyFails, EndTidy
  <2> QED BY <2>1, PlaceIs
<1>5. CASE \/ UpNothingToLaunch(p) \/ UpDisown(p) \/ UpForget(p) \/ DownForget(p)
           \/ DownLeavesFile(p)
  <2>1. Leave(p) /\ pc[p] # "ended"
    BY <1>5 DEF UpNothingToLaunch, UpDisown, UpForget, DownForget, DownLeavesFile
  <2>2. Advances(p)
    BY <2>1, LeavingAdvances
  <2> QED BY <2>2 DEF Advances
<1>6. CASE SweepDone(p)
  <2>1. pc[p] = "execute" /\ pc'[p] \in {"ended", "mint"}
    BY <1>0, <1>6 DEF SweepDone, Leave
  <2> QED BY <2>1, PlaceIs
<1>7. CASE UpLaunch(p) \/ UpArm(p) \/ UpArmFails(p) \/ UpRecord(p) \/ SweepDisarm(p)
  <2>1. /\ \/ pc[p] = "launch" /\ pc'[p] = "arm"
           \/ pc[p] = "arm" /\ pc'[p] \in {"record", "disown"}
           \/ pc[p] = "record" /\ pc'[p] = "mint"
           \/ pc[p] = "disarm" /\ pc'[p] = "execute"
        /\ UNCHANGED planVars
    BY <1>0, <1>7 DEF UpLaunch, UpArm, UpArmFails, UpRecord, SweepDisarm
  <2> QED BY <2>1, PlaceIs DEF planVars, PlanStays
<1>8. ASSUME NEW v \in Vm, UpMint(p, v) PROVE pc[p] = "mint" /\ Unminted' # Unminted
  <2>1. pc[p] = "mint" /\ mintedBy[v] = NoDir /\ mintedBy'[v] = MyDir(p)
    BY <1>0, <1>8 DEF UpMint, MintJitConfig, FreshName
  <2>2. v \in Unminted /\ v \notin Unminted'
    BY <1>0, <2>1, NoDirIsNone DEF Unminted, FreshName
  <2> QED BY <2>1, <2>2
<1>9. ASSUME NEW v \in Vm, SweepTerminate(p, v) PROVE LessToDo
  <2>1. /\ pc' = pc /\ disarm' = disarm /\ dead' = dead
        /\ v \in reap[p] /\ reap'[p] = reap[p] \ {v}
    BY <1>0, <1>9 DEF SweepTerminate
  <2>2. reap'[p] # reap[p] /\ reap'[p] \subseteq reap[p]
    BY <2>1
  <2> QED BY <2>1, <2>2 DEF PlanShrinks
<1>10. ASSUME NEW v \in Vm, SweepDelete(p, v) \/ TidyDelete(p, v) PROVE LessToDo
  <2>1. /\ pc' = pc /\ reap' = reap /\ disarm' = disarm
        /\ v \in dead[p] /\ dead'[p] = dead[p] \ {v}
    BY <1>0, <1>10 DEF SweepDelete, TidyDelete
  <2>2. dead'[p] # dead[p] /\ dead'[p] \subseteq dead[p]
    BY <2>1
  <2> QED BY <2>1, <2>2 DEF PlanShrinks
<1>11. ASSUME NEW v \in Vm, TeardownDisarm(p, v) PROVE LessToDo
  <2>1. /\ pc' = pc /\ reap' = reap /\ dead' = dead
        /\ v \in disarm[p] /\ disarm'[p] = disarm[p] \ {v}
    BY <1>0, <1>11 DEF TeardownDisarm
  <2>2. disarm'[p] # disarm[p] /\ disarm'[p] \subseteq disarm[p]
    BY <2>1
  <2> QED BY <2>1, <2>2 DEF PlanShrinks
<1>12. ASSUME NEW v \in Vm, SweepRecheck(p, v) PROVE LessToDo
  <2>1. /\ pc[p] = "execute" /\ reap' = reap /\ dead' = dead
        /\ v \in disarm[p] /\ disarm'[p] = disarm[p] \ {v}
    BY <1>0, <1>12 DEF SweepRecheck
  <2>2. pc'[p] \in {"execute", "disarm"}
    <3>1. CASE v \in ShownLive
      BY <1>0, <1>12, <3>1 DEF SweepRecheck
    <3>2. CASE v \notin ShownLive
      BY <1>0, <1>12, <3>2 DEF SweepRecheck
    <3> QED BY <3>1, <3>2
  <2>3. disarm'[p] # disarm[p] /\ disarm'[p] \subseteq disarm[p]
    BY <2>1
  <2>4. Place[pc[p]][1] = Place[pc'[p]][1]
    BY <2>1, <2>2, PlaceIs
  <2> QED BY <2>1, <2>3, <2>4 DEF PlanShrinks
<1> HIDE DEF Later, NextTurn, LessToDo
<1> QED
  BY <1>2, <1>3, <1>4, <1>5, <1>6, <1>7, <1>8, <1>9, <1>10, <1>11, <1>12 DEF Progress

(* So does a start, and so do the two ways of leaving early. *)
LEMMA OtherMovesAdvance ==
  ASSUME TypeOK, NEW p \in Proc, Start(p) \/ UpDetach(p) \/ Quit(p)
  PROVE  Advances(p)
<1>1. CASE UpDetach(p) \/ Quit(p)
  <2>1. Leave(p) /\ pc[p] # "ended"
    BY <1>1 DEF UpDetach, Quit
  <2> QED BY <2>1, LeavingAdvances
<1>2. CASE Start(p)
  <2>1. pc[p] = "new" /\ pc'[p] \in {"list", "sweep", "terminate"}
    BY <1>2 DEF Start, StartUp, StartSweep, StartDown, TypeOK, FleetTypeOK
  <2> QED BY <2>1, PlaceIs DEF Advances
<1> QED BY <1>1, <1>2

(* A name, once minted, is never fresh again. *)
LEMMA NamesAreUsedUp ==
  ASSUME TypeOK, [Next]_vars
  PROVE  Unminted' \subseteq Unminted
<1>1. CASE \E p \in Proc : UpLaunch(p)
  BY <1>1 DEF UpLaunch, ghVars, Unminted, FreshName
<1>2. CASE \A p \in Proc : ~UpLaunch(p)
  BY <1>2, StepSteady DEF Steady, Unminted, FreshName
<1> QED BY <1>1, <1>2

(* Every call of every command advances it, and no step of anybody, environment
   included, sets another command back. *)
THEOREM CallsAdvance == Spec => EveryCallAdvances
<1>1. ASSUME TypeOK, Next, NEW p \in Proc
      PROVE  /\ Progress(p) => Advances(p)
             /\ Advances(p) \/ (pc'[p] = pc[p] /\ PlanStays(p))
  <2>1. Progress(p) => Advances(p)
    BY <1>1, CallAdvances
  <2>2. CASE \E q \in Proc : Start(q) \/ Progress(q) \/ UpDetach(q) \/ Quit(q)
    <3>1. PICK q \in Proc : Start(q) \/ Progress(q) \/ UpDetach(q) \/ Quit(q)
      BY <2>2
    <3>2. CASE q = p
      BY <1>1, <3>1, <3>2, CallAdvances, OtherMovesAdvance
    <3>3. CASE q # p
      BY <1>1, <2>1, <3>1, <3>3, OthersStay DEF PlanStays
    <3> QED BY <2>1, <3>2, <3>3
  <2>3. CASE \E v \in Vm : Environment(v)
    <3>1. UNCHANGED localVars
      BY <2>3 DEF Environment, RunnerConnects, RunnerDrops, GitHubStep, CloudStep
    <3> QED BY <2>1, <3>1 DEF localVars, planVars, PlanStays
  <2> QED BY <1>1, <2>2, <2>3 DEF Next
<1>2. TypeOK /\ [Next]_vars
        => [/\ Unminted' \subseteq Unminted
            /\ \A p \in Proc :
                 /\ Progress(p) => Advances(p)
                 /\ Advances(p) \/ (pc'[p] = pc[p] /\ PlanStays(p))]_vars
  BY <1>1, NamesAreUsedUp
<1> QED BY <1>2, TypeInit, TypeStep, PTL DEF Spec, EveryCallAdvances

------------------------------------------------------------------------
(* What can be left to run without a schedule. *)

(* An invocation runs a command it may run. *)
RunsWhatItMay == \A p \in Proc : cmd[p] # "none" => cmd[p] \in MayRun[p]

LEMMA CommandStep ==
  ASSUME TypeOK, RunsWhatItMay, [Next]_vars
  PROVE  RunsWhatItMay'
<1> USE DEF RunsWhatItMay, TypeOK, FleetTypeOK
<1>1. CASE cmd' = cmd
  BY <1>1
<1>2. ASSUME NEW p \in Proc, Leave(p) PROVE RunsWhatItMay'
  BY <1>2 DEF Leave
<1>3. ASSUME NEW p \in Proc, Start(p) PROVE RunsWhatItMay'
  BY <1>3 DEF Start, StartUp, StartSweep, StartDown
<1>4. ASSUME NEW p \in Proc, Progress(p) PROVE RunsWhatItMay'
  <2>1. CASE \/ UpReconcile(p) \/ UpCommit(p) \/ SweepListTagged(p) \/ SweepListAll(p)
             \/ SweepListArmed(p) \/ SweepPlan(p) \/ SweepDisarm(p)
             \/ \E v \in Vm : SweepTerminate(p, v) \/ SweepRecheck(p, v) \/ SweepDelete(p, v)
    BY <1>1, <2>1 DEF UpReconcile, UpCommit, SweepListTagged, SweepListAll, SweepListArmed,
       SweepPlan, SweepDisarm, SweepTerminate, SweepRecheck, SweepDelete
  <2>2. CASE \/ UpLaunch(p) \/ UpArm(p) \/ UpArmFails(p) \/ UpRecord(p) \/ UpLaunched(p)
             \/ UpFleetGone(p) \/ UpCollectNames(p) \/ \E v \in Vm : UpMint(p, v)
    BY <1>1, <2>2 DEF UpLaunch, UpArm, UpArmFails, UpRecord, UpLaunched, UpFleetGone,
       UpCollectNames, UpMint
  <2>3. CASE \/ DownTerminate(p) \/ DownReadNames(p) \/ TidyList(p) \/ TidyDone(p)
             \/ TidyFails(p) \/ \E v \in Vm : TeardownDisarm(p, v) \/ TidyDelete(p, v)
    BY <1>1, <2>3 DEF DownTerminate, DownReadNames, TidyList, TidyDone, TidyFails, EndTidy,
       TeardownDisarm, TidyDelete
  <2>4. CASE \/ UpNothingToLaunch(p) \/ UpDisown(p) \/ UpForget(p) \/ DownForget(p)
             \/ DownLeavesFile(p)
    BY <1>2, <2>4 DEF UpNothingToLaunch, UpDisown, UpForget, DownForget, DownLeavesFile
  <2>5. CASE SweepDone(p)
    BY <1>1, <1>2, <2>5 DEF SweepDone
  <2> QED BY <1>4, <2>1, <2>2, <2>3, <2>4, <2>5 DEF Progress
<1>5. ASSUME NEW p \in Proc, UpDetach(p) \/ Quit(p) PROVE RunsWhatItMay'
  BY <1>2, <1>5 DEF UpDetach, Quit
<1>6. CASE (\E v \in Vm : Environment(v)) \/ UNCHANGED vars
  <2>1. UNCHANGED localVars
    BY <1>6 DEF Environment, RunnerConnects, RunnerDrops, GitHubStep, CloudStep, vars
  <2> QED BY <1>1, <2>1 DEF localVars
<1> QED BY <1>3, <1>4, <1>5, <1>6 DEF Next

(* Only an invocation that has not ended moves. *)
LEMMA MovesBeforeTheEnd ==
  ASSUME NEW p \in Proc, Start(p) \/ Progress(p) \/ UpDetach(p) \/ Quit(p)
  PROVE  pc[p] # "ended"
<1>1. CASE Start(p) \/ UpDetach(p) \/ Quit(p)
  BY <1>1 DEF Start, StartUp, StartSweep, StartDown, UpDetach, Quit
<1>2. CASE Progress(p)
  BY <1>2 DEF Progress, UpReconcile, UpCommit, SweepListTagged, SweepListAll, SweepListArmed,
     SweepPlan, SweepDisarm, SweepDone, SweepTerminate, SweepRecheck, SweepDelete,
     UpNothingToLaunch, UpLaunch, UpArm, UpArmFails, UpDisown, UpRecord, UpLaunched, UpMint,
     UpFleetGone, UpCollectNames, UpForget, DownTerminate, DownReadNames, DownForget,
     DownLeavesFile, TeardownDisarm, TidyDelete, TidyList, TidyDone, TidyFails
<1> QED BY <1>1, <1>2

(* Nobody comes back from the end. *)
LEMMA EndedStaysEnded ==
  ASSUME TypeOK, [Next]_vars, NEW d \in Dir
  PROVE  EndedUps(d) \subseteq EndedUps(d)'
<1> SUFFICES ASSUME NEW p \in Proc, pc[p] = "ended"
             PROVE  pc'[p] = "ended"
  BY DEF EndedUps
<1>1. ASSUME NEW q \in Proc, Start(q) \/ Progress(q) \/ UpDetach(q) \/ Quit(q)
      PROVE  pc'[p] = "ended"
  <2>1. CASE q = p
    <3>1. pc[q] # "ended"
      BY <1>1, MovesBeforeTheEnd
    <3> QED BY <2>1, <3>1
  <2>2. CASE q # p
    BY <1>1, <2>2, OthersStay
  <2> QED BY <2>1, <2>2
<1>2. CASE (\E v \in Vm : Environment(v)) \/ UNCHANGED vars
  <2>1. UNCHANGED localVars
    BY <1>2 DEF Environment, RunnerConnects, RunnerDrops, GitHubStep, CloudStep, vars
  <2> QED BY <2>1 DEF localVars
<1> QED BY <1>1, <1>2 DEF Next

(* Inductive: whatever is left behind is counted to an up that has ended.  The
   instance in hand was minted by the directory of the up that holds it
   (OwnInv), only an up holds one (CommandFitsLabel, RunsWhatItMay), and no
   schedule of a live instance goes away (FenceInv). *)
BoundInv ==
  /\ FenceInv
  /\ OwnInv
  /\ StatefileInv
  /\ RunsWhatItMay
  /\ OneLeftPerUp

(* An up that ends with an instance in hand may leave that one. *)
LeavesBehind(p, d) ==
  /\ Left(d)' \subseteq Left(d) \cup {cur[p]}
  /\ p \notin EndedUps(d) /\ p \in EndedUps(d)'

(* A launch leaves nothing: up has the new instance in hand. *)
LEMMA LaunchLeavesNone ==
  ASSUME TypeOK, NEW p \in Proc, UpLaunch(p), NEW d \in Dir
  PROVE  Left(d)' \subseteq Left(d)
<1>1. /\ cur[p] \in Vm /\ pc[p] = "launch" /\ pc'[p] = "arm"
      /\ cur' = cur /\ mintedBy' = mintedBy /\ armed' = armed
      /\ vm' = [vm EXCEPT ![cur[p]] = "live"] /\ vm \in [Vm -> VmState]
      /\ \A q \in Proc : q # p => pc'[q] = pc[q]
  BY DEF UpLaunch, Launch, TypeOK, FleetTypeOK, CloudTypeOK, InHand, ghVars
<1> SUFFICES ASSUME NEW v \in Left(d)'
             PROVE  v \in Left(d)
  OBVIOUS
<1>2. /\ v \in Vm /\ mintedBy[v] = d /\ vm'[v] = "live" /\ ~armed[v]
      /\ \A q \in Proc : pc'[q] \in Arming => cur[q] # v
  BY <1>1 DEF Left
<1>3. v # cur[p]
  BY <1>1, <1>2 DEF Arming
<1>4. vm[v] = "live"
  BY <1>1, <1>2, <1>3
<1>5. \A q \in Proc : pc[q] \in Arming => cur[q] # v
  BY <1>1, <1>2 DEF Arming
<1> QED BY <1>2, <1>4, <1>5 DEF Left

(* An invocation that goes on keeps its instance in hand or has fenced or
   terminated it. *)
LEMMA HandKeeps ==
  ASSUME TypeOK, NEW p \in Proc, pc[p] \in Arming,
         Start(p) \/ Progress(p) \/ UpDetach(p), ~(pc'[p] \in Arming /\ cur'[p] = cur[p])
  PROVE  armed'[cur[p]] \/ vm'[cur[p]] # "live"
<1>1. cur[p] \in Vm /\ pc[p] \in {"arm", "disown"} /\ pc[p] \in Label
  BY DEF Arming, TypeOK, FleetTypeOK, InHand
<1>2. UpArm(p) \/ UpArmFails(p) \/ UpDisown(p)
  BY <1>1
  DEF Start, StartUp, StartSweep, StartDown, UpDetach,
      Progress, UpReconcile, UpCommit, SweepListTagged, SweepListAll, SweepListArmed,
      SweepPlan, SweepDisarm, SweepDone, SweepTerminate, SweepRecheck, SweepDelete,
      UpNothingToLaunch, UpLaunch, UpRecord, UpLaunched, UpMint,
      UpFleetGone, UpCollectNames, UpForget, DownTerminate, DownReadNames, DownForget,
      DownLeavesFile, TeardownDisarm, TidyDelete, TidyList, TidyDone, TidyFails
<1>3. CASE UpArm(p)
  BY <1>1, <1>3 DEF UpArm, ArmKill, TypeOK, CloudTypeOK
<1>4. CASE UpArmFails(p)
  <2>1. pc'[p] = "disown" /\ cur' = cur
    BY <1>4 DEF UpArmFails, TypeOK, FleetTypeOK
  <2> QED BY <2>1 DEF Arming
<1>5. CASE UpDisown(p)
  BY <1>1, <1>5 DEF UpDisown, Terminate
<1> QED BY <1>2, <1>3, <1>4, <1>5

(* Every other step leaves nothing behind either, but for an up that ends with
   an instance in hand. *)
LEMMA StepLeavesOne ==
  ASSUME BoundInv, [Next]_vars, NEW d \in Dir
  PROVE  Left(d)' \subseteq Left(d) \/ \E p \in Proc : LeavesBehind(p, d)
<1>1. TypeOK /\ FenceInv
  BY DEF BoundInv, FenceInv
<1>2. CASE \E p \in Proc : UpLaunch(p)
  BY <1>1, <1>2, LaunchLeavesNone
<1>3. CASE \A p \in Proc : ~UpLaunch(p)
  <2>1. Frame /\ Steady
    BY <1>1, <1>3, StepFrame, StepSteady
  <2>2. ASSUME NEW v \in Left(d)'
        PROVE  v \in Vm /\ mintedBy[v] = d /\ vm[v] = "live" /\ ~armed[v]
    <3>1. v \in Vm /\ mintedBy'[v] = d /\ vm'[v] = "live" /\ ~armed'[v]
      BY <2>2 DEF Left
    <3>2. vm[v] = "live" /\ ~armed[v]
      BY <2>1, <3>1 DEF Frame
    <3>3. mintedBy[v] # NoDir
      BY <1>1, <3>1, <3>2 DEF FenceInv, OriginInv
    <3> QED BY <2>1, <3>1, <3>2, <3>3 DEF Steady
  <2>3. CASE \E p \in Proc : Start(p) \/ Progress(p) \/ UpDetach(p) \/ Quit(p)
    <3>1. PICK p \in Proc : Start(p) \/ Progress(p) \/ UpDetach(p) \/ Quit(p)
      BY <2>3
    <3>2. ASSUME NEW v \in Left(d)', v \notin Left(d)
          PROVE  Quit(p) /\ pc[p] \in Arming /\ v = cur[p]
      <4>1. PICK q \in Proc : pc[q] \in Arming /\ cur[q] = v
        BY <2>2, <3>2 DEF Left
      <4>2. ~(pc'[q] \in Arming /\ cur'[q] = v)
        BY <3>2 DEF Left
      <4>3. q = p
        BY <1>1, <3>1, <4>1, <4>2, OthersStay
      <4>4. vm'[v] = "live" /\ ~armed'[v]
        BY <3>2 DEF Left
      <4>5. ~(Start(p) \/ Progress(p) \/ UpDetach(p))
        BY <1>1, <4>1, <4>2, <4>3, <4>4, HandKeeps
      <4> QED BY <3>1, <4>1, <4>3, <4>5
    <3>3. ASSUME NEW v \in Left(d)', v \notin Left(d)
          PROVE  LeavesBehind(p, d)
      <4>1. Quit(p) /\ pc[p] \in Arming /\ v = cur[p]
        BY <3>2, <3>3
      <4>2. pc'[p] = "ended" /\ pc[p] # "ended"
        BY <1>1, <4>1 DEF Quit, Leave, TypeOK, FleetTypeOK
      <4>3. DirOf[p] = d
        BY <2>2, <3>3, <4>1 DEF BoundInv, OwnInv, OwnLocal, Launching, Arming
      <4>4. "up" \in MayRun[p]
        BY <4>1 DEF BoundInv, StatefileInv, CommandFitsLabel, RunsWhatItMay, Arming
      <4>5. Left(d)' \subseteq Left(d) \cup {cur[p]}
        BY <3>2
      <4> QED BY <4>2, <4>3, <4>4, <4>5 DEF LeavesBehind, EndedUps
    <3> QED BY <3>3
  <2>4. CASE (\E v \in Vm : Environment(v)) \/ UNCHANGED vars
    <3>1. pc' = pc /\ cur' = cur
      BY <2>4 DEF Environment, RunnerConnects, RunnerDrops, GitHubStep, CloudStep, vars, localVars
    <3>2. \A v \in Left(d)' : \A q \in Proc : pc[q] \in Arming => cur[q] # v
      BY <3>1 DEF Left
    <3> QED BY <2>2, <3>2 DEF Left
  <2> QED BY <2>3, <2>4 DEF Next
<1> QED BY <1>2, <1>3

(* So the count of what is left keeps up with the count of the ups that ended. *)
LEMMA BoundStep ==
  ASSUME IsFiniteSet(Vm), IsFiniteSet(Proc), BoundInv, [Next]_vars
  PROVE  OneLeftPerUp'
<1> SUFFICES ASSUME NEW d \in Dir
             PROVE  Cardinality(Left(d)') <= Cardinality(EndedUps(d)')
  BY DEF OneLeftPerUp
<1>1. /\ IsFiniteSet(Left(d)) /\ IsFiniteSet(Left(d)')
      /\ IsFiniteSet(EndedUps(d)) /\ IsFiniteSet(EndedUps(d)')
  <2>1. /\ Left(d) \in SUBSET Vm /\ Left(d)' \in SUBSET Vm
        /\ EndedUps(d) \in SUBSET Proc /\ EndedUps(d)' \in SUBSET Proc
    BY DEF Left, EndedUps
  <2> QED BY <2>1, FS_Subset
<1>2. /\ Cardinality(Left(d)) \in Nat /\ Cardinality(Left(d)') \in Nat
      /\ Cardinality(EndedUps(d)) \in Nat /\ Cardinality(EndedUps(d)') \in Nat
  BY <1>1, FS_CardinalityType
<1>3. Cardinality(Left(d)) <= Cardinality(EndedUps(d))
  BY DEF BoundInv, OneLeftPerUp
<1>4. EndedUps(d) \subseteq EndedUps(d)'
  BY EndedStaysEnded DEF BoundInv, OwnInv
<1>5. CASE Left(d)' \subseteq Left(d)
  <2>1. Cardinality(Left(d)') <= Cardinality(Left(d))
    BY <1>1, <1>5, FS_Subset
  <2>2. Cardinality(EndedUps(d)) <= Cardinality(EndedUps(d)')
    BY <1>1, <1>4, FS_Subset
  <2> QED BY <1>2, <1>3, <2>1, <2>2
<1>6. CASE \E p \in Proc : LeavesBehind(p, d)
  <2>1. PICK p \in Proc : LeavesBehind(p, d)
    BY <1>6
  <2>2. /\ IsFiniteSet(Left(d) \cup {cur[p]})
        /\ Cardinality(Left(d) \cup {cur[p]}) \in {Cardinality(Left(d)), Cardinality(Left(d)) + 1}
    BY <1>1, FS_AddElement
  <2>3. Cardinality(Left(d)') <= Cardinality(Left(d) \cup {cur[p]})
    BY <2>1, <2>2, FS_Subset DEF LeavesBehind
  <2>4. /\ IsFiniteSet(EndedUps(d) \cup {p})
        /\ Cardinality(EndedUps(d) \cup {p}) = Cardinality(EndedUps(d)) + 1
    BY <1>1, <2>1, FS_AddElement DEF LeavesBehind
  <2>5. EndedUps(d) \cup {p} \subseteq EndedUps(d)'
    BY <1>4, <2>1 DEF LeavesBehind
  <2>6. Cardinality(EndedUps(d) \cup {p}) <= Cardinality(EndedUps(d)')
    BY <1>1, <2>5, FS_Subset
  <2> QED BY <1>2, <1>3, <2>2, <2>3, <2>4, <2>6
<1> QED BY <1>5, <1>6, StepLeavesOne

(* However many ups are killed at whatever call, and whatever calls fail, each
   leaves at most one live instance behind without its schedule. *)
THEOREM LeftIsBounded ==
  ASSUME IsFiniteSet(Vm), IsFiniteSet(Proc)
  PROVE  PromptSpec => []OneLeftPerUp
<1>1. Init => BoundInv
  <2> SUFFICES ASSUME Init PROVE BoundInv
    OBVIOUS
  <2>1. FenceInv /\ OwnInv /\ StatefileInv
    BY FenceInit, OwnInit, TypeInit
       DEF Init, StatefileInv, CommandFitsLabel, LockIsHeld, ManifestOnDisk
  <2>2. RunsWhatItMay
    BY DEF Init, RunsWhatItMay
  <2>3. ASSUME NEW d \in Dir PROVE Cardinality(Left(d)) <= Cardinality(EndedUps(d))
    <3>1. Left(d) = {} /\ EndedUps(d) = {}
      BY DEF Init, CloudInit, Left, EndedUps
    <3> QED BY <3>1, FS_EmptySet
  <2> QED BY <2>1, <2>2, <2>3 DEF BoundInv, OneLeftPerUp
<1>2. BoundInv /\ [Next /\ ShownOnceArmed']_vars => BoundInv'
  <2> SUFFICES ASSUME BoundInv, [Next /\ ShownOnceArmed']_vars PROVE BoundInv'
    OBVIOUS
  <2>1. [Next]_vars /\ TypeOK
    BY DEF BoundInv, OwnInv
  <2>2. FenceInv' /\ OwnInv' /\ StatefileInv'
    BY <2>1, FenceStep, OwnStep, StatefileStep DEF BoundInv
  <2>3. RunsWhatItMay'
    BY <2>1, CommandStep DEF BoundInv
  <2>4. OneLeftPerUp'
    BY <2>1, BoundStep
  <2> QED BY <2>2, <2>3, <2>4 DEF BoundInv
<1>3. BoundInv => OneLeftPerUp
  BY DEF BoundInv
<1> QED BY <1>1, <1>2, <1>3, PTL DEF PromptSpec
=======================================================================
