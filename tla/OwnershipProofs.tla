----------------------- MODULE OwnershipProofs -----------------------
(* Whose names, whose instances, whose records: theorems about Fleet, for any
   number of hosts, repositories, invocations and instances.  The first two
   need nothing of the listing; the last two need PromptSpec, and that no `down`
   runs. *)
EXTENDS FenceProofs

USE DEF At, Goto, MyDir, MyRepo, IsLive

------------------------------------------------------------------------
(* The inductive invariant of the first two. *)

(* An instance is launched for the repository of the directory that minted its
   name. *)
Tagged ==
  \A v \in Vm : vm[v] # "absent" => mintedBy[v] \in Dir /\ tag[v] = RepoOf[mintedBy[v]]

(* Where up has an instance in hand whose name it minted. *)
Launching == {"launch", "arm", "disown", "record"}

(* The names an invocation knows. *)
Known(p) == manifest[p].named \cup names[p] \cup dead[p]

(* What invocation p holds is its own. *)
OwnLocal(p) ==
  /\ \A v \in Known(p) : mintedBy[v] = MyDir(p)
  /\ pc[p] \in Launching => mintedBy[cur[p]] = MyDir(p)
  /\ pc[p] = "launch" => vm[cur[p]] = "absent"
  /\ \A v \in reap[p] : vm[v] # "absent" /\ tag[v] = MyRepo(p)

OwnFile(d) == \A v \in file[d].named : mintedBy[v] = d

(* Inductive.  A tag never changes because an instance is launched once: it is
   absent while its name is in hand, and LaunchesApart says in one hand. *)
OwnInv ==
  /\ TypeOK
  /\ Tagged
  /\ \A d \in Dir : OwnFile(d)
  /\ \A p \in Proc : OwnLocal(p)
  /\ LaunchesApart

------------------------------------------------------------------------
(* What every step but a launch keeps. *)

(* A step that is Steady keeps the tags right: what it mints is still absent. *)
LEMMA SteadyKeepsTags == ASSUME OwnInv, Steady PROVE Tagged'
<1>1. Tagged
  BY DEF OwnInv
<1> QED BY <1>1, NoDirIsNone DEF Steady, Tagged

(* It keeps what an invocation holds that does not move. *)
LEMMA SteadyKeepsOwn ==
  ASSUME OwnInv, Steady, NEW p \in Proc,
         pc'[p] = pc[p], manifest'[p] = manifest[p], names'[p] = names[p],
         dead'[p] = dead[p], reap'[p] = reap[p], cur'[p] = cur[p]
  PROVE  OwnLocal(p)'
<1>1. /\ reap[p] \subseteq Vm /\ Known(p) \subseteq Vm
      /\ pc[p] \in Launching => cur[p] \in Vm
  BY DEF OwnInv, TypeOK, FleetTypeOK, Launching, InHand, Known, StateFile
<1>2. OwnLocal(p) /\ MyDir(p) # NoDir
  BY DirOfType, NoDirIsNone DEF OwnInv
<1> QED BY <1>1, <1>2 DEF OwnLocal, Known, Steady, Launching

------------------------------------------------------------------------
(* The invocation that moves. *)

(* An invocation that ends holds nothing. *)
LEMMA LeaveKeepsOwn ==
  ASSUME TypeOK, NEW p \in Proc, Leave(p)
  PROVE  OwnLocal(p)'
BY DEF Leave, OwnLocal, Known, Empty, Launching, TypeOK, FleetTypeOK

(* Its own step, unless it launches, gives it nothing of another's: names come
   from its own statefile, its memory or its mint, instances to terminate from
   a listing of its own repository. *)
LEMMA MoverKeepsOwn ==
  ASSUME OwnInv, NEW p \in Proc,
         Start(p) \/ Progress(p) \/ UpDetach(p) \/ Quit(p), ~UpLaunch(p), Steady
  PROVE  OwnLocal(p)'
<1> DEFINE Mine(S) == \A v \in S : mintedBy[v] = MyDir(p)
<1>0. /\ Known(p) \subseteq Vm /\ reap[p] \subseteq Vm
      /\ pc[p] \in InHand => cur[p] \in Vm
      /\ MyDir(p) \in Dir /\ MyDir(p) # NoDir
      /\ file[MyDir(p)].named \subseteq Vm
  BY DirOfType, NoDirIsNone
     DEF OwnInv, TypeOK, FleetTypeOK, RepoStateTypeOK, InHand, Known, StateFile
<1>1. /\ OwnLocal(p) /\ OwnFile(MyDir(p))
      /\ \A v \in Vm : mintedBy[v] = MyDir(p) => mintedBy'[v] = MyDir(p)
      /\ \A v \in Vm : vm[v] # "absent" => vm'[v] # "absent" /\ tag'[v] = tag[v]
  BY <1>0 DEF OwnInv, Steady
<1>2. ASSUME NEW S \in SUBSET Vm, Mine(S), Known(p)' \subseteq S,
             reap'[p] \subseteq reap[p], pc'[p] \notin Launching
      PROVE  OwnLocal(p)'
  BY <1>0, <1>1, <1>2 DEF OwnLocal, Launching
<1>3. ASSUME Known(p)' \subseteq Known(p), reap'[p] \subseteq reap[p], pc'[p] \notin Launching
      PROVE  OwnLocal(p)'
  BY <1>0, <1>1, <1>2, <1>3 DEF OwnLocal
<1>4. ASSUME Known(p)' \subseteq Known(p), reap'[p] = ListTagged(MyRepo(p)),
             UNCHANGED cloudVars, pc'[p] \notin Launching
      PROVE  OwnLocal(p)'
  <2>1. \A v \in reap'[p] : v \in Vm /\ vm'[v] # "absent" /\ tag'[v] = MyRepo(p)
    BY <1>4 DEF ListTagged, ListAllTagged, cloudVars
  <2> QED BY <1>0, <1>1, <1>4, <2>1 DEF OwnLocal, Launching
<1>5. Mine(Known(p)) /\ Mine(file[MyDir(p)].named)
  BY <1>1 DEF OwnLocal, OwnFile
<1> DEFINE S0 == Known(p) \cup file[MyDir(p)].named
<1>6. S0 \in SUBSET Vm /\ Mine(S0)
  BY <1>0, <1>5
<1> HIDE DEF S0
<1>7. ASSUME Known(p)' \subseteq S0, reap'[p] \subseteq reap[p], pc'[p] \notin Launching
      PROVE  OwnLocal(p)'
  BY <1>2, <1>6, <1>7
<1>8. /\ pc \in [Proc -> Label] /\ manifest \in [Proc -> StateFile]
      /\ names \in [Proc -> SUBSET Vm] /\ reap \in [Proc -> SUBSET Vm]
      /\ dead \in [Proc -> SUBSET Vm] /\ cur \in [Proc -> Vm \cup {NoVm}]
  BY DEF OwnInv, TypeOK, FleetTypeOK
<1> USE DEF planVars, Launching
<1>9. CASE StartUp(p) \/ StartSweep(p)
  <2>1. /\ Known(p)' \subseteq Known(p) \cup file[MyDir(p)].named
        /\ reap'[p] = reap[p] /\ pc'[p] \in {"list", "sweep"}
    BY <1>8, <1>9 DEF StartUp, StartSweep, Known
  <2> QED BY <1>7, <2>1 DEF S0
<1>10. CASE StartDown(p) \/ SweepListTagged(p)
  <2>1. /\ Known(p)' \subseteq Known(p) /\ reap'[p] = ListTagged(MyRepo(p))
        /\ UNCHANGED cloudVars /\ pc'[p] \in {"terminate", "all"}
    BY <1>8, <1>10 DEF StartDown, SweepListTagged, Known
  <2> QED BY <1>4, <2>1
<1>11. CASE UpReconcile(p)
  <2>1. /\ manifest'[p].named \subseteq manifest[p].named
        /\ UNCHANGED <<names, dead, reap>> /\ pc'[p] = "commit"
    BY <1>8, <1>11 DEF UpReconcile, Reconcile
  <2> QED BY <1>3, <2>1 DEF Known
<1>12. CASE SweepPlan(p) \/ TidyList(p)
  <2>1. /\ dead'[p] \subseteq names[p] /\ names'[p] \subseteq names[p]
        /\ manifest' = manifest /\ reap'[p] \subseteq reap[p]
        /\ pc'[p] \in {"execute", "tidying"}
    BY <1>8, <1>12 DEF SweepPlan, TidyList, DeadRegistrations
  <2> QED BY <1>3, <2>1 DEF Known
<1>13. CASE \/ UpCommit(p) \/ SweepListAll(p) \/ SweepListArmed(p) \/ SweepDisarm(p)
            \/ UpLaunched(p) \/ UpFleetGone(p) \/ DownTerminate(p)
            \/ TidyDone(p) \/ TidyFails(p)
  <2>1. /\ manifest' = manifest /\ names'[p] \subseteq names[p] /\ dead'[p] \subseteq dead[p]
        /\ reap'[p] \subseteq reap[p]
        /\ pc'[p] \in {"sweep", "armed", "runners", "execute", "watch", "schedules", "forget"}
    BY <1>8, <1>13 DEF UpCommit, SweepListAll, SweepListArmed, SweepDisarm, UpLaunched,
       UpFleetGone, DownTerminate, TidyDone, TidyFails, EndTidy
  <2> QED BY <1>3, <2>1 DEF Known
<1>14. ASSUME NEW v \in Vm,
              \/ SweepTerminate(p, v) \/ SweepDelete(p, v)
              \/ TeardownDisarm(p, v) \/ TidyDelete(p, v)
       PROVE  OwnLocal(p)'
  <2>1. /\ manifest' = manifest /\ names' = names /\ dead'[p] \subseteq dead[p]
        /\ reap'[p] \subseteq reap[p] /\ pc'[p] \in {"execute", "schedules", "tidying"}
    BY <1>8, <1>14 DEF SweepTerminate, SweepDelete, TeardownDisarm, TidyDelete
  <2> QED BY <1>3, <2>1 DEF Known
<1>15. ASSUME NEW v \in Vm, SweepRecheck(p, v) PROVE OwnLocal(p)'
  <2>1. manifest' = manifest /\ names' = names /\ dead' = dead /\ reap' = reap
    BY <1>15 DEF SweepRecheck
  <2>2. pc'[p] \in {"execute", "disarm"}
    <3>1. CASE v \in ShownLive
      BY <1>8, <1>15, <3>1 DEF SweepRecheck
    <3>2. CASE v \notin ShownLive
      BY <1>8, <1>15, <3>2 DEF SweepRecheck
    <3> QED BY <3>1, <3>2
  <2> QED BY <1>3, <2>1, <2>2 DEF Known
<1>16. CASE \/ UpNothingToLaunch(p) \/ UpDisown(p) \/ UpForget(p)
            \/ DownForget(p) \/ DownLeavesFile(p) \/ UpDetach(p) \/ Quit(p)
  BY <1>16, LeaveKeepsOwn
     DEF OwnInv, UpNothingToLaunch, UpDisown, UpForget, DownForget, DownLeavesFile, UpDetach, Quit
<1>17. CASE SweepDone(p)
  <2>1. \/ Leave(p)
        \/ UNCHANGED <<manifest, names, dead, reap>> /\ pc'[p] = "mint"
    BY <1>8, <1>17 DEF SweepDone
  <2> QED BY <1>3, <2>1, LeaveKeepsOwn DEF Known, OwnInv
<1>18. ASSUME NEW v \in Vm, UpMint(p, v) PROVE OwnLocal(p)'
  <2>1. /\ UNCHANGED <<manifest, names, dead, reap, vm, tag>> /\ pc'[p] = "launch" /\ cur'[p] = v
        /\ mintedBy[v] = NoDir /\ mintedBy'[v] = MyDir(p)
    BY <1>8, <1>18 DEF UpMint, MintJitConfig, FreshName, cloudVars, OwnInv, TypeOK, GitHubTypeOK
  <2>2. vm[v] = "absent"
    BY <2>1, NoDirIsNone DEF OwnInv, Tagged
  <2> QED BY <1>0, <1>1, <2>1, <2>2 DEF OwnLocal, Known
<1>19. CASE UpArm(p) \/ UpArmFails(p)
  <2>1. /\ UNCHANGED <<manifest, names, dead, reap, cur, mintedBy>>
        /\ pc[p] = "arm" /\ pc'[p] \in {"record", "disown"}
    BY <1>8, <1>19 DEF UpArm, UpArmFails, ghVars
  <2> QED BY <1>0, <1>1, <2>1 DEF OwnLocal, Known
<1>20. CASE UpRecord(p)
  <2>1. /\ manifest'[p].named = manifest[p].named \cup {cur[p]}
        /\ UNCHANGED <<names, dead, reap>>
        /\ pc[p] = "record" /\ pc'[p] = "mint"
    BY <1>8, <1>20 DEF UpRecord, Record
  <2>2. cur[p] \in Vm /\ mintedBy[cur[p]] = MyDir(p)
    BY <1>0, <1>1, <2>1 DEF OwnLocal, InHand
  <2>3. Known(p)' \subseteq Known(p) \cup {cur[p]}
    BY <2>1 DEF Known
  <2>4. Mine(Known(p) \cup {cur[p]}) /\ Known(p) \cup {cur[p]} \in SUBSET Vm
    BY <1>0, <1>5, <2>2
  <2> QED BY <1>2, <2>1, <2>3, <2>4
<1>21. CASE UpCollectNames(p)
  <2>1. /\ manifest' = manifest /\ names'[p] = manifest[p].named /\ dead' = dead
        /\ reap' = reap /\ pc'[p] = "tidy"
    BY <1>8, <1>21 DEF UpCollectNames
  <2> QED BY <1>3, <2>1 DEF Known
<1>22. CASE DownReadNames(p)
  <2>1. /\ manifest' = manifest /\ names'[p] \subseteq file[MyDir(p)].named /\ dead' = dead
        /\ reap' = reap /\ pc'[p] = "tidy"
    BY <1>8, <1>22 DEF DownReadNames
  <2> QED BY <1>7, <2>1 DEF Known, S0
<1> QED
  BY <1>9, <1>10, <1>11, <1>12, <1>13, <1>14, <1>15, <1>16, <1>17, <1>18, <1>19, <1>20,
     <1>21, <1>22
  DEF Start, Progress

(* What is written to a statefile are names of its own directory. *)
LEMMA FilesStayOwn ==
  ASSUME OwnInv, [Next]_vars, NEW d \in Dir,
         \A v \in Vm : mintedBy[v] = d => mintedBy'[v] = d
  PROVE  OwnFile(d)'
<1>1. file[d].named \subseteq Vm
  BY DEF OwnInv, TypeOK, RepoStateTypeOK, StateFile
<1>2. CASE file'[d] \in {file[d], Empty}
  BY <1>1, <1>2 DEF OwnInv, OwnFile, Empty
<1>3. ASSUME NEW p \in Proc, UpCommit(p) \/ UpRecord(p) PROVE OwnFile(d)'
  <2>1. /\ d # MyDir(p) => file'[d] = file[d]
        /\ d = MyDir(p) => \/ file'[d] = manifest[p]
                           \/ pc[p] = "record" /\ file'[d] = Record(manifest[p], cur[p])
    BY <1>3 DEF UpCommit, UpRecord, Write, OwnInv, TypeOK, RepoStateTypeOK, FleetTypeOK
  <2>2. OwnLocal(p) /\ manifest[p].named \subseteq Vm /\ (pc[p] = "record" => cur[p] \in Vm)
    BY DEF OwnInv, TypeOK, FleetTypeOK, StateFile, InHand
  <2> QED BY <1>2, <2>1, <2>2 DEF OwnFile, OwnLocal, Known, Record, Launching
<1>4. ASSUME NEW p \in Proc, UpForget(p) \/ DownForget(p) PROVE OwnFile(d)'
  <2>1. file'[d] \in {file[d], Empty}
    BY <1>4 DEF UpForget, DownForget, Delete, OwnInv, TypeOK, RepoStateTypeOK
  <2> QED BY <1>2, <2>1
<1>5. CASE \A p \in Proc : ~(UpCommit(p) \/ UpRecord(p) \/ UpForget(p) \/ DownForget(p))
  BY <1>2, <1>5, OnlyFourWrite
<1> QED BY <1>3, <1>4, <1>5
------------------------------------------------------------------------
(* A launch tags one instance, and nobody holds that one yet. *)
LEMMA LaunchIsOwn ==
  ASSUME OwnInv, NEW p \in Proc, UpLaunch(p)
  PROVE  Tagged' /\ (\A d \in Dir : OwnFile(d)') /\ \A q \in Proc : OwnLocal(q)'
<1> DEFINE v == cur[p]
<1>1. /\ v \in Vm /\ vm[v] = "absent" /\ mintedBy[v] = MyDir(p)
      /\ pc[p] = "launch" /\ pc'[p] = "arm"
      /\ UNCHANGED <<mintedBy, file, manifest, names, dead, reap, cur>>
  BY DEF UpLaunch, OwnInv, OwnLocal, Launching, TypeOK, FleetTypeOK, InHand, Launch, ghVars,
         stateVars, planVars
<1>2. /\ vm'[v] = "live" /\ tag'[v] = MyRepo(p)
      /\ \A u \in Vm : u # v => vm'[u] = vm[u] /\ tag'[u] = tag[u]
  BY <1>1 DEF UpLaunch, Launch, OwnInv, TypeOK, CloudTypeOK
<1> HIDE DEF v
<1>3. Tagged'
  BY <1>1, <1>2, DirOfType DEF OwnInv, Tagged
<1>4. \A d \in Dir : OwnFile(d)'
  BY <1>1 DEF OwnInv, OwnFile
<1>5. ASSUME NEW q \in Proc PROVE OwnLocal(q)'
  <2>1. /\ OwnLocal(q) /\ reap[q] \subseteq Vm
        /\ pc[q] \in Launching => cur[q] \in Vm
    BY DEF OwnInv, TypeOK, FleetTypeOK, Launching, InHand
  <2>2. \A u \in reap[q] : vm'[u] # "absent" /\ tag'[u] = MyRepo(q)
    BY <1>1, <1>2, <2>1 DEF OwnLocal
  <2>3. \A u \in Known(q)' : mintedBy'[u] = MyDir(q)
    BY <1>1, <2>1 DEF OwnLocal, Known
  <2>4. CASE q = p
    BY <1>1, <2>2, <2>3, <2>4 DEF OwnLocal, Launching, v
  <2>5. CASE q # p
    <3>1. pc'[q] = pc[q]
      BY <2>5, OthersStay DEF Progress, OwnInv
    <3>2. pc[q] = "launch" => cur[q] # v
      BY <1>1, <2>5 DEF OwnInv, LaunchesApart, v
    <3> QED BY <1>1, <1>2, <2>1, <2>2, <2>3, <3>1, <3>2 DEF OwnLocal, Launching
  <2> QED BY <2>4, <2>5
<1> QED BY <1>3, <1>4, <1>5

LEMMA OwnInit == Init => OwnInv
BY TypeInit
   DEF Init, GitHubInit, CloudInit, RepoStateInit, OwnInv, Tagged, OwnFile, OwnLocal, Known,
       Launching, LaunchesApart, Empty

LEMMA OwnStep == OwnInv /\ [Next]_vars => OwnInv'
<1> SUFFICES ASSUME OwnInv, [Next]_vars
             PROVE  OwnInv'
  OBVIOUS
<1>1. TypeOK' /\ TypeOK
  BY TypeStep DEF OwnInv
<1>2. ASSUME NEW p \in Proc, Start(p) \/ Progress(p) \/ UpDetach(p) \/ Quit(p)
      PROVE  LaunchesApart'
  <2>1. \A q \in Proc : pc[q] = "launch" => mintedBy[cur[q]] # NoDir
    BY DirOfType, NoDirIsNone DEF OwnInv, OwnLocal, Launching
  <2> QED BY <1>2, <2>1, NamesStayApart DEF OwnInv
<1>3. CASE \E p \in Proc : UpLaunch(p)
  BY <1>1, <1>2, <1>3, LaunchIsOwn DEF OwnInv, Progress
<1>4. CASE \A p \in Proc : ~UpLaunch(p)
  <2>1. Steady
    BY <1>1, <1>4, StepSteady
  <2>2. \A d \in Dir : OwnFile(d)'
    <3>1. \A d \in Dir : \A v \in Vm : mintedBy[v] = d => mintedBy'[v] = d
      BY <2>1, NoDirIsNone DEF Steady
    <3> QED BY <3>1, FilesStayOwn
  <2>3. (\A p \in Proc : OwnLocal(p)') /\ LaunchesApart'
    <3>1. CASE \E p \in Proc : Start(p) \/ Progress(p) \/ UpDetach(p) \/ Quit(p)
      <4>1. PICK p \in Proc : Start(p) \/ Progress(p) \/ UpDetach(p) \/ Quit(p)
        BY <3>1
      <4>2. OwnLocal(p)'
        BY <1>4, <2>1, <4>1, MoverKeepsOwn
      <4>3. ASSUME NEW q \in Proc, q # p PROVE OwnLocal(q)'
        BY <1>1, <2>1, <4>1, <4>3, OthersStay, SteadyKeepsOwn
      <4> QED BY <1>2, <4>1, <4>2, <4>3
    <3>2. CASE (\E v \in Vm : Environment(v)) \/ UNCHANGED vars
      <4>1. UNCHANGED localVars
        BY <3>2 DEF Environment, RunnerConnects, RunnerDrops, GitHubStep, CloudStep, vars
      <4> QED BY <2>1, <4>1, SteadyKeepsOwn DEF localVars, planVars, OwnInv, LaunchesApart
    <3> QED BY <3>1, <3>2 DEF Next
  <2> QED BY <1>1, <2>1, <2>2, <2>3, SteadyKeepsTags DEF OwnInv
<1> QED BY <1>3, <1>4

(* A host records, tidies and deletes only names it minted itself, however many
   hosts share the repository and whatever the listings leave out. *)
THEOREM HostsKeepToTheirNames == Spec => []NamesAreOwn
<1>1. OwnInv => NamesAreOwn
  BY DEF OwnInv, OwnFile, OwnLocal, Known, NamesAreOwn
<1> QED BY <1>1, OwnInit, OwnStep, PTL DEF Spec

------------------------------------------------------------------------
(* No command ends what is not its to end. *)

(* What invocation p may rely on when it terminates: up's manifest records only
   minted names and not the instance in hand, a sweep's plan only instances past
   their expiry. *)
EndLocal(p) ==
  /\ \A v \in manifest[p].ids : mintedBy[v] # NoDir
  /\ pc[p] \in Launching => cur[p] \notin manifest[p].ids
  /\ pc[p] \in {"execute", "disarm"} => \A v \in reap[p] : expired[v]

(* Inductive: the manifest is the statefile (StatefileInv), so what it does not
   record no statefile of this directory does. *)
EndInv ==
  /\ OwnInv
  /\ StatefileInv
  /\ \A d \in Dir : \A v \in file[d].ids : mintedBy[v] # NoDir
  /\ \A p \in Proc : EndLocal(p)

(* A minted name stays minted. *)
LEMMA MintedStays ==
  ASSUME OwnInv, [Next]_vars
  PROVE  \A v \in Vm : mintedBy[v] # NoDir => mintedBy'[v] # NoDir
<1>1. CASE \E p \in Proc : UpLaunch(p)
  BY <1>1 DEF UpLaunch, ghVars
<1>2. CASE \A p \in Proc : ~UpLaunch(p)
  BY <1>2, StepSteady DEF OwnInv, Steady
<1> QED BY <1>1, <1>2

(* The invocation that moves. *)
LEMMA MoverKeepsEnd ==
  ASSUME EndInv, [Next]_vars, NEW p \in Proc,
         Start(p) \/ Progress(p) \/ UpDetach(p) \/ Quit(p)
  PROVE  EndLocal(p)'
<1>1. /\ pc \in [Proc -> Label] /\ manifest \in [Proc -> StateFile]
      /\ cur \in [Proc -> Vm \cup {NoVm}] /\ reap \in [Proc -> SUBSET Vm]
      /\ manifest[p].ids \subseteq Vm /\ reap[p] \subseteq Vm
      /\ MyDir(p) \in Dir /\ MyDir(p) # NoDir /\ file[MyDir(p)].ids \subseteq Vm
  BY DirOfType, NoDirIsNone
     DEF EndInv, OwnInv, TypeOK, FleetTypeOK, RepoStateTypeOK, StateFile
<1>2. EndLocal(p) /\ OwnLocal(p)
  BY DEF EndInv, OwnInv
<1>3. \A v \in Vm : /\ mintedBy[v] # NoDir => mintedBy'[v] # NoDir
                    /\ expired[v] => expired'[v]
  BY MintedStays, StepExpires DEF EndInv, OwnInv
<1>4. ASSUME manifest'[p].ids \subseteq manifest[p].ids, pc'[p] \notin Launching,
             pc'[p] \notin {"execute", "disarm"}
      PROVE  EndLocal(p)'
  BY <1>1, <1>2, <1>3, <1>4 DEF EndLocal
<1>5. CASE Leave(p)
  BY <1>1, <1>5 DEF Leave, EndLocal, Empty, Launching
<1>6. CASE StartUp(p)
  <2>1. manifest'[p] = file[MyDir(p)] /\ pc'[p] = "list"
    BY <1>1, <1>6 DEF StartUp
  <2>2. \A v \in file[MyDir(p)].ids : mintedBy[v] # NoDir
    BY <1>1 DEF EndInv
  <2> QED BY <1>1, <1>3, <2>1, <2>2 DEF EndLocal, Launching
<1>7. CASE UpReconcile(p)
  <2>1. /\ manifest'[p].ids \subseteq ListTagged(MyRepo(p)) /\ pc'[p] = "commit"
        /\ mintedBy' = mintedBy
    BY <1>1, <1>7 DEF UpReconcile, Reconcile, ghVars
  <2>2. \A v \in ListTagged(MyRepo(p)) : mintedBy[v] # NoDir
    BY NoDirIsNone DEF ListTagged, ListAllTagged, EndInv, OwnInv, Tagged
  <2> QED BY <2>1, <2>2 DEF EndLocal, Launching
<1>8. CASE \/ StartSweep(p) \/ StartDown(p)
           \/ UpCommit(p) \/ SweepListTagged(p) \/ SweepListAll(p) \/ SweepListArmed(p)
           \/ UpLaunched(p) \/ UpFleetGone(p) \/ UpCollectNames(p)
           \/ DownTerminate(p) \/ DownReadNames(p) \/ TidyList(p) \/ TidyDone(p) \/ TidyFails(p)
  <2>1. /\ manifest' = manifest
        /\ pc'[p] \in {"sweep", "terminate", "all", "armed", "runners", "watch", "schedules",
                       "tidy", "tidying", "forget"}
    BY <1>1, <1>8 DEF StartSweep, StartDown, UpCommit, SweepListTagged, SweepListAll,
       SweepListArmed, UpLaunched, UpFleetGone, UpCollectNames, DownTerminate, DownReadNames,
       TidyList, TidyDone, TidyFails, EndTidy
  <2> QED BY <1>4, <2>1 DEF Launching
<1>9. CASE SweepPlan(p)
  <2>1. /\ manifest' = manifest /\ pc'[p] = "execute" /\ \A v \in reap'[p] : v \in Vm /\ expired[v]
    BY <1>1, <1>9 DEF SweepPlan
  <2> QED BY <1>1, <1>2, <1>3, <2>1 DEF EndLocal, Launching
<1>10. ASSUME manifest' = manifest, reap'[p] \subseteq reap[p],
              pc[p] \in {"execute", "disarm"}, pc'[p] \in {"execute", "disarm"}
       PROVE  EndLocal(p)'
  BY <1>1, <1>2, <1>3, <1>10 DEF EndLocal, Launching
<1>11. CASE SweepDisarm(p) \/ \E v \in Vm : SweepTerminate(p, v) \/ SweepDelete(p, v)
  <2>1. CASE SweepDisarm(p)
    <3>1. /\ manifest' = manifest /\ reap' = reap /\ pc[p] = "disarm" /\ pc'[p] = "execute"
      BY <1>1, <2>1 DEF SweepDisarm, planVars
    <3> QED BY <1>10, <3>1
  <2>2. ASSUME NEW v \in Vm, SweepTerminate(p, v) \/ SweepDelete(p, v)
        PROVE  EndLocal(p)'
    <3>1. /\ manifest' = manifest /\ reap'[p] \subseteq reap[p]
          /\ pc[p] = "execute" /\ pc'[p] = "execute"
      BY <1>1, <2>2 DEF SweepTerminate, SweepDelete
    <3> QED BY <1>10, <3>1
  <2> QED BY <1>11, <2>1, <2>2
<1>12. ASSUME NEW v \in Vm, SweepRecheck(p, v) PROVE EndLocal(p)'
  <2>1. manifest' = manifest /\ reap' = reap /\ pc[p] = "execute"
    BY <1>12 DEF SweepRecheck
  <2>2. pc'[p] \in {"execute", "disarm"}
    <3>1. CASE v \in ShownLive
      BY <1>1, <1>12, <3>1 DEF SweepRecheck
    <3>2. CASE v \notin ShownLive
      BY <1>1, <1>12, <3>2 DEF SweepRecheck
    <3> QED BY <3>1, <3>2
  <2> QED BY <1>10, <2>1, <2>2
<1>13. CASE SweepDone(p)
  <2>1. Leave(p) \/ (manifest' = manifest /\ pc'[p] = "mint")
    BY <1>1, <1>13 DEF SweepDone
  <2> QED BY <1>4, <1>5, <2>1 DEF Launching
<1>14. ASSUME NEW v \in Vm, UpMint(p, v) PROVE EndLocal(p)'
  <2>1. /\ manifest' = manifest /\ pc'[p] = "launch" /\ cur'[p] = v /\ mintedBy[v] = NoDir
    BY <1>1, <1>14 DEF UpMint, MintJitConfig, FreshName
  <2> QED BY <1>1, <1>2, <1>3, <2>1 DEF EndLocal
<1>15. CASE UpLaunch(p) \/ UpArm(p) \/ UpArmFails(p)
  <2>1. /\ manifest' = manifest /\ cur' = cur
        /\ pc[p] \in Launching /\ pc'[p] \in {"arm", "record", "disown"}
    BY <1>1, <1>15 DEF UpLaunch, UpArm, UpArmFails, Launching
  <2> QED BY <1>1, <1>2, <1>3, <2>1 DEF EndLocal
<1>16. CASE UpRecord(p)
  <2>1. /\ manifest'[p].ids = manifest[p].ids \cup {cur[p]}
        /\ pc[p] = "record" /\ pc'[p] = "mint"
    BY <1>1, <1>16 DEF UpRecord, Record
  <2>2. cur[p] \in Vm /\ mintedBy[cur[p]] # NoDir
    BY <1>1, <1>2, <2>1 DEF OwnLocal, Launching, EndInv, OwnInv, TypeOK, FleetTypeOK, InHand
  <2> QED BY <1>1, <1>2, <1>3, <2>1, <2>2 DEF EndLocal, Launching
<1>17. CASE \E v \in Vm : TeardownDisarm(p, v) \/ TidyDelete(p, v)
  <2>1. manifest' = manifest /\ pc' = pc /\ pc[p] \in {"schedules", "tidying"}
    BY <1>17 DEF TeardownDisarm, TidyDelete
  <2> QED BY <1>4, <2>1 DEF Launching
<1>18. CASE \/ UpNothingToLaunch(p) \/ UpDisown(p) \/ UpForget(p)
            \/ DownForget(p) \/ DownLeavesFile(p) \/ UpDetach(p) \/ Quit(p)
  BY <1>5, <1>18
     DEF UpNothingToLaunch, UpDisown, UpForget, DownForget, DownLeavesFile, UpDetach, Quit
<1> QED
  BY <1>6, <1>7, <1>8, <1>9, <1>11, <1>12, <1>13, <1>14, <1>15, <1>16, <1>17, <1>18
  DEF Start, Progress

(* No step leaves the invariant. *)
LEMMA EndStep == EndInv /\ [Next]_vars => EndInv'
<1> SUFFICES ASSUME EndInv, [Next]_vars
             PROVE  EndInv'
  OBVIOUS
<1>1. OwnInv' /\ StatefileInv' /\ TypeOK
  BY OwnStep, StatefileStep DEF EndInv, OwnInv
<1>2. \A v \in Vm : /\ mintedBy[v] # NoDir => mintedBy'[v] # NoDir
                    /\ expired[v] => expired'[v]
  BY <1>1, MintedStays, StepExpires DEF EndInv
<1>3. ASSUME NEW d \in Dir PROVE \A v \in file'[d].ids : mintedBy'[v] # NoDir
  <2>1. file[d].ids \subseteq Vm /\ \A v \in file[d].ids : mintedBy[v] # NoDir
    BY DEF EndInv, OwnInv, TypeOK, RepoStateTypeOK, StateFile
  <2>2. CASE file'[d] \in {file[d], Empty}
    BY <1>2, <2>1, <2>2 DEF Empty
  <2>3. ASSUME NEW p \in Proc, UpCommit(p) \/ UpRecord(p)
        PROVE  \A v \in file'[d].ids : mintedBy'[v] # NoDir
    <3>1. /\ d # MyDir(p) => file'[d] = file[d]
          /\ d = MyDir(p) => file'[d] = manifest'[p]
      BY <2>3 DEF UpCommit, UpRecord, Write, EndInv, OwnInv, TypeOK, RepoStateTypeOK, FleetTypeOK
    <3>2. EndLocal(p)'
      BY <2>3, MoverKeepsEnd DEF Progress
    <3> QED BY <2>2, <3>1, <3>2 DEF EndLocal
  <2>4. ASSUME NEW p \in Proc, UpForget(p) \/ DownForget(p)
        PROVE  file'[d] \in {file[d], Empty}
    BY <2>4 DEF UpForget, DownForget, Delete, EndInv, OwnInv, TypeOK, RepoStateTypeOK
  <2>5. CASE \A p \in Proc : ~(UpCommit(p) \/ UpRecord(p) \/ UpForget(p) \/ DownForget(p))
    BY <2>2, <2>5, OnlyFourWrite
  <2> QED BY <2>2, <2>3, <2>4, <2>5
<1>4. ASSUME NEW q \in Proc,
             pc'[q] = pc[q], manifest'[q] = manifest[q], cur'[q] = cur[q], reap'[q] = reap[q]
      PROVE  EndLocal(q)'
  <2>1. EndLocal(q) /\ manifest[q].ids \subseteq Vm /\ reap[q] \subseteq Vm
    BY DEF EndInv, OwnInv, TypeOK, FleetTypeOK, StateFile
  <2> QED BY <1>2, <1>4, <2>1 DEF EndLocal
<1>5. \A p \in Proc : EndLocal(p)'
  <2>1. CASE \E p \in Proc : Start(p) \/ Progress(p) \/ UpDetach(p) \/ Quit(p)
    <3>1. PICK p \in Proc : Start(p) \/ Progress(p) \/ UpDetach(p) \/ Quit(p)
      BY <2>1
    <3>2. EndLocal(p)'
      BY <3>1, MoverKeepsEnd
    <3>3. ASSUME NEW q \in Proc, q # p PROVE EndLocal(q)'
      BY <1>1, <1>4, <3>1, <3>3, OthersStay
    <3> QED BY <3>2, <3>3
  <2>2. CASE (\E v \in Vm : Environment(v)) \/ UNCHANGED vars
    <3>1. UNCHANGED localVars
      BY <2>2 DEF Environment, RunnerConnects, RunnerDrops, GitHubStep, CloudStep, vars
    <3> QED BY <1>4, <3>1 DEF localVars, planVars
  <2> QED BY <2>1, <2>2 DEF Next
<1> QED BY <1>1, <1>3, <1>5 DEF EndInv

(* Whatever the listings left out and however long ago they were made, no call
   of a sweep, a teardown or an up ends an instance of another repository, and
   none but a teardown one that has neither expired nor just been launched by
   the caller itself. *)
THEOREM RepositoriesAreApart == Spec => EndsOnlyItsOwn
<1>1. Init => EndInv
  BY OwnInit, TypeInit
     DEF Init, RepoStateInit, EndInv, EndLocal, StatefileInv, CommandFitsLabel, LockIsHeld,
         ManifestOnDisk, Empty, Launching
<1>2. ASSUME EndInv, [Next]_vars
      PROVE  [\A v \in Vm : IsLive(v) /\ ~IsLive(v)' =>
                \A p \in Proc : Progress(p) => MayEnd(p, v)]_vars
  <2> SUFFICES ASSUME NEW v \in Vm, vm[v] = "live", vm'[v] # "live",
                      NEW p \in Proc, Progress(p)
               PROVE  MayEnd(p, v)
    OBVIOUS
  <2>1. OwnLocal(p) /\ EndLocal(p) /\ TypeOK /\ CommandFitsLabel /\ ManifestOnDisk
    BY <1>2 DEF EndInv, OwnInv, StatefileInv
  <2>2. CASE \E u \in Vm : SweepTerminate(p, u)
    <3>1. pc[p] = "execute" /\ v \in reap[p]
      BY <2>2 DEF SweepTerminate, Terminate
    <3> QED BY <2>1, <3>1 DEF OwnLocal, EndLocal, MayEnd
  <2>3. CASE DownTerminate(p)
    <3>1. pc[p] = "terminate" /\ v \in reap[p]
      BY <2>3 DEF DownTerminate, Terminate
    <3> QED BY <2>1, <3>1 DEF OwnLocal, CommandFitsLabel, MayEnd
  <2>4. CASE UpDisown(p)
    <3>1. pc[p] = "disown" /\ v = cur[p]
      BY <2>4 DEF UpDisown, Terminate
    <3>2. mintedBy[v] = MyDir(p) /\ v \notin file[MyDir(p)].ids
      BY <2>1, <3>1 DEF OwnLocal, EndLocal, CommandFitsLabel, ManifestOnDisk, Launching
    <3>3. tag[v] = MyRepo(p)
      BY <1>2, <3>2 DEF EndInv, OwnInv, Tagged
    <3> QED BY <3>2, <3>3 DEF MayEnd
  <2>5. CASE UpLaunch(p)
    BY <2>1, <2>5 DEF UpLaunch, Launch, TypeOK, CloudTypeOK
  <2>6. CASE ~(UpDisown(p) \/ DownTerminate(p) \/ UpLaunch(p) \/ \E u \in Vm : SweepTerminate(p, u))
    <3>1. vm' = vm
      BY <2>6
      DEF cloudVars, Progress, UpReconcile, UpCommit, SweepListTagged, SweepListAll,
          SweepListArmed, SweepPlan, SweepDisarm, SweepDone, SweepRecheck, SweepDelete,
          UpNothingToLaunch, UpArm, UpArmFails, UpRecord, UpLaunched, UpMint, UpFleetGone,
          UpCollectNames, UpForget, DownReadNames, DownForget, DownLeavesFile,
          TeardownDisarm, TidyDelete, TidyList, TidyDone, TidyFails, EndTidy, ArmKill, DisarmKill
    <3> QED BY <3>1
  <2> QED BY <2>2, <2>3, <2>4, <2>5, <2>6
<1> QED BY <1>1, <1>2, EndStep, PTL DEF Spec, EndsOnlyItsOwn

------------------------------------------------------------------------
(* The statefile trails the armed instances by one, where no `down` runs and a
   listing shows what is armed. *)

NoDown == \A p \in Proc : "down" \notin MayRun[p]

(* Where the instance in hand may be live and in no record yet. *)
Trailing == {"arm", "disown", "record"}

(* An instance that is armed, or that somebody may still arm. *)
Owed(u) == IsLive(u) /\ (armed[u] \/ \E q \in Proc : pc[q] \in Trailing /\ cur[q] = u)

(* The owed instances of directory d that are not among the ids. *)
Untracked(d, ids) == {u \in Vm : mintedBy[u] = d /\ Owed(u) /\ u \notin ids}

TrailsBy1(d) == \A v, w \in Untracked(d, file[d].ids) : v = w

(* Where up has seen its whole fleet dead. *)
Ending == {"schedules", "tidy", "tidying", "forget"}

(* What up's manifest says of the instances of its directory. *)
TrailLocal(p) ==
  /\ cmd[p] # "down"
  /\ cmd[p] = "up" /\ pc[p] \notin Trailing \cup {"list"} => Untracked(MyDir(p), manifest[p].ids) = {}
  /\ pc[p] \in Trailing => Untracked(MyDir(p), manifest[p].ids) \subseteq {cur[p]}
  /\ cmd[p] = "up" /\ pc[p] \in Ending => Untracked(MyDir(p), {}) = {}

(* Inductive: a launch finds the statefile complete, because up reconciled it,
   wrote it and has had the lock since (StatefileInv).  Reconciling misses
   nothing that is owed: it is armed, and so shown (FenceInv), or in the hands
   of another up, and the lock says that there is none. *)
TrailInv ==
  /\ FenceInv
  /\ OwnInv
  /\ StatefileInv
  /\ \A d \in Dir : TrailsBy1(d)
  /\ \A p \in Proc : TrailLocal(p)

(* Nothing is launched, and nothing new is owed. *)
Recedes == Steady /\ \A u \in Vm : Owed(u)' => Owed(u)

(* A step other than a launch takes no new instance in hand. *)
LEMMA HandsOnlyLose ==
  ASSUME TypeOK, NEW p \in Proc, Start(p) \/ Progress(p) \/ UpDetach(p) \/ Quit(p),
         ~UpLaunch(p), pc'[p] \in Trailing
  PROVE  pc[p] \in Trailing /\ cur'[p] = cur[p]
<1>1. /\ pc \in [Proc -> Label] /\ cur \in [Proc -> Vm \cup {NoVm}]
  BY DEF TypeOK, FleetTypeOK
<1>2. CASE UpArm(p) \/ UpArmFails(p)
  BY <1>1, <1>2 DEF UpArm, UpArmFails, Trailing
<1>3. CASE \E v \in Vm : SweepRecheck(p, v)
  <2>1. PICK v \in Vm : SweepRecheck(p, v)
    BY <1>3
  <2>2. CASE v \in ShownLive
    BY <1>1, <2>1, <2>2 DEF SweepRecheck, Trailing
  <2>3. CASE v \notin ShownLive
    BY <1>1, <2>1, <2>3 DEF SweepRecheck, Trailing
  <2> QED BY <2>2, <2>3
<1>4. CASE SweepDone(p)
  BY <1>1, <1>4 DEF SweepDone, Leave, Trailing
<1>5. CASE Start(p) \/ UpDetach(p) \/ Quit(p)
  BY <1>1, <1>5 DEF Start, StartUp, StartSweep, StartDown, UpDetach, Quit, Leave, Trailing
<1>6. CASE Progress(p) /\ ~(UpArm(p) \/ UpArmFails(p) \/ SweepDone(p) \/ \E v \in Vm : SweepRecheck(p, v))
  <2>1. pc'[p] \notin Trailing
    BY <1>1, <1>6
    DEF Trailing, Progress, UpReconcile, UpCommit, SweepListTagged, SweepListAll,
        SweepListArmed, SweepPlan, SweepDisarm, SweepTerminate, SweepDelete,
        UpNothingToLaunch, UpDisown, UpRecord, UpLaunched, UpMint, UpFleetGone,
        UpCollectNames, UpForget, DownTerminate, DownReadNames, DownForget, DownLeavesFile,
        TeardownDisarm, TidyDelete, TidyList, TidyDone, TidyFails, EndTidy, Leave
  <2> QED BY <2>1
<1> QED BY <1>2, <1>3, <1>4, <1>5, <1>6

LEMMA StepRecedes ==
  ASSUME FenceInv, [Next]_vars, \A p \in Proc : ~UpLaunch(p)
  PROVE  Recedes
<1>1. TypeOK /\ Frame /\ Steady
  BY StepFrame, StepSteady DEF FenceInv
<1>2. SUFFICES ASSUME NEW u \in Vm, Owed(u)'
               PROVE  Owed(u)
  BY <1>1 DEF Recedes
<1>3. vm[u] = "live"
  BY <1>1, <1>2 DEF Owed, Steady
<1>4. CASE armed'[u]
  <2>1. CASE armed[u]
    BY <1>3, <2>1 DEF Owed
  <2>2. CASE ~armed[u]
    <3>1. PICK p \in Proc : TriesToArm(p) /\ u = cur[p]
      BY <1>1, <1>4, <2>2 DEF Frame
    <3>2. pc[p] \in Trailing
      BY <3>1 DEF TriesToArm, UpArm, UpArmFails, Trailing
    <3> QED BY <1>3, <3>1, <3>2 DEF Owed
  <2> QED BY <2>1, <2>2
<1>5. CASE ~armed'[u]
  <2>1. PICK q \in Proc : pc'[q] \in Trailing /\ cur'[q] = u
    BY <1>2, <1>5 DEF Owed
  <2>2. pc[q] \in Trailing /\ cur[q] = u
    <3>1. CASE \E p \in Proc : Start(p) \/ Progress(p) \/ UpDetach(p) \/ Quit(p)
      BY <1>1, <2>1, <3>1, HandsOnlyLose, OthersStay
    <3>2. CASE (\E v \in Vm : Environment(v)) \/ UNCHANGED vars
      <4>1. UNCHANGED localVars
        BY <3>2 DEF Environment, RunnerConnects, RunnerDrops, GitHubStep, CloudStep, vars
      <4> QED BY <2>1, <4>1 DEF localVars
    <3> QED BY <3>1, <3>2 DEF Next
  <2> QED BY <1>3, <2>2 DEF Owed
<1> QED BY <1>4, <1>5

(* A step that launches nothing leaves no more untracked than there were. *)
LEMMA SteadyTracks ==
  ASSUME OwnInv, Recedes, NEW d \in Dir, NEW S, NEW T, S \subseteq T
  PROVE  Untracked(d, T)' \subseteq Untracked(d, S)
<1> SUFFICES ASSUME NEW u \in Vm, mintedBy'[u] = d, Owed(u)'
             PROVE  mintedBy[u] = d /\ Owed(u)
  BY DEF Untracked
<1>1. Owed(u) /\ vm[u] = "live"
  BY DEF Recedes, Owed
<1>2. mintedBy[u] # NoDir
  BY <1>1, NoDirIsNone DEF OwnInv, Tagged
<1> QED BY <1>1, <1>2 DEF Recedes, Steady

(* What is owed by the directory of a running up that has none in hand is shown
   in the listing of its repository. *)
LEMMA OwedIsShown ==
  ASSUME TrailInv, NEW p \in Proc, cmd[p] = "up", pc[p] \notin Trailing,
         NEW u \in Vm, mintedBy[u] = MyDir(p), Owed(u)
  PROVE  u \in ListTagged(MyRepo(p)) /\ IsLive(u)
<1>1. vm[u] = "live" /\ tag[u] = MyRepo(p)
  BY DEF Owed, TrailInv, OwnInv, Tagged
<1>2. CASE armed[u]
  <2>1. seen[u]
    BY <1>1, <1>2 DEF TrailInv, FenceInv, OriginInv, ShownOnceArmed
  <2> QED BY <1>1, <2>1 DEF ListTagged, ListAllTagged
<1>3. CASE ~armed[u]
  <2>1. PICK q \in Proc : pc[q] \in Trailing /\ cur[q] = u
    BY <1>3 DEF Owed
  <2>2. cmd[q] = "up" /\ MyDir(q) = MyDir(p)
    BY <2>1 DEF TrailInv, StatefileInv, CommandFitsLabel, OwnInv, OwnLocal, Launching, Trailing
  <2>3. q = p
    BY <2>2 DEF TrailInv, StatefileInv, LockIsHeld, Holds
  <2> QED BY <2>1, <2>3
<1> QED BY <1>2, <1>3

(* What up knows of its fleet stays so when another invocation moves. *)
LEMMA SteadyKeepsTrail ==
  ASSUME OwnInv, Recedes, NEW p \in Proc, TrailLocal(p),
         pc'[p] = pc[p], cmd'[p] = cmd[p], manifest'[p] = manifest[p], cur'[p] = cur[p]
  PROVE  TrailLocal(p)'
<1>1. Untracked(MyDir(p), {})' \subseteq Untracked(MyDir(p), {})
  BY SteadyTracks, DirOfType
<1>2. Untracked(MyDir(p), manifest[p].ids)' \subseteq Untracked(MyDir(p), manifest[p].ids)
  <2>1. \A u \in Vm : mintedBy'[u] = MyDir(p) /\ Owed(u)'
                        => mintedBy[u] = MyDir(p) /\ Owed(u)
    BY <1>1 DEF Untracked
  <2> QED BY <2>1 DEF Untracked
<1> QED BY <1>1, <1>2 DEF TrailLocal

(* The invocation that moves, unless it launches. *)
LEMMA MoverKeepsTrail ==
  ASSUME NoDown, TrailInv, Recedes, NEW p \in Proc,
         Start(p) \/ Progress(p) \/ UpDetach(p) \/ Quit(p), ~UpLaunch(p)
  PROVE  TrailLocal(p)'
<1> DEFINE d == MyDir(p)
           Hidden(S) == Untracked(d, S)
<1>1. /\ pc \in [Proc -> Label] /\ manifest \in [Proc -> StateFile]
      /\ cmd \in [Proc -> Command \cup {"none"}] /\ cur \in [Proc -> Vm \cup {NoVm}]
      /\ d \in Dir
  BY DirOfType DEF TrailInv, OwnInv, TypeOK, FleetTypeOK
<1>2. TrailLocal(p)
  BY DEF TrailInv
<1>3. \A u \in Vm : mintedBy'[u] = d /\ Owed(u)' => mintedBy[u] = d /\ Owed(u)
  <2>1. Untracked(d, {})' \subseteq Untracked(d, {})
    BY <1>1, SteadyTracks DEF TrailInv
  <2> QED BY <2>1 DEF Untracked
<1>4. CASE Leave(p)
  BY <1>1, <1>4 DEF Leave, TrailLocal, Trailing, Ending
<1>5. CASE Start(p)
  <2>1. ~StartDown(p)
    BY DEF StartDown, NoDown
  <2>2. \/ pc'[p] = "list" /\ cmd'[p] = "up"
        \/ pc'[p] = "sweep" /\ cmd'[p] = "sweep"
    BY <1>1, <1>5, <2>1 DEF Start, StartUp, StartSweep
  <2> QED BY <2>2 DEF TrailLocal, Trailing, Ending
<1>6. CASE UpReconcile(p)
  <2>1. /\ manifest'[p].ids = {v \in ListTagged(MyRepo(p)) : IsLive(v)}
        /\ pc[p] = "list" /\ pc'[p] = "commit" /\ cmd' = cmd
    BY <1>1, <1>6 DEF UpReconcile, Reconcile
  <2>2. cmd[p] = "up"
    BY <2>1 DEF TrailInv, StatefileInv, CommandFitsLabel
  <2>3. \A u \in Vm : mintedBy[u] = d /\ Owed(u) => u \in manifest'[p].ids
    BY <2>1, <2>2, OwedIsShown DEF Trailing
  <2> QED BY <1>2, <1>3, <2>1, <2>3 DEF TrailLocal, Untracked, Trailing, Ending
<1>7. ASSUME manifest'[p] = manifest[p], cmd'[p] = cmd[p],
             pc[p] \notin Trailing \cup {"list"}, pc'[p] \notin Trailing \cup {"list"},
             pc'[p] \in Ending => pc[p] \in Ending
      PROVE  TrailLocal(p)'
  BY <1>2, <1>3, <1>7 DEF TrailLocal, Untracked
<1>8. CASE \/ UpCommit(p) \/ SweepListTagged(p) \/ SweepListAll(p) \/ SweepListArmed(p)
           \/ SweepPlan(p) \/ SweepDisarm(p) \/ UpLaunched(p)
           \/ UpCollectNames(p) \/ TidyList(p) \/ TidyDone(p) \/ TidyFails(p)
  <2>1. /\ manifest' = manifest /\ cmd' = cmd
        /\ \/ pc[p] \in {"commit", "sweep", "all", "armed", "runners", "disarm", "mint"}
              /\ pc'[p] \in {"sweep", "all", "armed", "runners", "execute", "watch"}
           \/ pc[p] \in {"schedules", "tidy", "tidying"}
              /\ pc'[p] \in {"tidy", "tidying", "forget"}
    BY <1>1, <1>8 DEF UpCommit, SweepListTagged, SweepListAll, SweepListArmed, SweepPlan,
       SweepDisarm, UpLaunched, UpCollectNames, TidyList, TidyDone, TidyFails, EndTidy
  <2> QED BY <1>7, <2>1 DEF Trailing, Ending
<1>9. ASSUME NEW v \in Vm,
             \/ SweepTerminate(p, v) \/ SweepDelete(p, v) \/ UpMint(p, v)
             \/ TeardownDisarm(p, v) \/ TidyDelete(p, v)
      PROVE  TrailLocal(p)'
  <2>1. /\ manifest' = manifest /\ cmd' = cmd
        /\ \/ pc[p] \in {"execute", "schedules", "tidying"} /\ pc' = pc
           \/ pc[p] = "mint" /\ pc'[p] = "launch"
    BY <1>1, <1>9 DEF SweepTerminate, SweepDelete, UpMint, TeardownDisarm, TidyDelete
  <2> QED BY <1>7, <2>1 DEF Trailing, Ending
<1>10. ASSUME NEW v \in Vm, SweepRecheck(p, v) PROVE TrailLocal(p)'
  <2>1. manifest' = manifest /\ cmd' = cmd /\ pc[p] = "execute"
    BY <1>10 DEF SweepRecheck
  <2>2. pc'[p] \in {"execute", "disarm"}
    <3>1. CASE v \in ShownLive
      BY <1>1, <1>10, <3>1 DEF SweepRecheck
    <3>2. CASE v \notin ShownLive
      BY <1>1, <1>10, <3>2 DEF SweepRecheck
    <3> QED BY <3>1, <3>2
  <2> QED BY <1>7, <2>1, <2>2 DEF Trailing, Ending
<1>11. CASE \/ UpNothingToLaunch(p) \/ UpDisown(p) \/ UpForget(p) \/ UpDetach(p) \/ Quit(p)
  BY <1>4, <1>11 DEF UpNothingToLaunch, UpDisown, UpForget, UpDetach, Quit
<1>12. CASE SweepDone(p)
  <2>1. Leave(p) \/ (manifest' = manifest /\ cmd' = cmd /\ pc[p] = "execute" /\ pc'[p] = "mint")
    BY <1>1, <1>12 DEF SweepDone
  <2> QED BY <1>4, <1>7, <2>1 DEF Trailing, Ending
<1>13. CASE UpArm(p) \/ UpArmFails(p)
  <2>1. /\ manifest' = manifest /\ cmd' = cmd /\ cur' = cur
        /\ pc[p] = "arm" /\ pc'[p] \in {"record", "disown"}
    BY <1>1, <1>13 DEF UpArm, UpArmFails
  <2> QED BY <1>2, <1>3, <2>1 DEF TrailLocal, Untracked, Trailing, Ending
<1>14. CASE UpRecord(p)
  <2>1. /\ manifest'[p].ids = manifest[p].ids \cup {cur[p]} /\ cmd' = cmd
        /\ pc[p] = "record" /\ pc'[p] = "mint"
    BY <1>1, <1>14 DEF UpRecord, Record
  <2> QED BY <1>2, <1>3, <2>1 DEF TrailLocal, Untracked, Trailing, Ending
<1>15. CASE UpFleetGone(p)
  <2>1. /\ manifest' = manifest /\ cmd' = cmd
        /\ pc[p] = "watch" /\ pc'[p] = "schedules"
        /\ ListTagged(MyRepo(p)) \cap manifest[p].ids = {}
    BY <1>1, <1>15 DEF UpFleetGone, Watched
  <2>2. cmd[p] = "up"
    BY <2>1 DEF TrailInv, StatefileInv, CommandFitsLabel
  <2>3. \A u \in Vm : mintedBy[u] = d /\ Owed(u) => u \in ListTagged(MyRepo(p))
    BY <2>1, <2>2, OwedIsShown DEF Trailing
  <2>4. \A u \in Vm : ~(mintedBy[u] = d /\ Owed(u))
    BY <1>2, <2>1, <2>2, <2>3 DEF TrailLocal, Untracked, Trailing
  <2> QED BY <1>2, <1>3, <2>1, <2>4 DEF TrailLocal, Untracked, Trailing, Ending
<1>16. CASE DownTerminate(p) \/ DownReadNames(p) \/ DownForget(p) \/ DownLeavesFile(p)
  <2>1. cmd[p] = "down"
    BY <1>16 DEF DownTerminate, DownReadNames, DownForget, DownLeavesFile, TrailInv,
       StatefileInv, CommandFitsLabel
  <2> QED BY <1>2, <2>1 DEF TrailLocal
<1> QED
  BY <1>5, <1>6, <1>8, <1>9, <1>10, <1>11, <1>12, <1>13, <1>14, <1>15, <1>16 DEF Progress

(* What a step that launches nothing writes leaves no more untracked. *)
LEMMA FilesKeepTrail ==
  ASSUME NoDown, TrailInv, Recedes, [Next]_vars, NEW d \in Dir
  PROVE  \A v, w \in Untracked(d, file[d].ids)' : v = w
<1>1. \A v, w \in Untracked(d, file[d].ids) : v = w
  BY DEF TrailInv, TrailsBy1
<1>2. \A u \in Vm : mintedBy'[u] = d /\ Owed(u)' => mintedBy[u] = d /\ Owed(u)
  <2>1. Untracked(d, {})' \subseteq Untracked(d, {})
    BY SteadyTracks DEF TrailInv
  <2> QED BY <2>1 DEF Untracked
<1>3. CASE file'[d] = file[d]
  BY <1>1, <1>2, <1>3 DEF Untracked
<1>4. ASSUME NEW p \in Proc, UpCommit(p) \/ UpRecord(p) \/ UpForget(p) \/ DownForget(p)
      PROVE  \A v, w \in Untracked(d, file[d].ids)' : v = w
  <2>1. TrailLocal(p)
    BY DEF TrailInv
  <2>2. CASE d # MyDir(p)
    BY <1>3, <1>4, <2>2 DEF UpCommit, UpRecord, UpForget, DownForget, Write, Delete, TrailInv,
       OwnInv, TypeOK, RepoStateTypeOK
  <2>3. CASE d = MyDir(p) /\ UpCommit(p)
    <3>1. file'[d] = manifest[p] /\ pc[p] = "commit"
      BY <2>3 DEF UpCommit, Write, TrailInv, OwnInv, TypeOK, RepoStateTypeOK
    <3>2. cmd[p] = "up"
      BY <3>1 DEF TrailInv, StatefileInv, CommandFitsLabel
    <3> QED BY <1>2, <2>1, <2>3, <3>1, <3>2 DEF TrailLocal, Untracked, Trailing
  <2>4. CASE d = MyDir(p) /\ UpRecord(p)
    <3>1. file'[d].ids = manifest[p].ids \cup {cur[p]} /\ pc[p] = "record"
      BY <2>4 DEF UpRecord, Record, Write, TrailInv, OwnInv, TypeOK, RepoStateTypeOK, FleetTypeOK
    <3> QED BY <1>2, <2>1, <2>4, <3>1 DEF TrailLocal, Untracked, Trailing
  <2>5. CASE d = MyDir(p) /\ UpForget(p)
    <3>1. pc[p] = "forget" /\ cmd[p] = "up"
      BY <2>5 DEF UpForget
    <3> QED BY <1>2, <2>1, <2>5, <3>1 DEF TrailLocal, Untracked, Ending
  <2>6. CASE DownForget(p)
    BY <2>1, <2>6 DEF DownForget, TrailLocal
  <2> QED BY <1>4, <2>2, <2>3, <2>4, <2>5, <2>6
<1>5. CASE \A p \in Proc : ~(UpCommit(p) \/ UpRecord(p) \/ UpForget(p) \/ DownForget(p))
  BY <1>3, <1>5, OnlyFourWrite
<1> QED BY <1>4, <1>5

(* A launch leaves one instance untracked: the lock says that nobody else's is. *)
LEMMA LaunchTrails ==
  ASSUME TrailInv, NEW p \in Proc, UpLaunch(p)
  PROVE  (\A d \in Dir : TrailsBy1(d)') /\ \A q \in Proc : TrailLocal(q)'
<1> DEFINE v == cur[p]
<1>1. /\ v \in Vm /\ mintedBy[v] = MyDir(p)
      /\ pc[p] = "launch" /\ pc' = [pc EXCEPT ![p] = "arm"]
      /\ UNCHANGED <<mintedBy, file, manifest, cmd, cur>>
  BY DEF UpLaunch, TrailInv, OwnInv, OwnLocal, Launching, TypeOK, FleetTypeOK, InHand, Launch,
         ghVars, stateVars, planVars
<1>2. \A u \in Vm : u # v /\ Owed(u)' => Owed(u)
  <2>1. \A u \in Vm : u # v => vm'[u] = vm[u] /\ armed'[u] = armed[u]
    BY <1>1 DEF UpLaunch, Launch, TrailInv, OwnInv, TypeOK, CloudTypeOK
  <2>2. \A q \in Proc : pc'[q] \in Trailing /\ cur'[q] # v => pc[q] \in Trailing
    BY <1>1
  <2> QED BY <1>1, <2>1, <2>2 DEF Owed
<1>3. cmd[p] = "up" /\ Holds(p) /\ file[MyDir(p)] = manifest[p]
  BY <1>1 DEF TrailInv, StatefileInv, CommandFitsLabel, LockIsHeld, ManifestOnDisk
<1>4. Untracked(MyDir(p), manifest[p].ids) = {}
  BY <1>1, <1>3 DEF TrailInv, TrailLocal, Trailing
<1> HIDE DEF v
<1>5. ASSUME NEW d \in Dir PROVE \A u, w \in Untracked(d, file[d].ids)' : u = w
  <2>1. \A u, w \in Untracked(d, file[d].ids) : u = w
    BY DEF TrailInv, TrailsBy1
  <2> QED BY <1>1, <1>2, <1>3, <1>4, <2>1 DEF Untracked
<1>6. ASSUME NEW q \in Proc PROVE TrailLocal(q)'
  <2>1. TrailLocal(q)
    BY DEF TrailInv
  <2>2. CASE q = p
    <3>1. pc'[q] = "arm"
      BY <1>1, <2>2 DEF TrailInv, OwnInv, TypeOK, FleetTypeOK
    <3> QED BY <1>1, <1>2, <1>4, <2>1, <2>2, <3>1 DEF TrailLocal, Untracked, Trailing, Ending, v
  <2>3. CASE q # p /\ cmd[q] = "up"
    <3>1. MyDir(q) # MyDir(p)
      BY <1>3, <2>3 DEF TrailInv, StatefileInv, LockIsHeld, Holds
    <3>2. pc'[q] = pc[q]
      BY <1>1, <2>3
    <3> QED BY <1>1, <1>2, <2>1, <3>1, <3>2 DEF TrailLocal, Untracked
  <2>4. CASE q # p /\ cmd[q] # "up"
    <3>1. pc'[q] = pc[q] /\ pc[q] \notin Trailing
      BY <1>1, <2>4 DEF TrailInv, StatefileInv, CommandFitsLabel, Trailing
    <3> QED BY <1>1, <2>1, <2>4, <3>1 DEF TrailLocal
  <2> QED BY <2>2, <2>3, <2>4
<1> QED BY <1>5, <1>6 DEF TrailsBy1

LEMMA TrailInit == NoDown /\ Init => TrailInv
<1> SUFFICES ASSUME Init PROVE TrailInv
  OBVIOUS
<1>1. FenceInv /\ OwnInv /\ StatefileInv
  BY FenceInit, OwnInit, TypeInit DEF Init, StatefileInv, CommandFitsLabel, LockIsHeld, ManifestOnDisk
<1>2. \A d : Untracked(d, file[d].ids) = {}
  BY DEF Init, CloudInit, Untracked, Owed
<1> QED
  BY <1>1, <1>2 DEF Init, TrailInv, TrailsBy1, TrailLocal, Trailing, Ending

LEMMA TrailStep == NoDown /\ TrailInv /\ [Next /\ ShownOnceArmed']_vars => TrailInv'
<1> SUFFICES ASSUME NoDown, TrailInv, [Next /\ ShownOnceArmed']_vars
             PROVE  TrailInv'
  OBVIOUS
<1>1. FenceInv' /\ OwnInv' /\ StatefileInv' /\ TypeOK
  BY FenceStep, OwnStep, StatefileStep DEF TrailInv, OwnInv
<1>2. CASE \E p \in Proc : UpLaunch(p)
  <2>1. PICK p \in Proc : UpLaunch(p)
    BY <1>2
  <2> QED BY <1>1, <2>1, LaunchTrails DEF TrailInv
<1>3. CASE \A p \in Proc : ~UpLaunch(p)
  <2>1. Recedes
    BY <1>3, StepRecedes DEF TrailInv
  <2>2. \A d \in Dir : TrailsBy1(d)'
    BY <2>1, FilesKeepTrail DEF TrailsBy1
  <2>3. \A p \in Proc : TrailLocal(p)'
    <3>1. CASE \E p \in Proc : Start(p) \/ Progress(p) \/ UpDetach(p) \/ Quit(p)
      <4>1. PICK p \in Proc : Start(p) \/ Progress(p) \/ UpDetach(p) \/ Quit(p)
        BY <3>1
      <4>2. TrailLocal(p)'
        BY <1>3, <2>1, <4>1, MoverKeepsTrail
      <4>3. ASSUME NEW q \in Proc, q # p PROVE TrailLocal(q)'
        BY <1>1, <2>1, <4>1, <4>3, OthersStay, SteadyKeepsTrail DEF TrailInv
      <4> QED BY <4>2, <4>3
    <3>2. CASE (\E v \in Vm : Environment(v)) \/ UNCHANGED vars
      <4>1. UNCHANGED localVars
        BY <3>2 DEF Environment, RunnerConnects, RunnerDrops, GitHubStep, CloudStep, vars
      <4> QED BY <2>1, <4>1, SteadyKeepsTrail DEF localVars, TrailInv
    <3> QED BY <3>1, <3>2 DEF Next
  <2> QED BY <1>1, <2>2, <2>3 DEF TrailInv
<1> QED BY <1>2, <1>3

(* Of the live and armed instances a directory launched, its statefile lacks at
   most one, whatever was killed and although a listing may not show yet what a
   killed up has left unarmed: up records each before it launches the next. *)
THEOREM TrailsByOne ==
  ASSUME NoDown PROVE PromptSpec => []StatefileTrailsByOne
<1>1. TrailInv => StatefileTrailsByOne
  BY DEF TrailInv, TrailsBy1, StatefileTrailsByOne, Untracked, Owed
<1>2. Init => TrailInv
  BY TrailInit
<1>3. TrailInv /\ [Next /\ ShownOnceArmed']_vars => TrailInv'
  BY TrailStep
<1> QED BY <1>1, <1>2, <1>3, PTL DEF PromptSpec

------------------------------------------------------------------------
(* A record outlives its instance, where no `down` runs and a listing shows what
   is armed. *)

(* What up has seen dead of the records it is about to drop, or to delete with
   the statefile. *)
RecordLocal(p) ==
  /\ cmd[p] # "down"
  /\ pc[p] = "commit" => \A v \in file[MyDir(p)].ids \ manifest[p].ids : ~IsLive(v)
  /\ cmd[p] = "up" /\ pc[p] \in Ending => \A v \in manifest[p].ids : ~IsLive(v)

(* Inductive: FenceInv says that a recorded instance was launched for this
   repository and that listings show it, so that one without it says it is dead. *)
RecordInv ==
  /\ FenceInv
  /\ StatefileInv
  /\ \A p \in Proc : RecordLocal(p)

(* No step brings a recorded instance to life. *)
LEMMA NoRevival ==
  ASSUME RecordInv, [Next]_vars, NEW v \in Vm, vm[v] # "absent", ~IsLive(v)
  PROVE  ~IsLive(v)'
<1>1. CASE Frame
  BY <1>1 DEF Frame
<1>2. CASE \E p \in Proc : UpLaunch(p)
  BY <1>2 DEF UpLaunch, Launch, RecordInv, FenceInv, LocalInv, TypeOK, CloudTypeOK, FleetTypeOK,
     InHand
<1> QED BY <1>1, <1>2, StepFrame DEF RecordInv

(* Nobody else writes the statefile of a running up. *)
LEMMA OthersLeaveFile ==
  ASSUME RecordInv, NEW p \in Proc, NEW q \in Proc, q # p, cmd[q] = "up",
         [Next]_vars, Start(p) \/ Progress(p) \/ UpDetach(p) \/ Quit(p)
  PROVE  file'[MyDir(q)] = file[MyDir(q)]
<1> USE DEF RecordInv
<1>1. cmd[p] \in {"up", "sweep"} => MyDir(q) # MyDir(p)
  BY DEF StatefileInv, LockIsHeld, Holds
<1>2. CASE UpCommit(p) \/ UpRecord(p) \/ UpForget(p) \/ DownForget(p)
  <2>1. cmd[p] = "up"
    BY <1>2 DEF UpCommit, UpRecord, UpForget, DownForget, StatefileInv, CommandFitsLabel,
       RecordLocal
  <2>2. file \in [Dir -> StateFile] /\ MyDir(q) \in Dir
    BY DirOfType DEF FenceInv, TypeOK, RepoStateTypeOK
  <2> QED BY <1>1, <1>2, <2>1, <2>2 DEF UpCommit, UpRecord, UpForget, DownForget, Write, Delete
<1>3. CASE ~(UpCommit(p) \/ UpRecord(p) \/ UpForget(p) \/ DownForget(p))
  <2> USE DEF stateVars
  <2>1. CASE Progress(p)
    BY <1>3, <2>1
       DEF Progress, UpReconcile, SweepListTagged, SweepListAll, SweepListArmed, SweepPlan,
           SweepDisarm, SweepDone, SweepTerminate, SweepRecheck, SweepDelete,
           UpNothingToLaunch, UpLaunch, UpArm, UpArmFails, UpDisown, UpLaunched, UpMint,
           UpFleetGone, UpCollectNames, DownTerminate, DownReadNames, DownLeavesFile,
           TeardownDisarm, TidyDelete, TidyList, TidyDone, TidyFails, EndTidy
  <2>2. CASE Start(p) \/ UpDetach(p) \/ Quit(p)
    BY <2>2 DEF Start, StartUp, StartSweep, StartDown, UpDetach, Quit
  <2> QED BY <2>1, <2>2
<1> QED BY <1>2, <1>3

(* The invocation that moves. *)
LEMMA MoverKeepsRecords ==
  ASSUME NoDown, RecordInv, [Next]_vars, NEW p \in Proc,
         Start(p) \/ Progress(p) \/ UpDetach(p) \/ Quit(p)
  PROVE  RecordLocal(p)'
<1>1. /\ pc \in [Proc -> Label] /\ manifest \in [Proc -> StateFile]
      /\ cmd \in [Proc -> Command \cup {"none"}] /\ cur \in [Proc -> Vm \cup {NoVm}]
      /\ manifest[p].ids \subseteq Vm /\ MyDir(p) \in Dir
      /\ file[MyDir(p)].ids \subseteq Vm
  BY DirOfType DEF RecordInv, FenceInv, TypeOK, FleetTypeOK, RepoStateTypeOK, StateFile
<1>2. RecordLocal(p) /\ Accounted(manifest[p], MyRepo(p)) /\ Accounted(file[MyDir(p)], MyRepo(p))
  BY <1>1 DEF RecordInv, FenceInv, LocalInv
<1>3. \A v \in Vm : vm[v] # "absent" /\ vm[v] # "live" => vm'[v] # "live"
  BY NoRevival
<1>4. \A v \in file[MyDir(p)].ids \cup manifest[p].ids :
        vm[v] = "live" => v \in ListTagged(MyRepo(p))
  BY <1>1, <1>2 DEF Accounted, Listed, ListTagged, ListAllTagged
<1>5. ASSUME cmd'[p] # "down", pc'[p] # "commit", pc'[p] \notin Ending
      PROVE  RecordLocal(p)'
  BY <1>5 DEF RecordLocal
<1>6. CASE Leave(p)
  BY <1>1, <1>5, <1>6 DEF Leave, Ending
<1>7. CASE Start(p)
  <2>1. ~StartDown(p)
    BY DEF StartDown, NoDown
  <2>2. cmd'[p] # "down" /\ pc'[p] \in {"list", "sweep"}
    BY <1>1, <1>7, <2>1 DEF Start, StartUp, StartSweep
  <2> QED BY <1>5, <2>2 DEF Ending
<1>8. CASE UpReconcile(p)
  <2>1. /\ manifest'[p].ids = {v \in ListTagged(MyRepo(p)) : IsLive(v)}
        /\ pc'[p] = "commit" /\ cmd' = cmd /\ vm' = vm /\ file' = file
    BY <1>1, <1>8 DEF UpReconcile, Reconcile, cloudVars, stateVars
  <2> QED BY <1>1, <1>2, <1>4, <2>1 DEF RecordLocal, Ending
<1>9. CASE \/ UpCommit(p) \/ SweepListTagged(p) \/ SweepListAll(p) \/ SweepListArmed(p)
           \/ SweepPlan(p) \/ SweepDisarm(p) \/ UpLaunch(p) \/ UpArm(p) \/ UpArmFails(p)
           \/ UpRecord(p) \/ UpLaunched(p) \/ \E v \in Vm : UpMint(p, v)
  <2>1. /\ cmd' = cmd
        /\ pc'[p] \in {"sweep", "all", "armed", "runners", "execute", "arm", "record",
                       "disown", "mint", "watch", "launch"}
    BY <1>1, <1>9 DEF UpCommit, SweepListTagged, SweepListAll, SweepListArmed, SweepPlan,
       SweepDisarm, UpLaunch, UpArm, UpArmFails, UpRecord, UpLaunched, UpMint
  <2> QED BY <1>2, <1>5, <2>1 DEF RecordLocal, Ending
<1>10. CASE \E v \in Vm : SweepTerminate(p, v) \/ SweepDelete(p, v) \/ SweepRecheck(p, v)
  <2>1. PICK v \in Vm : SweepTerminate(p, v) \/ SweepDelete(p, v) \/ SweepRecheck(p, v)
    BY <1>10
  <2>2. cmd' = cmd
    BY <2>1 DEF SweepTerminate, SweepDelete, SweepRecheck
  <2>3. pc'[p] \in {"execute", "disarm"}
    <3>1. CASE v \in ShownLive
      BY <1>1, <2>1, <3>1 DEF SweepTerminate, SweepDelete, SweepRecheck
    <3>2. CASE v \notin ShownLive
      BY <1>1, <2>1, <3>2 DEF SweepTerminate, SweepDelete, SweepRecheck
    <3> QED BY <3>1, <3>2
  <2> QED BY <1>2, <1>5, <2>2, <2>3 DEF RecordLocal, Ending
<1>11. CASE \/ UpNothingToLaunch(p) \/ UpDisown(p) \/ UpForget(p) \/ UpDetach(p) \/ Quit(p)
  BY <1>6, <1>11 DEF UpNothingToLaunch, UpDisown, UpForget, UpDetach, Quit
<1>12. CASE SweepDone(p)
  <2>1. Leave(p) \/ (cmd' = cmd /\ pc'[p] = "mint")
    BY <1>1, <1>12 DEF SweepDone
  <2> QED BY <1>2, <1>5, <1>6, <2>1 DEF RecordLocal, Ending
<1>13. CASE UpFleetGone(p)
  <2>1. /\ manifest' = manifest /\ cmd' = cmd /\ vm' = vm /\ pc'[p] = "schedules"
        /\ ListTagged(MyRepo(p)) \cap manifest[p].ids = {}
    BY <1>1, <1>13 DEF UpFleetGone, Watched, cloudVars
  <2> QED BY <1>1, <1>2, <1>4, <2>1 DEF RecordLocal
<1>14. CASE \/ UpCollectNames(p) \/ TidyList(p) \/ TidyDone(p) \/ TidyFails(p)
            \/ \E v \in Vm : TeardownDisarm(p, v) \/ TidyDelete(p, v)
  <2>1. /\ manifest' = manifest /\ cmd' = cmd
        /\ pc[p] \in Ending /\ pc'[p] \in Ending
    BY <1>1, <1>14 DEF UpCollectNames, TidyList, TidyDone, TidyFails, EndTidy, TeardownDisarm,
       TidyDelete, Ending
  <2> QED BY <1>1, <1>2, <1>3, <2>1 DEF RecordLocal, Accounted, Listed, Ending
<1>15. CASE DownTerminate(p) \/ DownReadNames(p) \/ DownForget(p) \/ DownLeavesFile(p)
  <2>1. cmd[p] = "down"
    BY <1>15 DEF DownTerminate, DownReadNames, DownForget, DownLeavesFile, RecordInv,
       StatefileInv, CommandFitsLabel
  <2> QED BY <1>2, <2>1 DEF RecordLocal
<1> QED
  BY <1>7, <1>8, <1>9, <1>10, <1>11, <1>12, <1>13, <1>14, <1>15 DEF Progress

LEMMA RecordStep == NoDown /\ RecordInv /\ [Next /\ ShownOnceArmed']_vars => RecordInv'
<1> SUFFICES ASSUME NoDown, RecordInv, [Next /\ ShownOnceArmed']_vars
             PROVE  RecordInv'
  OBVIOUS
<1>1. FenceInv' /\ StatefileInv' /\ TypeOK
  BY FenceStep, StatefileStep DEF RecordInv, FenceInv
<1>2. \A v \in Vm : vm[v] # "absent" /\ vm[v] # "live" => vm'[v] # "live"
  BY NoRevival
<1>3. ASSUME NEW q \in Proc,
             pc'[q] = pc[q], cmd'[q] = cmd[q], manifest'[q] = manifest[q],
             cmd[q] = "up" => file'[MyDir(q)] = file[MyDir(q)]
      PROVE  RecordLocal(q)'
  <2>1. /\ manifest[q].ids \subseteq Vm /\ file[MyDir(q)].ids \subseteq Vm
        /\ RecordLocal(q)
        /\ Accounted(manifest[q], MyRepo(q)) /\ Accounted(file[MyDir(q)], MyRepo(q))
    BY DirOfType DEF RecordInv, FenceInv, LocalInv, TypeOK, FleetTypeOK, RepoStateTypeOK, StateFile
  <2>2. pc[q] = "commit" => cmd[q] = "up"
    BY DEF RecordInv, StatefileInv, CommandFitsLabel
  <2> QED BY <1>2, <1>3, <2>1, <2>2 DEF RecordLocal, Accounted, Listed
<1>4. \A p \in Proc : RecordLocal(p)'
  <2>1. CASE \E p \in Proc : Start(p) \/ Progress(p) \/ UpDetach(p) \/ Quit(p)
    <3>1. PICK p \in Proc : Start(p) \/ Progress(p) \/ UpDetach(p) \/ Quit(p)
      BY <2>1
    <3>2. RecordLocal(p)'
      BY <3>1, MoverKeepsRecords
    <3>3. ASSUME NEW q \in Proc, q # p PROVE RecordLocal(q)'
      BY <1>1, <1>3, <3>1, <3>3, OthersStay, OthersLeaveFile
    <3> QED BY <3>2, <3>3
  <2>2. CASE (\E v \in Vm : Environment(v)) \/ UNCHANGED vars
    <3>1. UNCHANGED <<stateVars, localVars>>
      BY <2>2 DEF Environment, RunnerConnects, RunnerDrops, GitHubStep, CloudStep, vars
    <3> QED BY <1>3, <3>1 DEF stateVars, localVars
  <2> QED BY <2>1, <2>2 DEF Next
<1> QED BY <1>1, <1>4 DEF RecordInv

(* Without a `down` beside it, no reconciliation and no final tidy drops the
   record of an instance that still lives. *)
THEOREM PromptRecordsStay ==
  ASSUME NoDown PROVE PromptSpec => RecordsOutliveInstances
<1>1. Init => RecordInv
  <2> SUFFICES ASSUME Init PROVE RecordInv
    OBVIOUS
  <2>1. FenceInv /\ StatefileInv
    BY FenceInit, TypeInit DEF Init, StatefileInv, CommandFitsLabel, LockIsHeld, ManifestOnDisk
  <2> QED BY <2>1 DEF Init, RecordInv, RecordLocal, Ending
<1>2. RecordInv /\ [Next /\ ShownOnceArmed']_vars => RecordInv'
  BY RecordStep
<1>3. ASSUME RecordInv, [Next]_vars
      PROVE  [\A d \in Dir : \A v \in file[d].ids \ file'[d].ids : vm'[v] # "live"]_vars
  <2> SUFFICES ASSUME NEW d \in Dir, NEW v \in file[d].ids, v \notin file'[d].ids
               PROVE  vm'[v] # "live"
    OBVIOUS
  <2>1. v \in Vm /\ vm[v] # "absent" /\ Accounted(file[d], RepoOf[d])
    BY <1>3 DEF RecordInv, FenceInv, TypeOK, RepoStateTypeOK, StateFile, Accounted, Listed
  <2>2. SUFFICES vm[v] # "live"
    BY <1>3, <2>1, NoRevival
  <2>3. PICK p \in Proc : UpCommit(p) \/ UpRecord(p) \/ UpForget(p) \/ DownForget(p)
    BY <1>3, OnlyFourWrite
  <2>4. RecordLocal(p) /\ (cmd[p] = "up" /\ pc[p] \notin {"list", "commit"} => file[MyDir(p)] = manifest[p])
    BY <1>3 DEF RecordInv, StatefileInv, ManifestOnDisk
  <2>5. file \in [Dir -> StateFile] /\ d = MyDir(p)
    BY <1>3, <2>3 DEF RecordInv, FenceInv, TypeOK, RepoStateTypeOK, UpCommit, UpRecord,
       UpForget, DownForget, Write, Delete
  <2>6. CASE UpCommit(p)
    <3>1. v \notin manifest[p].ids
      BY <2>5, <2>6 DEF UpCommit, Write
    <3> QED BY <2>4, <2>5, <2>6, <3>1 DEF UpCommit, RecordLocal
  <2>7. CASE UpRecord(p)
    <3>1. v \notin manifest[p].ids \cup {cur[p]}
      BY <1>3, <2>5, <2>7 DEF UpRecord, Write, Record, RecordInv, FenceInv, TypeOK, FleetTypeOK
    <3>2. cmd[p] = "up" /\ pc[p] = "record"
      BY <1>3, <2>7 DEF UpRecord, RecordInv, StatefileInv, CommandFitsLabel
    <3> QED BY <2>4, <2>5, <3>1, <3>2
  <2>8. CASE UpForget(p) \/ DownForget(p)
    BY <2>4, <2>5, <2>8 DEF UpForget, DownForget, RecordLocal, Ending
  <2> QED BY <2>3, <2>6, <2>7, <2>8
<1> QED BY <1>1, <1>2, <1>3, PTL DEF PromptSpec, RecordsOutliveInstances
=======================================================================
