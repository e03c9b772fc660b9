---------------------------- MODULE Fleet ----------------------------
(* `burst up`, `burst sweep` and `burst down`, run at the same time by several
   invocations, against GitHub, the cloud and the statefiles.

   Every call that reaches outside the process is a step of its own, in the
   order the code makes them, so that anything may happen in between.  At every
   step an invocation may also end (Quit): killed, or by the error return the
   code has there. *)
EXTENDS Naturals, FiniteSets, GitHub, Cloud, RepoState

CONSTANTS
  MayRun,  \* [Proc -> SUBSET Command]: what each invocation may turn out to be
  NoVm

Command == {"up", "sweep", "down"}

ASSUME MayRunType == MayRun \in [Proc -> SUBSET Command]
ASSUME NoVmIsNone == NoVm \notin Vm

VARIABLES
  pc,        \* [Proc -> Label]: the call an invocation is about to make
  cmd,       \* [Proc -> Command \cup {"none"}]
  manifest,  \* [Proc -> StateFile]: up's StateFile in memory
  names,     \* [Proc -> SUBSET Vm]: `minted`, the names a tidy may judge
  view,      \* [Proc -> SUBSET Vm]: sweep_with's all_live
  reap,      \* [Proc -> SUBSET Vm]: instances left to terminate
  disarm,    \* [Proc -> SUBSET Vm]: schedules left to disarm
  dead,      \* [Proc -> SUBSET Vm]: registrations left to delete
  cur        \* [Proc -> Vm \cup {NoVm}]: the instance in hand

planVars == <<reap, disarm, dead>>
localVars == <<pc, cmd, manifest, names, view, planVars, cur>>
vars == <<ghVars, cloudVars, stateVars, localVars>>

Label ==
  {"new", "ended",                                         \* not yet, no longer
   "list", "commit",                                        \* up: reconcile
   "sweep", "all", "armed", "runners", "execute", "disarm", \* sweep_with
   "mint", "launch", "arm", "disown", "record", "watch",    \* up: the fleet
   "terminate", "schedules",                                \* tear down
   "tidy", "tidying", "forget"}                             \* final tidy

(* Where an invocation is in the middle of something with one instance. *)
InHand == {"disarm", "launch", "arm", "disown", "record"}

FleetTypeOK ==
  /\ pc \in [Proc -> Label]
  /\ cmd \in [Proc -> Command \cup {"none"}]
  /\ manifest \in [Proc -> StateFile]
  /\ names \in [Proc -> SUBSET Vm]
  /\ view \in [Proc -> SUBSET Vm]
  /\ reap \in [Proc -> SUBSET Vm]
  /\ disarm \in [Proc -> SUBSET Vm]
  /\ dead \in [Proc -> SUBSET Vm]
  /\ cur \in [Proc -> Vm \cup {NoVm}]
  /\ \A p \in Proc : pc[p] \in InHand => cur[p] \in Vm

(* Every variable keeps its type: the one type invariant of the composition. *)
TypeOK == GitHubTypeOK /\ CloudTypeOK /\ RepoStateTypeOK /\ FleetTypeOK

Init ==
  /\ GitHubInit /\ CloudInit /\ RepoStateInit
  /\ pc = [p \in Proc |-> "new"]
  /\ cmd = [p \in Proc |-> "none"]
  /\ manifest = [p \in Proc |-> Empty]
  /\ names = [p \in Proc |-> {}]
  /\ view = [p \in Proc |-> {}]
  /\ reap = [p \in Proc |-> {}]
  /\ disarm = [p \in Proc |-> {}]
  /\ dead = [p \in Proc |-> {}]
  /\ cur = [p \in Proc |-> NoVm]

MyDir(p) == DirOf[p]
MyRepo(p) == RepoOf[DirOf[p]]

At(p, l) == pc[p] = l
Goto(p, l) == pc' = [pc EXCEPT ![p] = l]

(* The process ends: its memory is gone, and its lock with it. *)
Leave(p) ==
  /\ Goto(p, "ended")
  /\ cmd' = [cmd EXCEPT ![p] = "none"]
  /\ manifest' = [manifest EXCEPT ![p] = Empty]
  /\ names' = [names EXCEPT ![p] = {}]
  /\ view' = [view EXCEPT ![p] = {}]
  /\ reap' = [reap EXCEPT ![p] = {}]
  /\ disarm' = [disarm EXCEPT ![p] = {}]
  /\ dead' = [dead EXCEPT ![p] = {}]
  /\ cur' = [cur EXCEPT ![p] = NoVm]
  /\ Unlock(p)

(* SIGKILL, an error return, a preflight that refuses or a prompt answered
   "no": nothing more is done, nothing is undone.  The three failures the code
   answers with more calls are ArmFails, TidyFails and DownLeavesFile. *)
Quit(p) ==
  /\ pc[p] \notin {"new", "ended"}
  /\ Leave(p)
  /\ UNCHANGED <<ghVars, cloudVars, file>>

------------------------------------------------------------------------
(* up, part one: lock, read, reconcile, write back. *)

StartUp(p) ==
  /\ "up" \in MayRun[p]
  /\ At(p, "new")
  /\ Lock(p)
  /\ Goto(p, "list")
  /\ cmd' = [cmd EXCEPT ![p] = "up"]
  /\ manifest' = [manifest EXCEPT ![p] = file[MyDir(p)]]
  /\ names' = [names EXCEPT ![p] = file[MyDir(p)].named]
  /\ UNCHANGED <<ghVars, cloudVars, file, view, planVars, cur>>

UpReconcile(p) ==
  /\ At(p, "list")
  /\ manifest' = [manifest EXCEPT ![p] =
       Reconcile(@, {v \in ListTagged(MyRepo(p)) : IsLive(v)})]
  /\ Goto(p, "commit")
  /\ UNCHANGED <<ghVars, cloudVars, stateVars, cmd, names, view, planVars, cur>>

UpCommit(p) ==
  /\ At(p, "commit")
  /\ Write(MyDir(p), manifest[p])
  /\ Goto(p, "sweep")
  /\ UNCHANGED <<ghVars, cloudVars, lock, cmd, manifest, names, view, planVars, cur>>

------------------------------------------------------------------------
(* sweep, alone or as up's sweep-on-entry: three or four listings, a plan over
   them, and its execution. *)

StartSweep(p) ==
  /\ "sweep" \in MayRun[p]
  /\ At(p, "new")
  /\ Lock(p)
  /\ Goto(p, "sweep")
  /\ cmd' = [cmd EXCEPT ![p] = "sweep"]
  /\ names' = [names EXCEPT ![p] = file[MyDir(p)].named]
  /\ UNCHANGED <<ghVars, cloudVars, file, manifest, view, planVars, cur>>

MutSweepListTagged(p) ==
  /\ At(p, "sweep")
  /\ reap' = [reap EXCEPT ![p] = ListAllTagged]
  /\ Goto(p, "all")
  /\ UNCHANGED <<ghVars, cloudVars, stateVars, cmd, manifest, names, view, disarm, dead, cur>>

SweepListTagged(p) ==
  /\ At(p, "sweep")
  /\ reap' = [reap EXCEPT ![p] = ListTagged(MyRepo(p))]
  /\ Goto(p, "all")
  /\ UNCHANGED <<ghVars, cloudVars, stateVars, cmd, manifest, names, view, disarm, dead, cur>>

SweepListAll(p) ==
  /\ At(p, "all")
  /\ view' = [view EXCEPT ![p] = ShownLive]
  /\ Goto(p, "armed")
  /\ UNCHANGED <<ghVars, cloudVars, stateVars, cmd, manifest, names, planVars, cur>>

(* The orphans of sweep::plan: armed, and not live in the listing made before. *)
SweepListArmed(p) ==
  /\ At(p, "armed")
  /\ disarm' = [disarm EXCEPT ![p] = ListArmedKills \ view[p]]
  /\ view' = [view EXCEPT ![p] = {}]
  /\ Goto(p, "runners")
  /\ UNCHANGED <<ghVars, cloudVars, stateVars, cmd, manifest, names, reap, dead, cur>>

(* The rest of sweep::plan: of the instances listed it keeps those expired by
   now (a missing or garbled expiry counts as passed), of the registrations the
   dead ones among the names in the statefile. *)
SweepPlan(p) ==
  /\ At(p, "runners")
  /\ reap' = [reap EXCEPT ![p] = {v \in @ : expired[v]}]
  /\ dead' = [dead EXCEPT ![p] = DeadRegistrations(names[p])]
  /\ names' = [names EXCEPT ![p] = {}]
  /\ Goto(p, "execute")
  /\ UNCHANGED <<ghVars, cloudVars, stateVars, cmd, manifest, view, disarm, cur>>

SweepTerminate(p, v) ==
  /\ At(p, "execute")
  /\ v \in reap[p]
  /\ Terminate({v})
  /\ reap' = [reap EXCEPT ![p] = @ \ {v}]
  /\ UNCHANGED <<ghVars, stateVars, pc, cmd, manifest, names, view, disarm, dead, cur>>

MutSweepRecheck(p, v) ==
  /\ At(p, "execute")
  /\ reap[p] = {}
  /\ v \in disarm[p]
  /\ disarm' = [disarm EXCEPT ![p] = @ \ {v}]
  /\ cur' = [cur EXCEPT ![p] = v]
  /\ Goto(p, "disarm")
  /\ UNCHANGED <<ghVars, cloudVars, stateVars, cmd, manifest, names, view, reap, dead>>

(* Right before a disarm: list again, and leave the schedule of an instance
   that has appeared since. *)
SweepRecheck(p, v) ==
  /\ At(p, "execute")
  /\ reap[p] = {}
  /\ v \in disarm[p]
  /\ disarm' = [disarm EXCEPT ![p] = @ \ {v}]
  /\ \/ /\ v \in ShownLive
        /\ UNCHANGED <<pc, cur>>
     \/ /\ v \notin ShownLive
        /\ cur' = [cur EXCEPT ![p] = v]
        /\ Goto(p, "disarm")
  /\ UNCHANGED <<ghVars, cloudVars, stateVars, cmd, manifest, names, view, reap, dead>>

SweepDisarm(p) ==
  /\ At(p, "disarm")
  /\ DisarmKill(cur[p])
  /\ cur' = [cur EXCEPT ![p] = NoVm]
  /\ Goto(p, "execute")
  /\ UNCHANGED <<ghVars, stateVars, cmd, manifest, names, view, planVars>>

SweepDelete(p, v) ==
  /\ At(p, "execute")
  /\ reap[p] = {} /\ disarm[p] = {}
  /\ v \in dead[p]
  /\ DeleteRunner(v)
  /\ dead' = [dead EXCEPT ![p] = @ \ {v}]
  /\ UNCHANGED <<cloudVars, stateVars, pc, cmd, manifest, names, view, reap, disarm, cur>>

(* `burst sweep` ends here; up goes on to launch. *)
SweepDone(p) ==
  /\ At(p, "execute")
  /\ reap[p] = {} /\ disarm[p] = {} /\ dead[p] = {}
  /\ \/ /\ cmd[p] = "sweep"
        /\ Leave(p)
        /\ UNCHANGED file
     \/ /\ cmd[p] = "up"
        /\ Goto(p, "mint")
        /\ UNCHANGED <<stateVars, cmd, manifest, names, view, planVars, cur>>
  /\ UNCHANGED <<ghVars, cloudVars>>

------------------------------------------------------------------------
(* up, part two: launch_fleet, one VM at a time.  How many is the size less
   what quota refuses: any number, so the loop may end after any round. *)

(* Nothing queued, or no quota, and no fleet to watch. *)
UpNothingToLaunch(p) ==
  /\ At(p, "mint")
  /\ manifest[p].ids = {}
  /\ Leave(p)
  /\ UNCHANGED <<ghVars, cloudVars, file>>

MutUpMint(p, v) ==
  /\ At(p, "mint")
  /\ MintJitConfig(v, MyDir(p))
  /\ Goto(p, "launch")
  /\ UNCHANGED <<cloudVars, stateVars, cmd, manifest, names, view, planVars, cur>>

UpMint(p, v) ==
  /\ At(p, "mint")
  /\ MintJitConfig(v, MyDir(p))
  /\ cur' = [cur EXCEPT ![p] = v]
  /\ Goto(p, "launch")
  /\ UNCHANGED <<cloudVars, stateVars, cmd, manifest, names, view, planVars>>

UpLaunch(p) ==
  /\ At(p, "launch")
  /\ Launch(cur[p], MyRepo(p))
  /\ Goto(p, "arm")
  /\ UNCHANGED <<ghVars, stateVars, cmd, manifest, names, view, planVars, cur>>

MutUpArm(p) ==
  /\ At(p, "arm")
  /\ Goto(p, "record")
  /\ UNCHANGED <<ghVars, cloudVars, stateVars, cmd, manifest, names, view, planVars, cur>>

UpArm(p) ==
  /\ At(p, "arm")
  /\ ArmKill(cur[p])
  /\ Goto(p, "record")
  /\ UNCHANGED <<ghVars, stateVars, cmd, manifest, names, view, planVars, cur>>

(* An error, from a schedule that was not created or from a lost reply. *)
UpArmFails(p) ==
  /\ At(p, "arm")
  /\ ArmKill(cur[p]) \/ UNCHANGED cloudVars
  /\ Goto(p, "disown")
  /\ UNCHANGED <<ghVars, stateVars, cmd, manifest, names, view, planVars, cur>>

(* The instance that could not be fenced dies now, and up with it. *)
UpDisown(p) ==
  /\ At(p, "disown")
  /\ Terminate({cur[p]})
  /\ Leave(p)
  /\ UNCHANGED <<ghVars, file>>

MutUpRecord(p) ==
  /\ At(p, "record")
  /\ manifest' = [manifest EXCEPT ![p] = Record(@, cur[p])]
  /\ cur' = [cur EXCEPT ![p] = NoVm]
  /\ Goto(p, "mint")
  /\ UNCHANGED <<ghVars, cloudVars, stateVars, cmd, names, view, planVars>>

UpRecord(p) ==
  /\ At(p, "record")
  /\ manifest' = [manifest EXCEPT ![p] = Record(@, cur[p])]
  /\ Write(MyDir(p), manifest'[p])
  /\ cur' = [cur EXCEPT ![p] = NoVm]
  /\ Goto(p, "mint")
  /\ UNCHANGED <<ghVars, cloudVars, lock, cmd, names, view, planVars>>

UpLaunched(p) ==
  /\ At(p, "mint")
  /\ manifest[p].ids # {}
  /\ Goto(p, "watch")
  /\ UNCHANGED <<ghVars, cloudVars, stateVars, cmd, manifest, names, view, planVars, cur>>

------------------------------------------------------------------------
(* up, part three: watch, then the final tidy. *)

Watched(p) == ListTagged(MyRepo(p)) \cap manifest[p].ids

(* A poll that shows part of the fleet changes nothing; Ctrl-C is only looked
   at after one. *)
UpDetach(p) ==
  /\ At(p, "watch")
  /\ Watched(p) # {}
  /\ Leave(p)
  /\ UNCHANGED <<ghVars, cloudVars, file>>

MutUpFleetGone(p) ==
  /\ At(p, "watch")
  /\ ~(manifest[p].ids \subseteq Watched(p))
  /\ disarm' = [disarm EXCEPT ![p] = manifest[p].ids]
  /\ Goto(p, "schedules")
  /\ UNCHANGED <<ghVars, cloudVars, stateVars, cmd, manifest, names, view, reap, dead, cur>>

UpFleetGone(p) ==
  /\ At(p, "watch")
  /\ Watched(p) = {}
  /\ disarm' = [disarm EXCEPT ![p] = manifest[p].ids]
  /\ Goto(p, "schedules")
  /\ UNCHANGED <<ghVars, cloudVars, stateVars, cmd, manifest, names, view, reap, dead, cur>>

UpCollectNames(p) ==
  /\ At(p, "schedules")
  /\ cmd[p] = "up"
  /\ disarm[p] = {}
  /\ names' = [names EXCEPT ![p] = manifest[p].named]
  /\ Goto(p, "tidy")
  /\ UNCHANGED <<ghVars, cloudVars, stateVars, cmd, manifest, view, planVars, cur>>

UpForget(p) ==
  /\ At(p, "forget")
  /\ cmd[p] = "up"
  /\ Delete(MyDir(p))
  /\ Leave(p)
  /\ UNCHANGED <<ghVars, cloudVars>>

------------------------------------------------------------------------
(* down: terminate all that is listed, without the lock; forget the statefile
   if nobody holds it. *)

(* The listing and the prompt; an empty listing ends the command at once. *)
StartDown(p) ==
  /\ "down" \in MayRun[p]
  /\ At(p, "new")
  /\ ListTagged(MyRepo(p)) # {}
  /\ reap' = [reap EXCEPT ![p] = ListTagged(MyRepo(p))]
  /\ cmd' = [cmd EXCEPT ![p] = "down"]
  /\ Goto(p, "terminate")
  /\ UNCHANGED <<ghVars, cloudVars, stateVars, manifest, names, view, disarm, dead, cur>>

MutDownTerminate(p) ==
  /\ At(p, "terminate")
  /\ reap' = [reap EXCEPT ![p] = {}]
  /\ disarm' = [disarm EXCEPT ![p] = reap[p]]
  /\ Goto(p, "schedules")
  /\ UNCHANGED <<ghVars, cloudVars, stateVars, cmd, manifest, names, view, dead, cur>>

DownTerminate(p) ==
  /\ At(p, "terminate")
  /\ Terminate(reap[p])
  /\ reap' = [reap EXCEPT ![p] = {}]
  /\ disarm' = [disarm EXCEPT ![p] = reap[p]]
  /\ Goto(p, "schedules")
  /\ UNCHANGED <<ghVars, stateVars, cmd, manifest, names, view, dead, cur>>

MutTeardownDisarm(p, v) ==
  /\ At(p, "schedules")
  /\ v \in disarm[p]
  /\ DisarmKill(v)
  /\ UNCHANGED <<ghVars, stateVars, localVars>>

(* The schedules, one call each: down's teardown and up's final tidy. *)
TeardownDisarm(p, v) ==
  /\ At(p, "schedules")
  /\ v \in disarm[p]
  /\ DisarmKill(v)
  /\ disarm' = [disarm EXCEPT ![p] = @ \ {v}]
  /\ UNCHANGED <<ghVars, stateVars, pc, cmd, manifest, names, view, reap, dead, cur>>

(* An unreadable statefile is only a warning, and no names. *)
DownReadNames(p) ==
  /\ At(p, "schedules")
  /\ cmd[p] = "down"
  /\ disarm[p] = {}
  /\ \E known \in {file[MyDir(p)].named, {}} : names' = [names EXCEPT ![p] = known]
  /\ Goto(p, "tidy")
  /\ UNCHANGED <<ghVars, cloudVars, stateVars, cmd, manifest, view, planVars, cur>>

MutDownForget(p) ==
  /\ At(p, "forget")
  /\ cmd[p] = "down"
  /\ Delete(MyDir(p))
  /\ Leave(p)
  /\ UNCHANGED <<ghVars, cloudVars>>

(* Lock, delete, unlock: only the holder of the lock writes, so one step. *)
DownForget(p) ==
  /\ At(p, "forget")
  /\ cmd[p] = "down"
  /\ LockFree(MyDir(p))
  /\ Delete(MyDir(p))
  /\ Leave(p)
  /\ UNCHANGED <<ghVars, cloudVars>>

DownLeavesFile(p) ==
  /\ At(p, "forget")
  /\ cmd[p] = "down"
  /\ ~LockFree(MyDir(p))
  /\ Leave(p)
  /\ UNCHANGED <<ghVars, cloudVars, file>>

------------------------------------------------------------------------
(* tidy_dead_registrations, best effort, for up and for down. *)

TidyList(p) ==
  /\ At(p, "tidy")
  /\ dead' = [dead EXCEPT ![p] = DeadRegistrations(names[p])]
  /\ Goto(p, "tidying")
  /\ UNCHANGED <<ghVars, cloudVars, stateVars, cmd, manifest, names, view, reap, disarm, cur>>

TidyDelete(p, v) ==
  /\ At(p, "tidying")
  /\ v \in dead[p]
  /\ DeleteRunner(v)
  /\ dead' = [dead EXCEPT ![p] = @ \ {v}]
  /\ UNCHANGED <<cloudVars, stateVars, pc, cmd, manifest, names, view, reap, disarm, cur>>

EndTidy(p) ==
  /\ dead' = [dead EXCEPT ![p] = {}]
  /\ names' = [names EXCEPT ![p] = {}]
  /\ Goto(p, "forget")
  /\ UNCHANGED <<ghVars, cloudVars, stateVars, cmd, manifest, view, reap, disarm, cur>>

TidyDone(p) ==
  /\ At(p, "tidying")
  /\ dead[p] = {}
  /\ EndTidy(p)

(* The listing or a delete fails: a warning is printed, and the command goes on
   as if the tidy were done. *)
TidyFails(p) ==
  /\ \/ At(p, "tidy") /\ names[p] # {}
     \/ At(p, "tidying") /\ dead[p] # {}
  /\ EndTidy(p)

------------------------------------------------------------------------
(* What moves by itself. *)

(* An agent registers only from a running VM, and only while GitHub still has
   the registration its JIT configuration names. *)
RunnerConnects(v) ==
  /\ IsLive(v)
  /\ reg[v] = "offline"
  /\ reg' = [reg EXCEPT ![v] = "connected"]
  /\ UNCHANGED <<mintedBy, cloudVars, stateVars, localVars>>

(* A runner shows as offline once its agent has ended, with its VM or before
   it; one at work stays busy until GitHub gives its job up. *)
RunnerDrops(v) ==
  /\ reg[v] = "connected"
  /\ reg' = [reg EXCEPT ![v] = "offline"]
  /\ UNCHANGED <<mintedBy, cloudVars, stateVars, localVars>>

GitHubStep(v) == RunnerFinishes(v) /\ UNCHANGED <<cloudVars, stateVars, localVars>>

CloudStep(v) ==
  /\ \/ PowerOff(v) \/ Terminated(v) \/ Expire(v) \/ KillFires(v)
     \/ BecomesVisible(v)
  /\ UNCHANGED <<ghVars, stateVars, localVars>>

Environment(v) ==
  RunnerConnects(v) \/ RunnerDrops(v) \/ GitHubStep(v) \/ CloudStep(v)

(* A step an invocation takes towards its end. *)
Progress(p) ==
  \/ UpReconcile(p) \/ UpCommit(p)
  \/ SweepListTagged(p) \/ SweepListAll(p) \/ SweepListArmed(p)
  \/ SweepPlan(p) \/ SweepDisarm(p) \/ SweepDone(p)
  \/ \E v \in Vm : SweepTerminate(p, v) \/ SweepRecheck(p, v) \/ SweepDelete(p, v)
  \/ UpNothingToLaunch(p) \/ UpLaunch(p) \/ UpArm(p) \/ UpArmFails(p)
  \/ UpDisown(p) \/ UpRecord(p) \/ UpLaunched(p)
  \/ \E v \in Vm : UpMint(p, v)
  \/ UpFleetGone(p) \/ UpCollectNames(p) \/ UpForget(p)
  \/ DownTerminate(p) \/ DownReadNames(p) \/ DownForget(p) \/ DownLeavesFile(p)
  \/ \E v \in Vm : TeardownDisarm(p, v) \/ TidyDelete(p, v)
  \/ TidyList(p) \/ TidyDone(p) \/ TidyFails(p)

Start(p) == StartUp(p) \/ StartSweep(p) \/ StartDown(p)

Next ==
  \/ \E p \in Proc : Start(p) \/ Progress(p) \/ UpDetach(p) \/ Quit(p)
  \/ \E v \in Vm : Environment(v)

Spec == Init /\ [][Next]_vars

(* What the fence needs of EC2's listings: by the time a live instance has its
   kill schedule, DescribeInstances shows it. *)
ShownOnceArmed == \A v \in Vm : IsLive(v) /\ armed[v] => seen[v]

PromptSpec == Init /\ [][Next /\ ShownOnceArmed']_vars

(* up has adopted instances its statefile does not record, and waits for a yes
   before it writes them down; it holds the lock meanwhile. *)
Asks(p) == At(p, "commit") /\ ~(manifest[p].ids \subseteq file[MyDir(p)].ids)

(* What may be counted on: an invocation that is not killed gets on with its
   calls (each returns or times out), the clock reaches every expiry, the
   scheduler fires, EC2 finishes a termination and shows an instance in the
   end.  Nothing is assumed of the VMs themselves: a wedged one never powers
   off.  Nobody has to start a command, answer a prompt, press Ctrl-C or die. *)
Fairness ==
  /\ \A p \in Proc : WF_vars(~Asks(p) /\ Progress(p))
  /\ \A v \in Vm :
       /\ WF_vars(BecomesVisible(v) /\ UNCHANGED <<ghVars, stateVars, localVars>>)
       /\ WF_vars(Expire(v) /\ UNCHANGED <<ghVars, stateVars, localVars>>)
       /\ WF_vars(KillFires(v) /\ UNCHANGED <<ghVars, stateVars, localVars>>)
       /\ WF_vars(Terminated(v) /\ UNCHANGED <<ghVars, stateVars, localVars>>)

FairSpec == PromptSpec /\ Fairness
------------------------------------------------------------------------
(* Properties. *)

(* A kill schedule goes away only with its instance: no step of a sweep, a
   final tidy or a teardown disarms a live one (sweep.rs:114-127, up.rs:345-350,
   down.rs:35-41). *)
NeverDisarmLive ==
  [][\A v \in Vm : armed[v] /\ ~armed'[v] => vm'[v] # "live"]_vars

(* An instance the statefile records under a name this host minted has its
   kill schedule for as long as it lives: it is recorded only once it is armed
   (up.rs:97-122), and nobody disarms it. *)
NamedIsFenced ==
  \A d \in Dir : \A v \in file[d].named : IsLive(v) => armed[v]

(* From its write after reconciliation to the end, up's manifest is what the
   statefile says: nobody else on this host writes or deletes the file under a
   running up, not even down (up.rs:256-260, down.rs:100-108). *)
ManifestOnDisk ==
  \A p \in Proc :
    cmd[p] = "up" /\ pc[p] \notin {"list", "commit"} => file[MyDir(p)] = manifest[p]

(* The statefile trails reality by at most one: of the live and armed instances
   this directory launched, at most one is in no record of it, whatever was
   killed and whatever failed (up.rs:34-37).  Of those a killed up left without
   a schedule a lagging listing may hide more: OneLeftPerUp counts them. *)
StatefileTrailsByOne ==
  \A d \in Dir :
    \A v, w \in {u \in Vm : /\ mintedBy[u] = d /\ IsLive(u) /\ armed[u]
                            /\ u \notin file[d].ids} : v = w

(* A record is dropped, or the statefile deleted, only once its instance is
   dead: up's statefile stays as the signal by which the next up adopts
   (up.rs:338-344). *)
RecordsOutliveInstances ==
  [][\A d \in Dir : \A v \in file[d].ids \ file'[d].ids : vm'[v] # "live"]_vars

(* Every name a host records, holds for a tidy or is about to delete was minted
   by that host: a registration that may be another host's booting runner is
   never judged (github.rs:54-57, reconcile.rs:48-50). *)
NamesAreOwn ==
  /\ \A d \in Dir : \A v \in file[d].named : mintedBy[v] = d
  /\ \A p \in Proc : \A v \in names[p] \cup dead[p] : mintedBy[v] = MyDir(p)

(* Whose death the calls of invocation p may bring about: an instance of its own
   repository that p tears down, that is past its expiry, or that p has launched
   itself and could not fence, and so never recorded. *)
MayEnd(p, v) ==
  /\ tag[v] = MyRepo(p)
  /\ \/ cmd[p] = "down"
     \/ expired[v]
     \/ mintedBy[v] = MyDir(p) /\ v \notin file[MyDir(p)].ids

(* No command ends an instance that is not its to end: a sweep beside other
   hosts and repositories of the account, at work on listings that may be old
   by now, only what has expired; an up nothing else but the launch it gives up
   (sweep.rs:38-41, sweep.rs:98-113, up.rs:97-116, down.rs:35-41). *)
EndsOnlyItsOwn ==
  [][\A v \in Vm : IsLive(v) /\ ~IsLive(v)' =>
       \A p \in Proc : Progress(p) => MayEnd(p, v)]_vars

(* Where up has a launched instance in hand that it has not armed yet. *)
Arming == {"arm", "disown"}

(* The live instances of directory d without a schedule, less those that a
   running up is about to arm or to terminate. *)
Left(d) ==
  {v \in Vm : /\ mintedBy[v] = d /\ IsLive(v) /\ ~armed[v]
              /\ \A p \in Proc : pc[p] \in Arming => cur[p] # v}

EndedUps(d) == {p \in Proc : DirOf[p] = d /\ "up" \in MayRun[p] /\ pc[p] = "ended"}

(* What can be left to run unfenced is bounded: no up leaves more than one
   instance behind without its schedule, the one it had in hand when it was
   killed or its calls failed (up.rs:63-122). *)
OneLeftPerUp ==
  \A d \in Dir : Cardinality(Left(d)) <= Cardinality(EndedUps(d))

(* The labels in the order of a command, <<phase, turn within a loop>>. *)
Place ==
  [new |-> <<0, 0>>, list |-> <<1, 0>>, commit |-> <<2, 0>>, sweep |-> <<3, 0>>,
   all |-> <<4, 0>>, armed |-> <<5, 0>>, runners |-> <<6, 0>>,
   disarm |-> <<7, 0>>, execute |-> <<7, 1>>,
   launch |-> <<8, 0>>, arm |-> <<8, 1>>, disown |-> <<8, 2>>, record |-> <<8, 2>>,
   mint |-> <<8, 3>>, watch |-> <<9, 0>>, terminate |-> <<10, 0>>,
   schedules |-> <<11, 0>>, tidy |-> <<12, 0>>, tidying |-> <<13, 0>>,
   forget |-> <<14, 0>>, ended |-> <<15, 0>>]

Unminted == {v \in Vm : FreshName(v)}

(* The work left to invocation p: its plan shrinks, or stays as it is. *)
PlanShrinks(p) ==
  /\ reap'[p] \subseteq reap[p] /\ disarm'[p] \subseteq disarm[p] /\ dead'[p] \subseteq dead[p]
  /\ <<reap'[p], disarm'[p], dead'[p]>> # <<reap[p], disarm[p], dead[p]>>
PlanStays(p) == <<reap'[p], disarm'[p], dead'[p]>> = <<reap[p], disarm[p], dead[p]>>

(* p is nearer to its end: a fresh name is used up; or a phase is over; or, in
   the same one, a piece of the plan is done; or a turn of a loop is. *)
Advances(p) ==
  \/ pc[p] = "mint" /\ Unminted' # Unminted
  \/ Place[pc[p]][1] < Place[pc'[p]][1]
  \/ /\ Place[pc[p]][1] = Place[pc'[p]][1]
     /\ PlanShrinks(p) \/ (PlanStays(p) /\ Place[pc[p]][2] < Place[pc'[p]][2])

(* Every call brings the command that makes it nearer to its end, and no step
   of anybody sets another back: what a plan lists, and what a loop of launches,
   disarms or deletes goes through, is used up (sweep.rs:98-150,
   up.rs:63-122, down.rs:35-70). *)
EveryCallAdvances ==
  [][/\ Unminted' \subseteq Unminted
     /\ \A p \in Proc :
          /\ Progress(p) => Advances(p)
          /\ Advances(p) \/ (pc'[p] = pc[p] /\ PlanStays(p))]_vars

(* An instance that was ever fenced dies, by the schedule alone if need be: no
   CLI has to come back and the VM's own timers may all be dead
   (aws.rs:1231-1306, design-proposal.md's cleanup layers). *)
FencedDies ==
  \A v \in Vm : (IsLive(v) /\ armed[v]) ~> ~IsLive(v)

(* A command ends by itself, or waits for the answer to its prompt (up.rs:239-
   249); up's watch can only hang on an instance that is not fenced, such as one
   adopted from a host that was killed before it armed the schedule
   (up.rs:156-183). *)
CommandsEnd ==
  \A p \in Proc :
    pc[p] \notin {"new", "ended"} ~>
      \/ pc[p] = "ended"
      \/ Asks(p)
      \/ \E v \in manifest[p].ids : IsLive(v) /\ ~armed[v]

(* Each instance goes through the stages of the abstract specification Fence. *)
stageOf(v) ==
  CASE vm[v] = "absent"        -> "absent"
    [] IsLive(v) /\ ~armed[v]  -> "exposed"
    [] IsLive(v) /\ armed[v]   -> "fenced"
    [] OTHER                   -> "dead"

F == INSTANCE Fence WITH stage <- [v \in Vm |-> stageOf(v)]

(* The three commands together implement Fence, in every interleaving. *)
ImplementsFence == F!Spec

------------------------------------------------------------------------
(* What the comments and messages of the code say, and the code does not keep:
   each of these is refuted by a run. *)

(* "a SIGKILL between any two calls leaves only tag-discoverable, kill-armed
   residue" (up.rs:36-37): a live instance without a schedule is in the hands
   of a running up. *)
KilledUpLeavesFenced ==
  \A v \in Vm : IsLive(v) /\ ~armed[v] => \E p \in Proc : cur[p] = v

(* "what remains are never-connected mints (VM died before registering)"
   (github.rs:53-54): a registration deleted while offline belongs to a VM that
   is not running. *)
DeletesOnlyDead ==
  [][\A v \in Vm : reg[v] = "offline" /\ reg'[v] = "deleted" => ~IsLive(v)]_vars
=======================================================================
