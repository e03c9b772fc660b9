----------------------------- MODULE Entry -----------------------------
(* What a command of burst does before it touches a fleet (src/main.rs,
   commands/image.rs) and how up decides how many VMs to launch (commands/up.rs,
   github.rs, aws.rs), with several invocations on different hosts at once.
   Each runs once.  What Fleet and Bake model in detail is one step or none
   here: adopting and sweeping, baking, watching; a launched VM counts only as
   vCPUs in use. *)
EXTENDS Substrate, Queue

CONSTANTS
  CommandsOf,  \* [Proc -> SUBSET Command]
  Toml,        \* contents of burst.toml
  MaxN,        \* the largest N of "burst up N"
  ImageGb,     \* size of the root volume the image needs
  Vcpus,       \* of the fleet's instance type
  Others,      \* vCPUs of running instances that are not burst's
  Quota        \* the account's vCPU quota

VARIABLES
  cmd,       \* [Proc -> Command \cup {"none"}]
  page,      \* [Proc -> Nat]: the page of runs to ask for, 0 outside the listing
  ids,       \* [Proc -> [Run -> Nat]]: how often a run was listed, less its jobs requests
  shifted,   \* [Proc -> BOOLEAN]: a run arrived during its listing
  want,      \* [Proc -> Nat]: jobs counted, VMs requested, then VMs still to launch
  adopted,   \* [Proc -> BOOLEAN]: its manifest had live instances
  launched,  \* [Proc -> BOOLEAN]: it launched a VM
  quiet,     \* [Proc -> BOOLEAN]: nothing was pending when it read the headroom, and
             \* nobody else has launched since
  pending,   \* VMs EC2 has accepted that do not run yet
  running    \* VMs that run

listVars == <<page, ids, shifted>>
sizeVars == <<want, adopted, launched, quiet>>
usageVars == <<pending, running>>
vars == <<substrateVars, queueVars, cmd, listVars, sizeVars, usageVars>>

Command == {"up", "auto", "bake", "sweep", "down", "status"}

(* The labels past ensure_substrate. *)
Ready == {"ready", "reconcile", "preflight", "list", "jobs", "size", "quota",
          "image", "launch", "watch"}
Label == Resource \cup Ready \cup {"new", "github", "network", "over"}

ASSUME CommandsOfType == CommandsOf \in [Proc -> SUBSET Command]
ASSUME TomlType == \A t \in Toml : Accepted(t) => Loaded(t) \in Config
ASSUME SizesType == MaxN \in Nat /\ ImageGb \in Nat
ASSUME QuotaType == Vcpus \in Nat /\ Quota \in Nat /\ Others \in 0..Quota

TypeOK ==
  /\ pc \in [Proc -> Label]
  /\ config \in [Proc -> Config]
  /\ account \in SUBSET Resource
  /\ missed \in [Proc -> BOOLEAN]
  /\ QueueTypeOK
  /\ cmd \in [Proc -> Command \cup {"none"}]
  /\ page \in [Proc -> Nat]
  /\ ids \in [Proc -> [Run -> Nat]]
  /\ shifted \in [Proc -> BOOLEAN]
  /\ want \in [Proc -> Nat]
  /\ adopted \in [Proc -> BOOLEAN]
  /\ launched \in [Proc -> BOOLEAN]
  /\ quiet \in [Proc -> BOOLEAN]
  /\ pending \in Nat /\ running \in Nat

NoConfig == [maxFleet |-> 0, budgetAlarm |-> FALSE, baseAmi |-> FALSE, volumeGb |-> 0]
NoRuns == [r \in Run |-> 0]

Init ==
  /\ pc = [p \in Proc |-> "new"]
  /\ config = [p \in Proc |-> NoConfig]
  /\ account \in Leftover
  /\ missed = [p \in Proc |-> FALSE]
  /\ QueueInit
  /\ cmd = [p \in Proc |-> "none"]
  /\ page = [p \in Proc |-> 0]
  /\ ids = [p \in Proc |-> NoRuns]
  /\ shifted = [p \in Proc |-> FALSE]
  /\ want = [p \in Proc |-> 0]
  /\ adopted = [p \in Proc |-> FALSE]
  /\ launched = [p \in Proc |-> FALSE]
  /\ quiet = [p \in Proc |-> FALSE]
  /\ pending = 0 /\ running = 0

(* A command ends: nothing of it is left but the account. *)
End(p) ==
  /\ Goto(p, "over")
  /\ config' = [config EXCEPT ![p] = NoConfig]
  /\ missed' = [missed EXCEPT ![p] = FALSE]
  /\ cmd' = [cmd EXCEPT ![p] = "none"]
  /\ page' = [page EXCEPT ![p] = 0]
  /\ ids' = [ids EXCEPT ![p] = NoRuns]
  /\ shifted' = [shifted EXCEPT ![p] = FALSE]
  /\ want' = [want EXCEPT ![p] = 0]
  /\ adopted' = [adopted EXCEPT ![p] = FALSE]
  /\ launched' = [launched EXCEPT ![p] = FALSE]
  /\ quiet' = [quiet EXCEPT ![p] = FALSE]
  /\ UNCHANGED <<account, queueVars, usageVars>>

------------------------------------------------------------------------
(* Every command: the configuration, GitHub, the substrate, the image key. *)

(* main: a command that may need an image asks GitHub first, before anything
   exists on AWS; down and status do not. *)
Load(p) ==
  /\ pc[p] = "new"
  /\ \E c \in CommandsOf[p], t \in Toml :
       /\ Accepted(t)
       /\ cmd' = [cmd EXCEPT ![p] = c]
       /\ config' = [config EXCEPT ![p] = Loaded(t)]
       /\ Goto(p, IF c \in {"down", "status"} THEN "network" ELSE "github")
  /\ UNCHANGED <<account, missed, queueVars, listVars, sizeVars, usageVars>>

(* token_from_env, runner_agent_version. *)
AskGitHub(p) ==
  /\ pc[p] = "github"
  /\ Goto(p, "network")
  /\ UNCHANGED <<config, account, missed, queueVars, cmd, listVars, sizeVars, usageVars>>

Ensure(p) ==
  /\ EnsureSubstrate(p)
  /\ UNCHANGED <<queueVars, cmd, listVars, sizeVars, usageVars>>

(* The rest of prepare: an unpinned base AMI is an error, whatever exists on AWS
   by now.  Down and status list the fleet instead, sweep goes on with what it
   prepared; the three end here. *)
Prepare(p) ==
  /\ pc[p] = "ready"
  /\ cmd[p] \in {"up", "auto", "bake"}
  /\ config[p].baseAmi
  /\ Goto(p, IF cmd[p] = "bake" THEN "image" ELSE "reconcile")
  /\ UNCHANGED <<config, account, missed, queueVars, cmd, listVars, sizeVars, usageVars>>

------------------------------------------------------------------------
(* up: what to launch. *)

(* Adoption and sweep-on-entry. *)
Reconcile(p) ==
  /\ pc[p] = "reconcile"
  /\ \E live \in BOOLEAN : adopted' = [adopted EXCEPT ![p] = live]
  /\ Goto(p, "preflight")
  /\ UNCHANGED <<config, account, missed, queueVars, cmd, listVars, want, launched, quiet, usageVars>>

(* preflight_fork_approval: any policy but the strictest ends the command, and so
   does one this build does not know. *)
Preflight(p) ==
  /\ pc[p] = "preflight"
  /\ IF cmd[p] = "auto"
     THEN /\ page' = [page EXCEPT ![p] = 1]
          /\ Goto(p, "list")
          /\ UNCHANGED want
     ELSE /\ \E n \in 0..MaxN : want' = [want EXCEPT ![p] = n]
          /\ Goto(p, "size")
          /\ UNCHANGED page
  /\ UNCHANGED <<config, account, missed, queueVars, cmd, ids, shifted, adopted, launched, quiet, usageVars>>

(* One request of queued_run_ids; a page that is not full is the last. *)
ListRuns(p) ==
  /\ pc[p] = "list"
  /\ LET found == {r \in Page(page[p]) : HasQueuePotential(r)} IN
       ids' = [ids EXCEPT ![p] = [r \in Run |-> IF r \in found THEN @[r] + 1 ELSE @[r]]]
  /\ IF IsLastPage(page[p])
     THEN /\ page' = [page EXCEPT ![p] = 0]
          /\ shifted' = [shifted EXCEPT ![p] = FALSE]
          /\ Goto(p, "jobs")
     ELSE /\ page' = [page EXCEPT ![p] = @ + 1]
          /\ UNCHANGED <<pc, shifted>>
  /\ UNCHANGED <<config, account, missed, queueVars, cmd, sizeVars, usageVars>>

(* One request of queued_burst_job_count, in any order. *)
CountJobs(p) ==
  /\ pc[p] = "jobs"
  /\ IF ids[p] = NoRuns
     THEN Goto(p, "size") /\ UNCHANGED <<ids, want>>
     ELSE /\ \E r \in Run :
               /\ ids[p][r] > 0
               /\ ids' = [ids EXCEPT ![p][r] = @ - 1]
               /\ \E n \in CountedJobs(r) : want' = [want EXCEPT ![p] = @ + n]
          /\ UNCHANGED pc
  /\ UNCHANGED <<config, account, missed, queueVars, cmd, page, shifted, adopted, launched, quiet, usageVars>>

Least(m, n) == IF m =< n THEN m ELSE n

FleetSize(n, maxFleet) == Least(n, maxFleet)

(* Nothing requested: up ends, or watches what it adopted. *)
Size(p) ==
  /\ pc[p] = "size"
  /\ LET requested == FleetSize(want[p], config[p].maxFleet) IN
       /\ requested = 0 => adopted[p]
       /\ want' = [want EXCEPT ![p] = requested]
       /\ Goto(p, IF requested = 0 THEN "watch" ELSE "quota")
  /\ UNCHANGED <<config, account, missed, queueVars, cmd, listVars, adopted, launched, quiet, usageVars>>

(* vcpu_headroom: only what runs counts as used. *)
Headroom ==
  LET used == Others + running * Vcpus IN IF used > Quota THEN 0 ELSE Quota - used

MutQuotaCap(n, headroom) ==
  IF Vcpus = 0 THEN n ELSE Least(n, (headroom + Vcpus - 1) \div Vcpus)

QuotaCap(n, headroom) == IF Vcpus = 0 THEN n ELSE Least(n, headroom \div Vcpus)

MutReadQuota(p) ==
  /\ pc[p] = "quota"
  /\ want' = [want EXCEPT ![p] = QuotaCap(@, Headroom)]
  /\ quiet' = [quiet EXCEPT ![p] = pending = 0]
  /\ Goto(p, "image")
  /\ UNCHANGED <<config, account, missed, queueVars, cmd, listVars, adopted, launched, usageVars>>

(* Nothing fits: up ends, or watches what it adopted (by way of the image and an
   empty launch loop). *)
ReadQuota(p) ==
  /\ pc[p] = "quota"
  /\ LET fits == QuotaCap(want[p], Headroom) IN
       /\ fits = 0 => adopted[p]
       /\ want' = [want EXCEPT ![p] = fits]
  /\ quiet' = [quiet EXCEPT ![p] = pending = 0]
  /\ Goto(p, "image")
  /\ UNCHANGED <<config, account, missed, queueVars, cmd, listVars, adopted, launched, usageVars>>

(* Cloud::bake, however long it takes; the command bake ends with it. *)
GetImage(p) ==
  /\ pc[p] = "image"
  /\ cmd[p] # "bake"
  /\ Goto(p, "launch")
  /\ UNCHANGED <<config, account, missed, queueVars, cmd, listVars, sizeVars, usageVars>>

(* n more VMs fit the quota: what EC2 holds RunInstances to. *)
Room(n) == Others + (pending + running + n) * Vcpus =< Quota

FitsRoot(gb) == gb >= ImageGb

MutLaunch(p) ==
  /\ pc[p] = "launch"
  /\ want[p] >= 0
  /\ FitsRoot(config[p].volumeGb)
  /\ Room(1)
  /\ pending' = pending + 1
  /\ want' = [want EXCEPT ![p] = @ - 1]
  /\ launched' = [launched EXCEPT ![p] = TRUE]
  /\ quiet' = [q \in Proc |-> q = p /\ quiet[p]]
  /\ UNCHANGED <<pc, config, account, missed, queueVars, cmd, listVars, adopted, running>>

(* One turn of launch_fleet.  A root volume smaller than the image's and a launch
   over the quota are errors. *)
Launch(p) ==
  /\ pc[p] = "launch"
  /\ want[p] > 0
  /\ FitsRoot(config[p].volumeGb)
  /\ Room(1)
  /\ pending' = pending + 1
  /\ want' = [want EXCEPT ![p] = @ - 1]
  /\ launched' = [launched EXCEPT ![p] = TRUE]
  /\ quiet' = [q \in Proc |-> q = p /\ quiet[p]]
  /\ UNCHANGED <<pc, config, account, missed, queueVars, cmd, listVars, adopted, running>>

Watch(p) ==
  /\ pc[p] = "launch"
  /\ want[p] = 0
  /\ Goto(p, "watch")
  /\ UNCHANGED <<config, account, missed, queueVars, cmd, listVars, sizeVars, usageVars>>

(* A command returns, fails in its next call or is killed; its error, and how
   main prints it, makes no difference here. *)
Quit(p) ==
  /\ pc[p] \notin {"new", "over"}
  /\ End(p)

------------------------------------------------------------------------
(* Outside the commands. *)

VmBoots ==
  /\ pending > 0
  /\ pending' = pending - 1
  /\ running' = running + 1
  /\ UNCHANGED <<substrateVars, queueVars, cmd, listVars, sizeVars>>

VmEnds ==
  /\ \/ pending > 0 /\ pending' = pending - 1 /\ UNCHANGED running
     \/ running > 0 /\ running' = running - 1 /\ UNCHANGED pending
  /\ UNCHANGED <<substrateVars, queueVars, cmd, listVars, sizeVars>>

Arrival(r) ==
  /\ RunArrives(r)
  /\ shifted' = [p \in Proc |-> shifted[p] \/ (pc[p] = "list" /\ page[p] > 1)]
  /\ UNCHANGED <<substrateVars, cmd, page, ids, sizeVars, usageVars>>

Progress(r) ==
  /\ JobQueued(r) \/ JobTaken(r) \/ RunCompletes(r)
  /\ UNCHANGED <<substrateVars, cmd, listVars, sizeVars, usageVars>>

Step(p) ==
  \/ Load(p) \/ AskGitHub(p) \/ Ensure(p) \/ Prepare(p)
  \/ Reconcile(p) \/ Preflight(p) \/ ListRuns(p) \/ CountJobs(p) \/ Size(p)
  \/ ReadQuota(p) \/ GetImage(p) \/ Launch(p) \/ Watch(p) \/ Quit(p)

Next ==
  \/ \E p \in Proc : Step(p)
  \/ \E r \in Run : Arrival(r) \/ Progress(r)
  \/ VmBoots \/ VmEnds

Spec == Init /\ [][Next]_vars
------------------------------------------------------------------------
(* Properties. *)

(* Whoever has passed ensure_substrate finds every role, attachment and policy
   there, the scheduler's right to kill above all, however many invocations met
   in the account and wherever one of them was killed before
   (aws.rs:245-268, 408-422). *)
ReadyIsComplete ==
  \A p \in Proc : pc[p] \in Ready => Required(config[p]) \subseteq account

(* EC2 refuses no launch of an up for the quota unless instances were pending
   when it read the headroom or somebody else has launched since: the warning of
   quota_cap comes first (up.rs:379-405, aws.rs:684-739). *)
QuietUpFits ==
  \A p \in Proc : quiet[p] /\ want[p] > 0 => Room(want[p])

(* No up watches, and calls drained in the end, a fleet that never was
   (up.rs:371-378). *)
WatchesAFleet ==
  \A p \in Proc : pc[p] = "watch" => adopted[p] \/ launched[p]

(* Unless a run arrives between its pages, the listing of up --auto holds every
   run with queued burst jobs exactly once (github.rs:340-394). *)
ListsEachRunOnce ==
  [][\A p \in Proc : pc[p] = "list" /\ pc'[p] = "jobs" /\ ~shifted[p] =>
       \A r \in Listed : queued[r] > 0 => ids'[p][r] = 1]_vars
=======================================================================
