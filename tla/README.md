# Formal model of burst-actions

`burst` rents one-job GitHub Actions runners from EC2. It has no server: every
invocation of the CLI reads the cloud, GitHub and a statefile, makes some calls,
and may be killed after any of them. Money is lost when an instance outlives
its purpose, so the code layers its defences: each instance gets a one-shot
*kill schedule* in EventBridge Scheduler, carries tags by which any host can
find it, powers itself off, and is swept by the next command. This directory
models those protocols in TLA+, what happens on a VM, on the disk of a host and
before a launch among them, checks them with TLC on small instances, and proves
their safety properties with TLAPS for every number of hosts, repositories,
invocations and instances.

Paths below are relative to the repository; `up.rs`, `sweep.rs`, `down.rs` and
`bake.rs` are in `src/commands/`, `aws.rs` in `src/cloud/`.

## 1. Inventory

| Part | State it keeps | Operations | Hard behaviour | What makes it correct |
|---|---|---|---|---|
| `burst up` (`up.rs`) | manifest in memory, fleet ids, minted names | lock, reconcile, sweep on entry, launch fleet, watch, final tidy | a kill between any two calls; listings that lag; other hosts | every recorded instance is fenced; the statefile trails reality by at most one instance; watch ends |
| `burst sweep` (`sweep.rs`), also up's sweep on entry | a plan made of four listings | terminate expired, disarm orphans, delete dead registrations | the plan is stale when it is executed | never disarms a live instance; never touches another repository |
| `burst down` (`down.rs`) | a listing | terminate, disarm, tidy, delete the statefile | runs *without* the lock beside an up | leaves the statefile of a running up alone |
| Reconciliation (`src/reconcile.rs`) | none | drop and adopt records | adopts what another host launched | records no name this host did not mint |
| Statefile and lock (`src/state.rs`) | JSON file, `flock` | read, write, delete, lock | crash during a write; two repositories with one slug | old or new file, never half; one writer |
| Cloud port (`src/cloud/mod.rs`, `aws.rs`) | none of its own: EC2 and Scheduler | launch, terminate, list, arm, disarm | eventual consistency, partial failure, lost replies | destructive calls only on verified, tagged resources |
| Image bake (`aws.rs`, `bake.rs`, `image.rs`) | none of its own: builder, images, snapshots | get or create the image of a key, delete the superseded ones | no lock; several hosts and repositories share one account; half an hour of waiting in the middle | builder always fenced; what it returns stays usable; one generation left |
| GitHub client (`src/github.rs`) | none of its own: runner registrations | mint, list, delete, count queued jobs, preflight | a booting runner looks like a dead one | judges only names of this host |
| Sizing and quota (`up.rs`, `github.rs`, `aws.rs`) | none | queued jobs, max fleet, vCPU headroom | paging over a list that changes, check-then-use across hosts | counts each run once; warns and caps before EC2 refuses |
| Substrate (`aws.rs`) | roles, security group, budget | get or create each | several first runs at once, killed half way | complete whenever a command goes on |
| On-VM service and timers (`vm/`) | marker files, systemd timers | run one job, power off | three timers against a job; failing user-data; reboots | every VM ends, soon if it has no job; a job at work is spared |
| Entry: CLI, config, `prepare`, status (`src/main.rs`, `src/config.rs`, `src/commands/image.rs`) | configuration in memory | load, check, dispatch | order of checks and creations | a bad configuration or token stops it before AWS |
| Payload, schema, init | none | rendering, parsing, hashing | – | pure |

How they interact: `up`, `sweep` and `down` share the statefile and lock of one
*state directory* (one host, one repository). Across hosts they share only EC2,
Scheduler and GitHub, through listings. `up` calls `bake` on a cache miss. A VM
interacts with the commands only by powering itself off and by its runner
registration. Each hazard these interactions carry is listed with its line and
the properties aimed at it in `PROJECT.json`.

## 2. Modules

| Module | Models |
|---|---|
| `World` | the shared constants: launch attempts, repositories, state directories |
| `GitHub` | runner registrations: mint, list, delete, and what GitHub and the agent do |
| `Cloud` | instances and kill schedules: the fenced calls, and what AWS does alone |
| `RepoState` | the statefile and lock of a state directory; reconciliation |
| `Fleet` | `up`, `sweep` and `down` as concurrent invocations over the three above |
| `Fence` | the abstract promise for one instance: launched once, fenced, dead |
| `Bake` | `bake` as concurrent invocations over builders, images and snapshots |
| `RunnerVm` | one VM: launch user-data, `burst-runner.sh`, the agent, three timers, reboots |
| `StateStore` | a state directory as the file system sees it: the atomic write step by step |
| `Register` | the abstract promise of `StateStore`: a register that survives crashes |
| `Settings` | what is taken from `burst.toml`: defaults, rejections, the gp3 rules |
| `Substrate` | `ensure_substrate` by several invocations at once |
| `Queue` | GitHub's workflow runs and the two requests `--auto` counts them with |
| `Entry` | every command up to its first launch, over `Settings`, `Substrate` and `Queue` |
| `MCFleet`, `MCBake`, `MCStateStore`, `MCEntry` | small instances for TLC |
| `FleetProofs`, `FenceProofs`, `OwnershipProofs`, `BoundProofs`, `BakeProofs`, `RunnerVmProofs`, `StateStoreProofs`, `EntryProofs` | theorems |

How they fit: `Fleet` is composed of `GitHub`, `Cloud` and `RepoState`. The other
models look into what is one step there. `RunnerVm` is behind `Cloud!PowerOff`,
which may come at any time or never; `StateStore` behind `RepoState!Write` and
`Delete`; `Bake` behind up's call of `bake`; `Entry` before `UpMint`, where
`Fleet` lets up launch any number of VMs.

**Reading Fleet.** `pc[p]` names the call invocation `p` is about to make; one
action is one call that leaves the process, in source order, so anything can
happen between two of them. The other local variables are the program's:
`manifest` is up's `StateFile`, `names` the minted names, `view` sweep's
`all_live`, `reap`, `disarm` and `dead` the three lists of a plan, `cur` the
instance in hand. `Quit` is a kill, an error return or a refused preflight at
any label: memory and lock are gone, nothing is undone. The failures that the
code answers with further calls are actions of their own: `UpArmFails`,
`TidyFails`, `DownLeavesFile`. A `Vm` stands for one turn of the launch loop,
that is a runner name together with the instance launched under it.

**Reading Bake.** Laid out the same way. A bake, its builder and its image carry
one name, since a bake makes at most one of each. Time is open: an hour may pass
between any two steps, so `BuilderKillFires` is possible whenever the schedule
exists. A builder stops for any reason (`BuilderStops`): the code waits for the
state and asks no further. `OthersTerminate` and `OthersDisarm` are `down`, `sweep`
and `up` as the builder, which carries the fleet's tags, sees them; that they disarm
only what is dead is not shown here but taken from `NeverDisarmLive`, with the
condition on listings it has in `Fleet`.

**Reading RunnerVm.** A tick is longer than a timer that is due, or the script's
loop over the agent's output, needs to act, so `Tick` waits for both; user-data,
script and agent may take any time for the rest and may fail or die anywhere.
`systemctl poweroff` returns at once: what runs goes on until `Halt`. The agent
prints, the script reads the pipe and touches the marker, the timer looks at the
marker and then fires: four separate steps, which is where the races are. A
reboot keeps the disk, empties `/run`, starts the two timers and nothing else.

**Reading StateStore.** `write` is six calls: create the temporary file, write
it, sync it, rename, open the directory, sync it. `file` is what a reader sees,
`after` the set of what a power failure may leave: a rename adds its new content,
which is `Torn` if the data were not synced, and only the directory sync makes it
the one content left. That a rename is atomic over a crash is taken from POSIX.
`delete` does not sync the directory, so a crash may bring a deleted statefile
back; reconciliation copes with old records.

**Reading Entry.** One action per request that decides something, in the order of
`main`, `prepare` and `up::run`. A get of the substrate may miss what exists (IAM
is eventually consistent), and then the create fails and the command with it.
Adoption, bake and watch are one step here. EC2's own refusal to exceed the quota
is `Room`; `quiet` and `shifted` record what happened meanwhile and guard nothing.

**Fence and the refinement.** `Fence` has one variable, the stage of each
instance: absent, exposed, fenced, dead. `Fleet!stageOf` computes it from `vm`
and `armed`; `ImplementsFence` says that whatever all invocations do, each
instance goes through those stages forward only. `Bake!stageOf` and
`BuildersImplementFence` say the same of the builders, whose schedules other code
deletes.

### What is abstracted

- A call takes effect or fails; retries, paging and request building inside one
  call are left out, and a lost reply is a failure that took effect.
- How many VMs `up` launches is any number in `Fleet`; `Entry` has the sizing.
- An expiry is a flag that becomes true once; times that are only printed are gone.
- Every registration `dead_registrations` passes over is one state, `connected`.
- One `Terminate` call is all or nothing, as its ownership check is. EC2's
  listing lag is `BecomesVisible` (section 3).
- `down`'s lock, delete, unlock at its end is one step: only the holder of the
  lock writes the file, so no other process can tell.
- A failed write of the statefile is a `Quit` before it in `Fleet`; `StateStore`
  has its steps.
- Times are ticks in `RunnerVm`; the length of a page and the quota are small
  constants in `Entry`; a numeric setting is a number or absent.
- A workflow run that completed stays completed (nobody re-runs it), and the
  order in which `--auto` asks for the jobs of the runs it found is open.

## 3. Runs

Passing runs explore their whole state space; the violation runs stop at the
first counterexample.

| Run | Instance | Shows |
|---|---|---|
| `one_host` | 2 VMs; two ups and a sweep on one host; `PromptSpec` | the lock serialises them; `StatefileTrailsByOne`, `RecordsOutliveInstances`, `OneLeftPerUp`, with kills and failures everywhere (1,358,302 states) |
| `hosts` | 1 VM; three hosts, two of one repository and one of another, any command each; `PromptSpec` | no lock is shared and listings lag: `NamedIsFenced`, `NamesAreOwn`, `EndsOnlyItsOwn`, and the refinement of `Fence` (1,037,563 states) |
| `live` | 1 VM; two ups and a sweep or down on one host; `PromptSpec` with fairness | `ManifestOnDisk`, `EveryCallAdvances`, `FencedDies`, `CommandsEnd` (38,738 states) |
| `agree` | 3 bakes, 2 repositories, 1 older image, each repository of one key | the properties of `Bake`, the refinement of `Fence` by its builders among them (976,896 states) |
| `vm` | deadlines of 2 and 3 ticks, a default TTL of 5 and a TTL of 3 or 7, a clock to 12, two reboots, three disk sizes of which one is short; fairness | the properties of `RunnerVm`, `VmEnds` among them (13,216 states) |
| `store` | 3 invocations, 2 repositories of one slug, 4 documents, one of them of an older version | the properties of `StateStore` and the refinement of `Register` (29,813 states) |
| `entry` | 2 hosts, 5 configurations of which two are refused, 3 leftovers; 2 runs on pages of one, a quota for two VMs | the properties of `Entry` (1,001,821 states) |
| `killed`, `booting`, `down`, `blind`, `disagree` | small | the findings of section 6 |

**Why these bounds.** Two VMs are what it takes for the statefile to trail by
more than one, for a sweep to terminate one instance and disarm another, and for
a manifest to mix an own and an adopted record. Two ups on one host give a kill
and its successor, and the third invocation acts beside either. An invocation
runs one command, so with three of them up to three commands overlap or follow
one another. Where a property is about whom a step touches rather than how many
(`hosts`, `live`), one VM is enough and leaves room for three hosts. For
bakes: two of one repository race for one name, the third works under another
key in another repository, and the older image is what gets superseded or is
found half made. For the VM: the bootstrap deadline is the shortest of the times, as
it is, the TTLs lie below and above the default and the clock runs past all of them, the disk sizes lie
below, at and above the slack of a tenth (15 GiB asked for, 13 accepted, 12 not),
and two reboots give a boot after a boot without user-data. For the statefile: two
invocations of one repository and one of the other, so a successor meets what a
killed writer left behind, and the other repository meets both. For `entry`: one
`--auto` and one other command, with the account empty or half furnished; a page
of one run makes a listing of two runs three requests long, so runs arrive and
complete between them, and a quota of six vCPUs with one in use by others fits two
VMs of two, but not the three that may be asked for. A deadlock is not an error: the system may stop with every
invocation ended, and does.

**Symmetry** is used only in runs without liveness properties and only of VMs,
which are interchangeable.

**Listings.** `sweep.rs:85-92` says that `DescribeInstances` is eventually
consistent and re-reads before each disarm for that reason. Here a launched
instance appears in listings only after `BecomesVisible`; under plain `Spec`, when
that is, is left open, and `NeverDisarmLive` does not hold: `blind` shows how. What
it takes is `ShownOnceArmed`: by the time a live instance has its kill schedule, a
call after RunInstances, a listing shows it. `PromptSpec` is `Spec` under that
assumption on EC2. It leaves listings that miss what is not armed yet, and excludes
the longer lag `sweep.rs:85-88` speaks of ("armed seconds before visible"): what
holds under it is conditional on EC2 being that prompt. All passing runs of `Fleet`
and the theorems about the fence and about records use `PromptSpec`, as do
`killed`, `booting` and `down`, whose counterexamples thus owe nothing to a longer lag.
`TypeOK`, `ManifestOnDisk`, `NamesAreOwn`, `EndsOnlyItsOwn` and `EveryCallAdvances`
are proved of `Spec`, however much a listing leaves out.

`StatefileTrailsByOne` counts the instances with a schedule, the "kill-armed
residue" of `up.rs:34-37`. Of those without one more may be missing from a statefile
than that comment has it: a killed up leaves one, and each successor that does not
see it may leave another. `OneLeftPerUp` bounds them.

**Fairness** (`Fleet!FairSpec`): weak fairness of an invocation's next call,
since each call returns or times out and the loops poll; of the clock reaching an
expiry; of Scheduler firing what is due; of EC2 finishing a termination and showing
an instance in the end. Nothing is assumed of the VMs (a wedged one never powers
off), of GitHub, or of users: nobody has to start a command, detach or kill, or
answer the prompt at which an up that adopts waits with the lock held
(`Asks`, `up.rs:239-249`). `FencedDies` is thus the claim
that the schedule alone is enough. `RunnerVm!FairSpec` is fair to the VM's clock
and systemd: `Tick`, `Halt`, the TTL check, the two other timers, and the
scheduling of a script that has a line to read. The user-data, the agent and the
rest of the script may stop for ever. `VmEnds` is thus the claim that the VM's own
timers are enough, with no schedule and no command. It is about a VM that reboots
finitely often (`MaxReboots`): one that reboots again within every bootstrap deadline
is left to its kill schedule.

## 4. Properties

Fleet:

- `NeverDisarmLive`: a schedule goes away only with its instance. Three parties
  disarm and act on old listings. No passing run lists it, since the refinement of
  `Fence` in `hosts` implies it; `blind` refutes it, and a theorem has it under
  `PromptSpec`.
- `NamedIsFenced`: an instance recorded under a name of this host has its
  schedule while it lives.
- `StatefileTrailsByOne`: of the live, armed instances a directory launched, at most
  one is missing from its statefile, whoever is killed where.
- `RecordsOutliveInstances`: a record is dropped only once its instance is dead.
  Holds without `down` (`one_host`) and fails with it (`down`).
- `ManifestOnDisk`: nobody writes or deletes the statefile under a running up.
- `NamesAreOwn`: what a host judges is a name of its own, also after adoption.
- `EndsOnlyItsOwn`: whatever a command terminates, on a listing that is old by then,
  is of its repository; a sweep ends only what has expired, an up nothing else but
  the launch it gives up, and only a down ends what runs.
- `OneLeftPerUp`: what can be left to run without a schedule is bounded. A directory
  has at most as many such instances as ups that ended, each the one in hand when
  its up was killed or both its calls failed. It bounds the damage of finding 1.
- `EveryCallAdvances`: each call uses up something of what its command has left (a
  fresh name, a phase, an entry of the plan, a turn of a loop), and no step of
  anybody else gives any of it back.
- `FencedDies`, `CommandsEnd`: liveness. The latter admits the cases in which a
  command does hang: a prompt nobody answers, and the watch of an adopted instance
  that nobody fenced.

Bake:

- `WaitsFenced`: the builder is fenced before any wait.
- `BuildersImplementFence`: whatever fails and whoever is killed, a live builder keeps
  the schedule it has, and nothing but its own bake launches or arms it.
- `ReturnedStaysAvailable`, `OneGeneration`: in a repository whose bakes agree on
  the key, what bake returned stays, and what it superseded is gone. Without
  that agreement neither can hold: the bakes of two keys delete each other's image.
  `OneGeneration` is about bakes that return the image they made; one that hits the
  cache cleans nothing up.

RunnerVm:

- `JobsAreSpared`: neither the watchdog nor the bootstrap deadline ends a job at
  work, unless it was claimed in the very tick they acted in. That race is in the
  code (look, then power off) and in GitHub's hand-over; nothing can close it on
  the VM.
- `NoJobOnShortDisk`: a refused disk never sees a job, though poweroff takes time.
- `UnclaimedIsShort`, `LaterBootsAreShort`: an idle, broken or rebooted VM is paid
  for minutes, not for its TTL. The first excepts a script that died after the
  runner had registered, which takes the watchdog with it: then the TTL is left.
- `TtlIsKept`: no boot outlives the TTL it was launched with by more than the interval
  of the check, be it below or above the default, and though `launch.env` may come
  after the first checks or never: then the bootstrap deadline ends the boot first.
- `VmEnds`: liveness.

StateStore:

- `ImplementsRegister`: unlocked readers and the successors of a crash find a whole
  statefile, the old or the new one.
- `HolderKnowsFile`: an up that goes on after a write has its manifest on the disk,
  where a crash does not take it away (`Register` alone would let it).
- `HolderOwnsFile`: no up or sweep replaces another repository's file. `down` is
  left out: it deletes under the lock what it may not even be able to read.

Entry:

- `ReadyIsComplete`: the substrate is complete whenever a command goes on.
- `QuietUpFits`: EC2 refuses no launch of an up for the quota, unless instances were
  still pending when it read the headroom (only running ones count) or somebody
  else has launched since. Both exceptions are real: the reading is advisory.
- `WatchesAFleet`: no up reports drained what never was.
- `ListsEachRunOnce`: each run with queued jobs is counted once, unless a run
  arrives between two pages, which moves the last one of a page to the next.

## 5. Proofs

`tlapm` proves, for any values of the constants that satisfy the modules' ASSUMEs:

| Theorem | States | Needs |
|---|---|---|
| `FleetProofs!TypeCorrect` | `TypeOK` | – |
| `FleetProofs!ManifestIsOnDisk` | `ManifestOnDisk` | – |
| `FenceProofs!PromptNoLiveDisarm` | `NeverDisarmLive` | `PromptSpec` |
| `FenceProofs!PromptNamedFenced` | `NamedIsFenced` | `PromptSpec` |
| `FenceProofs!PromptImplementsFence` | `ImplementsFence` | `PromptSpec` |
| `OwnershipProofs!HostsKeepToTheirNames` | `NamesAreOwn` | – |
| `OwnershipProofs!RepositoriesAreApart` | `EndsOnlyItsOwn` | – |
| `OwnershipProofs!TrailsByOne` | `StatefileTrailsByOne` | `PromptSpec`, no `down` |
| `OwnershipProofs!PromptRecordsStay` | `RecordsOutliveInstances` | `PromptSpec`, no `down` |
| `BoundProofs!LeftIsBounded` | `OneLeftPerUp` | `PromptSpec`, finitely many VMs and invocations |
| `BoundProofs!CallsAdvance` | `EveryCallAdvances` | – |
| `BakeProofs!BakeTypeCorrect` | `Bake!TypeOK` | – |
| `BakeProofs!BuildersAreFenced` | `WaitsFenced` | – |
| `BakeProofs!BakeImplementsFence` | `BuildersImplementFence` | – |
| `BakeProofs!ReturnedImageStays` | `ReturnedStaysAvailable` | – |
| `BakeProofs!OneGenerationIsLeft` | `OneGeneration` | – |
| `RunnerVmProofs!VmTypeCorrect` | `RunnerVm!TypeOK` | – |
| `RunnerVmProofs!TimersSpareJobs` | `JobsAreSpared` | – |
| `RunnerVmProofs!ShortDiskRefuses` | `NoJobOnShortDisk` | – |
| `RunnerVmProofs!UnclaimedVmsEnd` | `UnclaimedIsShort` | – |
| `RunnerVmProofs!RebootedVmsEnd` | `LaterBootsAreShort` | – |
| `RunnerVmProofs!TtlEndsVms` | `TtlIsKept` | no TTL below the bootstrap deadline |
| `StateStoreProofs!StoreTypeCorrect` | `StateStore!TypeOK` | – |
| `StateStoreProofs!HoldersKnow` | `HolderKnowsFile` | – |
| `StateStoreProofs!HoldersOwn` | `HolderOwnsFile` | – |
| `StateStoreProofs!StoreImplementsRegister` | `ImplementsRegister` | – |
| `EntryProofs!EntryTypeCorrect` | `Entry!TypeOK` | – |
| `EntryProofs!SubstrateComplete` | `ReadyIsComplete` | – |
| `EntryProofs!QuietUpsFit` | `QuietUpFits` | – |
| `EntryProofs!WatchersHaveAFleet` | `WatchesAFleet` | – |
| `EntryProofs!RunsListedOnce` | `ListsEachRunOnce` | – |

*ManifestOnDisk* is not inductive: a second up could write. `StatefileInv` adds
which labels belong to which command and that up and sweep hold the lock at all
their labels, so two ups of one directory are the same invocation, and down's
delete finds the lock taken.

*NeverDisarmLive* needs to know at each disarm that the instance is dead, and the
invocation knows it only from a listing made earlier. `FenceInv` says, label by
label, what an invocation may rely on: a manifest records only launched instances
of its own repository, named ones fenced; at `disarm` the instance in hand is
dying; at `schedules` all of the list is. These facts are stable: `Frame`
collects what no step but a launch can undo (nothing is revived, no tag changes,
no live instance loses its schedule), and `StepFrame` proves it once for the
whole next-state relation, so that the facts of the invocations that do not move
need one lemma (`OthersStay`) and not one per action. A launch is the exception
and concerns one fresh instance that only its own invocation holds
(`LaunchesApart`, `LaunchStep`). The refinement then maps each step to a launch,
an arming, a set of deaths or a stutter.

`ShownOnceArmed` enters at one point: an armed instance that a listing leaves out
is dead. Without it the theorem is false, as the run `blind` shows.

*OneLeftPerUp* counts (`BoundInv`). A step either leaves the set of such instances
as it is or makes it smaller, or it is the end of an up, which adds the instance
in hand to the one side and itself to the other (`LeavesBehind`). For that
the instance in hand must be of up's own directory (`OwnInv`), only ups may hold
one (`CommandFitsLabel`, `RunsWhatItMay`), and no schedule of a live instance may go
(`FenceInv`); the counting itself is the library's `FS_` theorems on cardinality.

*EveryCallAdvances* orders what a command has left lexicographically: the
fresh names, then `Place` (phase, then turn within a loop), with the three
lists of its plan between. It needs `TypeOK` only. It is the safety half of
`CommandsEnd`: with finitely many VMs the order is well founded, so a command whose
calls return cannot go on for ever; that last step is induction and stays with TLC.

*Bake*: `BuilderInv` ties the builder's state to how far its bake has come;
`ImageInv` says that what a bake returns has its repository and key and what it
means to delete has its repository and another key, so in a repository that agrees
the two never meet; `CleanupInv` says that what is still registered of the old
generation is on the list of a cleanup under way. The refinement of `Fence` needs that
a bake touches no builder but its own, and that nothing but a death takes a live
builder's schedule (`BuilderFrame`).

*NamesAreOwn* needs only that what an invocation holds was minted in its directory
or tagged for its repository (`OwnInv`), and that a tag never changes: an instance is
launched once, from the one hand that minted its name. *EndsOnlyItsOwn* adds
(`EndInv`) that what a plan is about to end stays expired while it is carried out,
and that what up has in hand is in no statefile, because the statefile is its
manifest and records only names minted before.

*StatefileTrailsByOne* adds (`TrailInv`) that the instances of a directory missing
from up's manifest are at most the one in hand. It counts those that are armed or
that somebody still may arm (`Owed`), which is what no step but a launch can add to.
A successor's reconciliation sees all of them: an armed one is shown, and one in the
hand of another up there cannot be, since it would have the lock. A longer lag or a
`down` that deletes the file would break this. *RecordsOutliveInstances*
adds to `FenceInv` what up has seen dead before it drops a record (`RecordInv`).

*RunnerVm*: `LineInv` says that the line announcing a job is in the pipe or in a
marker from the claim on, and in the pipe only within the tick of the claim, since
no tick passes over an unread line; so a timer that fires without the marker
(`CutInv`) met a job of this tick. `TimerInv` says that no timer is late and that
one that is through found its marker, which bounds the uptime of a VM without a job. `CheckInv`
says that a TTL check is never overdue, and that the last one found the uptime within
the TTL once `launch.env` is there. When it is written late, the checks before have
gone by the default, but the VM is still within its bootstrap deadline, since no
runner was started (`EnvInv`), and no TTL is shorter than that.

*StateStore*: `WriteInv` says that whoever writes holds the lock, that the temporary
file is whole before it is flushed and flushed before it is renamed. That
`state.json` is never torn is then type correctness. The refinement maps a rename
and a delete to an update, the directory sync to a commit, and a crash to a crash.

*Entry*: `Ensured` lists label by label what must be in the account; it is stable
because nothing is ever deleted. `SizeInv` carries the room that a quiet up was
promised through its launches, by `CapFits` (division rounds down). `ListInv` says
that, unless a run has arrived meanwhile, every run above the page to be asked for
is counted once if it is not completed, and none below it is counted yet.

**Only model-checked**: `FencedDies`, `CommandsEnd` and `VmEnds`; liveness under
fairness is beyond the prover; `EveryCallAdvances` is what can be proved of
`CommandsEnd`. Every invariant and action property of a passing
run is a theorem.

## 6. Where the code and its words part

Each is the counterexample of one run; `PROJECT.json` quotes the lines.

1. `killed`: an up killed between RunInstances and CreateSchedule leaves an
   instance that is tagged but not kill-armed, and adoption does not arm it.
2. `booting`: a second command on the host deletes the offline registration of a
   VM that is still booting, not only of VMs that died.
3. `down`: down deletes the statefile that records an instance launched after its
   listing.
4. `blind`: up's first watch poll may not show the fleet yet; it takes it for
   gone and disarms it, without the recheck that sweep makes.
5. `disagree`: two repositories with one image key collide on the image name,
   which does not contain the repository.

Met on the way, without a run of their own:

- A registration tidy that failed prints that the next sweep retries
  (`sweep.rs:166`), but `up` and `down` delete the statefile with the names right
  after it (`up.rs:357`, `down.rs:101`).
- `down` warns that it cannot read the statefile (`down.rs:88`) and then deletes
  it, also when it belongs to another repository with the same slug.
- `payload.rs:83-88` says that only success powers a builder off and that the bake
  timeout catches a failed one; `aws.rs:863-865` and `aws.rs:1666-1671` say that a
  failed one also reaches `Stopped`, powered off by its bootstrap deadline. (The
  template enables that timer without starting it, so in practice it takes a reboot,
  a `poweroff` in a custom script or a hand at the console.) `wait_for_stopped` takes
  any stop for success and never looks at the marker the script leaves, so an image of
  a builder that failed would be made and cached under its key. `Bake` has such stops;
  no property rules the image out.
- `vm/provision.sh.tmpl:52` downloads the x64 runner, whatever `arch` says.

## 7. Not modelled

- `burst init` and the setup instructions write a template once and print text.
- The `FakeCloud` test double serves the unit tests only.
- Rendering and formatting: `src/payload.rs` templates, `status` lines, the u32
  product in the quota warning, the HTTP requests and the wording of errors.
- Parsing: TOML, repository names, volume sizes in text. `Settings` starts from
  the parsed table.
- The hash behind the image key: `Bake` takes keys as given, so that equal inputs
  give equal keys is assumed.
- What the provisioning script installs on the image, and the VM between its boot
  and cloud-init.
- Retries inside the AWS SDK.
