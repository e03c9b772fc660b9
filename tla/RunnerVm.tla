--------------------------- MODULE RunnerVm ---------------------------
(* One fleet VM from its first boot to its end: the launch user-data, the runner
   script burst-runner.sh with its idle watchdog, the runner agent, and the two
   systemd timers, over reboots.  Fleet sees nothing of it but PowerOff.

   Time is counted in ticks of uptime.  A tick is longer than what a timer that
   is due, or the script's loop over the agent's output, needs to act; user-data,
   script and agent may take any time for the rest. *)
EXTENDS Integers

CONSTANTS
  Bootstrap,   \* OnBootSec of the bootstrap deadline
  Period,      \* interval of the TTL check
  Idle,        \* what launch.env says
  Ttls,        \* what it may say of the TTL
  DefaultTtl,  \* what the TTL check takes without launch.env
  VolumeGb,    \* the requested root volume, 0 if unknown
  RootGbs,     \* sizes df may report
  MaxReboots,  \* bound on reboots
  MaxUptime    \* bound on the clock, beyond what the TTL allows

ASSUME TimesAreNat ==
  /\ Bootstrap \in Nat /\ Idle \in Nat /\ Ttls \subseteq Nat /\ DefaultTtl \in Nat
  /\ Period \in Nat \ {0}
(* Ten minutes against ttl_hours, which config.rs:126 wants to be at least 1. *)
ASSUME BootstrapIsShort == \A t \in Ttls : Bootstrap <= t
ASSUME SizesAreNat == VolumeGb \in Nat /\ RootGbs \subseteq Nat
ASSUME BoundsAreNat == MaxReboots \in Nat /\ MaxUptime \in Nat

VARIABLES
  power,    \* "on", "stopping" once poweroff was asked for, "off"
  uptime,   \* ticks since this boot
  boots,    \* reboots so far
  rootGb,   \* size of the root file system
  ttl,      \* the TTL the user-data carries
  init,     \* the next command of the user-data
  files,    \* what user-data left in /etc/burst
  script,   \* the next command of burst-runner.sh
  agent,    \* the runner agent, run.sh
  unread,   \* lines of the agent the script has not read
  marker,   \* files in /run/burst, which a reboot empties
  watcher,  \* the bootstrap deadline and the idle watchdog
  idleAt,   \* when the watchdog's sleep ends
  checked,  \* uptime of the last TTL check
  jobAt,    \* when the agent claimed its job in this boot
  cause,    \* who asked for the poweroff
  endAt     \* and when

diskVars == <<rootGb, ttl, files>>
runnerVars == <<script, agent, unread, marker, jobAt>>
timerVars == <<watcher, idleAt, checked>>
endVars == <<power, cause, endAt>>
vars == <<uptime, boots, init, diskVars, runnerVars, timerVars, endVars>>

NoTime == -1
Watcher == {"bootstrap", "idle"}
Marker == {"registered", "job-started"}
Running == {"clear", "config", "disk", "watchdog", "agent", "reading", "poweroff"}

TypeOK ==
  /\ power \in {"on", "stopping", "off"}
  /\ uptime \in Nat /\ boots \in 0..MaxReboots
  /\ rootGb \in RootGbs /\ ttl \in Ttls
  /\ init \in {"env", "jitconfig", "start", "over"}
  /\ files \subseteq {"launch.env", "jitconfig"}
  /\ script \in Running \cup {"none", "exited", "killed"}
  /\ agent \in {"none", "starting", "listening", "working", "exited"}
  /\ unread \subseteq Marker /\ marker \subseteq Marker
  /\ watcher \in [Watcher -> {"none", "asleep", "firing", "done"}]
  /\ idleAt \in Nat /\ checked \in Nat
  /\ jobAt \in Nat \cup {NoTime}
  /\ cause \in {"none", "disk", "idle", "bootstrap", "ttl", "finished", "outside"}
  /\ endAt \in Nat

OnlyDeadlineArmed == [w \in Watcher |-> IF w = "bootstrap" THEN "asleep" ELSE "none"]

(* The timers are enabled in the image, the runner service is not. *)
Init ==
  /\ power = "on" /\ uptime = 0 /\ boots = 0
  /\ rootGb \in RootGbs /\ ttl \in Ttls
  /\ init = "env" /\ files = {}
  /\ script = "none" /\ agent = "none"
  /\ unread = {} /\ marker = {}
  /\ watcher = OnlyDeadlineArmed
  /\ idleAt = 0 /\ checked = 0
  /\ jobAt = NoTime /\ cause = "none" /\ endAt = 0

(* systemctl poweroff returns at once; what runs goes on until Halt. *)
PowerDown(c) ==
  /\ power' = "stopping"
  /\ cause' = IF power = "on" THEN c ELSE cause
  /\ endAt' = IF power = "on" THEN uptime ELSE endAt

------------------------------------------------------------------------
(* The launch user-data; cloud-init runs it in the first boot only. *)

MutWriteEnv ==
  /\ power # "off" /\ init = "env"
  /\ files' = files \cup {"launch"}
  /\ init' = "jitconfig"
  /\ UNCHANGED <<uptime, boots, rootGb, ttl, runnerVars, timerVars, endVars>>

WriteEnv ==
  /\ power # "off" /\ init = "env"
  /\ files' = files \cup {"launch.env"}
  /\ init' = "jitconfig"
  /\ UNCHANGED <<uptime, boots, rootGb, ttl, runnerVars, timerVars, endVars>>

WriteJitConfig ==
  /\ power # "off" /\ init = "jitconfig"
  /\ files' = files \cup {"jitconfig"}
  /\ init' = "start"
  /\ UNCHANGED <<uptime, boots, rootGb, ttl, runnerVars, timerVars, endVars>>

StartRunner ==
  /\ power # "off" /\ init = "start"
  /\ script' = "clear"
  /\ init' = "over"
  /\ UNCHANGED <<uptime, boots, diskVars, agent, unread, marker, jobAt, timerVars, endVars>>

(* set -e: a command that fails ends the user-data. *)
UserDataFails ==
  /\ power # "off" /\ init # "over"
  /\ init' = "over"
  /\ UNCHANGED <<uptime, boots, diskVars, runnerVars, timerVars, endVars>>

------------------------------------------------------------------------
(* burst-runner.sh. *)

ScriptAt(l) == power # "off" /\ script = l

ClearMarkers ==
  /\ ScriptAt("clear")
  /\ marker' = {}
  /\ script' = "config"
  /\ UNCHANGED <<uptime, boots, init, diskVars, agent, unread, jobAt, timerVars, endVars>>

ReadConfig ==
  /\ ScriptAt("config")
  /\ script' = IF "jitconfig" \in files THEN "disk" ELSE "exited"
  /\ UNCHANGED <<uptime, boots, init, diskVars, agent, unread, marker, jobAt, timerVars, endVars>>

(* Ten percent of slack, in the shell's integer arithmetic. *)
Short == VolumeGb > 0 /\ rootGb < (VolumeGb * 9) \div 10

MutRefuseDisk ==
  /\ ScriptAt("disk") /\ Short
  /\ PowerDown("disk")
  /\ script' = "watchdog"
  /\ UNCHANGED <<uptime, boots, init, diskVars, agent, unread, marker, jobAt, timerVars>>

RefuseDisk ==
  /\ ScriptAt("disk") /\ Short
  /\ PowerDown("disk")
  /\ script' = "exited"
  /\ UNCHANGED <<uptime, boots, init, diskVars, agent, unread, marker, jobAt, timerVars>>

AcceptDisk ==
  /\ ScriptAt("disk") /\ ~Short
  /\ script' = "watchdog"
  /\ UNCHANGED <<uptime, boots, init, diskVars, agent, unread, marker, jobAt, timerVars, endVars>>

MutStartWatchdog ==
  /\ ScriptAt("watchdog")
  /\ script' = "agent"
  /\ UNCHANGED <<uptime, boots, init, diskVars, agent, unread, marker, jobAt, timerVars, endVars>>

StartWatchdog ==
  /\ ScriptAt("watchdog")
  /\ watcher' = [watcher EXCEPT !["idle"] = "asleep"]
  /\ idleAt' = uptime + Idle
  /\ script' = "agent"
  /\ UNCHANGED <<uptime, boots, init, diskVars, agent, unread, marker, jobAt, checked, endVars>>

StartAgent ==
  /\ ScriptAt("agent")
  /\ agent' = "starting"
  /\ script' = "reading"
  /\ UNCHANGED <<uptime, boots, init, diskVars, unread, marker, jobAt, timerVars, endVars>>

MutReadLine(l) ==
  /\ ScriptAt("reading")
  /\ l \in unread
  /\ unread' = {}
  /\ marker' = marker \cup {"registered"}
  /\ UNCHANGED <<uptime, boots, init, diskVars, script, agent, jobAt, timerVars, endVars>>

(* "Listening for Jobs" is printed, and read, before "Running job". *)
ReadLine(l) ==
  /\ ScriptAt("reading")
  /\ l \in unread /\ ("registered" \in unread => l = "registered")
  /\ unread' = unread \ {l}
  /\ marker' = marker \cup {l}
  /\ UNCHANGED <<uptime, boots, init, diskVars, script, agent, jobAt, timerVars, endVars>>

(* The pipe is empty and closed; how run.sh ended makes no difference. *)
AgentIsOver ==
  /\ ScriptAt("reading")
  /\ agent = "exited" /\ unread = {}
  /\ script' = "poweroff"
  /\ UNCHANGED <<uptime, boots, init, diskVars, agent, unread, marker, jobAt, timerVars, endVars>>

Finish ==
  /\ ScriptAt("poweroff")
  /\ PowerDown("finished")
  /\ script' = "exited"
  /\ UNCHANGED <<uptime, boots, init, diskVars, agent, unread, marker, jobAt, timerVars>>

(* The script fails under set -e or is killed: systemd ends what else runs in
   the service, watchdog and agent, and nothing powers the VM off. *)
ScriptDies ==
  /\ power # "off" /\ script \in Running
  /\ script' = "killed"
  /\ agent' = IF agent = "none" THEN "none" ELSE "exited"
  /\ unread' = {}
  /\ watcher' = [watcher EXCEPT !["idle"] = "none"]
  /\ UNCHANGED <<uptime, boots, init, diskVars, marker, jobAt, idleAt, checked, endVars>>

------------------------------------------------------------------------
(* The runner agent: one JIT configuration, one job. *)

Listen ==
  /\ power # "off" /\ agent = "starting"
  /\ agent' = "listening"
  /\ unread' = unread \cup {"registered"}
  /\ UNCHANGED <<uptime, boots, init, diskVars, script, marker, jobAt, timerVars, endVars>>

Claim ==
  /\ power # "off" /\ agent = "listening"
  /\ agent' = "working"
  /\ unread' = unread \cup {"job-started"}
  /\ jobAt' = uptime
  /\ UNCHANGED <<uptime, boots, init, diskVars, script, marker, timerVars, endVars>>

AgentExits ==
  /\ power # "off" /\ agent \in {"starting", "listening", "working"}
  /\ agent' = "exited"
  /\ UNCHANGED <<uptime, boots, init, diskVars, script, unread, marker, jobAt, timerVars, endVars>>

------------------------------------------------------------------------
(* The three timers. *)

Awaited(w) == IF w = "bootstrap" THEN "registered" ELSE "job-started"
Deadline(w) == IF w = "bootstrap" THEN Bootstrap ELSE idleAt
Wakes(w) == watcher[w] = "asleep" /\ uptime >= Deadline(w)

(* [ -f marker ], and between it and the poweroff the agent goes on. *)
Look(w) ==
  /\ power = "on" /\ Wakes(w)
  /\ watcher' = [watcher EXCEPT ![w] = IF Awaited(w) \in marker THEN "done" ELSE "firing"]
  /\ UNCHANGED <<uptime, boots, init, diskVars, runnerVars, idleAt, checked, endVars>>

Fire(w) ==
  /\ power = "on" /\ watcher[w] = "firing"
  /\ PowerDown(w)
  /\ watcher' = [watcher EXCEPT ![w] = "done"]
  /\ UNCHANGED <<uptime, boots, init, diskVars, runnerVars, idleAt, checked>>

MutTtlInForce == DefaultTtl

TtlInForce == IF "launch.env" \in files THEN ttl ELSE DefaultTtl
CheckIsDue == uptime >= checked + Period

MutTtlCheck ==
  /\ power = "on" /\ CheckIsDue
  /\ checked' = uptime
  /\ IF "launch.env" \in files /\ uptime >= ttl /\ jobAt = NoTime
       THEN PowerDown("ttl") ELSE UNCHANGED endVars
  /\ UNCHANGED <<uptime, boots, init, diskVars, runnerVars, watcher, idleAt>>

TtlCheck ==
  /\ power = "on" /\ CheckIsDue
  /\ checked' = uptime
  /\ IF uptime >= TtlInForce THEN PowerDown("ttl") ELSE UNCHANGED endVars
  /\ UNCHANGED <<uptime, boots, init, diskVars, runnerVars, watcher, idleAt>>

------------------------------------------------------------------------
(* The machine. *)

Due ==
  \/ \E w \in Watcher : Wakes(w) \/ watcher[w] = "firing"
  \/ CheckIsDue
  \/ unread # {}

Tick ==
  /\ power = "on" /\ ~Due
  /\ uptime < MaxUptime
  /\ uptime' = uptime + 1
  /\ UNCHANGED <<boots, init, diskVars, runnerVars, timerVars, endVars>>

Halt ==
  /\ power = "stopping"
  /\ power' = "off"
  /\ UNCHANGED <<uptime, boots, init, diskVars, runnerVars, timerVars, cause, endAt>>

(* The kill schedule, a sweep or a down terminates the instance. *)
Terminated ==
  /\ power = "on"
  /\ power' = "off" /\ cause' = "outside" /\ endAt' = uptime
  /\ UNCHANGED <<uptime, boots, init, diskVars, runnerVars, timerVars>>

MutReboot ==
  /\ power = "on" /\ boots < MaxReboots
  /\ boots' = boots + 1
  /\ uptime' = 0 /\ checked' = 0
  /\ init' = "over"
  /\ script' = "none" /\ agent' = "none"
  /\ unread' = {} /\ jobAt' = NoTime
  /\ watcher' = OnlyDeadlineArmed
  /\ UNCHANGED <<diskVars, marker, idleAt, endVars>>

(* A job may reboot the VM.  /run is a tmpfs, and nothing starts the runner
   service again. *)
Reboot ==
  /\ power = "on" /\ boots < MaxReboots
  /\ boots' = boots + 1
  /\ uptime' = 0 /\ checked' = 0
  /\ init' = "over"
  /\ script' = "none" /\ agent' = "none"
  /\ unread' = {} /\ marker' = {} /\ jobAt' = NoTime
  /\ watcher' = OnlyDeadlineArmed
  /\ UNCHANGED <<diskVars, idleAt, endVars>>

------------------------------------------------------------------------
UserData == WriteEnv \/ WriteJitConfig \/ StartRunner \/ UserDataFails

Script ==
  \/ ClearMarkers \/ ReadConfig \/ RefuseDisk \/ AcceptDisk \/ StartWatchdog
  \/ StartAgent \/ AgentIsOver \/ Finish \/ ScriptDies
  \/ \E l \in Marker : ReadLine(l)

Agent == Listen \/ Claim \/ AgentExits

Next ==
  \/ UserData \/ Script \/ Agent
  \/ \E w \in Watcher : Look(w) \/ Fire(w)
  \/ TtlCheck
  \/ Tick \/ Halt \/ Terminated \/ Reboot

Spec == Init /\ [][Next]_vars

(* The clock runs and systemd's timers fire; nothing is asked of the user-data,
   the agent, or the script beyond reading its pipe. *)
Fairness ==
  /\ WF_vars(Tick) /\ WF_vars(Halt) /\ WF_vars(TtlCheck)
  /\ \A w \in Watcher : WF_vars(Look(w)) /\ WF_vars(Fire(w))
  /\ \A l \in Marker : WF_vars(ReadLine(l))

FairSpec == Spec /\ Fairness
------------------------------------------------------------------------
(* Properties. *)

(* "Once a job starts, this timer is irrelevant" (docs/runner-contract.md:66-68):
   neither the idle watchdog nor the bootstrap deadline cuts a job at work, unless it was
   claimed in the very tick they acted in. *)
JobsAreSpared ==
  cause \in {"idle", "bootstrap"} /\ agent = "working" => jobAt >= endAt

(* A short disk refuses the job before it is claimed, although poweroff returns
   at once (burst-runner.sh:32-36). *)
NoJobOnShortDisk == jobAt # NoTime => ~Short

(* A VM that never got a job is gone after the bootstrap deadline and one idle
   timeout, whatever went wrong in it, unless the script died after it had
   registered (burst-runner.sh:38-45, burst-bootstrap-deadline.service). *)
UnclaimedIsShort ==
  power = "on" /\ jobAt = NoTime /\ ~(script = "killed" /\ "registered" \in marker)
    => uptime <= Bootstrap + Idle

(* A reboot restarts the uptime the TTL is compared with; the bootstrap deadline
   ends every later boot (burst-bootstrap-deadline.service:9). *)
LaterBootsAreShort == power = "on" /\ boots > 0 => uptime <= Bootstrap

(* No boot outlives the TTL it was launched with by more than the interval of the
   check, whatever the runner service does: a check that comes before launch.env
   decides nothing for good, and where launch.env never comes the bootstrap
   deadline ends the boot (burst-ttl.service:6-8, burst-ttl.timer:5-8). *)
TtlIsKept == power = "on" => uptime <= ttl + Period

(* Every VM ends by its own timers: no CLI, user-data, script or agent has to be
   alive (burst-runner.service:13-16, burst-ttl.service:6-8). *)
VmEnds == <>(power = "off")
=======================================================================
