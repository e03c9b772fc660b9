------------------------- MODULE RunnerVmProofs -------------------------
(* Theorems about RunnerVm, for all timer values and disk sizes and any number
   of reboots. *)
EXTENDS RunnerVm, TLAPS

USE TimesAreNat, BootstrapIsShort, SizesAreNat, BoundsAreNat
USE DEF NoTime, Watcher, Marker, Running, diskVars, runnerVars, timerVars, endVars

------------------------------------------------------------------------
(* Type correctness. *)

LEMMA TypeInit == Init => TypeOK
BY DEF Init, TypeOK, OnlyDeadlineArmed

LEMMA TypeStep == TypeOK /\ [Next]_vars => TypeOK'
<1> SUFFICES ASSUME TypeOK, [Next]_vars
             PROVE  TypeOK'
  OBVIOUS
<1> USE DEF TypeOK
<1>1. CASE WriteEnv
  BY <1>1 DEF WriteEnv
<1>2. CASE WriteJitConfig
  BY <1>2 DEF WriteJitConfig
<1>3. CASE StartRunner
  BY <1>3 DEF StartRunner
<1>4. CASE UserDataFails
  BY <1>4 DEF UserDataFails
<1>5. CASE ClearMarkers
  BY <1>5 DEF ClearMarkers, ScriptAt
<1>6. CASE ReadConfig
  BY <1>6 DEF ReadConfig, ScriptAt
<1>7. CASE RefuseDisk
  BY <1>7 DEF RefuseDisk, ScriptAt, PowerDown, Short
<1>8. CASE AcceptDisk
  BY <1>8 DEF AcceptDisk, ScriptAt, Short
<1>9. CASE StartWatchdog
  BY <1>9 DEF StartWatchdog, ScriptAt
<1>10. CASE StartAgent
  BY <1>10 DEF StartAgent, ScriptAt
<1>11. CASE AgentIsOver
  BY <1>11 DEF AgentIsOver, ScriptAt
<1>12. CASE Finish
  BY <1>12 DEF Finish, ScriptAt, PowerDown
<1>13. CASE ScriptDies
  BY <1>13 DEF ScriptDies
<1>14. CASE Listen
  BY <1>14 DEF Listen
<1>15. CASE Claim
  BY <1>15 DEF Claim
<1>16. CASE AgentExits
  BY <1>16 DEF AgentExits
<1>17. CASE TtlCheck
  BY <1>17 DEF TtlCheck, PowerDown
<1>18. CASE Tick
  BY <1>18 DEF Tick, Due, Wakes, Deadline
<1>19. CASE Halt
  BY <1>19 DEF Halt
<1>20. CASE Terminated
  BY <1>20 DEF Terminated
<1>21. CASE Reboot
  BY <1>21 DEF Reboot, OnlyDeadlineArmed
<1>22. ASSUME NEW l \in Marker, ReadLine(l) PROVE TypeOK'
  BY <1>22 DEF ReadLine, ScriptAt
<1>23. ASSUME NEW w \in Watcher, Look(w) PROVE TypeOK'
  BY <1>23 DEF Look, Wakes, Deadline, Awaited
<1>24. ASSUME NEW w \in Watcher, Fire(w) PROVE TypeOK'
  BY <1>24 DEF Fire, PowerDown
<1>25. CASE UNCHANGED vars
  BY <1>25 DEF vars
<1> QED
  BY <1>1, <1>2, <1>3, <1>4, <1>5, <1>6, <1>7, <1>8, <1>9, <1>10, <1>11, <1>12,
     <1>13, <1>14, <1>15, <1>16, <1>17, <1>18, <1>19, <1>20, <1>21, <1>22, <1>23, <1>24, <1>25
  DEF Next, UserData, Script, Agent

(* Every reachable state of a VM is well typed. *)
THEOREM VmTypeCorrect == Spec => []TypeOK
BY TypeInit, TypeStep, PTL DEF Spec

------------------------------------------------------------------------
(* What the script, the agent and the marker files say of each other. *)

(* A later boot starts no script; the files in /run/burst are those of this
   boot's agent; only a script that passed the disk check starts one. *)
ScriptInv ==
  /\ boots > 0 => init = "over" /\ script = "none"
  /\ init # "over" => script = "none"
  /\ script \in {"none", "clear", "config", "disk", "watchdog", "agent"} =>
       agent = "none" /\ marker = {} /\ unread = {}
  /\ power = "on" /\ script = "exited" => agent = "none" /\ marker = {}
  /\ agent \in {"starting", "listening", "working"} => script = "reading"
  /\ script \in {"watchdog", "agent", "reading", "poweroff"} => ~Short
  /\ agent = "none" => jobAt = NoTime /\ unread = {} /\ marker = {}
  /\ jobAt # NoTime => ~Short

(* A claimed job is known by its line, in the order the lines were printed. *)
LineInv ==
  /\ agent = "starting" => unread = {} /\ marker = {}
  /\ agent \in {"listening", "working"} => "registered" \in unread \cup marker
  /\ agent = "working" => "job-started" \in unread \cup marker
  /\ "job-started" \in unread => "registered" \in unread \cup marker
  /\ "job-started" \in marker => "registered" \in marker
  /\ "job-started" \in unread \cup marker => jobAt # NoTime
  /\ power = "on" /\ "job-started" \in unread => jobAt = uptime

(* No timer is ever late, and one that is through found its marker. *)
TimerInv ==
  /\ power = "on" /\ watcher["bootstrap"] \in {"asleep", "firing"} => uptime <= Bootstrap
  /\ power = "on" /\ watcher["idle"] \in {"asleep", "firing"} => uptime <= idleAt
  /\ watcher["bootstrap"] # "none"
  /\ power = "on" /\ watcher["bootstrap"] = "done" => "registered" \in marker
  /\ power = "on" /\ watcher["idle"] = "done" => "job-started" \in marker
  /\ power = "on" /\ script \in {"agent", "reading", "poweroff"} =>
       watcher["idle"] # "none" /\ idleAt <= Bootstrap + Idle

(* A job that runs while a timer is about to fire was claimed just now. *)
CutInv ==
  /\ power = "on" => cause = "none"
  /\ power # "on" => endAt <= uptime
  /\ \A w \in Watcher :
       power = "on" /\ watcher[w] = "firing" /\ agent = "working" => jobAt >= uptime
  /\ JobsAreSpared

VmInv == TypeOK /\ ScriptInv /\ LineInv /\ TimerInv /\ CutInv

LEMMA VmInvInit == Init => VmInv
BY TypeInit DEF Init, OnlyDeadlineArmed, VmInv, ScriptInv, LineInv, TimerInv, CutInv, JobsAreSpared

LEMMA VmInvStep == VmInv /\ [Next]_vars => VmInv'
<1> SUFFICES ASSUME VmInv, [Next]_vars
             PROVE  ScriptInv' /\ LineInv' /\ TimerInv' /\ CutInv'
  BY TypeStep DEF VmInv
<1> USE DEF VmInv, TypeOK, ScriptInv, LineInv, TimerInv, CutInv, JobsAreSpared, Short
<1>1. CASE WriteEnv
  BY <1>1 DEF WriteEnv
<1>2. CASE WriteJitConfig
  BY <1>2 DEF WriteJitConfig
<1>3. CASE StartRunner
  BY <1>3 DEF StartRunner
<1>4. CASE UserDataFails
  BY <1>4 DEF UserDataFails
<1>5. CASE ClearMarkers
  BY <1>5 DEF ClearMarkers, ScriptAt
<1>6. CASE ReadConfig
  BY <1>6 DEF ReadConfig, ScriptAt
<1>7. CASE RefuseDisk
  BY <1>7 DEF RefuseDisk, ScriptAt, PowerDown, Short
<1>8. CASE AcceptDisk
  BY <1>8 DEF AcceptDisk, ScriptAt, Short
<1>9. CASE StartWatchdog
  BY <1>9 DEF StartWatchdog, ScriptAt
<1>10. CASE StartAgent
  BY <1>10 DEF StartAgent, ScriptAt
<1>11. CASE AgentIsOver
  BY <1>11 DEF AgentIsOver, ScriptAt
<1>12. CASE Finish
  BY <1>12 DEF Finish, ScriptAt, PowerDown
<1>13. CASE ScriptDies
  BY <1>13 DEF ScriptDies
<1>14. CASE Listen
  BY <1>14 DEF Listen
<1>15. CASE Claim
  BY <1>15 DEF Claim
<1>16. CASE AgentExits
  BY <1>16 DEF AgentExits
<1>17. CASE TtlCheck
  BY <1>17 DEF TtlCheck, PowerDown
<1>18. CASE Tick
  BY <1>18 DEF Tick, Due, Wakes, Deadline
<1>19. CASE Halt
  BY <1>19 DEF Halt
<1>20. CASE Terminated
  BY <1>20 DEF Terminated
<1>21. CASE Reboot
  BY <1>21 DEF Reboot, OnlyDeadlineArmed
<1>22. ASSUME NEW l \in Marker, ReadLine(l) PROVE ScriptInv' /\ LineInv' /\ TimerInv' /\ CutInv'
  <2>1. ScriptInv'
    BY <1>22 DEF ReadLine, ScriptAt
  <2>2. CASE l = "registered"
    BY <1>22, <2>1, <2>2 DEF ReadLine, ScriptAt
  <2>3. CASE l = "job-started"
    BY <1>22, <2>1, <2>3 DEF ReadLine, ScriptAt
  <2> QED BY <2>2, <2>3
<1>23. ASSUME NEW w \in Watcher, Look(w) PROVE ScriptInv' /\ LineInv' /\ TimerInv' /\ CutInv'
  BY <1>23 DEF Look, Wakes, Deadline, Awaited
<1>24. ASSUME NEW w \in Watcher, Fire(w) PROVE ScriptInv' /\ LineInv' /\ TimerInv' /\ CutInv'
  BY <1>24 DEF Fire, PowerDown
<1>25. CASE UNCHANGED vars
  BY <1>25 DEF vars
<1> QED
  BY <1>1, <1>2, <1>3, <1>4, <1>5, <1>6, <1>7, <1>8, <1>9, <1>10, <1>11, <1>12,
     <1>13, <1>14, <1>15, <1>16, <1>17, <1>18, <1>19, <1>20, <1>21, <1>22, <1>23, <1>24, <1>25
  DEF Next, UserData, Script, Agent

LEMMA VmInvHolds == Spec => []VmInv
BY VmInvInit, VmInvStep, PTL DEF Spec

------------------------------------------------------------------------

(* No timer but the TTL cuts a job that was claimed before the tick it acts in. *)
THEOREM TimersSpareJobs == Spec => []JobsAreSpared
<1>1. VmInv => JobsAreSpared
  BY DEF VmInv, CutInv
<1> QED BY <1>1, VmInvHolds, PTL

(* A VM whose disk is short never claims a job. *)
THEOREM ShortDiskRefuses == Spec => []NoJobOnShortDisk
<1>1. VmInv => NoJobOnShortDisk
  BY DEF VmInv, ScriptInv, NoJobOnShortDisk
<1> QED BY <1>1, VmInvHolds, PTL

(* A VM without a job is off after bootstrap deadline and idle timeout. *)
THEOREM UnclaimedVmsEnd == Spec => []UnclaimedIsShort
<1>1. ASSUME VmInv, power = "on", jobAt = NoTime,
             ~(script = "killed" /\ "registered" \in marker)
      PROVE  uptime <= Bootstrap + Idle
  <2>1. CASE "registered" \notin marker
    BY <1>1, <2>1 DEF VmInv, TypeOK, TimerInv
  <2>2. CASE "registered" \in marker
    <3>1. script \in {"reading", "poweroff"}
      BY <1>1, <2>2 DEF VmInv, TypeOK, ScriptInv
    <3>2. watcher["idle"] \in {"asleep", "firing"}
      BY <1>1, <3>1 DEF VmInv, TypeOK, LineInv, TimerInv
    <3> QED BY <1>1, <3>1, <3>2 DEF VmInv, TypeOK, TimerInv
  <2> QED BY <2>1, <2>2
<1>2. VmInv => UnclaimedIsShort
  BY <1>1 DEF UnclaimedIsShort
<1> QED BY <1>2, VmInvHolds, PTL

(* After a reboot a VM lives no longer than the bootstrap deadline. *)
THEOREM RebootedVmsEnd == Spec => []LaterBootsAreShort
<1>1. VmInv => LaterBootsAreShort
  BY DEF VmInv, TypeOK, ScriptInv, TimerInv, LaterBootsAreShort
<1> QED BY <1>1, VmInvHolds, PTL

------------------------------------------------------------------------
(* The TTL. *)

(* Without launch.env no runner was started, so the bootstrap deadline is ahead. *)
EnvInv ==
  "launch.env" \notin files => init \in {"env", "over"} /\ script = "none"

(* The next check is not late, and the last one, if it read launch.env, found the
   TTL ahead. *)
CheckInv ==
  /\ EnvInv
  /\ checked <= uptime /\ (power = "on" => uptime <= checked + Period)
  /\ power = "on" /\ "launch.env" \in files => checked <= ttl

LEMMA NoEnvIsShort ==
  ASSUME VmInv, EnvInv, power = "on", "launch.env" \notin files
  PROVE  uptime <= Bootstrap
<1>1. marker = {}
  BY DEF VmInv, ScriptInv, EnvInv
<1> QED BY <1>1 DEF VmInv, TypeOK, TimerInv

LEMMA CheckStep == VmInv /\ CheckInv /\ [Next]_vars => CheckInv'
<1> SUFFICES ASSUME VmInv, CheckInv, [Next]_vars
             PROVE  CheckInv'
  OBVIOUS
<1>1. TypeOK /\ TypeOK'
  BY TypeStep DEF VmInv
<1> USE DEF CheckInv, EnvInv, TypeOK
<1>2. CASE /\ UNCHANGED <<uptime, checked, ttl, files, init>>
           /\ power' = "on" => power = "on"
           /\ script = "none" => script' = "none"
  BY <1>1, <1>2
<1>3. CASE WriteEnv
  <2>1. power = "on" /\ "launch.env" \notin files => uptime <= ttl
    BY <1>1, NoEnvIsShort
  <2>2. /\ UNCHANGED <<uptime, checked, ttl, power>>
        /\ "launch.env" \in files'
    BY <1>3 DEF WriteEnv
  <2> QED BY <1>1, <2>1, <2>2
<1>4. CASE WriteJitConfig \/ StartRunner \/ UserDataFails
  BY <1>1, <1>4 DEF WriteJitConfig, StartRunner, UserDataFails
<1>5. CASE TtlCheck
  BY <1>1, <1>5 DEF TtlCheck, TtlInForce, CheckIsDue, PowerDown
<1>6. CASE Tick
  BY <1>1, <1>6 DEF Tick, Due, CheckIsDue
<1>7. CASE Reboot
  BY <1>1, <1>7 DEF Reboot
<1>8. CASE Script
  BY <1>2, <1>8
  DEF Script, ScriptAt, ClearMarkers, ReadConfig, RefuseDisk, AcceptDisk, StartWatchdog,
      StartAgent, AgentIsOver, Finish, ScriptDies, ReadLine, PowerDown
<1>9. CASE Agent
  BY <1>2, <1>9 DEF Agent, Listen, Claim, AgentExits
<1>10. CASE \E w \in Watcher : Look(w) \/ Fire(w)
  BY <1>2, <1>10 DEF Look, Fire, PowerDown
<1>11. CASE Halt \/ Terminated \/ UNCHANGED vars
  BY <1>2, <1>11 DEF Halt, Terminated, vars
<1> QED BY <1>3, <1>4, <1>5, <1>6, <1>7, <1>8, <1>9, <1>10, <1>11 DEF Next, UserData

(* A VM is up no longer than the TTL it was launched with and one interval of the
   check. *)
THEOREM TtlEndsVms == Spec => []TtlIsKept
<1>1. Init => CheckInv
  BY DEF Init, CheckInv, EnvInv
<1>2. VmInv /\ CheckInv => TtlIsKept
  <2> SUFFICES ASSUME VmInv, CheckInv, power = "on"
               PROVE  uptime <= ttl + Period
    BY DEF TtlIsKept
  <2>1. CASE "launch.env" \in files
    BY <2>1 DEF VmInv, CheckInv, TypeOK
  <2>2. CASE "launch.env" \notin files
    BY <2>2, NoEnvIsShort DEF VmInv, CheckInv, TypeOK
  <2> QED BY <2>1, <2>2
<1> QED BY <1>1, <1>2, VmInvInit, VmInvStep, CheckStep, PTL DEF Spec
========================================================================
