--------------------------- MODULE Settings ---------------------------
(* What a burst command takes from burst.toml: src/config.rs and the volume rules
   of src/schema.rs.  A table is a record of optional values, each a set of at
   most one number (or, for base_ami, whether one is pinned). *)
EXTENDS Integers

DefaultMaxFleet == 12
DefaultVolumeGb == 100
BaselineIops == 3000

Given(option, default) == IF option = {} THEN default ELSE CHOOSE n \in option : TRUE

(* gp3: 1 to 16384 GiB, 3000 to 16000 IOPS and 500 of them per GiB, 125 to 1000
   MB/s and a quarter of one per IOPS. *)
VolumeFits(gb, iops, throughput) ==
  /\ gb \in 1..16384
  /\ \A i \in iops : i \in 3000..16000 /\ i =< gb * 500
  /\ \A t \in throughput : t \in 125..1000 /\ t * 4 =< Given(iops, BaselineIops)

(* load: an explicit zero is an error, not a default. *)
Accepted(t) ==
  /\ 0 \notin t.max_fleet \cup t.idle_timeout_min \cup t.ttl_hours \cup t.budget_alarm_usd
  /\ VolumeFits(Given(t.volume_gb, DefaultVolumeGb), t.volume_iops, t.volume_throughput_mbps)

(* The parts of the Config that decide what a command does up to the launch. *)
Loaded(t) ==
  [maxFleet |-> Given(t.max_fleet, DefaultMaxFleet),
   budgetAlarm |-> t.budget_alarm_usd # {},
   baseAmi |-> t.base_ami # {},
   volumeGb |-> Given(t.volume_gb, DefaultVolumeGb)]

Config == [maxFleet : Nat, budgetAlarm : BOOLEAN, baseAmi : BOOLEAN, volumeGb : Nat]
=======================================================================
