---------------------------- MODULE MCEntry ----------------------------
(* An instance of Entry: two hosts, one of them running up --auto, and five
   burst.toml files, two of them refused. *)
EXTENDS Entry, TLC

CONSTANTS p1, p2, r1, r2

Any_CommandsOf == (p1 :> {"auto", "bake"}) @@ (p2 :> {"up", "down", "sweep", "status"})

DefaultToml ==
  [max_fleet |-> {}, idle_timeout_min |-> {}, ttl_hours |-> {}, budget_alarm_usd |-> {},
   base_ami |-> {1}, volume_gb |-> {}, volume_iops |-> {}, volume_throughput_mbps |-> {}]

Some_Toml ==
  {[DefaultToml EXCEPT !.budget_alarm_usd = {15}],
   [DefaultToml EXCEPT !.max_fleet = {2}, !.base_ami = {}],
   [DefaultToml EXCEPT !.max_fleet = {2}, !.volume_gb = {8}, !.volume_iops = {4000},
                       !.volume_throughput_mbps = {1000}],
   [DefaultToml EXCEPT !.ttl_hours = {0}],
   [DefaultToml EXCEPT !.volume_gb = {6}, !.volume_iops = {3001}]}

Some_Leftover == {{}, {"schedulerRole"}, {"instanceProfile", "securityGroup"}}
=======================================================================
