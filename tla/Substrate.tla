--------------------------- MODULE Substrate ---------------------------
(* ensure_substrate (src/cloud/aws.rs): the roles, the security group and the
   budget every command gets or creates before its first use of EC2, by
   invocations on several hosts at once, each of which may fail or be killed
   between any two calls.  Entry adds what the commands do before and after it.

   Resources only appear: nothing here may delete one. *)
EXTENDS Settings

CONSTANTS
  Proc,     \* invocations of burst, each on a host of its own
  Leftover  \* what earlier commands may have left in the account

VARIABLES
  pc,       \* [Proc -> Label]: the call an invocation is about to make
  config,   \* [Proc -> Config]
  account,  \* the resources that exist
  missed    \* [Proc -> BOOLEAN]: it looked for the resource of this label in vain

substrateVars == <<pc, config, account, missed>>

(* "killPolicy" is scheduler_kill_policy, as this build writes it, on the
   scheduler's role. *)
Resource ==
  {"instanceRole", "instanceProfile", "roleInProfile", "schedulerRole", "killPolicy",
   "securityGroup", "budget"}

(* What a runner and its kill schedule cannot do without. *)
Required(c) == Resource \ (IF c.budgetAlarm THEN {} ELSE {"budget"})

ASSUME LeftoverType == Leftover \subseteq SUBSET Resource

Goto(p, l) == pc' = [pc EXCEPT ![p] = l]

------------------------------------------------------------------------
(* Get, and create what is not there.  The APIs are eventually consistent, so a
   get may miss what exists; the create is then an error, and so it is for the
   slower of two invocations that both missed: the command ends (Quit). *)

Found(p, r, next) ==
  /\ ~missed[p]
  /\ r \in account
  /\ Goto(p, next)
  /\ UNCHANGED <<account, missed>>

Missed(p, r) ==
  /\ ~missed[p]
  /\ missed' = [missed EXCEPT ![p] = TRUE]
  /\ UNCHANGED <<pc, account>>

Created(p, r, next) ==
  /\ missed[p]
  /\ r \notin account
  /\ account' = account \cup {r}
  /\ missed' = [missed EXCEPT ![p] = FALSE]
  /\ Goto(p, next)

GetOrCreate(p, r, next) ==
  /\ pc[p] = r
  /\ Found(p, r, next) \/ Missed(p, r) \/ Created(p, r, next)
  /\ UNCHANGED config

(* A call that leaves r there whether or not it was. *)
Put(p, r, next) ==
  /\ pc[p] = r
  /\ account' = account \cup {r}
  /\ Goto(p, next)
  /\ UNCHANGED <<config, missed>>

------------------------------------------------------------------------
(* connect, default_vpc_and_subnet: read only; nothing found is an error. *)
FindNetwork(p) ==
  /\ pc[p] = "network"
  /\ Goto(p, "instanceRole")
  /\ UNCHANGED <<config, account, missed>>

EnsureInstanceRole(p) == GetOrCreate(p, "instanceRole", "instanceProfile")

EnsureInstanceProfile(p) == GetOrCreate(p, "instanceProfile", "roleInProfile")

(* LimitExceeded says the role is in the profile already. *)
AddRoleToProfile(p) == Put(p, "roleInProfile", "schedulerRole")

MutEnsureSchedulerRole(p) ==
  /\ pc[p] = "schedulerRole"
  /\ \/ Found(p, "schedulerRole", "securityGroup")
     \/ Missed(p, "schedulerRole")
     \/ Created(p, "schedulerRole", "killPolicy")
  /\ UNCHANGED config

EnsureSchedulerRole(p) == GetOrCreate(p, "schedulerRole", "killPolicy")

(* Written unconditionally, also over the policy of another version. *)
PutKillPolicy(p) == Put(p, "killPolicy", "securityGroup")

EnsureSecurityGroup(p) ==
  GetOrCreate(p, "securityGroup", IF config[p].budgetAlarm THEN "budget" ELSE "ready")

EnsureBudget(p) == GetOrCreate(p, "budget", "ready")

EnsureSubstrate(p) ==
  \/ FindNetwork(p)
  \/ EnsureInstanceRole(p) \/ EnsureInstanceProfile(p) \/ AddRoleToProfile(p)
  \/ EnsureSchedulerRole(p) \/ PutKillPolicy(p)
  \/ EnsureSecurityGroup(p) \/ EnsureBudget(p)
=======================================================================
