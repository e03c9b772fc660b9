-------------------------- MODULE EntryProofs --------------------------
(* Theorems about Entry, for any number of invocations and runs, any files and
   any quota. *)
EXTENDS Entry, TLAPS

USE LeftoverType, PagesType, JobsType, CommandsOfType, TomlType, SizesType, QuotaType
USE DEF substrateVars, queueVars, listVars, sizeVars, usageVars, Goto, Config, NoConfig,
        NoRuns, Listed

------------------------------------------------------------------------
(* Type correctness. *)

LEMMA CountedJobsAreJobs ==
  ASSUME QueueTypeOK, NEW r \in Run
  PROVE  CountedJobs(r) \subseteq Nat
BY DEF CountedJobs, QueueTypeOK

LEMMA CapIsNatural ==
  ASSUME NEW n \in Nat, NEW h \in Nat
  PROVE  QuotaCap(n, h) \in Nat /\ (Vcpus > 0 => QuotaCap(n, h) * Vcpus =< h)
<1>1. CASE Vcpus = 0
  BY <1>1 DEF QuotaCap
<1>2. CASE Vcpus > 0
  <2>1. h \div Vcpus \in Nat /\ (h \div Vcpus) * Vcpus =< h
    BY <1>2
  <2>2. ASSUME NEW k \in Nat, k =< h \div Vcpus PROVE k * Vcpus =< h
    BY <2>1, <2>2, <1>2
  <2> QED BY <2>1, <2>2, <1>2 DEF QuotaCap, Least
<1> QED BY <1>1, <1>2

LEMMA HeadroomIsNatural ==
  TypeOK => Headroom \in Nat
BY DEF TypeOK, Headroom

LEMMA EntryInit == Init => TypeOK
BY DEF Init, TypeOK, Label, Ready, QueueInit, QueueTypeOK

(* Every step of ensure_substrate past the network gets, creates or puts one
   resource. *)
LEMMA EnsuresOneResource ==
  ASSUME NEW p \in Proc, EnsureSubstrate(p)
  PROVE  \/ FindNetwork(p)
         \/ \E r \in Resource, l \in Resource \cup {"ready"} :
               GetOrCreate(p, r, l) \/ Put(p, r, l)
BY DEF EnsureSubstrate, EnsureInstanceRole, EnsureInstanceProfile, AddRoleToProfile,
       EnsureSchedulerRole, PutKillPolicy, EnsureSecurityGroup, EnsureBudget, Resource

LEMMA EnsureTypes ==
  ASSUME TypeOK, NEW p \in Proc, Ensure(p)
  PROVE  TypeOK'
<1> USE DEF TypeOK, QueueTypeOK
<1>1. CASE FindNetwork(p)
  <2>1. "instanceRole" \in Label
    BY DEF Label, Resource
  <2> QED BY <1>1, <2>1 DEF FindNetwork, Ensure
<1>2. ASSUME NEW r \in Resource, NEW l \in Resource \cup {"ready"},
             GetOrCreate(p, r, l) \/ Put(p, r, l)
      PROVE  TypeOK'
  <2>1. l \in Label
    BY DEF Label, Ready
  <2>2. /\ UNCHANGED config
        /\ pc' = pc \/ pc' = [pc EXCEPT ![p] = l]
        /\ account' = account \/ account' = account \cup {r}
        /\ UNCHANGED missed \/ \E b \in BOOLEAN : missed' = [missed EXCEPT ![p] = b]
    BY <1>2 DEF GetOrCreate, Found, Missed, Created, Put
  <2>5. account' \in SUBSET Resource
    BY <2>2
  <2>3. pc' \in [Proc -> Label]
    BY <2>1, <2>2
  <2>4. missed' \in [Proc -> BOOLEAN]
    BY <2>2
  <2> QED BY <2>2, <2>3, <2>4, <2>5 DEF Ensure
<1> QED BY <1>1, <1>2, EnsuresOneResource DEF Ensure

LEMMA EntryTypes == TypeOK /\ [Next]_vars => TypeOK'
<1> SUFFICES ASSUME TypeOK, [Next]_vars
             PROVE  TypeOK'
  OBVIOUS
<1> USE DEF TypeOK, QueueTypeOK
<1>0. {"new", "over", "github", "network", "ready", "reconcile", "preflight", "list", "jobs",
       "size", "quota", "image", "launch", "watch"} \subseteq Label
  BY DEF Label, Ready
<1>1. ASSUME NEW p \in Proc, Step(p) PROVE TypeOK'
  <2>1. CASE Load(p)
    <3>1. PICK c \in CommandsOf[p], t \in Toml :
            /\ Accepted(t)
            /\ cmd' = [cmd EXCEPT ![p] = c]
            /\ config' = [config EXCEPT ![p] = Loaded(t)]
            /\ Goto(p, IF c \in {"down", "status"} THEN "network" ELSE "github")
      BY <2>1 DEF Load
    <3>2. c \in Command /\ Loaded(t) \in Config
      BY <3>1
    <3> HIDE DEF Config
    <3>3. config' \in [Proc -> Config] /\ cmd' \in [Proc -> Command \cup {"none"}]
      BY <3>1, <3>2
    <3> QED BY <1>0, <2>1, <3>1, <3>3 DEF Load
  <2>2. CASE AskGitHub(p)
    BY <1>0, <2>2 DEF AskGitHub
  <2>3. CASE Ensure(p)
    BY <2>3, EnsureTypes
  <2>4. CASE Prepare(p)
    BY <1>0, <2>4 DEF Prepare
  <2>5. CASE Reconcile(p)
    BY <1>0, <2>5 DEF Reconcile
  <2>6. CASE Preflight(p)
    <3>1. CASE cmd[p] = "auto"
      <4>1. page' = [page EXCEPT ![p] = 1] /\ pc' = [pc EXCEPT ![p] = "list"] /\ UNCHANGED want
        BY <2>6, <3>1 DEF Preflight
      <4>2. page' \in [Proc -> Nat]
        BY <4>1
      <4>3. pc' \in [Proc -> Label]
        BY <1>0, <4>1
      <4> QED BY <2>6, <4>1, <4>2, <4>3 DEF Preflight
    <3>2. CASE cmd[p] # "auto"
      <4>1. PICK n \in 0..MaxN : want' = [want EXCEPT ![p] = n]
        BY <2>6, <3>2 DEF Preflight
      <4>2. pc' = [pc EXCEPT ![p] = "size"] /\ UNCHANGED page
        BY <2>6, <3>2 DEF Preflight
      <4>3. want' \in [Proc -> Nat]
        BY <4>1
      <4>4. pc' \in [Proc -> Label]
        BY <1>0, <4>2
      <4> QED BY <2>6, <4>2, <4>3, <4>4 DEF Preflight
    <3> QED BY <3>1, <3>2
  <2>7. CASE ListRuns(p)
    <3>1. ids' \in [Proc -> [Run -> Nat]]
      BY <2>7, SMTT(30) DEF ListRuns
    <3>2. CASE IsLastPage(page[p])
      <4>1. /\ page' = [page EXCEPT ![p] = 0] /\ shifted' = [shifted EXCEPT ![p] = FALSE]
            /\ pc' = [pc EXCEPT ![p] = "jobs"]
        BY <2>7, <3>2 DEF ListRuns
      <4>2. page' \in [Proc -> Nat] /\ shifted' \in [Proc -> BOOLEAN]
        BY <4>1
      <4>3. pc' \in [Proc -> Label]
        BY <1>0, <4>1
      <4> QED BY <2>7, <3>1, <4>2, <4>3 DEF ListRuns
    <3>3. CASE ~IsLastPage(page[p])
      <4>1. page' = [page EXCEPT ![p] = @ + 1] /\ UNCHANGED <<pc, shifted>>
        BY <2>7, <3>3 DEF ListRuns
      <4>2. page' \in [Proc -> Nat]
        BY <4>1
      <4> QED BY <2>7, <3>1, <4>1, <4>2 DEF ListRuns
    <3> QED BY <3>2, <3>3
  <2>8. CASE CountJobs(p)
    <3>1. CASE ids[p] = NoRuns
      <4>1. pc' = [pc EXCEPT ![p] = "size"] /\ UNCHANGED <<ids, want>>
        BY <2>8, <3>1 DEF CountJobs
      <4>2. pc' \in [Proc -> Label]
        BY <1>0, <4>1
      <4> QED BY <2>8, <4>1, <4>2 DEF CountJobs
    <3>2. CASE ids[p] # NoRuns
      <4>1. PICK r \in Run :
              /\ ids[p][r] > 0
              /\ ids' = [ids EXCEPT ![p][r] = @ - 1]
              /\ \E n \in CountedJobs(r) : want' = [want EXCEPT ![p] = @ + n]
        BY <2>8, <3>2 DEF CountJobs
      <4>2. ids' \in [Proc -> [Run -> Nat]]
        BY <4>1
      <4>3. want' \in [Proc -> Nat]
        BY <4>1, CountedJobsAreJobs
      <4> QED BY <2>8, <3>2, <4>2, <4>3 DEF CountJobs
    <3> QED BY <3>1, <3>2
  <2>9. CASE Size(p)
    BY <1>0, <2>9 DEF Size, FleetSize, Least
  <2>10. CASE ReadQuota(p)
    <3>1. QuotaCap(want[p], Headroom) \in Nat
      BY HeadroomIsNatural, CapIsNatural
    <3> QED BY <1>0, <2>10, <3>1 DEF ReadQuota
  <2>11. CASE GetImage(p)
    BY <1>0, <2>11 DEF GetImage
  <2>12. CASE Launch(p)
    BY <2>12, SMTT(30) DEF Launch
  <2>13. CASE Watch(p)
    BY <1>0, <2>13 DEF Watch
  <2>14. CASE Quit(p)
    BY <1>0, <2>14 DEF Quit, End
  <2> QED BY <1>1, <2>1, <2>2, <2>3, <2>4, <2>5, <2>6, <2>7, <2>8, <2>9, <2>10, <2>11,
             <2>12, <2>13, <2>14 DEF Step
<1>2. ASSUME NEW r \in Run, Arrival(r) \/ Progress(r) PROVE TypeOK'
  <2>1. CASE Arrival(r)
    BY <2>1 DEF Arrival, RunArrives
  <2>2. CASE Progress(r)
    <3>1. UNCHANGED <<listed, substrateVars, cmd, listVars, sizeVars, usageVars>>
      BY <2>2 DEF Progress, JobQueued, JobTaken, RunCompletes
    <3>2. CASE JobQueued(r)
      <4>1. queued' = [queued EXCEPT ![r] = queued[r] + 1] /\ UNCHANGED done
        BY <3>2 DEF JobQueued
      <4>2. queued[r] + 1 \in 0..MaxJobs
        BY <3>2 DEF JobQueued
      <4>3. queued' \in [Run -> 0..MaxJobs]
        BY <4>1, <4>2
      <4> QED BY <3>1, <4>1, <4>3
    <3>3. CASE JobTaken(r)
      BY <3>1, <3>3, SMTT(30) DEF JobTaken
    <3>4. CASE RunCompletes(r)
      BY <3>1, <3>4 DEF RunCompletes
    <3> QED BY <2>2, <3>2, <3>3, <3>4 DEF Progress
  <2> QED BY <1>2, <2>1, <2>2
<1>3. CASE VmBoots \/ VmEnds
  BY <1>3 DEF VmBoots, VmEnds
<1>4. CASE UNCHANGED vars
  BY <1>4 DEF vars
<1> QED BY <1>1, <1>2, <1>3, <1>4 DEF Next

(* Every variable keeps its type: a number of VMs to launch is never negative,
   whatever is counted and capped (up.rs:367-405). *)
THEOREM EntryTypeCorrect == Spec => []TypeOK
BY EntryInit, EntryTypes, PTL DEF Spec
------------------------------------------------------------------------
(* What is ensured stays ensured. *)

Profile == {"roleInProfile", "schedulerRole", "killPolicy", "securityGroup", "budget"} \cup Ready
Scheduler == {"killPolicy", "securityGroup", "budget"} \cup Ready

(* What an invocation at its label has ensured before. *)
EnsuredBy(p) ==
  /\ pc[p] \in Profile \cup {"instanceProfile"} => "instanceRole" \in account
  /\ pc[p] \in Profile => "instanceProfile" \in account
  /\ pc[p] \in Scheduler \cup {"schedulerRole"} => "roleInProfile" \in account
  /\ pc[p] \in Scheduler => "schedulerRole" \in account
  /\ pc[p] \in Scheduler \ {"killPolicy"} => "killPolicy" \in account
  /\ pc[p] \in Ready \cup {"budget"} => "securityGroup" \in account
  /\ pc[p] \in Ready /\ config[p].budgetAlarm => "budget" \in account

Ensured == \A p \in Proc : EnsuredBy(p)

LEMMA EnsuredIsComplete == Ensured => ReadyIsComplete
<1> SUFFICES ASSUME Ensured, NEW p \in Proc, pc[p] \in Ready
             PROVE  Required(config[p]) \subseteq account
  BY DEF ReadyIsComplete
<1>1. /\ {"instanceRole", "instanceProfile", "roleInProfile", "schedulerRole", "killPolicy",
           "securityGroup"} \subseteq account
      /\ config[p].budgetAlarm => "budget" \in account
  BY DEF Ensured, EnsuredBy, Profile, Scheduler, Ready
<1> QED BY <1>1 DEF Resource, Required

(* Whatever is done by others, an invocation sees the account grow. *)
LEMMA AccountGrows ==
  TypeOK /\ [Next]_vars =>
    /\ account \subseteq account'
    /\ \A q \in Proc :
         \/ pc'[q] = pc[q] /\ config'[q] = config[q]
         \/ EnsureSubstrate(q)
         \/ pc'[q] \in {"over", "github", "network"}
         \/ pc[q] \in Ready /\ config'[q] = config[q]
<1> SUFFICES ASSUME TypeOK, [Next]_vars
             PROVE  /\ account \subseteq account'
                    /\ \A q \in Proc :
                         \/ pc'[q] = pc[q] /\ config'[q] = config[q]
                         \/ EnsureSubstrate(q)
                         \/ pc'[q] \in {"over", "github", "network"}
                         \/ pc[q] \in Ready /\ config'[q] = config[q]
  OBVIOUS
<1> USE DEF TypeOK
<1>1. ASSUME NEW p \in Proc, Step(p)
      PROVE  /\ account \subseteq account'
             /\ \A q \in Proc : q # p => pc'[q] = pc[q] /\ config'[q] = config[q]
             /\ \/ EnsureSubstrate(p)
                \/ pc'[p] \in {"over", "github", "network"}
                \/ config'[p] = config[p] /\ (pc[p] \in Ready \/ pc'[p] = pc[p])
  <2>1. CASE Load(p)
    BY <2>1 DEF Load
  <2>2. CASE AskGitHub(p)
    BY <2>2 DEF AskGitHub
  <2>3. CASE Ensure(p)
    <3>1. CASE FindNetwork(p)
      BY <2>3, <3>1 DEF FindNetwork, Ensure
    <3>2. ASSUME NEW r \in Resource, NEW l \in Resource \cup {"ready"},
                 GetOrCreate(p, r, l) \/ Put(p, r, l)
          PROVE  /\ account \subseteq account'
                 /\ \A q \in Proc : q # p => pc'[q] = pc[q] /\ config'[q] = config[q]
      BY <3>2 DEF GetOrCreate, Found, Missed, Created, Put
    <3> QED BY <2>3, <3>1, <3>2, EnsuresOneResource DEF Ensure
  <2>4. CASE Prepare(p) \/ Reconcile(p) \/ Preflight(p) \/ ListRuns(p) \/ CountJobs(p)
             \/ Size(p) \/ ReadQuota(p) \/ GetImage(p) \/ Launch(p) \/ Watch(p)
    <3>1. pc[p] \in Ready /\ UNCHANGED <<account, config>>
      BY <2>4 DEF Prepare, Reconcile, Preflight, ListRuns, CountJobs, Size, ReadQuota,
                  GetImage, Launch, Watch, Ready
    <3>2. pc' = pc \/ \E l \in Label : pc' = [pc EXCEPT ![p] = l]
      BY <2>4 DEF Prepare, Reconcile, Preflight, ListRuns, CountJobs, Size, ReadQuota,
                  GetImage, Launch, Watch, Label, Ready
    <3> QED BY <3>1, <3>2
  <2>5. CASE Quit(p)
    BY <2>5 DEF Quit, End
  <2> QED BY <1>1, <2>1, <2>2, <2>3, <2>4, <2>5 DEF Step
<1>2. CASE \/ \E r \in Run : Arrival(r) \/ Progress(r)
           \/ VmBoots \/ VmEnds \/ UNCHANGED vars
  BY <1>2 DEF Arrival, Progress, VmBoots, VmEnds, vars
<1> QED BY <1>1, <1>2 DEF Next

LEMMA EnsuredInit == Init => Ensured
BY DEF Init, Ensured, EnsuredBy, Profile, Scheduler, Ready

LEMMA EnsuredStep == TypeOK /\ Ensured /\ [Next]_vars => Ensured'
<1> SUFFICES ASSUME TypeOK, Ensured, [Next]_vars
             PROVE  Ensured'
  OBVIOUS
<1>1. account \subseteq account'
  BY AccountGrows
<1>2. SUFFICES ASSUME NEW q \in Proc PROVE EnsuredBy(q)'
  BY DEF Ensured
<1>3. EnsuredBy(q)
  BY DEF Ensured
<1> USE DEF EnsuredBy, Profile, Scheduler, Ready
<1>4. CASE pc'[q] = pc[q] /\ config'[q] = config[q]
  BY <1>1, <1>3, <1>4
<1>5. CASE EnsureSubstrate(q)
  <2> USE DEF TypeOK, GetOrCreate, Found, Missed, Created, Put
  <2>1. CASE FindNetwork(q)
    BY <1>1, <1>3, <2>1 DEF FindNetwork
  <2>2. CASE EnsureInstanceRole(q)
    BY <1>1, <1>3, <2>2 DEF EnsureInstanceRole
  <2>3. CASE EnsureInstanceProfile(q)
    BY <1>1, <1>3, <2>3 DEF EnsureInstanceProfile
  <2>4. CASE AddRoleToProfile(q)
    BY <1>1, <1>3, <2>4 DEF AddRoleToProfile
  <2>5. CASE EnsureSchedulerRole(q)
    BY <1>1, <1>3, <2>5 DEF EnsureSchedulerRole
  <2>6. CASE PutKillPolicy(q)
    BY <1>1, <1>3, <2>6 DEF PutKillPolicy
  <2>7. CASE EnsureSecurityGroup(q)
    BY <1>1, <1>3, <2>7 DEF EnsureSecurityGroup
  <2>8. CASE EnsureBudget(q)
    BY <1>1, <1>3, <2>8 DEF EnsureBudget
  <2> QED BY <1>5, <2>1, <2>2, <2>3, <2>4, <2>5, <2>6, <2>7, <2>8 DEF EnsureSubstrate
<1>6. CASE pc'[q] \in {"over", "github", "network"}
  BY <1>6
<1>7. CASE pc[q] \in Ready /\ config'[q] = config[q]
  BY <1>1, <1>3, <1>7
<1> QED BY <1>4, <1>5, <1>6, <1>7, AccountGrows

(* An invocation past ensure_substrate finds all it needs, whoever created it and
   whoever was killed on the way (aws.rs:245-268). *)
THEOREM SubstrateComplete == Spec => []ReadyIsComplete
<1>1. Init => TypeOK /\ Ensured
  BY EntryInit, EnsuredInit
<1>2. TypeOK /\ Ensured /\ [Next]_vars => (TypeOK /\ Ensured)'
  BY EntryTypes, EnsuredStep
<1> QED BY <1>1, <1>2, EnsuredIsComplete, PTL DEF Spec
------------------------------------------------------------------------
(* The sizes. *)

(* The room a quiet up was promised, and why an up that has sized its fleet has
   something to watch. *)
SizeInv ==
  \A p \in Proc :
    /\ quiet[p] => pc[p] \in {"image", "launch", "watch"}
    /\ quiet[p] /\ want[p] > 0 => Room(want[p])
    /\ pc[p] = "quota" => want[p] > 0 /\ cmd[p] # "bake"
    /\ pc[p] \in {"image", "launch"} /\ cmd[p] # "bake" =>
         adopted[p] \/ launched[p] \/ want[p] > 0
    /\ pc[p] = "launch" => cmd[p] # "bake"
    /\ pc[p] \in {"reconcile", "preflight", "list", "jobs", "size"} => cmd[p] # "bake"
    /\ pc[p] = "watch" => adopted[p] \/ launched[p]

LEMMA RoomShrinks ==
  ASSUME NEW m \in Nat, NEW n \in Nat, m =< n, Others + n * Vcpus =< Quota
  PROVE  Others + m * Vcpus =< Quota
<1>1. m * Vcpus =< n * Vcpus
  <2>1. n * Vcpus = m * Vcpus + (n - m) * Vcpus
    OBVIOUS
  <2>2. (n - m) * Vcpus >= 0
    OBVIOUS
  <2>3. m * Vcpus \in Nat /\ n * Vcpus \in Nat /\ (n - m) * Vcpus \in Int
    OBVIOUS
  <2> QED BY <2>1, <2>2, <2>3
<1>2. m * Vcpus \in Nat /\ n * Vcpus \in Nat
  OBVIOUS
<1> QED BY <1>1, <1>2

(* What the cap leaves fits, if nothing is pending. *)
LEMMA CapFits ==
  ASSUME TypeOK, pending = 0, NEW n \in Nat, QuotaCap(n, Headroom) > 0
  PROVE  Others + (running + QuotaCap(n, Headroom)) * Vcpus =< Quota
<1> DEFINE k == QuotaCap(n, Headroom)
<1>1. Headroom \in Nat /\ k \in Nat /\ running \in Nat
  BY HeadroomIsNatural, CapIsNatural DEF TypeOK
<1>2. CASE Vcpus = 0
  BY <1>1, <1>2
<1>3. CASE Vcpus > 0
  <2>1. k * Vcpus =< Headroom
    BY <1>1, <1>3, CapIsNatural
  <2>2. k * Vcpus > 0
    BY <1>1, <1>3
  <2>3. Headroom = Quota - (Others + running * Vcpus)
    BY <1>1, <2>1, <2>2 DEF Headroom
  <2>4. (running + k) * Vcpus = running * Vcpus + k * Vcpus
    BY <1>1
  <2>5. running * Vcpus \in Nat /\ k * Vcpus \in Nat
    BY <1>1
  <2>6. Others \in Nat /\ Headroom \in Nat /\ Quota \in Nat
    BY <1>1
  <2> HIDE DEF k
  <2>7. Others + (running + k) * Vcpus =< Quota
    BY <2>1, <2>3, <2>4, <2>5, <2>6
  <2> QED BY <2>7 DEF k
<1> QED BY <1>2, <1>3

LEMMA SizeInit == Init => SizeInv
BY DEF Init, SizeInv

(* A step changes the sizes of one invocation at most; another's are disturbed
   only by a launch. *)
LEMMA SizeStep == TypeOK /\ SizeInv /\ [Next]_vars => SizeInv'
<1> SUFFICES ASSUME TypeOK, SizeInv, [Next]_vars
             PROVE  SizeInv'
  OBVIOUS
<1> USE DEF TypeOK
<1>1. ASSUME NEW p \in Proc, Step(p) PROVE SizeInv'
  <2> USE DEF SizeInv, Room
  <2>1. CASE Load(p)
    BY <2>1 DEF Load
  <2>2. CASE AskGitHub(p)
    BY <2>2 DEF AskGitHub
  <2>3. CASE Ensure(p)
    <3>1. CASE FindNetwork(p)
      BY <2>3, <3>1 DEF FindNetwork, Ensure
    <3>2. ASSUME NEW r \in Resource, NEW l \in Resource \cup {"ready"},
                 GetOrCreate(p, r, l) \/ Put(p, r, l)
          PROVE  SizeInv'
      <4>1. /\ pc[p] = r /\ (pc' = pc \/ pc' = [pc EXCEPT ![p] = l])
            /\ UNCHANGED <<cmd, sizeVars, usageVars>>
        BY <2>3, <3>2 DEF GetOrCreate, Found, Missed, Created, Put, Ensure
      <4> QED BY <4>1 DEF Resource
    <3> QED BY <2>3, <3>1, <3>2, EnsuresOneResource DEF Ensure
  <2>4. CASE Prepare(p)
    BY <2>4 DEF Prepare
  <2>5. CASE Reconcile(p)
    BY <2>5 DEF Reconcile
  <2>6. CASE Preflight(p)
    BY <2>6 DEF Preflight
  <2>7. CASE ListRuns(p)
    BY <2>7 DEF ListRuns
  <2>8. CASE CountJobs(p)
    BY <2>8 DEF CountJobs
  <2>9. CASE Size(p)
    BY <2>9 DEF Size, FleetSize, Least
  <2>10. CASE ReadQuota(p)
    <3> DEFINE k == QuotaCap(want[p], Headroom)
    <3>1. k \in Nat
      BY HeadroomIsNatural, CapIsNatural
    <3>2. pending = 0 /\ k > 0 => Others + (running + k) * Vcpus =< Quota
      BY CapFits
    <3>3. /\ pc[p] = "quota" /\ pc' = [pc EXCEPT ![p] = "image"]
          /\ k = 0 => adopted[p]
          /\ want' = [want EXCEPT ![p] = k]
          /\ quiet' = [quiet EXCEPT ![p] = pending = 0]
          /\ UNCHANGED <<cmd, adopted, launched, usageVars>>
      BY <2>10 DEF ReadQuota
    <3> HIDE DEF k
    <3>4. quiet'[p] => pending = 0
      BY <3>3
    <3>5. quiet'[p] /\ want'[p] > 0 => Room(want[p])'
      BY <3>2, <3>3, <3>4, <3>1
    <3> QED BY <3>1, <3>3, <3>5
  <2>11. CASE GetImage(p)
    BY <2>11 DEF GetImage
  <2>12. CASE Launch(p)
    <3>1. /\ pc[p] = "launch" /\ want[p] > 0
          /\ pending' = pending + 1
          /\ want' = [want EXCEPT ![p] = @ - 1]
          /\ launched' = [launched EXCEPT ![p] = TRUE]
          /\ quiet' = [q \in Proc |-> q = p /\ quiet[p]]
          /\ UNCHANGED <<pc, cmd, adopted, running>>
      BY <2>12 DEF Launch
    <3>2. quiet'[p] => quiet[p] /\ Room(want[p])
      BY <3>1
    <3>3. pending' + running' + want'[p] = pending + running + want[p]
      BY <3>1
    <3>4. quiet'[p] => Room(want[p])'
      BY <3>2, <3>3
    <3>5. \A q \in Proc : q # p => ~quiet'[q]
      BY <3>1
    <3> QED BY <3>1, <3>2, <3>4, <3>5
  <2>13. CASE Watch(p)
    BY <2>13 DEF Watch
  <2>14. CASE Quit(p)
    BY <2>14 DEF Quit, End
  <2> QED BY <1>1, <2>1, <2>2, <2>3, <2>4, <2>5, <2>6, <2>7, <2>8, <2>9, <2>10, <2>11,
             <2>12, <2>13, <2>14 DEF Step
<1>2. CASE \E r \in Run : Arrival(r) \/ Progress(r)
  BY <1>2 DEF Arrival, Progress, SizeInv, Room
<1>3. CASE VmBoots
  BY <1>3 DEF VmBoots, SizeInv, Room
<1>4. CASE VmEnds
  BY <1>4 DEF VmEnds, SizeInv, Room
<1>5. CASE UNCHANGED vars
  BY <1>5 DEF vars, SizeInv, Room
<1> QED BY <1>1, <1>2, <1>3, <1>4, <1>5 DEF Next
LEMMA EntrySizes == Spec => [](TypeOK /\ SizeInv)
<1>1. Init => TypeOK /\ SizeInv
  BY EntryInit, SizeInit
<1>2. TypeOK /\ SizeInv /\ [Next]_vars => (TypeOK /\ SizeInv)'
  BY EntryTypes, SizeStep
<1> QED BY <1>1, <1>2, PTL DEF Spec

(* What an up still has to launch fits the quota, for any instance type and
   quota, if nothing was pending when it read the headroom and nobody else has
   launched since (up.rs:379-405). *)
THEOREM QuietUpsFit == Spec => []QuietUpFits
<1>1. TypeOK /\ SizeInv => QuietUpFits
  BY DEF SizeInv, QuietUpFits
<1> QED BY <1>1, EntrySizes, PTL

(* An up that reaches its watch adopted or launched an instance (up.rs:371-378). *)
THEOREM WatchersHaveAFleet == Spec => []WatchesAFleet
<1>1. TypeOK /\ SizeInv => WatchesAFleet
  BY DEF SizeInv, WatchesAFleet
<1> QED BY <1>1, EntrySizes, PTL
------------------------------------------------------------------------
(* The listing of up --auto. *)

(* No run is listed twice, and a completed one has no queued jobs. *)
RunsInv ==
  /\ \A i, j \in DOMAIN listed : listed[i] = listed[j] => i = j
  /\ \A r \in done : queued[r] = 0

(* Below the page it asks for, and there only, an invocation has every run that is
   not completed. *)
ListedBy(p) ==
  /\ pc[p] \notin {"list", "jobs"} => \A r \in Run : ids[p][r] = 0
  /\ pc[p] = "list" => page[p] >= 1
  /\ pc[p] = "list" /\ ~shifted[p] =>
       /\ \A r \in Run : r \notin Listed => ids[p][r] = 0
       /\ \A i \in DOMAIN listed :
            /\ i > (page[p] - 1) * PerPage => ids[p][listed[i]] = 0
            /\ i =< (page[p] - 1) * PerPage /\ listed[i] \notin done => ids[p][listed[i]] = 1

ListInv == RunsInv /\ \A p \in Proc : ListedBy(p)

(* One request takes the counts from one page to the next. *)
LEMMA PageCounts ==
  ASSUME TypeOK, ListInv, NEW p \in Proc, ListRuns(p), ~shifted[p]
  PROVE  /\ \A r \in Run : r \notin Listed => ids'[p][r] = 0
         /\ \A i \in DOMAIN listed :
              /\ i > page[p] * PerPage => ids'[p][listed[i]] = 0
              /\ i =< page[p] * PerPage /\ listed[i] \notin done => ids'[p][listed[i]] = 1
<1> USE DEF TypeOK, QueueTypeOK
<1>1. pc[p] = "list" /\ page[p] >= 1 /\ page[p] \in Nat
  BY DEF ListRuns, ListInv, ListedBy
<1>2. \A r \in Run :
        ids'[p][r] = IF r \in Page(page[p]) /\ r \notin done THEN ids[p][r] + 1 ELSE ids[p][r]
  BY DEF ListRuns, HasQueuePotential
<1>3. /\ \A r \in Run : r \notin Listed => ids[p][r] = 0
      /\ \A i \in DOMAIN listed :
           /\ i > (page[p] - 1) * PerPage => ids[p][listed[i]] = 0
           /\ i =< (page[p] - 1) * PerPage /\ listed[i] \notin done => ids[p][listed[i]] = 1
  BY <1>1 DEF ListInv, ListedBy
<1> DEFINE low == (page[p] - 1) * PerPage
           high == page[p] * PerPage
           old == ids[p]
           new == ids'[p]
           found == Page(page[p])
<1>4. low \in Int /\ high \in Int /\ low =< high
  <2>1. (page[p] - 1) * PerPage = page[p] * PerPage - PerPage
    BY <1>1
  <2> QED BY <1>1, <2>1
<1>5. found = {listed[i] : i \in {j \in DOMAIN listed : low < j /\ j =< high}}
  BY DEF Page
<1>6. /\ \A r \in Run : new[r] = IF r \in found /\ r \notin done THEN old[r] + 1 ELSE old[r]
      /\ \A r \in Run : r \notin Listed => old[r] = 0
      /\ \A i \in DOMAIN listed :
           /\ i > low => old[listed[i]] = 0
           /\ i =< low /\ listed[i] \notin done => old[listed[i]] = 1
  BY <1>2, <1>3
<1>7. \A i \in DOMAIN listed : listed[i] \in Run /\ i \in Int
  OBVIOUS
<1>8. \A i, j \in DOMAIN listed : listed[i] = listed[j] => i = j
  BY DEF ListInv, RunsInv
<1> HIDE DEF low, high, old, new, found
<1>9. \A r \in found : r \in Listed
  BY <1>5
<1>10. ASSUME NEW i \in DOMAIN listed
       PROVE  listed[i] \in found <=> low < i /\ i =< high
  BY <1>5, <1>8, <1>10
<1>11. \A r \in Run : r \notin Listed => new[r] = 0
  BY <1>6, <1>9
<1>12. ASSUME NEW i \in DOMAIN listed, i > high
       PROVE  new[listed[i]] = 0
  <2>1. listed[i] \notin found /\ listed[i] \in Run /\ i > low
    BY <1>4, <1>7, <1>10, <1>12, SMTT(30)
  <2> QED BY <1>6, <1>12, <2>1, ZenonT(30)
<1>13. ASSUME NEW i \in DOMAIN listed, i =< high, listed[i] \notin done
       PROVE  new[listed[i]] = 1
  <2>1. CASE i =< low
    <3>1. listed[i] \notin found /\ listed[i] \in Run
      BY <1>4, <1>7, <1>10, <2>1, SMTT(30)
    <3> QED BY <1>6, <1>13, <2>1, <3>1, ZenonT(30)
  <2>2. CASE ~(i =< low)
    <3>1. listed[i] \in found /\ listed[i] \in Run /\ i > low
      BY <1>4, <1>7, <1>10, <1>13, <2>2, SMTT(30)
    <3>2. old[listed[i]] = 0
      BY <1>6, <3>1
    <3>3. new[listed[i]] = old[listed[i]] + 1
      BY <1>6, <1>13, <3>1
    <3> QED BY <3>2, <3>3
  <2> QED BY <2>1, <2>2
<1> QED BY <1>11, <1>12, <1>13 DEF new, high

LEMMA ListInit == Init => ListInv
BY DEF Init, ListInv, RunsInv, ListedBy, QueueInit

(* What a step that leaves the queue alone does to the listings. *)
LEMMA ListKept ==
  ASSUME ListInv, NEW p \in Proc, UNCHANGED queueVars,
         \A q \in Proc : q # p => /\ pc'[q] = pc[q] /\ ids'[q] = ids[q]
                                 /\ page'[q] = page[q] /\ shifted'[q] = shifted[q],
         ListedBy(p)'
  PROVE  ListInv'
BY DEF ListInv, RunsInv, ListedBy

LEMMA ListStep == TypeOK /\ ListInv /\ [Next]_vars => ListInv'
<1> SUFFICES ASSUME TypeOK, ListInv, [Next]_vars
             PROVE  ListInv'
  OBVIOUS
<1>0. /\ pc \in [Proc -> Label] /\ page \in [Proc -> Nat]
      /\ ids \in [Proc -> [Run -> Nat]] /\ shifted \in [Proc -> BOOLEAN]
      /\ listed \in Seq(Run) /\ queued \in [Run -> 0..MaxJobs] /\ done \subseteq Run
  BY DEF TypeOK, QueueTypeOK
<1>1. ASSUME NEW p \in Proc, Step(p) PROVE ListInv'
  <2>0. ListedBy(p)
    BY DEF ListInv
  <2>1. CASE ListRuns(p)
    <3>1. UNCHANGED queueVars /\ pc[p] = "list" /\ page[p] >= 1 /\ page[p] \in Nat
          /\ \A q \in Proc : q # p => /\ pc'[q] = pc[q] /\ ids'[q] = ids[q]
                                   /\ page'[q] = page[q] /\ shifted'[q] = shifted[q]
      BY <1>0, <2>0, <2>1 DEF ListRuns, ListedBy
    <3>2. CASE IsLastPage(page[p])
      <4>1. pc'[p] = "jobs"
        BY <1>0, <2>1, <3>2 DEF ListRuns
      <4> QED BY <1>0, <3>1, <4>1, ListKept DEF ListedBy
    <3>3. CASE ~IsLastPage(page[p])
      <4>1. pc'[p] = "list" /\ page'[p] = page[p] + 1 /\ shifted'[p] = shifted[p]
        BY <1>0, <2>1, <3>1, <3>3 DEF ListRuns
      <4>0. page[p] \in Nat
        BY <1>0
      <4>2. page'[p] - 1 = page[p] /\ page'[p] >= 1
        BY <1>0, <4>0, <4>1
      <4>3. CASE shifted[p]
        BY <1>0, <3>1, <4>1, <4>2, <4>3, ListKept DEF ListedBy
      <4>4. CASE ~shifted[p]
        <5>1. /\ \A r \in Run : r \notin Listed => ids'[p][r] = 0
              /\ \A i \in DOMAIN listed :
                   /\ i > (page'[p] - 1) * PerPage => ids'[p][listed[i]] = 0
                   /\ i =< (page'[p] - 1) * PerPage /\ listed[i] \notin done
                        => ids'[p][listed[i]] = 1
          BY <1>0, <2>1, <4>2, <4>4, PageCounts
        <5>2. ListedBy(p)'
          BY <1>0, <3>1, <4>1, <4>2, <5>1 DEF ListedBy
        <5> QED BY <1>0, <3>1, <5>2, ListKept
      <4> QED BY <1>0, <4>3, <4>4
    <3> QED BY <1>0, <3>2, <3>3
  <2>2. CASE CountJobs(p)
    <3>1. CASE ids[p] = NoRuns
      <4>1. /\ pc[p] = "jobs" /\ pc' = [pc EXCEPT ![p] = "size"]
            /\ UNCHANGED <<ids, page, shifted, queueVars>>
        BY <2>2, <3>1 DEF CountJobs
      <4>2. \A r \in Run : ids'[p][r] = 0
        BY <3>1, <4>1
      <4>3. ListedBy(p)'
        BY <1>0, <4>1, <4>2 DEF ListedBy
      <4> QED BY <4>1, <4>3, ListKept
    <3>2. CASE ids[p] # NoRuns
      <4>1. pc[p] = "jobs" /\ UNCHANGED <<pc, page, shifted, queueVars>>
            /\ \A q \in Proc : q # p => ids'[q] = ids[q]
        BY <1>0, <2>2, <3>2 DEF CountJobs
      <4> QED BY <1>0, <4>1, ListKept DEF ListedBy
    <3> QED BY <1>0, <3>1, <3>2
  <2>3. CASE Preflight(p)
    <3>1. /\ pc[p] = "preflight" /\ UNCHANGED <<queueVars, ids, shifted>>
          /\ \A q \in Proc : q # p => pc'[q] = pc[q] /\ page'[q] = page[q]
          /\ \A r \in Run : ids'[p][r] = 0
      BY <1>0, <2>0, <2>3 DEF Preflight, ListedBy
    <3>2. \/ pc'[p] = "list" /\ page'[p] = 1
          \/ pc'[p] = "size"
      BY <1>0, <2>3 DEF Preflight
    <3>3. \A i \in DOMAIN listed : listed[i] \in Run /\ i > (1 - 1) * PerPage
      BY <1>0
    <3>4. ListedBy(p)'
      <4>1. CASE pc'[p] = "list" /\ page'[p] = 1
        BY <1>0, <3>1, <3>3, <4>1 DEF ListedBy
      <4>2. CASE pc'[p] = "size"
        BY <1>0, <3>1, <4>2 DEF ListedBy
      <4> QED BY <1>0, <3>2, <4>1, <4>2
    <3> QED BY <1>0, <3>1, <3>4, ListKept
  <2>4. CASE Ensure(p)
    <3>1. UNCHANGED <<queueVars, listVars>>
      BY <1>0, <2>4 DEF Ensure
    <3>2. /\ pc[p] \notin {"list", "jobs"} /\ pc'[p] \notin {"list", "jobs"}
          /\ \A q \in Proc : q # p => pc'[q] = pc[q]
      <4>1. CASE FindNetwork(p)
        BY <1>0, <4>1 DEF FindNetwork
      <4>2. ASSUME NEW r \in Resource, NEW l \in Resource \cup {"ready"},
                   GetOrCreate(p, r, l) \/ Put(p, r, l)
            PROVE  <3>2
        BY <1>0, <4>2 DEF GetOrCreate, Found, Missed, Created, Put, Resource
      <4> QED BY <1>0, <2>4, <4>1, <4>2, EnsuresOneResource DEF Ensure
    <3> QED BY <1>0, <2>0, <3>1, <3>2, ListKept DEF ListedBy
  <2>5. CASE Quit(p)
    BY <1>0, <2>5, <2>0, ListKept DEF Quit, End, ListedBy
  <2>6. CASE Load(p)
    BY <1>0, <2>6, <2>0, ListKept DEF Load, ListedBy
  <2>7. CASE AskGitHub(p)
    BY <1>0, <2>7, <2>0, ListKept DEF AskGitHub, ListedBy
  <2>8. CASE Prepare(p)
    BY <1>0, <2>8, <2>0, ListKept DEF Prepare, ListedBy
  <2>9. CASE Reconcile(p)
    BY <1>0, <2>9, <2>0, ListKept DEF Reconcile, ListedBy
  <2>10. CASE Size(p)
    BY <1>0, <2>10, <2>0, ListKept DEF Size, ListedBy
  <2>11. CASE ReadQuota(p)
    BY <1>0, <2>11, <2>0, ListKept DEF ReadQuota, ListedBy
  <2>12. CASE GetImage(p) \/ Watch(p)
    <3>1. CASE GetImage(p)
      BY <1>0, <3>1, <2>0, ListKept DEF GetImage, ListedBy
    <3>2. CASE Watch(p)
      BY <1>0, <3>2, <2>0, ListKept DEF Watch, ListedBy
    <3> QED BY <2>12, <3>1, <3>2
  <2>13. CASE Launch(p)
    BY <1>0, <2>13, <2>0, ListKept DEF Launch, ListedBy
  <2> QED BY <1>0, <1>1, <2>1, <2>2, <2>3, <2>4, <2>5, <2>6, <2>7, <2>8, <2>9, <2>10, <2>11,
             <2>12, <2>13 DEF Step
<1>2. CASE VmBoots \/ VmEnds
  BY <1>0, <1>2 DEF VmBoots, VmEnds, ListInv, RunsInv, ListedBy
<1>3. CASE UNCHANGED vars
  BY <1>0, <1>3 DEF vars, ListInv, RunsInv, ListedBy
<1>4. ASSUME NEW r \in Run, Arrival(r) PROVE ListInv'
  <2>1. /\ r \notin Listed /\ listed' = <<r>> \o listed /\ listed \in Seq(Run)
        /\ UNCHANGED <<pc, ids, page, queued, done>>
        /\ \A p \in Proc : shifted[p] \/ (pc[p] = "list" /\ page[p] > 1) => shifted'[p]
    BY <1>0, <1>4 DEF Arrival, RunArrives, QueueTypeOK
  <2>2. \A i \in DOMAIN listed' :
          /\ i \in Int /\ i > 0 /\ listed'[i] \in Run
          /\ i = 1 => listed'[i] = r
          /\ i # 1 => i - 1 \in DOMAIN listed /\ listed'[i] = listed[i - 1]
    BY <1>0, <2>1
  <2>3. RunsInv'
    BY <1>0, <2>1, <2>2 DEF ListInv, RunsInv
  <2>4. ASSUME NEW p \in Proc, pc[p] = "list", ~shifted'[p]
        PROVE  page[p] = 1 /\ \A x \in Run : ids[p][x] = 0
    <3>0. ~shifted[p] /\ ~(page[p] > 1)
      BY <1>0, <2>1, <2>4
    <3>1. ~shifted[p] /\ page[p] = 1
      BY <1>0, <2>4, <3>0 DEF ListInv, ListedBy
    <3>2. \A i \in DOMAIN listed : i > (page[p] - 1) * PerPage
      BY <1>0, <2>1, <3>1
    <3>3. \A i \in DOMAIN listed : ids[p][listed[i]] = 0
      BY <1>0, <2>4, <3>1, <3>2 DEF ListInv, ListedBy
    <3> QED BY <1>0, <2>4, <3>1, <3>3 DEF ListInv, ListedBy
  <2>5. ASSUME NEW p \in Proc PROVE ListedBy(p)'
    <3>1. CASE pc[p] = "list" /\ ~shifted'[p]
      <4>1. \A i \in DOMAIN listed' : ~(i =< (page[p] - 1) * PerPage)
        BY <1>0, <2>2, <2>4, <3>1
      <4> QED BY <1>0, <2>1, <2>2, <2>4, <3>1, <4>1 DEF ListedBy
    <3>2. CASE ~(pc[p] = "list" /\ ~shifted'[p])
      BY <1>0, <2>1, <3>2 DEF ListInv, ListedBy
    <3> QED BY <1>0, <3>1, <3>2
  <2> QED BY <1>0, <2>3, <2>5 DEF ListInv
<1>5. ASSUME NEW r \in Run, Progress(r) PROVE ListInv'
  <2>1. UNCHANGED <<listed, pc, listVars>> /\ done \subseteq done'
    BY <1>0, <1>5 DEF Progress, JobQueued, JobTaken, RunCompletes
  <2>2. RunsInv'
    BY <1>0, <1>5, <2>1 DEF Progress, JobQueued, JobTaken, RunCompletes, ListInv, RunsInv, QueueTypeOK
  <2>3. ASSUME NEW p \in Proc PROVE ListedBy(p)'
    BY <1>0, <2>1 DEF ListInv, ListedBy
  <2> QED BY <1>0, <2>2, <2>3 DEF ListInv
<1> QED BY <1>1, <1>2, <1>3, <1>4, <1>5 DEF Next

(* With no arrival between its pages, the last page leaves every run with queued
   jobs in ids exactly once, for any number of runs and any page size
   (github.rs:340-394). *)
THEOREM RunsListedOnce == Spec => ListsEachRunOnce
<1> DEFINE Once ==
      \A p \in Proc : pc[p] = "list" /\ pc'[p] = "jobs" /\ ~shifted[p] =>
        \A r \in Listed : queued[r] > 0 => ids'[p][r] = 1
<1>1. Init => TypeOK /\ ListInv
  BY EntryInit, ListInit
<1>2. TypeOK /\ ListInv /\ [Next]_vars => (TypeOK /\ ListInv)'
  BY EntryTypes, ListStep
<1>3. ASSUME TypeOK, ListInv, [Next]_vars
      PROVE  [Once]_vars
  <2> SUFFICES ASSUME NEW p \in Proc, pc[p] = "list", pc'[p] = "jobs", ~shifted[p],
                      NEW r \in Listed, queued[r] > 0
               PROVE  ids'[p][r] = 1
    OBVIOUS
  <2>1. ListRuns(p) /\ IsLastPage(page[p])
    <3>1. ASSUME NEW q \in Proc, Step(q) PROVE ListRuns(p) /\ IsLastPage(page[p])
      <4> USE DEF TypeOK
      <4>1. CASE ListRuns(q)
        BY <1>3, <4>1 DEF ListRuns
      <4>2. CASE Ensure(q)
        <5>1. CASE FindNetwork(q)
          BY <1>3, <5>1 DEF FindNetwork
        <5>2. ASSUME NEW x \in Resource, NEW l \in Resource \cup {"ready"},
                     GetOrCreate(q, x, l) \/ Put(q, x, l)
              PROVE  FALSE
          <6>1. pc[q] = x /\ (pc' = pc \/ pc' = [pc EXCEPT ![q] = l])
            BY <5>2 DEF GetOrCreate, Found, Missed, Created, Put
          <6> QED BY <1>3, <6>1 DEF Resource
        <5> QED BY <4>2, <5>1, <5>2, EnsuresOneResource DEF Ensure
      <4>3. CASE Load(q)
        BY <1>3, <4>3 DEF Load
      <4>4. CASE Prepare(q) \/ AskGitHub(q)
        BY <1>3, <4>4 DEF Prepare, AskGitHub
      <4>5. CASE Reconcile(q) \/ Preflight(q)
        BY <1>3, <4>5 DEF Reconcile, Preflight
      <4>6. CASE CountJobs(q) \/ Size(q) \/ ReadQuota(q)
        BY <1>3, <4>6 DEF CountJobs, Size, ReadQuota
      <4>7. CASE GetImage(q) \/ Launch(q) \/ Watch(q)
        BY <1>3, <4>7 DEF GetImage, Launch, Watch
      <4>8. CASE Quit(q)
        BY <1>3, <4>8 DEF Quit, End
      <4> QED BY <3>1, <4>1, <4>2, <4>3, <4>4, <4>5, <4>6, <4>7, <4>8 DEF Step
    <3>2. CASE \/ \E x \in Run : Arrival(x) \/ Progress(x)
               \/ VmBoots \/ VmEnds \/ UNCHANGED vars
      BY <3>2 DEF Arrival, Progress, VmBoots, VmEnds, vars
    <3> QED BY <1>3, <3>1, <3>2 DEF Next
  <2>2. PICK i \in DOMAIN listed : r = listed[i]
    OBVIOUS
  <2>3. r \notin done
    <3>1. \A x \in done : queued[x] = 0
      BY <1>3 DEF ListInv, RunsInv
    <3> QED BY <3>1
  <2>4. i =< page[p] * PerPage
    <3>1. listed \in Seq(Run) /\ page[p] \in Nat
      BY <1>3 DEF TypeOK, QueueTypeOK
    <3>2. page[p] * PerPage \in Nat
      BY <3>1
    <3>3. i \in 1..Len(listed) /\ Len(listed) \in Nat /\ Len(listed) < page[p] * PerPage
      BY <2>1, <2>2, <3>1 DEF IsLastPage
    <3> QED BY <3>2, <3>3
  <2> QED BY <1>3, <2>1, <2>2, <2>3, <2>4, PageCounts
<1> QED BY <1>1, <1>2, <1>3, PTL DEF Spec, ListsEachRunOnce, Once
=======================================================================
