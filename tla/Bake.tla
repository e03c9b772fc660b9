----------------------------- MODULE Bake -----------------------------
(* AwsCloud::bake: get or create the image of a key, run at the same time by
   several invocations (`burst bake` takes no lock, and every host's `burst up`
   bakes on a cache miss), with the builders, images and snapshots in one AWS
   account.

   A bake launches at most one builder and makes at most one image, so all three
   carry the name of the bake; the other images are there from the start.  Time
   is left open: an hour may pass between any two steps, as it does on a host
   that is suspended. *)

CONSTANTS
  Image,    \* images, by the bake that may make them or from before
  Baker,    \* invocations of bake
  Repo,     \* values of the tag burst-actions-repo
  Key,      \* image keys
  RepoFor,  \* [Image -> Repo]: the repository of a bake, and of its image
  KeyFor,   \* [Image -> Key \cup {NoKey}]: likewise its image key
  NoKey,    \* an older image without a readable key tag
  NoImage

ASSUME BakersMakeImages == Baker \subseteq Image
ASSUME RepoForType == RepoFor \in [Image -> Repo]
ASSUME KeyForType == KeyFor \in [Image -> Key \cup {NoKey}]
ASSUME BakersHaveKeys == \A b \in Baker : KeyFor[b] \in Key
ASSUME OldNamesDiffer ==
  \A i, j \in Image \ Baker : KeyFor[i] = KeyFor[j] /\ KeyFor[i] \in Key => i = j
ASSUME NoKeyIsNone == NoKey \notin Key
ASSUME NoImageIsNone == NoImage \notin Image

VARIABLES
  pc,        \* [Baker -> Label]: the call a bake is about to make
  builder,   \* [Baker -> BuilderState]
  armed,     \* [Baker -> BOOLEAN]: the builder's kill schedule exists
  image,     \* [Image -> ImageState]
  snapshot,  \* [Image -> BOOLEAN]: the image's snapshot exists
  result,    \* [Baker -> Image \cup {NoImage}]: the id bake returned
  stale,     \* [Baker -> SUBSET Image]: superseded images left to delete
  known,     \* [Baker -> SUBSET Image]: those whose snapshot the listing named
  cur        \* [Baker -> Image \cup {NoImage}]: deregistered, snapshot not yet deleted

builderVars == <<builder, armed>>
imageVars == <<image, snapshot>>
gcVars == <<stale, known, cur>>
vars == <<pc, builderVars, imageVars, result, gcVars>>

Label ==
  {"new", "done", "failed",
   "launch", "arm", "disown",           \* launch_builder, arm_kill
   "stopping", "create", "imaging",     \* build_image_from_builder
   "abandon", "unfence",                \* its error arm
   "retire", "disarm",                  \* success
   "list", "collect", "snapshot"}       \* cleanup_superseded

(* A builder runs until something stops it: its shutdown behaviour is "stop". *)
BuilderState == {"absent", "running", "stopped", "dead"}

ImageState == {"none", "pending", "available", "broken", "deregistered"}

TypeOK ==
  /\ pc \in [Baker -> Label]
  /\ builder \in [Baker -> BuilderState]
  /\ armed \in [Baker -> BOOLEAN]
  /\ image \in [Image -> ImageState]
  /\ snapshot \in [Image -> BOOLEAN]
  /\ result \in [Baker -> Image \cup {NoImage}]
  /\ stale \in [Baker -> SUBSET Image]
  /\ known \in [Baker -> SUBSET Image]
  /\ cur \in [Baker -> Image \cup {NoImage}]
  /\ \A b \in Baker : pc[b] = "snapshot" => cur[b] \in Image

(* An image of before may still be in the making: its bake was killed. *)
Init ==
  /\ pc = [b \in Baker |-> "new"]
  /\ builder = [b \in Baker |-> "absent"]
  /\ armed = [b \in Baker |-> FALSE]
  /\ image \in [Image -> {"none", "pending", "available"}]
  /\ \A i \in Image : image[i] = "none" <=> i \in Baker
  /\ snapshot = [i \in Image |-> i \notin Baker]
  /\ result = [b \in Baker |-> NoImage]
  /\ stale = [b \in Baker |-> {}]
  /\ known = [b \in Baker |-> {}]
  /\ cur = [b \in Baker |-> NoImage]

At(b, l) == pc[b] = l
Goto(b, l) == pc' = [pc EXCEPT ![b] = l]

Alive(b) == builder[b] \in {"running", "stopped"}
Registered(i) == image[i] \in {"pending", "available", "broken"}

(* bake returns an error or is killed: nothing more is done. *)
Fail(b) ==
  /\ Goto(b, "failed")
  /\ stale' = [stale EXCEPT ![b] = {}]
  /\ known' = [known EXCEPT ![b] = {}]
  /\ cur' = [cur EXCEPT ![b] = NoImage]

Quit(b) ==
  /\ pc[b] \notin {"new", "done", "failed"}
  /\ Fail(b)
  /\ UNCHANGED <<builderVars, imageVars, result>>

Return(b, i) ==
  /\ Goto(b, "done")
  /\ result' = [result EXCEPT ![b] = i]

------------------------------------------------------------------------
(* The cache check. *)

(* describe_image_by_key: available, of this repository and of this key. *)
Cached(b) ==
  {i \in Image : image[i] = "available" /\ RepoFor[i] = RepoFor[b] /\ KeyFor[i] = KeyFor[b]}

CacheHit(b) ==
  /\ At(b, "new")
  /\ \E i \in Cached(b) : Return(b, i)
  /\ UNCHANGED <<builderVars, imageVars, gcVars>>

CacheMiss(b) ==
  /\ At(b, "new")
  /\ Cached(b) = {}
  /\ Goto(b, "launch")
  /\ UNCHANGED <<builderVars, imageVars, result, gcVars>>

------------------------------------------------------------------------
(* The builder: launched, fenced, waited for. *)

LaunchBuilder(b) ==
  /\ At(b, "launch")
  /\ builder' = [builder EXCEPT ![b] = "running"]
  /\ Goto(b, "arm")
  /\ UNCHANGED <<armed, imageVars, result, gcVars>>

MutArmBuilder(b) ==
  /\ At(b, "arm")
  /\ Goto(b, "stopping")
  /\ UNCHANGED <<builderVars, imageVars, result, gcVars>>

ArmBuilder(b) ==
  /\ At(b, "arm")
  /\ armed' = [armed EXCEPT ![b] = TRUE]
  /\ Goto(b, "stopping")
  /\ UNCHANGED <<builder, imageVars, result, gcVars>>

(* No schedule was created, or its reply was lost. *)
ArmFails(b) ==
  /\ At(b, "arm")
  /\ \E a \in BOOLEAN : armed' = [armed EXCEPT ![b] = a]
  /\ Goto(b, "disown")
  /\ UNCHANGED <<builder, imageVars, result, gcVars>>

TerminateBuilder(b) ==
  builder' = [builder EXCEPT ![b] = "dead"]

(* The unfenced builder is terminated at once, and bake fails. *)
Disown(b) ==
  /\ At(b, "disown")
  /\ TerminateBuilder(b)
  /\ Fail(b)
  /\ UNCHANGED <<armed, imageVars, result>>

(* wait_for_stopped only knows "stopped", whatever stopped the builder; one that
   somebody terminated never gets there. *)
WaitForStopped(b) ==
  /\ At(b, "stopping")
  /\ builder[b] = "stopped"
  /\ Goto(b, "create")
  /\ UNCHANGED <<builderVars, imageVars, result, gcVars>>

(* Image names are unique in an account, and the name is made of the key.  EC2
   would image a running instance too. *)
NameHolders(b) ==
  {i \in Image : image[i] \in {"pending", "available"} /\ KeyFor[i] = KeyFor[b]}

CreatesImage(b) ==
  /\ Alive(b)
  /\ NameHolders(b) = {}
  /\ image' = [image EXCEPT ![b] = "pending"]
  /\ snapshot' = [snapshot EXCEPT ![b] = TRUE]

CreateImage(b) ==
  /\ At(b, "create")
  /\ CreatesImage(b)
  /\ Goto(b, "imaging")
  /\ UNCHANGED <<builderVars, result, gcVars>>

WaitForImage(b) ==
  /\ At(b, "imaging")
  /\ image[b] = "available"
  /\ Goto(b, "retire")
  /\ UNCHANGED <<builderVars, imageVars, result, gcVars>>

(* build_image_from_builder returns an error: a describe call failed, a deadline
   passed, the image broke, CreateImage was refused or its reply lost. *)
BuildFails(b) ==
  /\ \/ pc[b] \in {"stopping", "create", "imaging"} /\ UNCHANGED imageVars
     \/ At(b, "create") /\ CreatesImage(b)
  /\ Goto(b, "abandon")
  /\ UNCHANGED <<builderVars, result, gcVars>>

------------------------------------------------------------------------
(* The builder's end. *)

(* The error arm: the schedule is deleted only once the builder is terminated;
   a terminate that fails leaves it as the backstop. *)
Abandon(b) ==
  /\ At(b, "abandon")
  /\ TerminateBuilder(b)
  /\ Goto(b, "unfence")
  /\ UNCHANGED <<armed, imageVars, result, gcVars>>

MutAbandonFails(b) ==
  /\ At(b, "abandon")
  /\ Goto(b, "unfence")
  /\ UNCHANGED <<builderVars, imageVars, result, gcVars>>

AbandonFails(b) ==
  /\ At(b, "abandon")
  /\ Fail(b)
  /\ UNCHANGED <<builderVars, imageVars, result>>

Unfence(b) ==
  /\ At(b, "unfence")
  /\ armed' = [armed EXCEPT ![b] = FALSE]
  /\ Fail(b)
  /\ UNCHANGED <<builder, imageVars, result>>

MutRetire(b) ==
  /\ At(b, "retire")
  /\ Goto(b, "disarm")
  /\ UNCHANGED <<builderVars, imageVars, result, gcVars>>

Retire(b) ==
  /\ At(b, "retire")
  /\ TerminateBuilder(b)
  /\ Goto(b, "disarm")
  /\ UNCHANGED <<armed, imageVars, result, gcVars>>

DisarmBuilder(b) ==
  /\ At(b, "disarm")
  /\ armed' = [armed EXCEPT ![b] = FALSE]
  /\ Goto(b, "list")
  /\ UNCHANGED <<builder, imageVars, result, gcVars>>

------------------------------------------------------------------------
(* cleanup_superseded: one generation stays. *)

MutSuperseded(b) ==
  {i \in Image : Registered(i) /\ KeyFor[i] # KeyFor[b]}

(* Every image of the repository under another key or none, in any state. *)
Superseded(b) ==
  {i \in Image : Registered(i) /\ RepoFor[i] = RepoFor[b] /\ KeyFor[i] # KeyFor[b]}

(* The listing of an image in the making may lack its snapshot. *)
ListSuperseded(b) ==
  /\ At(b, "list")
  /\ stale' = [stale EXCEPT ![b] = Superseded(b)]
  /\ \E S \in SUBSET Superseded(b) :
       /\ {i \in Superseded(b) : image[i] # "pending"} \subseteq S
       /\ known' = [known EXCEPT ![b] = S]
  /\ Goto(b, "collect")
  /\ UNCHANGED <<builderVars, imageVars, result, cur>>

MutDeregister(b, i) ==
  /\ At(b, "collect")
  /\ i \in stale[b]
  /\ Registered(i)
  /\ image' = [image EXCEPT ![i] = "deregistered"]
  /\ stale' = [stale EXCEPT ![b] = @ \ {i}]
  /\ Goto(b, "snapshot")
  /\ UNCHANGED <<builderVars, snapshot, result, known, cur>>

(* An image somebody else deregistered since is an error, and ends the bake:
   then only Quit is left. *)
Deregister(b, i) ==
  /\ At(b, "collect")
  /\ i \in stale[b]
  /\ Registered(i)
  /\ image' = [image EXCEPT ![i] = "deregistered"]
  /\ stale' = [stale EXCEPT ![b] = @ \ {i}]
  /\ \/ /\ i \in known[b]
        /\ cur' = [cur EXCEPT ![b] = i]
        /\ Goto(b, "snapshot")
     \/ /\ i \notin known[b]
        /\ UNCHANGED <<pc, cur>>
  /\ UNCHANGED <<builderVars, snapshot, result, known>>

MutDeleteSnapshot(b) ==
  /\ At(b, "snapshot")
  /\ cur' = [cur EXCEPT ![b] = NoImage]
  /\ Goto(b, "collect")
  /\ UNCHANGED <<builderVars, imageVars, result, stale, known>>

DeleteSnapshot(b) ==
  /\ At(b, "snapshot")
  /\ snapshot' = [snapshot EXCEPT ![cur[b]] = FALSE]
  /\ cur' = [cur EXCEPT ![b] = NoImage]
  /\ Goto(b, "collect")
  /\ UNCHANGED <<builderVars, image, result, stale, known>>

BakeDone(b) ==
  /\ At(b, "collect")
  /\ stale[b] = {}
  /\ Return(b, b)
  /\ UNCHANGED <<builderVars, imageVars, gcVars>>

------------------------------------------------------------------------
(* What happens outside the program. *)

(* The builder stops: its provisioning script succeeded and powered it off, or
   the script failed and the bootstrap deadline did, or a custom script, a user at
   the console or EC2 did.  One whose script failed may also just stay running. *)
BuilderStops(b) ==
  /\ builder[b] = "running"
  /\ builder' = [builder EXCEPT ![b] = "stopped"]
  /\ UNCHANGED <<pc, armed, imageVars, result, gcVars>>

(* The schedule fires, on a stopped builder as on a running one. *)
BuilderKillFires(b) ==
  /\ armed[b]
  /\ armed' = [armed EXCEPT ![b] = FALSE]
  /\ builder' = [builder EXCEPT ![b] = "dead"]
  /\ UNCHANGED <<pc, imageVars, result, gcVars>>

(* The builder carries the fleet's tags, so the other commands of its repository
   take it for one of the fleet: a `burst down` terminates it, and so does a
   sweep, or an up, once it is expired. *)
OthersTerminate(b) ==
  /\ Alive(b)
  /\ TerminateBuilder(b)
  /\ UNCHANGED <<pc, armed, imageVars, result, gcVars>>

(* They disarm what they terminated, and a sweep or an up what no listing shows
   alive; Fleet has the listings, and says when they may be believed. *)
OthersDisarm(b) ==
  /\ builder[b] = "dead"
  /\ armed[b]
  /\ armed' = [armed EXCEPT ![b] = FALSE]
  /\ UNCHANGED <<pc, builder, imageVars, result, gcVars>>

ImageSettles(i) ==
  /\ image[i] = "pending"
  /\ \E s \in {"available", "broken"} : image' = [image EXCEPT ![i] = s]
  /\ UNCHANGED <<pc, builderVars, snapshot, result, gcVars>>

------------------------------------------------------------------------
BakeStep(b) ==
  \/ CacheHit(b) \/ CacheMiss(b)
  \/ LaunchBuilder(b) \/ ArmBuilder(b) \/ ArmFails(b) \/ Disown(b)
  \/ WaitForStopped(b) \/ CreateImage(b) \/ WaitForImage(b) \/ BuildFails(b)
  \/ Abandon(b) \/ AbandonFails(b) \/ Unfence(b)
  \/ Retire(b) \/ DisarmBuilder(b)
  \/ ListSuperseded(b) \/ DeleteSnapshot(b) \/ BakeDone(b)
  \/ \E i \in Image : Deregister(b, i)

Next ==
  \/ \E b \in Baker :
       \/ BakeStep(b) \/ Quit(b)
       \/ BuilderStops(b) \/ BuilderKillFires(b) \/ OthersTerminate(b) \/ OthersDisarm(b)
  \/ \E i \in Image : ImageSettles(i)

Spec == Init /\ [][Next]_vars
------------------------------------------------------------------------
(* Properties. *)

(* The bakes of a repository want one key: no host has another base image,
   agent version or provisioning script. *)
Agreed(r) ==
  \A b, c \in Baker : RepoFor[b] = r /\ RepoFor[c] = r => KeyFor[b] = KeyFor[c]

(* From the moment bake waits for anything, its builder is fenced for as long as
   it lives (aws.rs:1318-1329). *)
WaitsFenced ==
  \A b \in Baker : pc[b] \notin {"arm", "disown", "failed"} /\ Alive(b) => armed[b]

(* A builder goes through the stages of Fence. *)
stageOf(b) ==
  CASE builder[b] = "absent"    -> "absent"
    [] Alive(b) /\ ~armed[b]    -> "exposed"
    [] Alive(b) /\ armed[b]     -> "fenced"
    [] OTHER                    -> "dead"

F == INSTANCE Fence WITH Vm <- Baker, stage <- [b \in Baker |-> stageOf(b)]

(* Whatever fails and whoever is killed, bake leaves no live builder without the
   schedule it had: a builder is launched once, and leaves its fence only by dying
   (aws.rs:1312-1351). *)
BuildersImplementFence == F!Spec

(* While the bakes of a repository agree on the key, what bake returned can be
   launched from: no other repository's bake, retry, late image or cleanup
   takes it away (aws.rs:1538-1540). *)
ReturnedStaysAvailable ==
  \A b \in Baker :
    result[b] # NoImage /\ Agreed(RepoFor[b]) => image[result[b]] = "available"

(* When a bake that made an image returns, the generation before it is gone,
   with the snapshots its listing named, unless a bake under another key was at work
   (aws.rs:1812-1882). *)
OneGeneration ==
  \A b \in Baker :
    result[b] = b /\ Agreed(RepoFor[b]) =>
      \A i \in Image :
        RepoFor[i] = RepoFor[b] /\ KeyFor[i] # KeyFor[b] =>
          ~Registered(i) /\ (i \in known[b] => ~snapshot[i])

(* "Get-or-create the image for `key`" (cloud/mod.rs:71): a bake about to create
   its image finds the name taken, if at all, by an image its repository can get
   on a retry. *)
NameIsForTheRepo ==
  \A b \in Baker : At(b, "create") =>
    \A i \in NameHolders(b) : RepoFor[i] = RepoFor[b]
=======================================================================
