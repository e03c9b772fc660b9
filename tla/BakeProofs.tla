-------------------------- MODULE BakeProofs --------------------------
(* Theorems about Bake, for any number of invocations, repositories, keys and
   older images. *)
EXTENDS Bake, TLAPS

USE DEF At, Goto
(* What happens to a builder that is not its bake's doing. *)
OutsideStep(b) ==
  BuilderStops(b) \/ BuilderKillFires(b) \/ OthersTerminate(b) \/ OthersDisarm(b)

USE BakersMakeImages, RepoForType, KeyForType, NoImageIsNone

------------------------------------------------------------------------
(* Type correctness. *)

LEMMA TypeStep == TypeOK /\ [Next]_vars => TypeOK'
<1> SUFFICES ASSUME TypeOK, [Next]_vars
             PROVE  TypeOK'
  OBVIOUS
<1> USE DEF TypeOK, Label, BuilderState, ImageState, builderVars, imageVars, gcVars
<1>1. ASSUME NEW b \in Baker, BakeStep(b) PROVE TypeOK'
  <2>1. CASE CacheHit(b)
    BY <2>1 DEF CacheHit, Cached, Return
  <2>2. CASE CacheMiss(b)
    BY <2>2 DEF CacheMiss
  <2>3. CASE LaunchBuilder(b)
    BY <2>3 DEF LaunchBuilder
  <2>4. CASE ArmBuilder(b)
    BY <2>4 DEF ArmBuilder
  <2>5. CASE ArmFails(b)
    BY <2>5 DEF ArmFails
  <2>6. CASE Disown(b)
    BY <2>6 DEF Disown, TerminateBuilder, Fail
  <2>7. CASE WaitForStopped(b)
    BY <2>7 DEF WaitForStopped
  <2>8. CASE CreateImage(b)
    BY <2>8, SMTT(30) DEF CreateImage, CreatesImage
  <2>9. CASE WaitForImage(b)
    BY <2>9, SMTT(30) DEF WaitForImage
  <2>10. CASE BuildFails(b)
    BY <2>10 DEF BuildFails, CreatesImage
  <2>11. CASE Abandon(b)
    BY <2>11 DEF Abandon, TerminateBuilder
  <2>12. CASE AbandonFails(b)
    BY <2>12 DEF AbandonFails, Fail
  <2>13. CASE Unfence(b)
    BY <2>13 DEF Unfence, Fail
  <2>14. CASE Retire(b)
    BY <2>14 DEF Retire, TerminateBuilder
  <2>15. CASE DisarmBuilder(b)
    BY <2>15 DEF DisarmBuilder
  <2>16. CASE ListSuperseded(b)
    BY <2>16 DEF ListSuperseded, Superseded
  <2>17. CASE DeleteSnapshot(b)
    BY <2>17 DEF DeleteSnapshot
  <2>18. CASE BakeDone(b)
    BY <2>18 DEF BakeDone, Return
  <2>19. ASSUME NEW i \in Image, Deregister(b, i) PROVE TypeOK'
    <3>1. CASE i \in known[b]
      BY <2>19, <3>1 DEF Deregister
    <3>2. CASE i \notin known[b]
      BY <2>19, <3>2 DEF Deregister
    <3> QED BY <3>1, <3>2
  <2> QED
    BY <1>1, <2>1, <2>2, <2>3, <2>4, <2>5, <2>6, <2>7, <2>8, <2>9, <2>10, <2>11,
       <2>12, <2>13, <2>14, <2>15, <2>16, <2>17, <2>18, <2>19 DEF BakeStep
<1>2. ASSUME NEW b \in Baker, Quit(b) PROVE TypeOK'
  BY <1>2 DEF Quit, Fail
<1>3. ASSUME NEW b \in Baker, OutsideStep(b)
      PROVE  TypeOK'
  BY <1>3 DEF OutsideStep, BuilderStops, BuilderKillFires, OthersTerminate, OthersDisarm,
              TerminateBuilder
<1>4. ASSUME NEW i \in Image, ImageSettles(i) PROVE TypeOK'
  BY <1>4 DEF ImageSettles
<1>5. CASE UNCHANGED vars
  BY <1>5 DEF vars
<1> QED BY <1>1, <1>2, <1>3, <1>4, <1>5 DEF Next, OutsideStep

LEMMA TypeInit == Init => TypeOK
BY DEF Init, TypeOK, Label, BuilderState, ImageState

(* Every reachable state is well typed. *)
THEOREM BakeTypeCorrect == Spec => []TypeOK
BY TypeInit, TypeStep, PTL DEF Spec

------------------------------------------------------------------------
(* The builder and its schedule. *)

(* How far its bake has come says what state a builder is in, and whether it is
   fenced: what WaitsFenced and the refinement of Fence rest on. *)
BuilderInv ==
  \A b \in Baker :
    /\ pc[b] \in {"new", "launch"} => builder[b] = "absent"
    /\ pc[b] \notin {"new", "launch", "done", "failed"} => builder[b] # "absent"
    /\ armed[b] => builder[b] # "absent"
    /\ pc[b] \in {"new", "launch", "arm"} => ~armed[b]
    /\ image[b] # "none" => builder[b] # "absent"
    /\ pc[b] \in {"unfence", "disarm", "list", "collect", "snapshot"} => builder[b] = "dead"
    /\ pc[b] = "done" => ~Alive(b)

BuilderSafe == TypeOK /\ BuilderInv /\ WaitsFenced

LEMMA BuilderInit == Init => BuilderSafe
BY TypeInit DEF Init, BuilderSafe, BuilderInv, WaitsFenced, Alive

(* One step keeps it, whoever takes it: a step of one bake touches no other
   builder and no other bake's image. *)
LEMMA BuilderStep == BuilderSafe /\ [Next]_vars => BuilderSafe'
<1> SUFFICES ASSUME BuilderSafe, [Next]_vars
             PROVE  BuilderSafe'
  OBVIOUS
<1>t. TypeOK /\ TypeOK'
  BY TypeStep DEF BuilderSafe
<1> USE DEF BuilderSafe, BuilderInv, WaitsFenced, Alive, TypeOK,
            builderVars, imageVars, gcVars
<1>1. ASSUME NEW b \in Baker, BakeStep(b)
      PROVE  BuilderInv' /\ WaitsFenced'
  <2>1. CASE CacheHit(b)
    BY <1>t, <2>1 DEF CacheHit, Return
  <2>2. CASE CacheMiss(b)
    BY <1>t, <2>2 DEF CacheMiss
  <2>3. CASE LaunchBuilder(b)
    BY <1>t, <2>3 DEF LaunchBuilder
  <2>4. CASE ArmBuilder(b)
    BY <1>t, <2>4 DEF ArmBuilder
  <2>5. CASE ArmFails(b)
    BY <1>t, <2>5 DEF ArmFails
  <2>6. CASE Disown(b)
    BY <1>t, <2>6 DEF Disown, TerminateBuilder, Fail
  <2>7. CASE WaitForStopped(b)
    BY <1>t, <2>7 DEF WaitForStopped
  <2>8. CASE CreateImage(b)
    BY <1>t, <2>8 DEF CreateImage, CreatesImage
  <2>9. CASE WaitForImage(b)
    BY <1>t, <2>9 DEF WaitForImage
  <2>10. CASE BuildFails(b)
    BY <1>t, <2>10 DEF BuildFails, CreatesImage
  <2>11. CASE Abandon(b)
    BY <1>t, <2>11 DEF Abandon, TerminateBuilder
  <2>12. CASE AbandonFails(b)
    BY <1>t, <2>12 DEF AbandonFails, Fail
  <2>13. CASE Unfence(b)
    BY <1>t, <2>13 DEF Unfence, Fail
  <2>14. CASE Retire(b)
    BY <1>t, <2>14 DEF Retire, TerminateBuilder
  <2>15. CASE DisarmBuilder(b)
    BY <1>t, <2>15 DEF DisarmBuilder
  <2>16. CASE ListSuperseded(b)
    BY <1>t, <2>16 DEF ListSuperseded
  <2>17. CASE DeleteSnapshot(b)
    BY <1>t, <2>17 DEF DeleteSnapshot
  <2>18. CASE BakeDone(b)
    BY <1>t, <2>18 DEF BakeDone, Return
  <2>19. ASSUME NEW i \in Image, Deregister(b, i)
         PROVE  BuilderInv' /\ WaitsFenced'
    <3>1. image[i] # "none"
      BY <2>19 DEF Deregister, Registered
    <3>2. CASE i \in known[b]
      BY <1>t, <2>19, <3>1, <3>2 DEF Deregister
    <3>3. CASE i \notin known[b]
      BY <1>t, <2>19, <3>1, <3>3 DEF Deregister
    <3> QED BY <3>2, <3>3
  <2> QED
    BY <1>1, <2>1, <2>2, <2>3, <2>4, <2>5, <2>6, <2>7, <2>8, <2>9, <2>10, <2>11,
       <2>12, <2>13, <2>14, <2>15, <2>16, <2>17, <2>18, <2>19 DEF BakeStep
<1>2. ASSUME NEW b \in Baker, Quit(b)
      PROVE  BuilderInv' /\ WaitsFenced'
  BY <1>t, <1>2 DEF Quit, Fail
<1>3. ASSUME NEW b \in Baker, OutsideStep(b)
      PROVE  BuilderInv' /\ WaitsFenced'
  <2>1. CASE BuilderStops(b)
    BY <1>t, <2>1 DEF BuilderStops
  <2>2. CASE BuilderKillFires(b)
    BY <1>t, <2>2 DEF BuilderKillFires
  <2>3. CASE OthersTerminate(b)
    BY <1>t, <2>3 DEF OthersTerminate, TerminateBuilder
  <2>4. CASE OthersDisarm(b)
    BY <1>t, <2>4 DEF OthersDisarm
  <2> QED BY <1>3, <2>1, <2>2, <2>3, <2>4 DEF OutsideStep
<1>4. ASSUME NEW i \in Image, ImageSettles(i)
      PROVE  BuilderInv' /\ WaitsFenced'
  BY <1>t, <1>4 DEF ImageSettles
<1>5. CASE UNCHANGED vars
  BY <1>5 DEF vars
<1> QED BY <1>t, <1>1, <1>2, <1>3, <1>4, <1>5 DEF Next, OutsideStep

(* A builder that is waited for is fenced, for every number of bakes. *)
THEOREM BuildersAreFenced == Spec => []WaitsFenced
<1>1. BuilderSafe => WaitsFenced
  BY DEF BuilderSafe
<1> QED BY <1>1, BuilderInit, BuilderStep, PTL DEF Spec

------------------------------------------------------------------------
(* The refinement of Fence. *)

(* An attempt to arm, which may take effect although it failed. *)
TriesToArm(b) == ArmBuilder(b) \/ ArmFails(b)

BuilderFrame ==
  \A b \in Baker :
    /\ builder'[b] = "absent" <=> builder[b] = "absent"
    /\ Alive(b)' => Alive(b)
    /\ armed'[b] => armed[b]
    /\ armed[b] /\ Alive(b)' => armed'[b]

(* Every other step launches no builder, revives and arms none, and leaves the
   schedules of the living. *)
LEMMA OthersKeepFrame ==
  ASSUME BuilderSafe, [Next]_vars, \A b \in Baker : ~LaunchBuilder(b) /\ ~TriesToArm(b)
  PROVE  BuilderFrame
<1> USE DEF BuilderSafe, BuilderInv, BuilderFrame, TypeOK, BuilderState, builderVars
<1>1. CASE UNCHANGED builderVars
  BY <1>1 DEF Alive
<1>2. ASSUME NEW b \in Baker, builder[b] # "absent", TerminateBuilder(b), UNCHANGED armed
      PROVE  BuilderFrame
  BY <1>2 DEF TerminateBuilder, Alive
<1>3. ASSUME NEW b \in Baker, BakeStep(b) PROVE BuilderFrame
  <2>1. CASE Disown(b) \/ Abandon(b) \/ Retire(b)
    BY <1>2, <2>1 DEF Disown, Abandon, Retire
  <2>2. CASE Unfence(b) \/ DisarmBuilder(b)
    BY <2>2 DEF Unfence, DisarmBuilder, Alive
  <2>3. CASE \/ CacheHit(b) \/ CacheMiss(b) \/ WaitForStopped(b) \/ CreateImage(b)
             \/ WaitForImage(b) \/ BuildFails(b) \/ AbandonFails(b) \/ ListSuperseded(b)
             \/ DeleteSnapshot(b) \/ BakeDone(b) \/ \E i \in Image : Deregister(b, i)
    BY <1>1, <2>3
    DEF CacheHit, CacheMiss, WaitForStopped, CreateImage, WaitForImage, BuildFails,
        AbandonFails, ListSuperseded, DeleteSnapshot, BakeDone, Deregister
  <2> QED BY <1>3, <2>1, <2>2, <2>3 DEF BakeStep, TriesToArm
<1>4. ASSUME NEW b \in Baker, OutsideStep(b)
      PROVE  BuilderFrame
  <2>1. CASE BuilderStops(b)
    BY <2>1 DEF BuilderStops, Alive
  <2>2. CASE BuilderKillFires(b)
    BY <2>2 DEF BuilderKillFires, Alive
  <2>3. CASE OthersTerminate(b)
    BY <2>3 DEF OthersTerminate, TerminateBuilder, Alive
  <2>4. CASE OthersDisarm(b)
    BY <2>4 DEF OthersDisarm, Alive
  <2> QED BY <1>4, <2>1, <2>2, <2>3, <2>4 DEF OutsideStep
<1>5. ASSUME NEW b \in Baker, Quit(b) PROVE BuilderFrame
  BY <1>1, <1>5 DEF Quit
<1>6. ASSUME NEW i \in Image, ImageSettles(i) PROVE BuilderFrame
  BY <1>1, <1>6 DEF ImageSettles
<1>7. CASE UNCHANGED vars
  BY <1>1, <1>7 DEF vars
<1> QED BY <1>3, <1>4, <1>5, <1>6, <1>7 DEF Next, OutsideStep

(* Every step of Bake is a launch, an arming or some deaths of Fence. *)
LEMMA StageStep == BuilderSafe /\ [Next]_vars => F!Next
<1> SUFFICES ASSUME BuilderSafe, [Next]_vars
             PROVE  F!Next
  OBVIOUS
<1> USE DEF BuilderSafe, BuilderInv, TypeOK, BuilderState
<1>1. CASE \E b \in Baker : LaunchBuilder(b)
  <2>1. PICK b \in Baker : LaunchBuilder(b)
    BY <1>1
  <2>2. /\ builder[b] = "absent" /\ ~armed[b] /\ armed' = armed
        /\ builder' = [builder EXCEPT ![b] = "running"]
    BY <2>1 DEF LaunchBuilder
  <2>3. F!Launch(b)
    BY <2>2 DEF F!Launch, stageOf, Alive
  <2> QED BY <2>3 DEF F!Next
<1>2. CASE \E b \in Baker : TriesToArm(b)
  <2>1. PICK b \in Baker : TriesToArm(b)
    BY <1>2
  <2>2. /\ builder[b] # "absent" /\ builder' = builder /\ ~armed[b]
        /\ armed' \in {armed, [armed EXCEPT ![b] = TRUE]}
    <3>1. CASE ArmBuilder(b)
      BY <3>1 DEF ArmBuilder
    <3>2. CASE ArmFails(b)
      <4>1. PICK a \in BOOLEAN : armed' = [armed EXCEPT ![b] = a]
        BY <3>2 DEF ArmFails
      <4>2. builder[b] # "absent" /\ builder' = builder /\ ~armed[b]
        BY <3>2 DEF ArmFails
      <4>3. CASE a = FALSE
        <5>1. armed' = armed
          BY <4>1, <4>2, <4>3
        <5> QED BY <4>2, <5>1
      <4>4. CASE a = TRUE
        BY <4>1, <4>2, <4>4
      <4> QED BY <4>3, <4>4
    <3> QED BY <2>1, <3>1, <3>2 DEF TriesToArm
  <2>3. CASE Alive(b) /\ armed' # armed
    <3>1. F!Arm(b)
      BY <2>2, <2>3 DEF F!Arm, stageOf, Alive
    <3> QED BY <3>1 DEF F!Next
  <2>4. CASE ~(Alive(b) /\ armed' # armed)
    <3>1. F!Die({})
      BY <2>2, <2>4 DEF F!Die, stageOf, Alive
    <3> QED BY <3>1 DEF F!Next
  <2> QED BY <2>3, <2>4
<1>3. CASE \A b \in Baker : ~LaunchBuilder(b) /\ ~TriesToArm(b)
  <2> DEFINE S == {b \in Baker : Alive(b) /\ ~Alive(b)'}
  <2>1. BuilderFrame
    BY <1>3, OthersKeepFrame
  <2>2. ASSUME NEW b \in Baker PROVE stageOf(b)' = IF b \in S THEN "dead" ELSE stageOf(b)
    BY <2>1 DEF BuilderFrame, stageOf, Alive
  <2>3. \A b \in S : stageOf(b) \in {"exposed", "fenced"}
    BY DEF stageOf, Alive
  <2> HIDE DEF S
  <2>4. S \in SUBSET Baker
    BY DEF S
  <2>5. F!Die(S)
    BY <2>2, <2>3, <2>4 DEF F!Die
  <2> QED BY <2>4, <2>5 DEF F!Next
<1> QED BY <1>1, <1>2, <1>3

(* Bake implements Fence, whatever fails, whoever is killed, and whatever the other
   commands terminate or disarm meanwhile, provided they disarm only the dead. *)
THEOREM BakeImplementsFence == Spec => BuildersImplementFence
<1>1. Init => F!Init
  <2> SUFFICES ASSUME Init PROVE F!Init
    OBVIOUS
  <2>1. \A b \in Baker : builder[b] = "absent" /\ ~Alive(b)
    BY DEF Init, Alive
  <2>2. \A b \in Baker : stageOf(b) = "absent"
    BY <2>1 DEF stageOf
  <2> QED BY <2>2 DEF F!Init
<1> QED BY <1>1, BuilderInit, BuilderStep, StageStep, PTL DEF Spec, BuildersImplementFence, F!Spec

------------------------------------------------------------------------
(* The images. *)

(* What a bake returns carries its repository and key, what it deletes carries
   its repository and another key; so in a repository that agrees on one key no
   image that is in use is on anybody's list. *)
ImageInv ==
  \A b \in Baker :
    /\ result[b] # NoImage <=> pc[b] = "done"
    /\ result[b] # NoImage =>
         RepoFor[result[b]] = RepoFor[b] /\ KeyFor[result[b]] = KeyFor[b]
    /\ \A i \in stale[b] : RepoFor[i] = RepoFor[b] /\ KeyFor[i] # KeyFor[b]
    /\ Agreed(RepoFor[b]) /\ pc[b] \in {"retire", "disarm", "list", "collect", "snapshot"}
         => image[b] = "available"

ImageSafe == TypeOK /\ ImageInv /\ ReturnedStaysAvailable

LEMMA ImageInit == Init => ImageSafe
BY TypeInit DEF Init, ImageSafe, ImageInv, ReturnedStaysAvailable

LEMMA ImageStep == BuilderSafe /\ ImageSafe /\ [Next]_vars => ImageSafe'
<1> SUFFICES ASSUME BuilderSafe, ImageSafe, [Next]_vars
             PROVE  ImageSafe'
  OBVIOUS
<1>t. TypeOK /\ TypeOK'
  BY TypeStep DEF ImageSafe
<1> USE DEF ImageSafe, ImageInv, ReturnedStaysAvailable, TypeOK, builderVars, imageVars, gcVars
<1>1. ASSUME NEW b \in Baker, BakeStep(b) PROVE ImageInv' /\ ReturnedStaysAvailable'
  <2>1. CASE CacheHit(b)
    BY <1>t, <2>1 DEF CacheHit, Cached, Return
  <2>2. CASE CacheMiss(b)
    BY <1>t, <2>2 DEF CacheMiss
  <2>3. CASE LaunchBuilder(b)
    BY <1>t, <2>3 DEF LaunchBuilder
  <2>4. CASE ArmBuilder(b)
    BY <1>t, <2>4 DEF ArmBuilder
  <2>5. CASE ArmFails(b)
    BY <1>t, <2>5 DEF ArmFails
  <2>6. CASE Disown(b)
    BY <1>t, <2>6 DEF Disown, Fail
  <2>7. CASE WaitForStopped(b)
    BY <1>t, <2>7 DEF WaitForStopped
  <2>8. CASE CreateImage(b)
    BY <1>t, <2>8 DEF CreateImage, CreatesImage, NameHolders
  <2>9. CASE WaitForImage(b)
    BY <1>t, <2>9 DEF WaitForImage
  <2>10. CASE BuildFails(b)
    BY <1>t, <2>10 DEF BuildFails, CreatesImage, NameHolders
  <2>11. CASE Abandon(b)
    BY <1>t, <2>11 DEF Abandon
  <2>12. CASE AbandonFails(b)
    BY <1>t, <2>12 DEF AbandonFails, Fail
  <2>13. CASE Unfence(b)
    BY <1>t, <2>13 DEF Unfence, Fail
  <2>14. CASE Retire(b)
    BY <1>t, <2>14 DEF Retire
  <2>15. CASE DisarmBuilder(b)
    BY <1>t, <2>15 DEF DisarmBuilder
  <2>16. CASE ListSuperseded(b)
    BY <1>t, <2>16 DEF ListSuperseded, Superseded
  <2>17. CASE DeleteSnapshot(b)
    BY <1>t, <2>17 DEF DeleteSnapshot
  <2>18. CASE BakeDone(b)
    BY <1>t, <2>18 DEF BakeDone, Return
  <2>19. ASSUME NEW i \in Image, Deregister(b, i) PROVE ImageInv' /\ ReturnedStaysAvailable'
    <3>1. /\ RepoFor[i] = RepoFor[b] /\ KeyFor[i] # KeyFor[b]
          /\ image' = [image EXCEPT ![i] = "deregistered"]
          /\ stale' = [stale EXCEPT ![b] = @ \ {i}]
          /\ pc[b] = "collect" /\ pc' \in {pc, [pc EXCEPT ![b] = "snapshot"]}
          /\ UNCHANGED result
      BY <2>19 DEF Deregister
    <3>2. ASSUME NEW c \in Baker, Agreed(RepoFor[c]),
                 NEW j \in Image, RepoFor[j] = RepoFor[c], KeyFor[j] = KeyFor[c]
          PROVE  i # j
      BY <3>1, <3>2 DEF Agreed
    <3>3. ReturnedStaysAvailable'
      BY <1>t, <3>1, <3>2
    <3>4. ImageInv'
      BY <1>t, <3>1, <3>2
    <3> QED BY <3>3, <3>4
  <2> QED
    BY <1>1, <2>1, <2>2, <2>3, <2>4, <2>5, <2>6, <2>7, <2>8, <2>9, <2>10, <2>11,
       <2>12, <2>13, <2>14, <2>15, <2>16, <2>17, <2>18, <2>19 DEF BakeStep
<1>2. ASSUME NEW b \in Baker, Quit(b) PROVE ImageInv' /\ ReturnedStaysAvailable'
  BY <1>t, <1>2 DEF Quit, Fail
<1>3. ASSUME NEW b \in Baker, OutsideStep(b)
      PROVE  ImageInv' /\ ReturnedStaysAvailable'
  BY <1>t, <1>3 DEF OutsideStep, BuilderStops, BuilderKillFires, OthersTerminate, OthersDisarm
<1>4. ASSUME NEW i \in Image, ImageSettles(i) PROVE ImageInv' /\ ReturnedStaysAvailable'
  BY <1>t, <1>4 DEF ImageSettles
<1>5. CASE UNCHANGED vars
  BY <1>5 DEF vars
<1> QED BY <1>t, <1>1, <1>2, <1>3, <1>4, <1>5 DEF Next, OutsideStep

(* In a repository that agrees on its key, an image stays available once bake
   has returned it. *)
THEOREM ReturnedImageStays == Spec => []ReturnedStaysAvailable
<1>1. ImageSafe => ReturnedStaysAvailable
  BY DEF ImageSafe
<1> QED BY <1>1, BuilderInit, BuilderStep, ImageInit, ImageStep, PTL DEF Spec

------------------------------------------------------------------------
(* The superseded generation. *)

(* A cleanup has on its list whatever is still registered of the generation
   before, and in hand the one snapshot that may outlive its image. *)
CleanupInv ==
  \A b \in Baker : Agreed(RepoFor[b]) /\ pc[b] \in {"collect", "snapshot"} =>
    \A i \in Image : RepoFor[i] = RepoFor[b] /\ KeyFor[i] # KeyFor[b] =>
      /\ Registered(i) => i \in stale[b]
      /\ i \in known[b] /\ snapshot[i] =>
           i \in stale[b] \/ (pc[b] = "snapshot" /\ cur[b] = i)

LEMMA CleanupInit == Init => CleanupInv /\ OneGeneration
BY DEF Init, CleanupInv, OneGeneration

LEMMA CleanupStep ==
  BuilderSafe /\ ImageSafe /\ CleanupInv /\ OneGeneration /\ [Next]_vars
    => CleanupInv' /\ OneGeneration'
<1> SUFFICES ASSUME BuilderSafe, ImageSafe, CleanupInv, OneGeneration, [Next]_vars
             PROVE  CleanupInv' /\ OneGeneration'
  OBVIOUS
<1>t. TypeOK /\ TypeOK'
  BY TypeStep DEF ImageSafe
<1> USE DEF ImageSafe, ImageInv, CleanupInv, OneGeneration, TypeOK, Registered,
            builderVars, imageVars, gcVars
<1>1. ASSUME NEW b \in Baker, BakeStep(b) PROVE CleanupInv' /\ OneGeneration'
  <2>1. CASE CacheHit(b)
    <3>1. image[b] # "available"
      BY <2>1 DEF CacheHit, BuilderSafe, BuilderInv
    <3>2. result'[b] # b
      BY <1>t, <2>1, <3>1 DEF CacheHit, Cached, Return
    <3> QED
      BY <1>t, <2>1, <3>2 DEF CacheHit, Return
  <2>2. CASE CacheMiss(b)
    BY <1>t, <2>2 DEF CacheMiss
  <2>3. CASE LaunchBuilder(b)
    BY <1>t, <2>3 DEF LaunchBuilder
  <2>4. CASE ArmBuilder(b)
    BY <1>t, <2>4 DEF ArmBuilder
  <2>5. CASE ArmFails(b)
    BY <1>t, <2>5 DEF ArmFails
  <2>6. CASE Disown(b)
    BY <1>t, <2>6 DEF Disown, Fail
  <2>7. CASE WaitForStopped(b)
    BY <1>t, <2>7 DEF WaitForStopped
  <2>8. CASE CreateImage(b)
    BY <1>t, <2>8 DEF CreateImage, CreatesImage, Agreed
  <2>9. CASE WaitForImage(b)
    BY <1>t, <2>9 DEF WaitForImage
  <2>10. CASE BuildFails(b)
    BY <1>t, <2>10 DEF BuildFails, CreatesImage, Agreed
  <2>11. CASE Abandon(b)
    BY <1>t, <2>11 DEF Abandon
  <2>12. CASE AbandonFails(b)
    BY <1>t, <2>12 DEF AbandonFails, Fail
  <2>13. CASE Unfence(b)
    BY <1>t, <2>13 DEF Unfence, Fail
  <2>14. CASE Retire(b)
    BY <1>t, <2>14 DEF Retire
  <2>15. CASE DisarmBuilder(b)
    BY <1>t, <2>15 DEF DisarmBuilder
  <2>16. CASE ListSuperseded(b)
    BY <1>t, <2>16 DEF ListSuperseded, Superseded
  <2>17. CASE DeleteSnapshot(b)
    BY <1>t, <2>17 DEF DeleteSnapshot
  <2>18. CASE BakeDone(b)
    BY <1>t, <2>18 DEF BakeDone, Return
  <2>19. ASSUME NEW i \in Image, Deregister(b, i) PROVE CleanupInv' /\ OneGeneration'
    <3>1. CASE i \in known[b]
      BY <1>t, <2>19, <3>1 DEF Deregister
    <3>2. CASE i \notin known[b]
      <4>1. /\ image' = [image EXCEPT ![i] = "deregistered"]
            /\ stale' = [stale EXCEPT ![b] = @ \ {i}]
            /\ UNCHANGED <<pc, cur, snapshot, result, known>>
        BY <2>19, <3>2 DEF Deregister
      <4>2. CleanupInv'
        BY <1>t, <3>2, <4>1
      <4>3. OneGeneration'
        BY <1>t, <4>1
      <4> QED BY <4>2, <4>3
    <3> QED BY <3>1, <3>2
  <2> QED
    BY <1>1, <2>1, <2>2, <2>3, <2>4, <2>5, <2>6, <2>7, <2>8, <2>9, <2>10, <2>11,
       <2>12, <2>13, <2>14, <2>15, <2>16, <2>17, <2>18, <2>19 DEF BakeStep
<1>2. ASSUME NEW b \in Baker, Quit(b) PROVE CleanupInv' /\ OneGeneration'
  BY <1>t, <1>2 DEF Quit, Fail
<1>3. ASSUME NEW b \in Baker, OutsideStep(b)
      PROVE  CleanupInv' /\ OneGeneration'
  BY <1>t, <1>3 DEF OutsideStep, BuilderStops, BuilderKillFires, OthersTerminate, OthersDisarm
<1>4. ASSUME NEW i \in Image, ImageSettles(i) PROVE CleanupInv' /\ OneGeneration'
  BY <1>t, <1>4 DEF ImageSettles
<1>5. CASE UNCHANGED vars
  BY <1>5 DEF vars
<1> QED BY <1>t, <1>1, <1>2, <1>3, <1>4, <1>5 DEF Next, OutsideStep

(* A bake that returns an image of its own leaves one generation. *)
THEOREM OneGenerationIsLeft == Spec => []OneGeneration
BY BuilderInit, BuilderStep, ImageInit, ImageStep, CleanupInit, CleanupStep, PTL DEF Spec
=======================================================================
