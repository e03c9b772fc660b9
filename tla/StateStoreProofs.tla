------------------------ MODULE StateStoreProofs ------------------------
(* Theorems about StateStore, for any number of invocations, repositories and
   documents. *)
EXTENDS StateStore, TLAPS

USE DocumentsType, RepoForType, NamesDiffer
USE DEF Goto, Mine, Writing, procVars, fileVars

------------------------------------------------------------------------
(* Type correctness; that state.json is never torn, nor will be after a crash,
   is part of it, and needs what is known of the temporary file. *)

(* Who is past the lock holds it; the temporary file is complete before it is
   flushed and flushed before it is renamed; what replaces a statefile is of the
   same repository. *)
WriteInv ==
  /\ file \in after
  /\ \A p \in Proc :
       /\ pc[p] \in Writing \cup {"read", "hold", "delete"} => lock = p
       /\ pc[p] \in {"new", "lock", "read"} => ~acked[p]
       /\ pc[p] \in Writing => doc[p] \in Mine(p)
       /\ pc[p] \in {"flush", "rename"} => tmp = doc[p]
       /\ pc[p] = "rename" => flushed
       /\ pc[p] \in {"open", "commit"} => file = doc[p]

StoreInv == TypeOK /\ WriteInv /\ HolderKnowsFile /\ HolderOwnsFile

LEMMA StoreInit == Init => StoreInv
BY DEF Init, StoreInv, TypeOK, Label, WriteInv, HolderKnowsFile, HolderOwnsFile

LEMMA StoreStep == StoreInv /\ [Next]_vars => StoreInv'
<1> SUFFICES ASSUME StoreInv, [Next]_vars
             PROVE  StoreInv'
  OBVIOUS
<1> USE DEF StoreInv, TypeOK, Label, WriteInv, HolderKnowsFile, HolderOwnsFile
<1>1. ASSUME NEW p \in Proc, ProcStep(p) PROVE StoreInv'
  <2>1. CASE Open(p)
    BY <2>1 DEF Open
  <2>2. CASE Lock(p)
    BY <2>2 DEF Lock
  <2>3. CASE Read(p)
    BY <2>3 DEF Read
  <2>4. CASE BeginWrite(p)
    BY <2>4 DEF BeginWrite
  <2>5. CASE CreateTmp(p)
    BY <2>5 DEF CreateTmp
  <2>6. CASE WriteTmp(p)
    BY <2>6 DEF WriteTmp
  <2>7. CASE FlushTmp(p)
    BY <2>7 DEF FlushTmp
  <2>8. CASE Rename(p)
    <3>1. /\ doc[p] \in Current /\ RepoIn[doc[p]] = RepoFor[p] /\ doc[p] \in Document
          /\ tmp = doc[p] /\ flushed /\ lock = p
      BY <2>8 DEF Rename
    <3>2. /\ file' = doc[p] /\ after' = after \cup {doc[p]} /\ tmp' = NoDocument
          /\ pc' = [pc EXCEPT ![p] = "open"]
          /\ flushed' = FALSE /\ UNCHANGED <<doc, acked, lock>>
      BY <2>8, <3>1 DEF Rename
    <3>3. TypeOK'
      BY <3>1, <3>2
    <3>4. WriteInv'
      BY <3>1, <3>2
    <3>5. HolderKnowsFile' /\ HolderOwnsFile'
      BY <3>1, <3>2
    <3> QED BY <3>3, <3>4, <3>5
  <2>9. CASE OpenDir(p)
    BY <2>9 DEF OpenDir
  <2>10. CASE SyncDir(p)
    BY <2>10 DEF SyncDir
  <2>11. CASE FailedWrite(p)
    BY <2>11 DEF FailedWrite, End
  <2>12. CASE UpDelete(p)
    BY <2>12 DEF UpDelete, Remove
  <2>13. CASE Look(p)
    BY <2>13 DEF Look
  <2>14. CASE TryLock(p)
    BY <2>14 DEF TryLock
  <2>15. CASE DownDelete(p)
    BY <2>15 DEF DownDelete, End, Remove
  <2>16. CASE Quit(p)
    BY <2>16 DEF Quit, End
  <2> QED
    BY <1>1, <2>1, <2>2, <2>3, <2>4, <2>5, <2>6, <2>7, <2>8, <2>9, <2>10, <2>11,
       <2>12, <2>13, <2>14, <2>15, <2>16 DEF ProcStep, WriteStep
<1>2. CASE HostCrash
  BY <1>2 DEF HostCrash
<1>3. CASE UNCHANGED vars
  BY <1>3 DEF vars
<1> QED BY <1>1, <1>2, <1>3 DEF Next

LEMMA StoreInvHolds == Spec => []StoreInv
BY StoreInit, StoreStep, PTL DEF Spec

(* No reachable state has a torn statefile, now or after a crash. *)
THEOREM StoreTypeCorrect == Spec => []TypeOK
<1>1. StoreInv => TypeOK
  BY DEF StoreInv
<1> QED BY <1>1, StoreInvHolds, PTL

(* An up that goes on knows what is on the disk. *)
THEOREM HoldersKnow == Spec => []HolderKnowsFile
<1>1. StoreInv => HolderKnowsFile
  BY DEF StoreInv
<1> QED BY <1>1, StoreInvHolds, PTL

(* Nobody replaces the statefile of another repository that shares the slug. *)
THEOREM HoldersOwn == Spec => []HolderOwnsFile
<1>1. StoreInv => HolderOwnsFile
  BY DEF StoreInv
<1> QED BY <1>1, StoreInvHolds, PTL

------------------------------------------------------------------------
(* The refinement. *)

LEMMA RegisterInit == Init => Reg!Init
BY DEF Init, Reg!Init

(* Every call is an update, a commit or nothing to the register. *)
LEMMA RegisterStep == StoreInv /\ [Next]_vars => [Reg!Next]_<<file, after>>
<1> SUFFICES ASSUME StoreInv, [Next]_vars
             PROVE  [Reg!Next]_<<file, after>>
  OBVIOUS
<1>1. ASSUME NEW p \in Proc, ProcStep(p) PROVE [Reg!Next]_<<file, after>>
  <2>1. CASE Rename(p)
    <3>1. doc[p] \in Document /\ tmp = doc[p] /\ flushed
      BY <2>1 DEF Rename, StoreInv, WriteInv
    <3>2. Reg!Update(doc[p])
      BY <2>1, <3>1 DEF Rename, Reg!Update
    <3> QED BY <3>1, <3>2 DEF Reg!Next
  <2>2. CASE UpDelete(p) \/ DownDelete(p)
    <3>1. Reg!Update(NoDocument)
      BY <2>2 DEF UpDelete, DownDelete, Remove, Reg!Update
    <3> QED BY <3>1 DEF Reg!Next
  <2>3. CASE SyncDir(p)
    <3>1. Reg!Commit
      BY <2>3 DEF SyncDir, Reg!Commit
    <3> QED BY <3>1 DEF Reg!Next
  <2>4. CASE ~(Rename(p) \/ UpDelete(p) \/ DownDelete(p) \/ SyncDir(p))
    BY <1>1, <2>4
    DEF ProcStep, WriteStep, Open, Lock, Read, BeginWrite, CreateTmp, WriteTmp, FlushTmp,
        OpenDir, FailedWrite, Look, TryLock, Quit
  <2> QED BY <2>1, <2>2, <2>3, <2>4
<1>2. CASE HostCrash
  BY <1>2 DEF HostCrash, Reg!Next, Reg!Crash
<1>3. CASE UNCHANGED vars
  BY <1>3 DEF vars
<1> QED BY <1>1, <1>2, <1>3 DEF Next

(* The six steps of a write, the kills and the crashes implement a register
   whose updates are whole and whose commits stay. *)
THEOREM StoreImplementsRegister == Spec => ImplementsRegister
BY RegisterInit, RegisterStep, StoreInvHolds, PTL DEF Spec, ImplementsRegister, Reg!Spec
=======================================================================
