-------------------------- MODULE StateStore --------------------------
(* One state directory as the file system sees it (src/state.rs): the lock file,
   state.json and the temporary file it is written through, with invocations of
   burst killed and the host crashing at any point.  RepoState takes a write to
   be one step; here it is six.

   The directory is named by the slug of the repository, and two repositories
   may have the same slug ("a-b/c" and "a/b-c"), so invocations for different
   repositories meet in it.  A document is a whole statefile. *)

CONSTANTS
  Document,    \* statefiles
  Current,     \* those of the version this build reads and writes
  Repo,        \* repositories of one slug
  RepoIn,      \* [Document -> Repo]: the field "repo" of a statefile
  Proc,        \* invocations of burst
  RepoFor,     \* [Proc -> Repo]: the repository each is for
  NoDocument,  \* no such file
  Torn,        \* a file that is not a whole document
  NoProc       \* nobody holds the lock

ASSUME DocumentsType == Current \subseteq Document /\ RepoIn \in [Document -> Repo]
ASSUME RepoForType == RepoFor \in [Proc -> Repo]
ASSUME NamesDiffer ==
  /\ NoDocument \notin Document /\ Torn \notin Document /\ Torn # NoDocument
  /\ NoProc \notin Proc

VARIABLES
  pc,       \* [Proc -> Label]: the call an invocation is about to make
  doc,      \* [Proc -> Document \cup {NoDocument}]: its StateFile, read or being written
  acked,    \* [Proc -> BOOLEAN]: the last change of it was a write that returned Ok
  lock,     \* Proc \cup {NoProc}
  file,     \* state.json
  tmp,      \* state.json.tmp
  flushed,  \* the content of state.json.tmp is on the disk
  after     \* what state.json may be after a crash of the host

procVars == <<pc, doc, acked>>
fileVars == <<file, tmp, flushed, after>>
vars == <<procVars, lock, fileVars>>

Label ==
  {"new", "over",
   "lock", "read", "hold",                                   \* up, sweep
   "create", "data", "flush", "rename", "open", "commit",    \* RepoState::write
   "look", "trylock", "delete"}                              \* down, status

Writing == {"create", "data", "flush", "rename", "open", "commit"}

TypeOK ==
  /\ pc \in [Proc -> Label]
  /\ doc \in [Proc -> Document \cup {NoDocument}]
  /\ acked \in [Proc -> BOOLEAN]
  /\ lock \in Proc \cup {NoProc}
  /\ file \in Document \cup {NoDocument}
  /\ tmp \in Document \cup {NoDocument, Torn}
  /\ flushed \in BOOLEAN
  /\ after \subseteq Document \cup {NoDocument}

(* A temporary file may be left from before. *)
Init ==
  /\ pc = [p \in Proc |-> "new"]
  /\ doc = [p \in Proc |-> NoDocument]
  /\ acked = [p \in Proc |-> FALSE]
  /\ lock = NoProc
  /\ file \in Document \cup {NoDocument}
  /\ tmp \in {NoDocument, Torn}
  /\ flushed = FALSE
  /\ after = {file}

Goto(p, l) == pc' = [pc EXCEPT ![p] = l]

(* The process ends, and the kernel drops its lock. *)
End(p) ==
  /\ Goto(p, "over")
  /\ lock' = IF lock = p THEN NoProc ELSE lock

MutMine(p) == Current

(* What read accepts: this build's version, this repository. *)
Mine(p) == {d \in Current : RepoIn[d] = RepoFor[p]}

------------------------------------------------------------------------
(* Opening, locking, reading. *)

(* Up and sweep lock first; down and status start by reading. *)
Open(p) ==
  /\ pc[p] = "new"
  /\ \E l \in {"lock", "look"} : Goto(p, l)
  /\ UNCHANGED <<doc, acked, lock, fileVars>>

(* try_lock: LockHeld ends the command. *)
Lock(p) ==
  /\ pc[p] = "lock"
  /\ lock = NoProc
  /\ lock' = p
  /\ Goto(p, "read")
  /\ UNCHANGED <<doc, acked, fileVars>>

(* A statefile that is not accepted ends the command: then only Quit is left. *)
Read(p) ==
  /\ pc[p] = "read"
  /\ file \in Mine(p) \cup {NoDocument}
  /\ doc' = [doc EXCEPT ![p] = file]
  /\ Goto(p, "hold")
  /\ UNCHANGED <<acked, lock, fileVars>>

------------------------------------------------------------------------
(* RepoState::write. *)

BeginWrite(p) ==
  /\ pc[p] = "hold"
  /\ \E d \in Mine(p) : doc' = [doc EXCEPT ![p] = d]
  /\ acked' = [acked EXCEPT ![p] = FALSE]
  /\ Goto(p, "create")
  /\ UNCHANGED <<lock, fileVars>>

MutCreateTmp(p) ==
  /\ pc[p] = "create"
  /\ file' = Torn
  /\ Goto(p, "data")
  /\ UNCHANGED <<doc, acked, lock, tmp, flushed, after>>

(* File::create truncates a temporary file that is still there. *)
CreateTmp(p) ==
  /\ pc[p] = "create"
  /\ tmp' = Torn
  /\ flushed' = FALSE
  /\ Goto(p, "data")
  /\ UNCHANGED <<doc, acked, lock, file, after>>

MutWriteTmp(p) ==
  /\ pc[p] = "data"
  /\ tmp' = doc[p]
  /\ Goto(p, "rename")
  /\ UNCHANGED <<doc, acked, lock, file, flushed, after>>

WriteTmp(p) ==
  /\ pc[p] = "data"
  /\ tmp' = doc[p]
  /\ Goto(p, "flush")
  /\ UNCHANGED <<doc, acked, lock, file, flushed, after>>

FlushTmp(p) ==
  /\ pc[p] = "flush"
  /\ flushed' = TRUE
  /\ Goto(p, "rename")
  /\ UNCHANGED <<doc, acked, lock, file, tmp, after>>

MutRename(p) ==
  /\ pc[p] = "rename"
  /\ file' = tmp
  /\ after' = after \cup {IF flushed THEN tmp ELSE Torn}
  /\ tmp' = NoDocument
  /\ flushed' = FALSE
  /\ acked' = [acked EXCEPT ![p] = TRUE]
  /\ Goto(p, "hold")
  /\ UNCHANGED <<doc, lock>>

(* Visible at once; which name a crash leaves is open until the directory is
   synced, and data that was not flushed may be missing. *)
Rename(p) ==
  /\ pc[p] = "rename"
  /\ file' = tmp
  /\ after' = after \cup {IF flushed THEN tmp ELSE Torn}
  /\ tmp' = NoDocument
  /\ flushed' = FALSE
  /\ Goto(p, "open")
  /\ UNCHANGED <<doc, acked, lock>>

OpenDir(p) ==
  /\ pc[p] = "open"
  /\ Goto(p, "commit")
  /\ UNCHANGED <<doc, acked, lock, fileVars>>

SyncDir(p) ==
  /\ pc[p] = "commit"
  /\ after' = {file}
  /\ acked' = [acked EXCEPT ![p] = TRUE]
  /\ Goto(p, "hold")
  /\ UNCHANGED <<doc, lock, file, tmp, flushed>>

(* An I/O error in a write ends the command, with whatever was done by then. *)
FailedWrite(p) ==
  /\ pc[p] \in Writing
  /\ \/ pc[p] = "data" /\ tmp' = Torn
     \/ UNCHANGED tmp
  /\ End(p)
  /\ UNCHANGED <<doc, acked, file, flushed, after>>

------------------------------------------------------------------------
(* RepoState::delete: the directory is not synced. *)

Remove ==
  /\ file' = NoDocument
  /\ after' = after \cup {NoDocument}
  /\ UNCHANGED <<tmp, flushed>>

UpDelete(p) ==
  /\ pc[p] = "hold"
  /\ Remove
  /\ doc' = [doc EXCEPT ![p] = NoDocument]
  /\ acked' = [acked EXCEPT ![p] = FALSE]
  /\ UNCHANGED <<pc, lock>>

(* Down reads without the lock and goes on whatever it reads; status reads and
   ends. *)
Look(p) ==
  /\ pc[p] = "look"
  /\ Goto(p, "trylock")
  /\ UNCHANGED <<doc, acked, lock, fileVars>>

(* A lock somebody holds leaves the statefile to its holder: down ends. *)
TryLock(p) ==
  /\ pc[p] = "trylock"
  /\ lock = NoProc
  /\ lock' = p
  /\ Goto(p, "delete")
  /\ UNCHANGED <<doc, acked, fileVars>>

(* Here is no check of whose file it is. *)
DownDelete(p) ==
  /\ pc[p] = "delete"
  /\ Remove
  /\ End(p)
  /\ UNCHANGED <<doc, acked>>

------------------------------------------------------------------------
(* A command returns, with or without an error, or is killed. *)
Quit(p) ==
  /\ pc[p] \notin {"new", "over"}
  /\ End(p)
  /\ UNCHANGED <<doc, acked, fileVars>>

(* The host loses power: the processes are gone, and what was not synced may
   be. *)
HostCrash ==
  /\ file' \in after
  /\ after' = {file'}
  /\ tmp' \in {NoDocument, Torn, tmp}
  /\ flushed' = FALSE
  /\ pc' = [p \in Proc |-> IF pc[p] = "new" THEN "new" ELSE "over"]
  /\ lock' = NoProc
  /\ UNCHANGED <<doc, acked>>

WriteStep(p) ==
  \/ BeginWrite(p) \/ CreateTmp(p) \/ WriteTmp(p) \/ FlushTmp(p) \/ Rename(p)
  \/ OpenDir(p) \/ SyncDir(p) \/ FailedWrite(p)

ProcStep(p) ==
  \/ Open(p) \/ Lock(p) \/ Read(p) \/ WriteStep(p) \/ UpDelete(p)
  \/ Look(p) \/ TryLock(p) \/ DownDelete(p) \/ Quit(p)

Next == (\E p \in Proc : ProcStep(p)) \/ HostCrash

Spec == Init /\ [][Next]_vars
------------------------------------------------------------------------
(* Properties. *)

(* Whatever is killed or crashes in whatever call, unlocked readers and the next
   run find the old statefile or the new one, never half of one, and a write
   that returned is not lost (state.rs:154-166). *)
Reg == INSTANCE Register WITH value <- file
ImplementsRegister == Reg!Spec

(* An up that goes on after a write has its manifest on the disk, where no crash
   takes it away; one that only read or deleted sees the file as it is
   (state.rs:127-168, 170-183). *)
HolderKnowsFile ==
  \A p \in Proc : pc[p] = "hold" =>
    file = doc[p] /\ (acked[p] => after = {doc[p]})

(* Whoever is about to replace or remove a statefile under the lock, except a
   down, replaces one of its own repository and version: slugs may collide, but
   no up writes over the file of another repository (state.rs:103-123). *)
HolderOwnsFile ==
  \A p \in Proc : pc[p] \in Writing \cup {"hold"} /\ file # NoDocument =>
    file \in Current /\ RepoIn[file] = RepoFor[p]
=======================================================================
