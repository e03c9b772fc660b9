-------------------------- MODULE RepoState --------------------------
(* The statefile and the lock of one state directory (src/state.rs), and the
   reconciliation of its records with a listing (src/reconcile.rs).

   A statefile is the ids it records and which of them carry a runner name
   (an adopted record has none).  No file and a file without records are the
   same here: both readers treat them alike (up.rs:221-226, sweep.rs:222-230),
   and up deletes the file instead of writing an empty one.  The statefile's
   times are only displayed.  A write is atomic: a temporary file renamed into
   place. *)
EXTENDS World

CONSTANTS
  Proc,     \* invocations of burst, each of which runs one command
  DirOf,    \* [Proc -> Dir]: the directory an invocation works on
  NoProc    \* "nobody holds the lock"

ASSUME DirOfType == DirOf \in [Proc -> Dir]
ASSUME NoProcIsNone == NoProc \notin Proc

VARIABLES
  file,  \* [Dir -> StateFile]
  lock   \* [Dir -> Proc \cup {NoProc}]

stateVars == <<file, lock>>

StateFile == [ids : SUBSET Vm, named : SUBSET Vm]
Empty == [ids |-> {}, named |-> {}]

RepoStateTypeOK ==
  /\ file \in [Dir -> StateFile]
  /\ lock \in [Dir -> Proc \cup {NoProc}]

RepoStateInit ==
  /\ file = [d \in Dir |-> Empty]
  /\ lock = [d \in Dir |-> NoProc]

Holds(p) == lock[DirOf[p]] = p

(* try_lock: a lock somebody holds is the error LockHeld, not a wait. *)
LockFree(d) == lock[d] = NoProc

Lock(p) ==
  /\ LockFree(DirOf[p])
  /\ lock' = [lock EXCEPT ![DirOf[p]] = p]

(* The kernel drops the lock with the process, however it ends. *)
Unlock(p) == lock' = [lock EXCEPT ![DirOf[p]] = IF @ = p THEN NoProc ELSE @]

Write(d, m) == file' = [file EXCEPT ![d] = m]

Delete(d) == file' = [file EXCEPT ![d] = Empty]

(* One more instance this host launched, under the name it minted. *)
Record(m, v) == [ids |-> m.ids \cup {v}, named |-> m.named \cup {v}]

MutReconcile(known, live) == [ids |-> live, named |-> live]

(* Records that are no longer live are dropped, live instances the file does
   not know are adopted without a name. *)
Reconcile(known, live) ==
  [ids |-> live, named |-> known.named \cap live]
=======================================================================
