---------------------------- MODULE World ----------------------------
(* The names every other module shares.

   A Vm is one turn of up's launch loop: the runner name it mints and the
   instance it launches under that name.  The two always come in pairs
   (src/commands/up.rs:63-83), so one constant stands for both; what can exist
   without the other is told apart by the state of each, in GitHub and Cloud.
   A Dir is one state directory: one host serving one repository. *)

CONSTANTS
  Vm,       \* launch attempts: a runner name, and the instance started for it
  Repo,     \* repositories, the value of the tag burst-actions-repo
  Dir,      \* state directories, one per (host, repository)
  RepoOf,   \* [Dir -> Repo]: the repository a directory belongs to
  NoDir,    \* "minted by nobody yet"
  NoRepo    \* "not tagged yet"

ASSUME RepoOfType == RepoOf \in [Dir -> Repo]
ASSUME NoDirIsNone == NoDir \notin Dir
ASSUME NoRepoIsNone == NoRepo \notin Repo
=======================================================================
