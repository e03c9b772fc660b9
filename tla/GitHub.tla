---------------------------- MODULE GitHub ----------------------------
(* Runner registrations: what src/github.rs asks of GitHub, and what GitHub and
   the runner agent do to a registration by themselves.

   The HTTP plumbing, the paging and the JSON shapes of github.rs are left out:
   a listing is the set it returns. *)
EXTENDS World

VARIABLES
  reg,      \* [Vm -> RegState]: the registration minted under this name
  mintedBy  \* [Vm -> Dir \cup {NoDir}]: the state directory that minted it

ghVars == <<reg, mintedBy>>

(* "connected" is every registration dead_registrations passes over: online, or
   offline while GitHub still calls it busy. *)
RegState == {"none", "offline", "connected", "deleted"}

GitHubTypeOK ==
  /\ reg \in [Vm -> RegState]
  /\ mintedBy \in [Vm -> Dir \cup {NoDir}]

GitHubInit ==
  /\ reg = [v \in Vm |-> "none"]
  /\ mintedBy = [v \in Vm |-> NoDir]

(* A name nobody has minted: runner_nonce draws a fresh one every time. *)
FreshName(v) == mintedBy[v] = NoDir

(* mint_jit_config creates the registration, offline until an agent connects. *)
MintJitConfig(v, d) ==
  /\ FreshName(v)
  /\ reg' = [reg EXCEPT ![v] = "offline"]
  /\ mintedBy' = [mintedBy EXCEPT ![v] = d]

(* list_runners: every registration of the repository, whatever its name. *)
ListRunners == {v \in Vm : reg[v] \in {"offline", "connected"}}

(* The registrations this host may delete: offline, not busy, and among the
   names it minted. *)
DeadRegistrations(minted) == {v \in ListRunners \cap minted : reg[v] = "offline"}

(* delete_runner: deleting what GitHub has dropped already is not an error. *)
DeleteRunner(v) ==
  /\ reg' = [reg EXCEPT ![v] = "deleted"]
  /\ UNCHANGED mintedBy

------------------------------------------------------------------------
(* What happens to a registration outside the program. *)

(* A runner is ephemeral: GitHub drops its registration when its job is done. *)
RunnerFinishes(v) ==
  /\ reg[v] = "connected"
  /\ reg' = [reg EXCEPT ![v] = "deleted"]
  /\ UNCHANGED mintedBy
=======================================================================
