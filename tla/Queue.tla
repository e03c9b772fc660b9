----------------------------- MODULE Queue -----------------------------
(* The workflow runs of the repository as GitHub lists them, and the two requests
   up --auto sizes its fleet with (src/github.rs): the paged listing of runs, and
   the jobs of one run. *)
EXTENDS Integers, Sequences

CONSTANTS
  Run,       \* workflow runs of the last two days, over a whole behaviour
  FirstRun,  \* the one there is at the start
  MaxJobs,   \* the most jobs one run queues for burst
  BigRun,    \* those with more jobs than the one page of 100 that is asked for
  PerPage    \* runs on a page: 100

ASSUME PagesType == PerPage \in Nat \ {0}
ASSUME JobsType == MaxJobs \in Nat /\ BigRun \subseteq Run /\ FirstRun \in Run

VARIABLES
  listed,  \* the runs, newest first
  queued,  \* [Run -> 0..MaxJobs]: jobs still queued for burst
  done     \* the completed runs

queueVars == <<listed, queued, done>>

QueueTypeOK ==
  /\ listed \in Seq(Run)
  /\ queued \in [Run -> 0..MaxJobs]
  /\ done \subseteq Run

QueueInit ==
  /\ listed = <<FirstRun>>
  /\ queued = [r \in Run |-> 0]
  /\ done = {}

Listed == {listed[i] : i \in DOMAIN listed}

Page(n) == {listed[i] : i \in {j \in DOMAIN listed : (n - 1) * PerPage < j /\ j =< n * PerPage}}

IsLastPage(n) == Len(listed) < n * PerPage

MutHasQueuePotential(r) == queued[r] > 0

(* run_ids_with_queue_potential: the listing is not filtered by GitHub, what is
   completed is left out here. *)
HasQueuePotential(r) == r \notin done

(* count_queued_burst_jobs sees one page of a run's jobs; which of them are on it
   when there are more is GitHub's affair. *)
CountedJobs(r) == IF r \in BigRun THEN 0..queued[r] ELSE {queued[r]}

------------------------------------------------------------------------
(* GitHub and the runners.  A completed run stays completed: it is not run
   again. *)

(* A new run goes to the front. *)
RunArrives(r) ==
  /\ r \notin Listed
  /\ listed' = <<r>> \o listed
  /\ UNCHANGED <<queued, done>>

(* Jobs that wait for another job of the run are queued after it. *)
JobQueued(r) ==
  /\ r \in Listed \ done
  /\ queued[r] < MaxJobs
  /\ queued' = [queued EXCEPT ![r] = @ + 1]
  /\ UNCHANGED <<listed, done>>

JobTaken(r) ==
  /\ queued[r] > 0
  /\ queued' = [queued EXCEPT ![r] = @ - 1]
  /\ UNCHANGED <<listed, done>>

(* A run goes on after its last burst job. *)
RunCompletes(r) ==
  /\ r \in Listed \ done
  /\ queued[r] = 0
  /\ done' = done \cup {r}
  /\ UNCHANGED <<listed, queued>>
=======================================================================
