--------------------------- MODULE CompactionQueue ---------------------------
(***************************************************************************)
(* The compactions a store puts off while it opens (crates/core/crypto/    *)
(* src/content_sqlite.rs): a queue, a worker thread that is started for    *)
(* the first job and leaves when the queue is empty, and maintenance       *)
(* actions that empty the queue beside it.  What a job does to its store   *)
(* is SealedStore's.  The callers of maintenance are not under src/.       *)
(***************************************************************************)
EXTENDS Naturals, Sequences

CONSTANTS
    BigStores,    \* stores too large to compact while they open
    NoStore,
    Worker,       \* the worker thread
    Maintainers,  \* threads that run every queued compaction now
    MaxDeferred,  \* bound: jobs queued in all
    MaxUnspawned  \* bound: threads the system refuses

ASSUME QueueAssumption == Worker \notin Maintainers

VARIABLES
    jobs,       \* CompactionQueue.jobs
    worker,     \* CompactionQueue.worker
    running,    \* CompactionQueue.running
    runner,     \* each thread: where it is, and the store it compacts
    unspawned,  \* history: the last thread asked for was refused
    deferred, refusals

queueVars == <<jobs, worker, running, runner, unspawned, deferred, refusals>>

Runners == {Worker} \cup Maintainers
Out == [at |-> "out", store |-> NoStore]
RunnerAt(r, at) == runner[r].at = at
RunnerTo(r, at) == runner' = [runner EXCEPT ![r] = [at |-> at, store |-> NoStore]]

---------------------------------------------------------------------------
\* defer_compaction.
StartWorker ==
    \/ worker' = TRUE /\ RunnerTo(Worker, "asleep") /\ unspawned' = FALSE /\ UNCHANGED refusals
    \/ /\ refusals < MaxUnspawned /\ refusals' = refusals + 1
       /\ unspawned' = TRUE /\ UNCHANGED <<worker, runner>>

Defer ==
    /\ deferred < MaxDeferred /\ deferred' = deferred + 1
    /\ \E s \in BigStores : jobs' = Append(jobs, s)
    /\ IF worker THEN UNCHANGED <<worker, runner, unspawned, refusals>> ELSE StartWorker
    /\ UNCHANGED running

\* The worker's loop.
Wake ==
    /\ RunnerAt(Worker, "asleep") /\ RunnerTo(Worker, "next")
    /\ UNCHANGED <<jobs, worker, running, unspawned, deferred, refusals>>

\* Mutant: the worker leaves once it has run the jobs it found.
LeavesAnyway == TRUE
MayLeave == jobs = <<>>

LeaveOrSleep ==
    /\ RunnerAt(Worker, "check")
    /\ IF MayLeave
       THEN worker' = FALSE /\ RunnerTo(Worker, "out")
       ELSE RunnerTo(Worker, "asleep") /\ UNCHANGED worker
    /\ UNCHANGED <<jobs, running, unspawned, deferred, refusals>>

Maintain(r) ==
    /\ r \in Maintainers /\ RunnerAt(r, "out") /\ RunnerTo(r, "next")
    /\ UNCHANGED <<jobs, worker, running, unspawned, deferred, refusals>>

\* run_deferred_compactions: the queue is locked to take a job, not while it runs.
TakeJob(r) ==
    /\ RunnerAt(r, "next") /\ jobs # <<>>
    /\ jobs' = Tail(jobs) /\ running' = Head(jobs)
    /\ runner' = [runner EXCEPT ![r] = [at |-> "job", store |-> Head(jobs)]]
    /\ UNCHANGED <<worker, unspawned, deferred, refusals>>

\* The job compacts its store, fails, or finds it gone.
EndJob(r) ==
    /\ RunnerAt(r, "job")
    /\ running' = NoStore /\ RunnerTo(r, "next")
    /\ UNCHANGED <<jobs, worker, unspawned, deferred, refusals>>

NoMoreJobs(r) ==
    /\ RunnerAt(r, "next") /\ jobs = <<>>
    /\ RunnerTo(r, IF r = Worker THEN "check" ELSE "out")
    /\ UNCHANGED <<jobs, worker, running, unspawned, deferred, refusals>>

QueueInit ==
    /\ jobs = <<>> /\ worker = FALSE /\ running = NoStore
    /\ runner = [r \in Runners |-> Out]
    /\ unspawned = FALSE /\ deferred = 0 /\ refusals = 0

QueueNext ==
    \/ Defer \/ Wake \/ LeaveOrSleep
    \/ \E r \in Runners : Maintain(r) \/ TakeJob(r) \/ EndJob(r) \/ NoMoreJobs(r)

QueueSpec == QueueInit /\ [][QueueNext]_queueVars

---------------------------------------------------------------------------
\* Every state the variables may be in.
QueueTypeOK ==
    /\ jobs \in Seq(BigStores) /\ running \in BigStores \cup {NoStore}
    /\ deferred \in 0..MaxDeferred /\ refusals \in 0..MaxUnspawned
    /\ \A r \in Runners :
           /\ runner[r].at \in {"out", "asleep", "next", "job", "check"}
           /\ RunnerAt(r, "job") <=> runner[r].store # NoStore

\* No job is left in the queue with nobody to run it, unless the thread that should was
\* refused: a job queued while the worker is about to leave is seen, by the worker or by
\* a new one.  Health names a store only while it is being compacted.
NoJobStranded ==
    /\ jobs # <<>> => ~RunnerAt(Worker, "out") \/ unspawned
    /\ worker <=> ~RunnerAt(Worker, "out")
    /\ running # NoStore => \E r \in Runners : runner[r].store = running
==============================================================================
