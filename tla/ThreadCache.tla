------------------------------ MODULE ThreadCache ------------------------------
(***************************************************************************)
(* The cache of worker threads (trio/_core/_thread_cache.py).  Real        *)
(* threads, nothing but the interpreter lock around each dict operation    *)
(* and each attribute assignment: every such operation is a step.          *)
(*                                                                         *)
(* A caller of start_thread_soon() waits for the delivery of its job       *)
(* before it submits the next, so a job is named after its caller.         *)
(***************************************************************************)
EXTENDS Naturals, Sequences, SequencesExt, FiniteSets

CONSTANTS
    Caller,   \* threads, or tasks of one or more runs
    Worker,   \* WorkerThread objects; a dead one's name is used again
    Nobody

ASSUME ThreadCacheAssumption ==
    /\ Nobody \notin Caller \cup Worker
    /\ IsFiniteSet(Caller)

VARIABLES
    idle_workers,  \* keys of ThreadCache._idle_workers, oldest first
    job,           \* WorkerThread._job
    unlocked,      \* workers whose _worker_lock is not held
    worker,        \* where a worker is
    current,       \* the job it has taken out of _job
    caller,        \* where a caller is
    chosen         \* the worker start_thread_soon() chose

cacheVars == <<idle_workers, job, unlocked, worker, current, caller, chosen>>

WorkerPC == {"dead",
             "waiting",     \* in _worker_lock.acquire(timeout)
             "timed_out",   \* which has returned False
             "got_job",     \* which has returned True
             "running",     \* in fn
             "finished",    \* fn has returned
             "delivering"}  \* marked idle, in deliver

CallerPC == {"outside",
             "popped",      \* start_thread_soon() has its worker
             "assigned",    \* and has set its _job
             "submitted"}   \* and has released its lock

Idle == ToSet(idle_workers)

CacheTypeOK ==
    /\ idle_workers \in Seq(Worker) /\ Len(idle_workers) = Cardinality(Idle)
    /\ job \in [Worker -> Caller \cup {Nobody}]
    /\ unlocked \subseteq Worker
    /\ worker \in [Worker -> WorkerPC]
    /\ current \in [Worker -> Caller \cup {Nobody}]
    /\ caller \in [Caller -> CallerPC]
    /\ chosen \in [Caller -> Worker \cup {Nobody}]

CacheInit ==
    /\ idle_workers = <<>>
    /\ job = [w \in Worker |-> Nobody]
    /\ unlocked = {}
    /\ worker = [w \in Worker |-> "dead"]
    /\ current = [w \in Worker |-> Nobody]
    /\ caller = [c \in Caller |-> "outside"]
    /\ chosen = [c \in Caller |-> Nobody]

WorkerAt(w, from, to) ==
    /\ worker[w] = from
    /\ worker' = [worker EXCEPT ![w] = to]

CallerAt(c, from, to) ==
    /\ caller[c] = from
    /\ caller' = [caller EXCEPT ![c] = to]

--------------------------------------------------------------------------------
(***************************************************************************)
(* start_thread_soon()                                                     *)
(***************************************************************************)
\* popitem() returns the most recently idle worker.
PopIdle(c) ==
    LET last == Len(idle_workers)
    IN  /\ last > 0
        /\ CallerAt(c, "outside", "popped")
        /\ chosen' = [chosen EXCEPT ![c] = idle_workers[last]]
        /\ idle_workers' = SubSeq(idle_workers, 1, last - 1)
        /\ UNCHANGED <<job, unlocked, worker, current>>

\* Or there is none, and WorkerThread() starts one, with its lock held.
SpawnWorker(c, w) ==
    /\ idle_workers = <<>>
    /\ CallerAt(c, "outside", "popped")
    /\ WorkerAt(w, "dead", "waiting")
    /\ chosen' = [chosen EXCEPT ![c] = w]
    /\ UNCHANGED <<idle_workers, job, unlocked, current>>

AssignJob(c) ==
    /\ CallerAt(c, "popped", "assigned")
    /\ job' = [job EXCEPT ![chosen[c]] = c]
    /\ UNCHANGED <<idle_workers, unlocked, worker, current, chosen>>

ReleaseWorkerLock(c) ==
    /\ CallerAt(c, "assigned", "submitted")
    /\ unlocked' = unlocked \cup {chosen[c]}
    /\ chosen' = [chosen EXCEPT ![c] = Nobody]
    /\ UNCHANGED <<idle_workers, job, worker, current>>

--------------------------------------------------------------------------------
(***************************************************************************)
(* WorkerThread._work() and _handle_job()                                  *)
(***************************************************************************)
AcquireWorkerLock(w) ==
    /\ w \in unlocked
    /\ WorkerAt(w, "waiting", "got_job")
    /\ unlocked' = unlocked \ {w}
    /\ UNCHANGED <<idle_workers, job, current, caller, chosen>>

\* IDLE_TIMEOUT passes while the lock is held.
TimeOut(w) ==
    /\ w \notin unlocked
    /\ WorkerAt(w, "waiting", "timed_out")
    /\ UNCHANGED <<idle_workers, job, unlocked, current, caller, chosen>>

ExitRegardless(w) ==
    /\ WorkerAt(w, "timed_out", "dead")
    /\ idle_workers' = Remove(idle_workers, w)
    /\ UNCHANGED <<job, unlocked, current, caller, chosen>>

\* Nobody can assign a job to a worker that took itself off the list.
Exit(w) ==
    /\ WorkerAt(w, "timed_out", "dead")
    /\ \E i \in 1 .. Len(idle_workers) :
          idle_workers[i] = w /\ idle_workers' = RemoveAt(idle_workers, i)
    /\ UNCHANGED <<job, unlocked, current, caller, chosen>>

RetryDelete(w) ==
    /\ w \notin Idle
    /\ WorkerAt(w, "timed_out", "timed_out")
    /\ UNCHANGED <<idle_workers, job, unlocked, current, caller, chosen>>

\* KeyError: somebody else did, and is about to assign one.
WaitAfterAll(w) ==
    /\ w \notin Idle
    /\ WorkerAt(w, "timed_out", "waiting")
    /\ UNCHANGED <<idle_workers, job, unlocked, current, caller, chosen>>

TakeJob(w) ==
    /\ WorkerAt(w, "got_job", "running")
    /\ current' = [current EXCEPT ![w] = job[w]]
    /\ job' = [job EXCEPT ![w] = Nobody]
    /\ UNCHANGED <<idle_workers, unlocked, caller, chosen>>

DeliverFirst(w) ==
    /\ WorkerAt(w, "running", "finished")
    /\ caller' = [caller EXCEPT ![current[w]] = "outside"]
    /\ current' = [current EXCEPT ![w] = Nobody]
    /\ UNCHANGED <<idle_workers, job, unlocked, chosen>>

RunJob(w) ==
    /\ WorkerAt(w, "running", "finished")
    /\ UNCHANGED <<idle_workers, job, unlocked, current, caller, chosen>>

\* The worker can be chosen again from here on, before it delivers.
MarkIdle(w) ==
    /\ WorkerAt(w, "finished", "delivering")
    /\ idle_workers' = Append(idle_workers, w)
    /\ UNCHANGED <<job, unlocked, current, caller, chosen>>

Deliver(w) ==
    /\ WorkerAt(w, "delivering", "waiting")
    /\ caller' = [caller EXCEPT ![current[w]] = "outside"]
    /\ current' = [current EXCEPT ![w] = Nobody]
    /\ UNCHANGED <<idle_workers, job, unlocked, chosen>>

CallerStep(c) ==
    \/ PopIdle(c)
    \/ \E w \in Worker : SpawnWorker(c, w)
    \/ AssignJob(c)
    \/ ReleaseWorkerLock(c)

WorkerStep(w) ==
    \/ AcquireWorkerLock(w)
    \/ Exit(w)
    \/ WaitAfterAll(w)
    \/ TakeJob(w)
    \/ RunJob(w)
    \/ MarkIdle(w)
    \/ Deliver(w)

CacheNext ==
    \/ \E c \in Caller : CallerStep(c)
    \/ \E w \in Worker : WorkerStep(w) \/ TimeOut(w)

CacheSpec == CacheInit /\ [][CacheNext]_cacheVars

(***************************************************************************)
(* Threads that can run do run, and fn returns; timeouts need not happen,  *)
(* and nobody has to submit a job.                                         *)
(***************************************************************************)
CacheFairness ==
    /\ \A c \in Caller : WF_cacheVars(AssignJob(c) \/ ReleaseWorkerLock(c))
    /\ \A w \in Worker : WF_cacheVars(WorkerStep(w))

--------------------------------------------------------------------------------
(***************************************************************************)
(* Properties                                                              *)
(***************************************************************************)

(***************************************************************************)
(* A worker that was chosen is alive and chosen once: the timeout races    *)
(* with popitem(), and a job given to a dead thread would never run, while *)
(* a second one would overwrite the first.  A submitted job is in one      *)
(* place: assigned to one worker and announced by its lock, or taken.  And *)
(* since workers are marked idle before they deliver, callers that submit  *)
(* one job at a time never make the cache start more threads than there    *)
(* are callers.                                                            *)
(***************************************************************************)
WorkersAccountedFor ==
    /\ CacheTypeOK
    /\ \A c, d \in Caller : c # d /\ chosen[c] # Nobody => chosen[c] # chosen[d]
    /\ \A c \in Caller : chosen[c] # Nobody =>
          worker[chosen[c]] # "dead" /\ chosen[c] \notin Idle \cup unlocked
    /\ \A w \in Worker : worker[w] = "dead" => w \notin unlocked /\ job[w] = Nobody
    /\ \A w \in unlocked : job[w] # Nobody
    /\ \A c \in Caller : caller[c] = "submitted" =>
          Cardinality({w \in Worker : job[w] = c}
                      \cup {w \in Worker : current[w] = c}) = 1
    /\ Cardinality({w \in Worker : worker[w] # "dead"}) <= Cardinality(Caller)

\* Every submitted job is run and delivered.
EveryJobDelivered ==
    \A c \in Caller : caller[c] # "outside" ~> caller[c] = "outside"
================================================================================
