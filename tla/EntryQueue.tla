------------------------------ MODULE EntryQueue -------------------------------
(***************************************************************************)
(* The way into the run loop from other threads and from signal handlers   *)
(* (trio/_core/_entry_queue.py: EntryQueue; trio/_core/                    *)
(* _wakeup_socketpair.py: WakeupSocketpair).                               *)
(*                                                                         *)
(* Threads call run_sync_soon() under a lock.  A signal handler runs in    *)
(* the main thread between any two of its steps, and the lock being        *)
(* reentrant does not stop it: SignalSubmit is one step that respects only *)
(* other threads' hold of the lock.  It also stands for the calls of the   *)
(* main thread's own code and callbacks.  The queue's task runs in the     *)
(* main thread; the run loop cancels it once everything else has ended.    *)
(***************************************************************************)
EXTENDS Naturals, Sequences

CONSTANTS
    Thread,         \* the other threads
    Job,            \* the calls made with idempotent=False, one submission each
    Key,            \* the calls made with idempotent=True, any number of times
    None,           \* Python's None; a free lock
    MainThread,     \* the main thread as the holder of the lock
    WakeupCapacity  \* how many bytes the wakeup socket pair can hold

ASSUME EntryQueueAssumption ==
    /\ Job \cap Key = {}
    /\ None \notin Thread \cup Job \cup Key \cup {MainThread}
    /\ MainThread \notin Thread
    /\ WakeupCapacity \in Nat \ {0}

VARIABLES
    queue,             \* EntryQueue.queue
    idempotent_queue,  \* the keys of EntryQueue.idempotent_queue, in order
    wakeup,            \* bytes in the wakeup socket pair
    done,              \* EntryQueue.done
    lock,              \* the holder of EntryQueue.lock
    task,              \* where EntryQueue.task is
    bound,             \* iterations left of run_all_bounded's first loop
    snapshot,          \* keys left of its second loop
    running,           \* the callback being run
    cancelled,         \* run_sync_soon_nursery.cancel_scope.cancel() was called
    pc,                \* where each thread is in run_sync_soon
    item,              \* what it submits
    fresh,             \* the jobs not yet submitted
    accepted,          \* history: jobs in the order run_sync_soon took them
    processed          \* history: jobs in the order they were run

queueVars  == <<queue, idempotent_queue, wakeup>>
taskVars   == <<task, bound, snapshot, running>>
submitVars == <<pc, item>>
entryVars  == <<queueVars, done, lock, taskVars, cancelled, submitVars, fresh,
                accepted, processed>>

TaskPC == {"new",        \* spawned
           "start",      \* at the head of run_all_bounded
           "jobs",       \* in its first loop
           "keys",       \* in its second loop
           "check",      \* are the queues empty?
           "waiting",    \* in wait_readable
           "drain",      \* woken up
           "checkpoint", \* in checkpoint()
           "stopping",   \* Cancelled was caught, the lock is to be taken
           "locked",     \* holding the lock
           "ended"}      \* the task has exited

ThreadPC == {"outside", "holding", "checked", "queued", "woken"}

TypeOK ==
    /\ queue \in Seq(Job)
    /\ idempotent_queue \in Seq(Key)
    /\ wakeup \in 0 .. WakeupCapacity
    /\ done \in BOOLEAN
    /\ lock \in Thread \cup {MainThread, None}
    /\ task \in TaskPC
    /\ bound \in Nat
    /\ snapshot \in Seq(Key)
    /\ running \in Job \cup Key \cup {None}
    /\ cancelled \in BOOLEAN
    /\ pc \in [Thread -> ThreadPC]
    /\ item \in [Thread -> Job \cup Key \cup {None}]
    /\ fresh \subseteq Job
    /\ accepted \in Seq(Job)
    /\ processed \in Seq(Job)

Init ==
    /\ queue = <<>>
    /\ idempotent_queue = <<>>
    /\ wakeup = 0
    /\ done = FALSE
    /\ lock = None
    /\ task = "new"
    /\ bound = 0
    /\ snapshot = <<>>
    /\ running = None
    /\ cancelled = FALSE
    /\ pc = [t \in Thread |-> "outside"]
    /\ item = [t \in Thread |-> None]
    /\ fresh = Job
    /\ accepted = <<>>
    /\ processed = <<>>

--------------------------------------------------------------------------------
(***************************************************************************)
(* run_sync_soon                                                           *)
(***************************************************************************)

In(q, x) == \E i \in 1 .. Len(q) : q[i] = x

\* Put x into the queue it belongs to; a key already there is not added.
Enqueue(x) ==
    /\ queue' = IF x \in Job THEN Append(queue, x) ELSE queue
    /\ idempotent_queue' = IF x \in Key /\ ~In(idempotent_queue, x)
                           THEN Append(idempotent_queue, x) ELSE idempotent_queue
    /\ accepted' = IF x \in Job THEN Append(accepted, x) ELSE accepted

\* wakeup_thread_and_signal_safe: a full socket pair is as good as one byte.
WakeUp == wakeup' = IF wakeup < WakeupCapacity THEN wakeup + 1 ELSE wakeup

Goto(t, label) == pc' = [pc EXCEPT ![t] = label]

\* A thread calls run_sync_soon(x) and gets the lock.
Submit(t, x) ==
    /\ pc[t] = "outside"
    /\ lock = None
    /\ x \in fresh \cup Key
    /\ lock' = t
    /\ Goto(t, "holding")
    /\ item' = [item EXCEPT ![t] = x]
    /\ fresh' = fresh \ {x}
    /\ UNCHANGED <<queueVars, done, taskVars, cancelled, accepted, processed>>

CheckDone(t) ==
    /\ pc[t] = "holding"
    /\ ~done
    /\ Goto(t, "checked")
    /\ UNCHANGED <<queueVars, done, lock, taskVars, cancelled, item, fresh,
                   accepted, processed>>

\* RunFinishedError
Refuse(t) ==
    /\ pc[t] = "holding"
    /\ done
    /\ Goto(t, "outside")
    /\ lock' = None
    /\ UNCHANGED <<queueVars, done, taskVars, cancelled, item, fresh, accepted,
                   processed>>

Put(t) ==
    /\ pc[t] = "checked"
    /\ Enqueue(item[t])
    /\ Goto(t, "queued")
    /\ UNCHANGED <<wakeup, done, lock, taskVars, cancelled, item, fresh,
                   processed>>

Send(t) ==
    /\ pc[t] = "queued"
    /\ WakeUp
    /\ Goto(t, "woken")
    /\ UNCHANGED <<queue, idempotent_queue, done, lock, taskVars, cancelled,
                   item, fresh, accepted, processed>>

SubmitReturns(t) ==
    /\ pc[t] = "woken"
    /\ lock' = None
    /\ Goto(t, "outside")
    /\ UNCHANGED <<queueVars, done, taskVars, cancelled, item, fresh, accepted,
                   processed>>

SignalSubmitSilently(x) ==
    /\ task # "ended"
    /\ lock \in {None, MainThread}
    /\ x \in fresh \cup Key
    /\ fresh' = fresh \ {x}
    /\ IF done THEN UNCHANGED <<queue, idempotent_queue, accepted>> ELSE Enqueue(x)
    /\ UNCHANGED <<wakeup, done, lock, taskVars, cancelled, submitVars, processed>>

\* run_sync_soon(x) from a signal handler.
SignalSubmit(x) ==
    /\ task # "ended"
    /\ lock \in {None, MainThread}
    /\ x \in fresh \cup Key
    /\ fresh' = fresh \ {x}
    /\ IF done
       THEN UNCHANGED <<queueVars, accepted>>
       ELSE Enqueue(x) /\ WakeUp
    /\ UNCHANGED <<done, lock, taskVars, cancelled, submitVars, processed>>

--------------------------------------------------------------------------------
(***************************************************************************)
(* EntryQueue.task                                                         *)
(***************************************************************************)

\* run_all_bounded: the first loop takes as many jobs as there are now.
RunAll ==
    /\ task \in {"new", "start"}
    /\ task' = "jobs"
    /\ bound' = Len(queue)
    /\ UNCHANGED <<queueVars, done, lock, snapshot, running, cancelled,
                   submitVars, fresh, accepted, processed>>

PopRight ==
    /\ task = "jobs"
    /\ running = None
    /\ bound > 0
    /\ bound' = bound - 1
    /\ queue' = SubSeq(queue, 1, Len(queue) - 1)
    /\ running' = queue[Len(queue)]
    /\ UNCHANGED <<idempotent_queue, wakeup, done, lock, task, snapshot,
                   cancelled, submitVars, fresh, accepted, processed>>

PopLeft ==
    /\ task = "jobs"
    /\ running = None
    /\ bound > 0
    /\ bound' = bound - 1
    /\ queue' = Tail(queue)
    /\ running' = Head(queue)
    /\ UNCHANGED <<idempotent_queue, wakeup, done, lock, task, snapshot,
                   cancelled, submitVars, fresh, accepted, processed>>

\* The second loop goes through the keys there are now.
TakeKeys ==
    /\ task = "jobs"
    /\ running = None
    /\ bound = 0
    /\ task' = "keys"
    /\ snapshot' = idempotent_queue
    /\ UNCHANGED <<queueVars, done, lock, bound, running, cancelled, submitVars,
                   fresh, accepted, processed>>

\* q without its element k.
Without(q, k) ==
    LET p == CHOOSE i \in 1 .. Len(q) : q[i] = k
    IN  SubSeq(q, 1, p - 1) \o SubSeq(q, p + 1, Len(q))

DelKey ==
    /\ task = "keys"
    /\ running = None
    /\ snapshot # <<>>
    /\ running' = Head(snapshot)
    /\ snapshot' = Tail(snapshot)
    /\ idempotent_queue' = Without(idempotent_queue, Head(snapshot))
    /\ UNCHANGED <<queue, wakeup, done, lock, task, bound, cancelled, submitVars,
                   fresh, accepted, processed>>

\* run_cb: the callback returns.
RunCb ==
    /\ running # None
    /\ running' = None
    /\ processed' = IF running \in Job THEN Append(processed, running)
                    ELSE processed
    /\ UNCHANGED <<queueVars, done, lock, task, bound, snapshot, cancelled,
                   submitVars, fresh, accepted>>

\* run_all_bounded returns, to the loop or, once done is set, to the end.
PassOver ==
    /\ task = "keys"
    /\ running = None
    /\ snapshot = <<>>
    /\ task' = IF done THEN "ended" ELSE "check"
    /\ UNCHANGED <<queueVars, done, lock, bound, snapshot, running, cancelled,
                   submitVars, fresh, accepted, processed>>

CheckEmpty ==
    /\ task = "check"
    /\ task' = IF queue = <<>> /\ idempotent_queue = <<>>
               THEN "waiting" ELSE "checkpoint"
    /\ UNCHANGED <<queueVars, done, lock, bound, snapshot, running, cancelled,
                   submitVars, fresh, accepted, processed>>

Woken ==
    /\ task = "waiting"
    /\ wakeup > 0
    /\ task' = "drain"
    /\ UNCHANGED <<queueVars, done, lock, bound, snapshot, running, cancelled,
                   submitVars, fresh, accepted, processed>>

Drain ==
    /\ task = "drain"
    /\ wakeup' = 0
    /\ task' = "start"
    /\ UNCHANGED <<queue, idempotent_queue, done, lock, bound, snapshot, running,
                   cancelled, submitVars, fresh, accepted, processed>>

CheckpointSkipsPass ==
    /\ task = "checkpoint"
    /\ task' = IF cancelled THEN "stopping" ELSE "check"
    /\ UNCHANGED <<queueVars, done, lock, bound, snapshot, running, cancelled,
                   submitVars, fresh, accepted, processed>>

Checkpoint ==
    /\ task = "checkpoint"
    /\ task' = IF cancelled THEN "stopping" ELSE "start"
    /\ UNCHANGED <<queueVars, done, lock, bound, snapshot, running, cancelled,
                   submitVars, fresh, accepted, processed>>

\* Runner.init: everything else has ended, cancel the task ...
Stop ==
    /\ ~cancelled
    /\ cancelled' = TRUE
    /\ UNCHANGED <<queueVars, done, lock, taskVars, submitVars, fresh, accepted,
                   processed>>

\* ... which finds out in wait_readable, or in checkpoint().
Cancelled ==
    /\ task = "waiting"
    /\ cancelled
    /\ task' = "stopping"
    /\ UNCHANGED <<queueVars, done, lock, bound, snapshot, running, cancelled,
                   submitVars, fresh, accepted, processed>>

AcquireNoLock ==
    /\ task = "stopping"
    /\ task' = "locked"
    /\ UNCHANGED <<queueVars, lock, done, bound, snapshot, running, cancelled,
                   submitVars, fresh, accepted, processed>>

AcquireLock ==
    /\ task = "stopping"
    /\ lock = None
    /\ lock' = MainThread
    /\ task' = "locked"
    /\ UNCHANGED <<queueVars, done, bound, snapshot, running, cancelled,
                   submitVars, fresh, accepted, processed>>

\* done is set, the lock released, and one last pass begins.
SetDone ==
    /\ task = "locked"
    /\ done' = TRUE
    /\ lock' = None
    /\ task' = "start"
    /\ UNCHANGED <<queueVars, bound, snapshot, running, cancelled, submitVars,
                   fresh, accepted, processed>>

ThreadStep(t) == CheckDone(t) \/ Refuse(t) \/ Put(t) \/ Send(t) \/ SubmitReturns(t)

TaskStep ==
    \/ RunAll
    \/ PopLeft
    \/ TakeKeys
    \/ DelKey
    \/ RunCb
    \/ PassOver
    \/ CheckEmpty
    \/ Woken
    \/ Drain
    \/ Checkpoint
    \/ Cancelled
    \/ AcquireLock
    \/ SetDone

Next ==
    \/ \E t \in Thread : ThreadStep(t) \/ \E x \in Job \cup Key : Submit(t, x)
    \/ \E x \in Job \cup Key : SignalSubmit(x)
    \/ TaskStep
    \/ Stop

Spec == Init /\ [][Next]_entryVars

--------------------------------------------------------------------------------
(***************************************************************************)
(* Properties                                                              *)
(***************************************************************************)

\* The job being run, as a sequence.
Running == IF running \in Job THEN <<running>> ELSE <<>>

(***************************************************************************)
(* No lost wakeup: when the task sleeps although a job or a key is queued, *)
(* a byte is in the socket pair, or the thread that holds the lock is      *)
(* about to send one.                                                      *)
(***************************************************************************)
NoLostWakeup ==
    task = "waiting" /\ (queue # <<>> \/ idempotent_queue # <<>>) =>
        wakeup > 0 \/ \E t \in Thread : lock = t /\ pc[t] = "queued"

(***************************************************************************)
(* First in, first out, exactly once, at every moment; and once the task   *)
(* has exited, upon which run() closes the socket pair, everything that    *)
(* was accepted has been processed ("any call that doesn't raise this      *)
(* error is guaranteed to be fully processed before run exits") and no     *)
(* thread is about to write to the queues or the socket pair, which is     *)
(* run_sync_soon's reason for holding the lock all the way through.        *)
(***************************************************************************)
RunsOnceInOrder ==
    /\ accepted = processed \o Running \o queue
    /\ task = "ended" =>
          /\ queue = <<>> /\ idempotent_queue = <<>> /\ running = None
          /\ \A t \in Thread : pc[t] \notin {"checked", "queued"}

\* Every accepted job is run, whatever the shutdown interleaves with.
EveryJobRuns ==
    \A j \in Job : In(accepted, j) ~> In(processed, j)

================================================================================
