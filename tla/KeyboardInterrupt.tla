--------------------------- MODULE KeyboardInterrupt ---------------------------
(***************************************************************************)
(* Control-C (trio/_core/_run.py: Runner.deliver_ki, _deliver_ki_cb,       *)
(* Task._attempt_delivery_of_pending_ki and the end of unrolled_run;       *)
(* trio/_core/_ki.py: KIManager).                                          *)
(*                                                                         *)
(* SIGINT arrives between any two steps of the main thread.  If protected  *)
(* code is running, the handler sets ki_pending and passes a callback      *)
(* through the entry queue of module EntryQueue; otherwise it raises on    *)
(* the spot.  Only the main task is modelled here, with the kinds of sleep *)
(* it can be in.                                                           *)
(***************************************************************************)
EXTENDS EntryQueue

\* The submissions that the SIGINT handler makes.
CONSTANT KiJob

ASSUME KiAssumption == KiJob \subseteq Job

VARIABLES
    ki_pending, \* Runner.ki_pending
    main_task,  \* what the main task does
    installed,  \* the SIGINT handler is in place
    sigints,    \* history: interrupts the handler has taken on
    raised      \* history: KeyboardInterrupts raised, in the task or by run()

kiVars  == <<ki_pending, main_task, installed, sigints, raised>>
allVars == <<entryVars, kiVars>>

(***************************************************************************)
(* The main task runs, or sleeps with an abort function: one that          *)
(* succeeds, one that fails and ignores raise_cancel, one that fails and   *)
(* calls it (a nursery's), or one that has been tried ("tried").           *)
(***************************************************************************)
AbortKind == {"succeeds", "fails", "captures"}
MainPC == AbortKind \cup {"code", "tried", "exited"}

KiTypeOK ==
    /\ TypeOK
    /\ ki_pending \in BOOLEAN
    /\ main_task \in MainPC
    /\ installed \in BOOLEAN
    /\ sigints \in Nat
    /\ raised \in Nat

KiInit ==
    /\ Init
    /\ ki_pending = FALSE
    /\ main_task = "code"
    /\ installed = TRUE
    /\ sigints = 0
    /\ raised = 0

--------------------------------------------------------------------------------
\* The entry queue's task is not running, so another task can be.
Yielded == task \in {"new", "waiting", "drain", "checkpoint"}

(***************************************************************************)
(* _attempt_delivery_of_pending_ki on a main task that sleeps with kind k. *)
(* raise_cancel clears ki_pending, whoever calls it.                       *)
(***************************************************************************)
DeliverKi(k) ==
    IF k \in AbortKind
    THEN /\ main_task' = "tried"
         /\ ki_pending' = (k = "fails")
         /\ raised' = IF k = "fails" THEN raised ELSE raised + 1
    ELSE main_task' = k /\ UNCHANGED <<ki_pending, raised>>

SleepUnchecked(k) ==
    /\ main_task = "code"
    /\ Yielded
    /\ main_task' = k
    /\ UNCHANGED <<entryVars, ki_pending, installed, sigints, raised>>

\* The main task yields WaitTaskRescheduled; a pending KI goes first.
Sleep(k) ==
    /\ main_task = "code"
    /\ Yielded
    /\ IF ki_pending THEN DeliverKi(k)
       ELSE main_task' = k /\ UNCHANGED <<ki_pending, raised>>
    /\ UNCHANGED <<entryVars, installed, sigints>>

\* Somebody wakes the main task, or it is sent its KeyboardInterrupt.
Wake ==
    /\ main_task \in AbortKind \cup {"tried"}
    /\ Yielded
    /\ main_task' = "code"
    /\ UNCHANGED <<entryVars, ki_pending, installed, sigints, raised>>

\* The main task is over; the rest of run() winds down.
MainExits ==
    /\ main_task = "code"
    /\ Yielded
    /\ main_task' = "exited"
    /\ UNCHANGED <<entryVars, ki_pending, installed, sigints, raised>>

(***************************************************************************)
(* The SIGINT handler.  protected: is KI protection enabled in the frame   *)
(* that it interrupts?  Protected or not is the code's choice; trio's own  *)
(* code, the entry queue's task included, always is.                       *)
(***************************************************************************)
HandlerUnprotected ==
    /\ installed
    /\ Yielded
    /\ \E j \in fresh \cap KiJob : fresh' = fresh \ {j}
    /\ sigints' = sigints + 1
    /\ raised' = raised + 1
    /\ UNCHANGED <<queueVars, done, lock, taskVars, cancelled, submitVars,
                   accepted, processed, ki_pending, main_task, installed>>

\* deliver_ki: RunFinishedError from run_sync_soon is ignored.
HandlerProtected(j) ==
    /\ installed
    /\ j \in KiJob \cap fresh
    /\ ki_pending' = TRUE
    /\ sigints' = sigints + 1
    /\ IF task = "ended"
       THEN /\ fresh' = fresh \ {j}
            /\ UNCHANGED <<queueVars, done, lock, taskVars, cancelled, submitVars,
                           accepted, processed>>
       ELSE SignalSubmit(j)
    /\ UNCHANGED <<main_task, installed, raised>>

\* _deliver_ki_cb, when the entry queue's task gets to it.
DeliverKiCb ==
    /\ RunCb
    /\ IF running \in KiJob /\ ki_pending /\ main_task # "exited"
       THEN DeliverKi(main_task) ELSE UNCHANGED <<ki_pending, main_task, raised>>
    /\ UNCHANGED <<installed, sigints>>

\* Any other step of the entry queue's task.
QueueTask ==
    /\ \/ RunAll \/ PopLeft \/ TakeKeys \/ DelKey \/ PassOver \/ CheckEmpty
       \/ Woken \/ Drain \/ Checkpoint \/ Cancelled \/ AcquireLock \/ SetDone
    /\ UNCHANGED kiVars

\* The threads that use the queue, and the end of the run.
QueueUse ==
    /\ \/ \E t \in Thread : ThreadStep(t) \/ \E x \in (Job \ KiJob) \cup Key : Submit(t, x)
       \/ main_task = "exited" /\ Stop
    /\ UNCHANGED kiVars

(***************************************************************************)
(* The end of run(): the handler is removed first, then ki_pending is      *)
(* looked at for the last time.                                            *)
(***************************************************************************)
Close ==
    /\ task = "ended"
    /\ installed
    /\ installed' = FALSE
    /\ raised' = IF ki_pending THEN raised + 1 ELSE raised
    /\ ki_pending' = FALSE
    /\ UNCHANGED <<entryVars, main_task, sigints>>

Over == ~installed /\ UNCHANGED allVars

KiNext ==
    \/ \E k \in AbortKind : Sleep(k)
    \/ Wake
    \/ MainExits
    \/ HandlerUnprotected
    \/ \E j \in KiJob : HandlerProtected(j)
    \/ DeliverKiCb
    \/ QueueTask
    \/ QueueUse
    \/ Close
    \/ Over

(***************************************************************************)
(* The run loop keeps running the queue's task (every runnable task is in  *)
(* the next batch), and a thread inside run_sync_soon, which never blocks  *)
(* once it has the lock, keeps going.                                      *)
(***************************************************************************)
KiFairness ==
    /\ WF_allVars(DeliverKiCb \/ QueueTask)
    /\ \A t \in Thread : WF_allVars(ThreadStep(t) /\ UNCHANGED kiVars)

KiSpec == KiInit /\ [][KiNext]_allVars /\ KiFairness

--------------------------------------------------------------------------------
(***************************************************************************)
(* Control-C is never lost.  A pending interrupt has a way to a main task  *)
(* that sleeps and could be woken by it: the callback is queued or running *)
(* and nothing is left to a checkpoint that does not come.  By the end of  *)
(* run() every control-C has had an effect: interrupts that came before    *)
(* another was raised share its KeyboardInterrupt, but the last one never  *)
(* goes unnoticed, and none is raised twice.                               *)
(***************************************************************************)
NoInterruptLost ==
    /\ KiTypeOK
    /\ ki_pending /\ main_task \in AbortKind =>
          \E j \in KiJob : In(queue, j) \/ running = j
    /\ ~installed => ~ki_pending /\ (sigints > 0 => raised > 0)
    /\ raised <= sigints
================================================================================
