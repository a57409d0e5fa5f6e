-------------------------------- MODULE RunLoop --------------------------------
(***************************************************************************)
(* The run loop (trio/_core/_run.py: unrolled_run, wait_all_tasks_blocked, *)
(* GuestState; trio/_core/_mock_clock.py): wait for events, expire         *)
(* deadlines, see whether everything is idle, run what is runnable.  In    *)
(* guest mode the waiting happens in a thread while a host loop goes on    *)
(* running code of its own.                                                *)
(*                                                                         *)
(* The heap of deadlines is in Deadlines; here a sleeping task just has    *)
(* some time left.  Batches are run in random order, so the run queue is a *)
(* set.                                                                    *)
(***************************************************************************)
EXTENDS Naturals, FiniteSets, FiniteSetsExt

CONSTANTS
    Tasks,                     \* Runner.tasks
    Guest,                     \* Runner.is_guest
    Rate,                      \* of the clock: 1, or 0 for a MockClock
    clock_autojump_threshold,
    MAX_TIMEOUT,
    Cushion,                   \* arguments of wait_all_tasks_blocked()
    SleepTime,                 \* lengths of sleeps
    MaxQuiet                   \* bound: how far idle time is measured

ASSUME RunLoopAssumption ==
    /\ Guest \in BOOLEAN /\ Rate \in {0, 1}
    /\ clock_autojump_threshold \in Nat /\ MAX_TIMEOUT \in Nat
    /\ Cushion \subseteq Nat /\ SleepTime \subseteq Nat \ {0}
    /\ MaxQuiet \in Nat
    /\ \A c \in Cushion : c <= MaxQuiet
    /\ clock_autojump_threshold < MAX_TIMEOUT => clock_autojump_threshold <= MaxQuiet

VARIABLES
    state,           \* what each task does
    left,            \* the time a sleeping task has left, or an idle one's cushion
    runq,            \* Runner.runq
    batch,           \* what remains of the current batch
    ready_io,        \* tasks whose I/O has become possible
    wakeup,          \* force_wakeup() has been called
    pc,              \* where the loop is
    timeout,         \* of the wait
    idle_primed,
    events,          \* what the wait returned: I/O for tasks
    woken,           \*   and the wakeup
    tick_scheduled,  \* Runner.guest_tick_scheduled
    quiet            \* history: real time since a task was last runnable

loopVars == <<state, left, runq, batch, ready_io, wakeup, pc, timeout, idle_primed,
              events, woken, tick_scheduled, quiet>>

RunLoopTypeOK ==
    /\ state \in [Tasks -> {"ready", "parked", "io", "sleeping", "idle", "ended"}]
    /\ left \in [Tasks -> Nat]
    /\ runq \subseteq {t \in Tasks : state[t] = "ready"}
    /\ batch \subseteq {t \in Tasks : state[t] = "ready"} \ runq
    /\ ready_io \subseteq {t \in Tasks : state[t] = "io"}
    /\ wakeup \in BOOLEAN
    /\ pc \in {"top", "io", "thread", "delivered", "scheduled", "events", "batch",
               "done"}
    /\ timeout \in 0 .. MAX_TIMEOUT
    /\ idle_primed \in {"none", "WAITING_FOR_IDLE", "AUTOJUMP_CLOCK"}
    /\ events \subseteq Tasks
    /\ woken \in BOOLEAN
    /\ tick_scheduled \in BOOLEAN
    /\ quiet \in 0 .. MaxQuiet

RunLoopInit ==
    /\ state = [t \in Tasks |-> "ready"]
    /\ left = [t \in Tasks |-> 0]
    /\ runq = Tasks
    /\ batch = {}
    /\ ready_io = {}
    /\ wakeup = FALSE
    /\ pc = "top"
    /\ timeout = 0
    /\ idle_primed = "none"
    /\ events = {}
    /\ woken = FALSE
    /\ tick_scheduled = TRUE
    /\ quiet = 0

In(s) == {t \in Tasks : state[t] = s}

\* The tasks that another one can wake or cancel.
Blocked == {t \in Tasks : state[t] \in {"parked", "io", "sleeping", "idle"}}

--------------------------------------------------------------------------------
(***************************************************************************)
(* The top of the loop                                                     *)
(***************************************************************************)

\* deadline_to_sleep_time(), cut off; a clock that stands still never gets there.
SleepTimeout ==
    IF runq # {} THEN 0
    ELSE IF In("sleeping") = {} THEN MAX_TIMEOUT
    ELSE LET next == Min({left[t] : t \in In("sleeping")})
         IN  IF next = 0 THEN 0
             ELSE IF Rate = 0 \/ next > MAX_TIMEOUT THEN MAX_TIMEOUT ELSE next

cushion == Min({left[t] : t \in In("idle")})

AutojumpFirst(t) ==
    IF clock_autojump_threshold < t THEN "AUTOJUMP_CLOCK"
    ELSE IF In("idle") # {} THEN (IF cushion < t THEN "WAITING_FOR_IDLE" ELSE "none")
    ELSE "none"

\* idle_primed for a wait of at most t.
Primed(t) ==
    IF In("idle") # {} THEN (IF cushion < t THEN "WAITING_FOR_IDLE" ELSE "none")
    ELSE IF clock_autojump_threshold < t THEN "AUTOJUMP_CLOCK" ELSE "none"

(***************************************************************************)
(* Compute the timeout and prime the idle check.  In regular mode the wait *)
(* follows; in guest mode get_events(0) does first, and the thread only if *)
(* that finds nothing and there is time to wait.                           *)
(***************************************************************************)
StartWait ==
    /\ pc = "top"
    /\ In("ended") # Tasks
    /\ idle_primed' = Primed(SleepTimeout)
    /\ timeout' = IF idle_primed' = "WAITING_FOR_IDLE" THEN cushion
                  ELSE IF idle_primed' = "AUTOJUMP_CLOCK" THEN clock_autojump_threshold
                  ELSE SleepTimeout
    /\ IF ~ Guest
       THEN /\ pc' = "io"
            /\ UNCHANGED <<events, woken, tick_scheduled>>
       ELSE LET here == timeout' = 0 \/ ready_io # {} \/ wakeup
            IN  /\ pc' = IF here THEN "scheduled" ELSE "thread"
                /\ events' = ready_io
                /\ woken' = wakeup
                /\ tick_scheduled' = here
    /\ UNCHANGED <<state, left, runq, batch, ready_io, wakeup, quiet>>

RunEnds ==
    /\ pc = "top"
    /\ In("ended") = Tasks
    /\ pc' = "done"
    /\ UNCHANGED <<state, left, runq, batch, ready_io, wakeup, timeout,
                   idle_primed, events, woken, tick_scheduled, quiet>>

--------------------------------------------------------------------------------
(***************************************************************************)
(* Waiting                                                                 *)
(***************************************************************************)
\* k units of real time pass.
Elapse(k) ==
    /\ quiet' = IF quiet + k > MaxQuiet THEN MaxQuiet ELSE quiet + k
    /\ left' = [t \in Tasks |->
          IF state[t] # "sleeping" THEN left[t]
          ELSE IF left[t] > Rate * k THEN left[t] - Rate * k ELSE 0]

\* get_events() returns: with events, at any time, or when the timeout is over.
WaitReturns ==
    /\ pc \in {"io", "thread"}
    /\ events' = ready_io
    /\ woken' = wakeup
    /\ pc' = IF pc = "io" THEN "events" ELSE "delivered"
    /\ IF ready_io # {} \/ wakeup
       THEN \E k \in 0 .. timeout : Elapse(k)
       ELSE Elapse(timeout)
    /\ UNCHANGED <<state, runq, batch, ready_io, wakeup, timeout, idle_primed,
                   tick_scheduled>>

\* The host calls the guest tick it was given: at once, or from the thread.
HostTicks ==
    /\ pc \in {"scheduled", "delivered"}
    /\ pc' = "events"
    /\ tick_scheduled' = TRUE
    /\ UNCHANGED <<state, left, runq, batch, ready_io, wakeup, timeout,
                   idle_primed, events, woken, quiet>>

HostWakesQuietly(t) ==
    /\ pc \in {"scheduled", "thread", "delivered"}
    /\ t \in Blocked
    /\ state' = [state EXCEPT ![t] = "ready"]
    /\ left' = [left EXCEPT ![t] = 0]
    /\ runq' = runq \cup {t}
    /\ ready_io' = ready_io \ {t}
    /\ quiet' = 0
    /\ UNCHANGED <<batch, wakeup, pc, timeout, idle_primed, events, woken,
                   tick_scheduled>>

(***************************************************************************)
(* Host code wakes a task, for instance by putting something in a channel  *)
(* or by cancelling it: reschedule() forces a tick if nothing else was     *)
(* runnable.                                                               *)
(***************************************************************************)
HostWakes(t) ==
    LET force == runq = {} /\ ~ tick_scheduled
    IN  /\ pc \in {"scheduled", "thread", "delivered"}
        /\ t \in Blocked
        /\ state' = [state EXCEPT ![t] = "ready"]
        /\ left' = [left EXCEPT ![t] = 0]
        /\ runq' = runq \cup {t}
        /\ ready_io' = ready_io \ {t}
        /\ wakeup' = (wakeup \/ force)
        /\ tick_scheduled' = (tick_scheduled \/ force)
        /\ quiet' = 0
        /\ UNCHANGED <<batch, pc, timeout, idle_primed, events, woken>>

\* The kernel has something for a task.
IoReady(t) ==
    /\ state[t] = "io"
    /\ ready_io' = ready_io \cup {t}
    /\ UNCHANGED <<state, left, runq, batch, wakeup, pc, timeout, idle_primed,
                   events, woken, tick_scheduled, quiet>>

--------------------------------------------------------------------------------
(***************************************************************************)
(* After the wait                                                          *)
(***************************************************************************)
IdleIfTimedOut(others) ==
    /\ idle_primed # "none"
    /\ events = {} /\ ~ woken

\* Nothing is happening: others are the tasks just made runnable.
StillIdle(others) ==
    /\ idle_primed # "none"
    /\ runq = {} /\ others = {}
    /\ events = {} /\ ~ woken

EveryIdleTask == In("idle")

\* The tasks in waiting_for_idle with the shortest cushion.
FirstIdle == {t \in In("idle") : left[t] = cushion}

\* Deadlines.expire(): the sleepers whose time has come.
Expired == {t \in In("sleeping") : left[t] = 0}

OnlyFirst(S) == IF S = {} THEN {} ELSE {CHOOSE t \in S : TRUE}

ProcessEventsOneByOne ==
    LET awake == (events \cap In("io")) \cup Expired
    IN  /\ pc = "events"
        /\ pc' = "batch"
        /\ batch' = awake \cup OnlyFirst(runq)
        /\ runq' = runq \ OnlyFirst(runq)
        /\ state' = [t \in Tasks |-> IF t \in awake THEN "ready" ELSE state[t]]
        /\ left' = [t \in Tasks |-> IF state'[t] = "ready" THEN 0 ELSE left[t]]
        /\ ready_io' = ready_io \ events
        /\ wakeup' = (wakeup /\ ~ woken)
        /\ events' = {} /\ woken' = FALSE
        /\ quiet' = IF batch' = {} THEN quiet ELSE 0
        /\ UNCHANGED <<timeout, idle_primed, tick_scheduled>>

(***************************************************************************)
(* process_events(), expire(), the idle check and the start of the batch,  *)
(* with nothing in between.                                                *)
(***************************************************************************)
ProcessEvents ==
    LET awake == (events \cap In("io")) \cup Expired
        idle  == IF idle_primed = "WAITING_FOR_IDLE" /\ StillIdle(awake)
                 THEN FirstIdle ELSE {}
        jump  == IF idle_primed = "AUTOJUMP_CLOCK" /\ StillIdle(awake)
                    /\ In("sleeping") # {}
                 THEN Min({left[t] : t \in In("sleeping")}) ELSE 0
    IN  /\ pc = "events"
        /\ pc' = "batch"
        /\ batch' = runq \cup awake \cup idle
        /\ runq' = {}
        /\ state' = [t \in Tasks |-> IF t \in awake \cup idle THEN "ready" ELSE state[t]]
        /\ left' = [t \in Tasks |->
              IF state'[t] = "ready" THEN 0
              ELSE IF state[t] = "sleeping" THEN left[t] - jump ELSE left[t]]
        /\ ready_io' = ready_io \ events
        /\ wakeup' = (wakeup /\ ~ woken)
        /\ events' = {} /\ woken' = FALSE
        /\ quiet' = IF batch' = {} THEN quiet ELSE 0
        /\ UNCHANGED <<timeout, idle_primed, tick_scheduled>>

\* What a task does next: s is its new state and n the time that goes with it.
Blocks(s, n) ==
    \/ s \in {"ready", "parked", "io", "ended"} /\ n = 0
    \/ s = "sleeping" /\ n \in SleepTime
    \/ s = "idle" /\ n \in Cushion

(***************************************************************************)
(* A task of the batch runs to its next checkpoint.  On the way it may     *)
(* wake or cancel another task, which then waits for the next batch.       *)
(***************************************************************************)
RunTask(t, s, n, W) ==
    /\ pc = "batch"
    /\ t \in batch
    /\ Blocks(s, n)
    /\ W \subseteq Blocked \ {t}
    /\ Cardinality(W) <= 1
    /\ batch' = batch \ {t}
    /\ state' = [u \in Tasks |-> IF u = t THEN s ELSE IF u \in W THEN "ready" ELSE state[u]]
    /\ left' = [u \in Tasks |-> IF u = t THEN n ELSE IF u \in W THEN 0 ELSE left[u]]
    /\ runq' = runq \cup W \cup (IF s = "ready" THEN {t} ELSE {})
    /\ ready_io' = ready_io \ W
    /\ quiet' = 0
    /\ UNCHANGED <<wakeup, pc, timeout, idle_primed, events, woken,
                   tick_scheduled>>

EndBatch ==
    /\ pc = "batch"
    /\ batch = {}
    /\ pc' = "top"
    /\ UNCHANGED <<state, left, runq, batch, ready_io, wakeup, timeout,
                   idle_primed, events, woken, tick_scheduled, quiet>>

RunSomeTask(t) ==
    \E s \in {"ready", "parked", "io", "ended", "sleeping", "idle"},
       n \in {0} \cup SleepTime \cup Cushion,
       W \in SUBSET Tasks : RunTask(t, s, n, W)

LoopStep ==
    \/ StartWait
    \/ RunEnds
    \/ WaitReturns
    \/ HostTicks
    \/ ProcessEvents
    \/ \E t \in Tasks : RunSomeTask(t)
    \/ EndBatch

RunLoopNext ==
    \/ LoopStep
    \/ \E t \in Tasks : IoReady(t) \/ (Guest /\ HostWakes(t))

RunLoopSpec == RunLoopInit /\ [][RunLoopNext]_loopVars

--------------------------------------------------------------------------------
(***************************************************************************)
(* Properties                                                              *)
(***************************************************************************)

(***************************************************************************)
(* The documentation of wait_all_tasks_blocked(): a task in it is not      *)
(* woken until all tasks have been blocked for cushion seconds, the host's *)
(* interference notwithstanding.  And that of autojump_threshold: the      *)
(* clock jumps only when all tasks have been blocked that long, never with *)
(* a task in wait_all_tasks_blocked(), and exactly to the next timeout.    *)
(***************************************************************************)
IdleMeansIdle ==
    [][pc = "events" =>
          /\ \A t \in In("idle") : state'[t] # "idle" =>
                /\ quiet >= left[t]
                /\ \A u \in Tasks : state[u] # "ready" /\ (state'[u] = "ready" => state[u] = "idle")
          /\ (\E t \in In("sleeping") : left'[t] < left[t] /\ state'[t] = "sleeping") =>
                /\ In("ready") = {} /\ In("idle") = {}
                /\ quiet >= clock_autojump_threshold
                /\ \E t \in In("sleeping") : left'[t] = 0
      ]_loopVars

(***************************************************************************)
(* A loop that waits in a thread is about to wake up if a task has become  *)
(* runnable.                                                               *)
(***************************************************************************)
NoWaitWithWork ==
    /\ RunLoopTypeOK
    /\ pc \in {"io", "thread"} /\ runq # {} => wakeup \/ timeout = 0

(***************************************************************************)
(* Starvation freedom: a runnable task runs, however busy the others are.  *)
(***************************************************************************)
RunnableRuns ==
    \A t \in Tasks : (t \in runq ~> t \in batch) /\ []<>(t \notin batch)
================================================================================
