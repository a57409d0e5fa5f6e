-------------------------------- MODULE Nursery --------------------------------
(***************************************************************************)
(* Nurseries: child tasks, their exceptions, __aexit__, start() and        *)
(* started(), on top of the cancel scopes of module CancelScope            *)
(* (trio/_core/_run.py: NurseryManager, Nursery, _TaskStatus,              *)
(* Runner.spawn_impl, Runner.task_exited).                                 *)
(*                                                                         *)
(* A nursery has the name of its cancel scope.  Root is the nursery of the *)
(* main task.  A synchronous handler that ends by poking a nursery takes   *)
(* two steps of the running task, told apart by pc; nothing else happens   *)
(* in between (Quiet).                                                     *)
(***************************************************************************)
EXTENDS CancelScope

CONSTANTS
    NurseryScope,  \* the scopes that open_nursery() makes
    StartScope,    \* the scopes of the nurseries that start() opens
    Main,          \* the main task
    Cancellable,   \* the scopes whose cancel() the program calls
    Blocking       \* the kinds of abort functions the program sleeps with

ASSUME NurseryAssumption ==
    /\ NurseryScope \subseteq Scope \ {Root}
    /\ StartScope \subseteq Scope \ {Root}
    /\ NurseryScope \cap StartScope = {}
    /\ Main \in Task
    /\ Cancellable \subseteq Scope \ {Root}
    /\ Blocking \subseteq {"succeeds", "fails"}

VARIABLES
    children,                \* Nursery._children
    parent_nursery,          \* Task._parent_nursery; None before and after life
    nested_child_running,    \* nurseries whose async with body is running
    parent_waiting_in_aexit, \* nurseries whose parent sleeps in __aexit__
    pending_starts,          \* Nursery._pending_starts
    closed,                  \* nurseries with _closed set
    pending_excs,            \* Nursery._pending_excs, as one exception
    new_nursery,             \* of a start() nursery: where the child is to go
    called_started,          \* start() nurseries whose task status was used
    main_task_outcome,       \* the exception of Runner.main_task_outcome
    pc                       \* where a task is in the code modelled here

nurseryVars == <<children, parent_nursery, nested_child_running,
                 parent_waiting_in_aexit, pending_starts, closed, pending_excs,
                 new_nursery, called_started, main_task_outcome, pc>>
allVars == <<vars, nurseryVars>>

PC == {"unborn",     \* not spawned
       "code",       \* in the program's own code
       "spawn",      \* in start(), the old nursery is open
       "aexit",      \* in __aexit__, the nested child has finished
       "waiting",    \* in __aexit__, in wait_task_rescheduled
       "checkpoint", \* in __aexit__, in the first half of checkpoint()
       "cancelled",  \* in __aexit__, in the second half of checkpoint()
       "close",      \* in __aexit__, nothing left to wait for
       "returned",   \* in start(), the old nursery was left without exception
       "finally",    \* in start(), the old nursery was left with one
       "poke",       \* in started(), the child has been moved
       "exiting",    \* in task_exited, the outcome has been passed on
       "dead"}

NurseryTypeOK ==
    /\ TypeOK
    /\ children \in [Scope -> SUBSET Task]
    /\ parent_nursery \in [Task -> Scope \cup {None}]
    /\ nested_child_running \subseteq Scope
    /\ parent_waiting_in_aexit \subseteq Scope
    /\ pending_starts \in [Scope -> Nat]
    /\ closed \subseteq Scope
    /\ pending_excs \in [Scope -> Exception]
    /\ new_nursery \in [Scope -> Scope \cup {None}]
    /\ called_started \subseteq StartScope
    /\ main_task_outcome \in Exception
    /\ pc \in [Task -> PC]

NurseryInit ==
    /\ Init
    /\ next_send[Main] = "Value"
    /\ children = [n \in Scope |-> IF n = Root THEN {Main} ELSE {}]
    /\ parent_nursery = [t \in Task |-> IF t = Main THEN Root ELSE None]
    /\ nested_child_running = {}
    /\ parent_waiting_in_aexit = {}
    /\ pending_starts = [n \in Scope |-> 0]
    /\ closed = {}
    /\ pending_excs = [n \in Scope |-> {}]
    /\ new_nursery = [n \in Scope |-> None]
    /\ called_started = {}
    /\ main_task_outcome = {}
    /\ pc = [t \in Task |-> IF t = Main THEN "code" ELSE "unborn"]

--------------------------------------------------------------------------------
\* Task t is running the program's own code.
Code(t) == current = t /\ pc[t] = "code"

\* No handler is half done.
Quiet == \A t \in Task : current = t => pc[t] = "code"

Goto(t, label) == pc' = [pc EXCEPT ![t] = label]

(***************************************************************************)
(* The nurseries whose abort function runs in this step, because a         *)
(* cancellation reaches the parent that sleeps in __aexit__: they keep the *)
(* Cancelled and go on waiting.  (That the function also cancels the       *)
(* nursery's scope is in CancelScope, wait kind "cancels".)                *)
(***************************************************************************)
Aborted == {n \in parent_waiting_in_aexit' :
               \E t \in Task : owner[n] = t /\ wait'[t] = "failed"
                               /\ (wait[t] # "failed")}

\* pending_excs grows by what nursery n is given and by the aborted waits.
PendingExcs(base) ==
    pending_excs' = [n \in Scope |-> base[n] \cup
                        IF n \in Aborted THEN {"Cancelled"} ELSE {}]

(***************************************************************************)
(* _check_nursery_closed on n, with children, nested_child_running and     *)
(* pending_starts as the step leaves them.                                 *)
(***************************************************************************)
NothingLeft(n) ==
    /\ n \notin nested_child_running'
    /\ children'[n] = {}
    /\ pending_starts'[n] = 0

CheckIgnoresStarts(n) ==
    IF n \notin nested_child_running' /\ children'[n] = {}
    THEN /\ closed' = closed \cup {n}
         /\ parent_waiting_in_aexit' = parent_waiting_in_aexit \ {n}
         /\ IF n \in parent_waiting_in_aexit
            THEN /\ next_send' = [next_send EXCEPT ![owner[n]] = "Value"]
                 /\ wait' = [wait EXCEPT ![owner[n]] = "none"]
            ELSE UNCHANGED <<next_send, wait>>
    ELSE UNCHANGED <<closed, parent_waiting_in_aexit, next_send, wait>>

CheckNurseryClosed(n) ==
    IF NothingLeft(n)
    THEN /\ closed' = closed \cup {n}
         /\ parent_waiting_in_aexit' = parent_waiting_in_aexit \ {n}
         /\ IF n \in parent_waiting_in_aexit
            THEN /\ next_send' = [next_send EXCEPT ![owner[n]] = "Value"]
                 /\ wait' = [wait EXCEPT ![owner[n]] = "none"]
            ELSE UNCHANGED <<next_send, wait>>
    ELSE UNCHANGED <<closed, parent_waiting_in_aexit, next_send, wait>>

\* _add_exc's cancel() of the nursery's scope, when there is an exception.
CancelFor(n, exc) ==
    IF exc # {} /\ n \notin cancel_called
    THEN Recalculate(cancel_called \cup {n}, shield, parent,
                     effectively_cancelled, status, {n})
    ELSE UNCHANGED <<effectively_cancelled, cancel_called, wait, next_send>>

--------------------------------------------------------------------------------
(***************************************************************************)
(* The program's own code: steps of CancelScope, with nursery scopes kept  *)
(* for open_nursery() and start().                                         *)
(***************************************************************************)
PlainScope == Scope \ (NurseryScope \cup StartScope \cup {Root})

CodeStep(t) ==
    /\ Code(t)
    /\ \/ UserCode(t)
       \/ CancelShieldedCheckpoint(t)
       \/ \E k \in Blocking : WaitTaskRescheduled(t, k)
       \/ \E s \in PlainScope : Enter(t, s) \/ Exit(t, s)
       \/ \E s \in Cancellable : Cancel(s)
       \/ \E s \in Shielding : SetShield(s)
    /\ UNCHANGED <<children, parent_nursery, nested_child_running,
                   parent_waiting_in_aexit, pending_starts, closed, new_nursery,
                   called_started, main_task_outcome, pc>>
    /\ PendingExcs(pending_excs)

\* Somebody wakes a task that blocks in the program's code.
Wake(t) ==
    /\ Quiet
    /\ pc[t] = "code"
    /\ \E outcome \in {"Value", "Cancelled"} : Reschedule(t, outcome)
    /\ UNCHANGED nurseryVars

Time ==
    /\ Quiet
    /\ \/ \E s \in Deadlined : MoveDeadline(s)
       \/ Expire
    /\ UNCHANGED <<children, parent_nursery, nested_child_running,
                   parent_waiting_in_aexit, pending_starts, closed, new_nursery,
                   called_started, main_task_outcome, pc>>
    /\ PendingExcs(pending_excs)

ResumeCode(t) ==
    /\ pc[t] = "code"
    /\ Resume(t)
    /\ UNCHANGED nurseryVars

--------------------------------------------------------------------------------
(***************************************************************************)
(* NurseryManager and Nursery                                              *)
(***************************************************************************)

\* __aenter__
OpenNursery(t, n) ==
    /\ Code(t)
    /\ n \in NurseryScope
    /\ Enter(t, n)
    /\ nested_child_running' = nested_child_running \cup {n}
    /\ UNCHANGED <<children, parent_nursery, parent_waiting_in_aexit,
                   pending_starts, closed, pending_excs, new_nursery,
                   called_started, main_task_outcome, pc>>

\* A nursery somebody may have a reference to and pass children to.
Opened(n) == n \in has_been_entered \cap NurseryScope

\* start_soon(): spawn_impl into n.
StartSoon(t, u, n) ==
    /\ Code(t)
    /\ Opened(n)
    /\ n \notin closed
    /\ pc[u] = "unborn"
    /\ Spawn(u, n)
    /\ children' = [children EXCEPT ![n] = @ \cup {u}]
    /\ parent_nursery' = [parent_nursery EXCEPT ![u] = n]
    /\ Goto(u, "code")
    /\ UNCHANGED <<nested_child_running, parent_waiting_in_aexit, pending_starts,
                   closed, pending_excs, new_nursery, called_started,
                   main_task_outcome>>

\* start_soon() and start() on a closed nursery: RuntimeError.
StartRefused(t, n) ==
    /\ Code(t)
    /\ Opened(n)
    /\ n \in closed
    /\ Raise(Block(status, owner, t), {"Error"})
    /\ UNCHANGED <<scopeVars, status, current, wait, next_send, nurseryVars>>

(***************************************************************************)
(* __aexit__, the nested child has finished: its exception is saved and    *)
(* cancels the nursery.                                                    *)
(***************************************************************************)
NestedChildFinished(t, n) ==
    /\ Code(t)
    /\ n \in NurseryScope
    /\ status[t] = n /\ owner[n] = t
    /\ CancelFor(n, raised[n])
    /\ raised' = [raised EXCEPT ![n] = {}]
    /\ nested_child_running' = nested_child_running \ {n}
    /\ Goto(t, "aexit")
    /\ UNCHANGED <<has_been_entered, active, shield, cancelled_caught, overdue,
                   abandoned, parent, owner, status, current, children,
                   parent_nursery, parent_waiting_in_aexit, pending_starts,
                   closed, new_nursery, called_started, main_task_outcome>>
    /\ PendingExcs([pending_excs EXCEPT ![n] = @ \cup raised[n]])

\* __aexit__ continued: wait for the children, uninterrupted by Cancelled ...
AexitWait(t) ==
    LET n == status[t]
    IN  /\ current = t /\ pc[t] = "aexit"
        /\ UNCHANGED <<children, nested_child_running, pending_starts>>
        /\ ~NothingLeft(n)
        /\ parent_waiting_in_aexit' = parent_waiting_in_aexit \cup {n}
        /\ WaitTaskRescheduled(t, "cancels")
        /\ Goto(t, "waiting")
        /\ UNCHANGED <<parent_nursery, closed, new_nursery, called_started,
                       main_task_outcome>>
        /\ PendingExcs(pending_excs)

\* ... or, if there is nothing to wait for, execute a checkpoint.
AexitCheckpoint(t) ==
    LET n == status[t]
    IN  /\ current = t /\ pc[t] = "aexit"
        /\ UNCHANGED <<children, nested_child_running, pending_starts>>
        /\ NothingLeft(n)
        /\ closed' = closed \cup {n}
        /\ CancelShieldedCheckpoint(t)
        /\ Goto(t, "checkpoint")
        /\ UNCHANGED <<parent_nursery, parent_waiting_in_aexit, pending_excs,
                       new_nursery, called_started, main_task_outcome>>

(***************************************************************************)
(* The parent runs again after the children are gone, or after the first   *)
(* half of the checkpoint.  If it is cancelled there, checkpoint() sleeps  *)
(* once more in a scope of its own that is cancelled from the start, so    *)
(* Cancelled is on its way at once.                                        *)
(***************************************************************************)
ResumeInAexit(t) ==
    /\ pc[t] \in {"waiting", "checkpoint"}
    /\ current = None
    /\ next_send[t] # "none"
    /\ IF pc[t] = "checkpoint" /\ status[t] \in effectively_cancelled
       THEN /\ next_send' = [next_send EXCEPT ![t] = "Cancelled"]
            /\ Goto(t, "cancelled")
            /\ UNCHANGED current
       ELSE /\ next_send' = [next_send EXCEPT ![t] = "none"]
            /\ Goto(t, "close")
            /\ current' = t
    /\ UNCHANGED <<scopeVars, status, wait, raised, children, parent_nursery,
                   nested_child_running, parent_waiting_in_aexit, pending_starts,
                   closed, pending_excs, new_nursery, called_started,
                   main_task_outcome>>

(***************************************************************************)
(* Cancelled comes out of the checkpoint: checkpoint's own scope lets it   *)
(* through if the nursery is still cancelled, and it joins the nursery's   *)
(* exceptions; the scope swallows it otherwise.                            *)
(***************************************************************************)
ResumeCancelled(t) ==
    LET n == status[t]
    IN  /\ pc[t] = "cancelled"
        /\ current = None
        /\ current' = t
        /\ next_send' = [next_send EXCEPT ![t] = "none"]
        /\ IF n \in effectively_cancelled
           THEN /\ pending_excs' = [pending_excs EXCEPT ![n] = @ \cup {"Cancelled"}]
                /\ cancel_called' = cancel_called \cup {n}
           ELSE UNCHANGED <<pending_excs, cancel_called>>
        /\ Goto(t, "close")
        /\ UNCHANGED <<has_been_entered, active, shield, cancelled_caught,
                       overdue, effectively_cancelled, abandoned, parent, owner,
                       status, wait, raised, children, parent_nursery,
                       nested_child_running, parent_waiting_in_aexit,
                       pending_starts, closed, new_nursery, called_started,
                       main_task_outcome>>

\* The end of __aexit__: the collected exceptions go through scope._close().
AexitClose(t) ==
    LET n == status[t]
    IN  /\ current = t /\ pc[t] = "close"
        /\ CloseScope(t, n, pending_excs[n], [status EXCEPT ![t] = parent[n]])
        /\ pending_excs' = [pending_excs EXCEPT ![n] = {}]
        /\ Goto(t, IF new_nursery[n] = None THEN "code"
                   ELSE IF Remaining(n, pending_excs[n]) = {} THEN "returned"
                   ELSE "finally")
        /\ UNCHANGED <<children, parent_nursery, nested_child_running,
                       parent_waiting_in_aexit, pending_starts, closed,
                       new_nursery, called_started, main_task_outcome>>

--------------------------------------------------------------------------------
(***************************************************************************)
(* start() and started()                                                   *)
(***************************************************************************)

\* start() on nursery n: the old nursery o is opened ...
Start(t, n, o) ==
    /\ Code(t)
    /\ Opened(n)
    /\ n \notin closed
    /\ o \in StartScope
    /\ \E u \in Task : pc[u] = "unborn"
    /\ Enter(t, o)
    /\ pending_starts' = [pending_starts EXCEPT ![n] = @ + 1]
    /\ new_nursery' = [new_nursery EXCEPT ![o] = n]
    /\ nested_child_running' = nested_child_running \cup {o}
    /\ Goto(t, "spawn")
    /\ UNCHANGED <<children, parent_nursery, parent_waiting_in_aexit, closed,
                   pending_excs, called_started, main_task_outcome>>

\* ... the child is spawned in it, and the body of the async with is over.
StartSpawn(t, u) ==
    LET o == status[t]
    IN  /\ current = t /\ pc[t] = "spawn"
        /\ pc[u] = "unborn"
        /\ Spawn(u, o)
        /\ children' = [children EXCEPT ![o] = {u}]
        /\ parent_nursery' = [parent_nursery EXCEPT ![u] = o]
        /\ nested_child_running' = nested_child_running \ {o}
        /\ pc' = [pc EXCEPT ![t] = "aexit", ![u] = "code"]
        /\ UNCHANGED <<parent_waiting_in_aexit, pending_starts, closed,
                       pending_excs, new_nursery, called_started,
                       main_task_outcome>>

StartReturnsUnchecked(t, o) ==
    LET n == new_nursery[o]
        unstarted == pc[t] = "returned" /\ o \notin called_started
    IN  /\ current = t /\ pc[t] \in {"returned", "finally"}
        /\ owner[o] = t /\ n # None /\ o \notin active
        /\ Raise(Block(status, owner, t), IF unstarted THEN {"Error"} ELSE {})
        /\ pending_starts' = [pending_starts EXCEPT ![n] = @ - 1]
        /\ new_nursery' = [new_nursery EXCEPT ![o] = None]
        /\ Goto(t, "code")
        /\ UNCHANGED <<scopeVars, status, current, wait, next_send, children,
                       nested_child_running, parent_waiting_in_aexit, closed,
                       parent_nursery, pending_excs, called_started,
                       main_task_outcome>>

(***************************************************************************)
(* The end of start(): RuntimeError if the child exited without calling    *)
(* started(); in any case the nursery no longer waits for this call.       *)
(***************************************************************************)
StartReturns(t, o) ==
    LET n == new_nursery[o]
        unstarted == pc[t] = "returned" /\ o \notin called_started
    IN  /\ current = t /\ pc[t] \in {"returned", "finally"}
        /\ owner[o] = t /\ n # None /\ o \notin active
        /\ Raise(Block(status, owner, t), IF unstarted THEN {"Error"} ELSE {})
        /\ pending_starts' = [pending_starts EXCEPT ![n] = @ - 1]
        /\ UNCHANGED <<children, nested_child_running>>
        /\ CheckNurseryClosed(n)
        /\ new_nursery' = [new_nursery EXCEPT ![o] = None]
        /\ Goto(t, "code")
        /\ UNCHANGED <<scopeVars, status, current, parent_nursery, pending_excs,
                       called_started, main_task_outcome>>

(***************************************************************************)
(* started(), by the child or by whoever was given its task status, while  *)
(* start() is still waiting.  If the old nursery o is cancelled nothing    *)
(* moves; otherwise its children, the statuses below it and the tasks in   *)
(* it, except for its parent, go to the new nursery.                       *)
(***************************************************************************)
MayMoveAlways(o) == TRUE

MayMove(o) == o \notin effectively_cancelled

MoveTasksOnly(o, n) ==
    LET moved == {u \in Task : status[u] = o} \ {owner[o]}
        st    == [u \in Task |-> IF u \in moved THEN n ELSE status[u]]
    IN  /\ status' = st
        /\ Deliver(cancel_called, st,
                   IF n \in effectively_cancelled THEN moved ELSE {})
        /\ UNCHANGED <<parent, effectively_cancelled>>

MoveWithoutRecalculation(o, n) ==
    LET moved == {u \in Task : status[u] = o} \ {owner[o]}
        st    == [u \in Task |-> IF u \in moved THEN n ELSE status[u]]
    IN  /\ status' = st
        /\ parent' = [s \in Scope |->
                IF s \in Children(parent, o) THEN n ELSE parent[s]]
        /\ Deliver(cancel_called, st,
                   IF n \in effectively_cancelled THEN moved ELSE {})
        /\ UNCHANGED effectively_cancelled

Move(o, n) ==
    LET moved == {u \in Task : status[u] = o} \ {owner[o]}
        st    == [u \in Task |-> IF u \in moved THEN n ELSE status[u]]
        below == Children(parent, o)
        p     == [s \in Scope |-> IF s \in below THEN n ELSE parent[s]]
        e     == effectively_cancelled
        ch    == Changed(cancel_called \cup LateScopes, shield, p, e, below)
    IN  /\ status' = st
        /\ parent' = p
        /\ effectively_cancelled' = (e \ ch) \cup (ch \ e)
        /\ Deliver(cancel_called \cup (Visited(p, below, ch) \cap LateScopes), st,
                   {u \in Task : st[u] \in ch \ e}
                     \cup IF n \in e THEN moved ELSE {})

Started(t, o) ==
    LET n == new_nursery[o]
    IN  /\ Code(t)
        /\ o \in StartScope \cap active
        /\ n # None
        /\ o \notin called_started
        /\ called_started' = called_started \cup {o}
        /\ IF MayMove(o)
           THEN /\ children' = [children EXCEPT ![o] = {}, ![n] = @ \cup children[o]]
                /\ parent_nursery' = [u \in Task |->
                        IF u \in children[o] THEN n ELSE parent_nursery[u]]
                /\ Move(o, n)
                /\ Goto(t, IF o \in closed THEN "code" ELSE "poke")
           ELSE UNCHANGED <<children, parent_nursery, status, parent,
                            effectively_cancelled, cancel_called, wait,
                            next_send, pc>>
        /\ UNCHANGED <<has_been_entered, active, shield, cancelled_caught, overdue,
                       abandoned, owner, current, raised, nested_child_running,
                       parent_waiting_in_aexit, pending_starts, closed,
                       new_nursery, main_task_outcome>>
        /\ PendingExcs(pending_excs)

\* The end of started(): the old nursery notices that it is empty.
StartedPoke(t, o) ==
    /\ current = t /\ pc[t] = "poke"
    /\ o \in called_started /\ o \in active \ closed /\ children[o] = {}
    /\ UNCHANGED <<children, nested_child_running, pending_starts>>
    /\ CheckNurseryClosed(o)
    /\ Goto(t, "code")
    /\ UNCHANGED <<scopeVars, status, current, raised, parent_nursery,
                   pending_excs, new_nursery, called_started, main_task_outcome>>

\* started() a second time: RuntimeError.
StartedAgain(t, o) ==
    /\ Code(t)
    /\ o \in called_started /\ owner[o] # t
    /\ Raise(Block(status, owner, t), {"Error"})
    /\ UNCHANGED <<scopeVars, status, current, wait, next_send, nurseryVars>>

--------------------------------------------------------------------------------
(***************************************************************************)
(* task_exited: the outcome of the main task is kept for run(), that of    *)
(* any other task goes to its nursery, whose scope it cancels if it is an  *)
(* exception ...                                                           *)
(***************************************************************************)
TaskExited(t) ==
    LET n   == parent_nursery[t]
        exc == IF status[t] \in abandoned /\ parent[status[t]] = None
               THEN {"Error"} ELSE raised[t]
        toNursery == IF t = Main THEN {} ELSE exc
    IN  /\ Code(t)
        /\ Block(status, owner, t) = t
        /\ main_task_outcome' = IF t = Main THEN exc ELSE main_task_outcome
        /\ CancelFor(n, toNursery)
        /\ raised' = [raised EXCEPT ![t] = {}]
        /\ status' = [status EXCEPT ![t] = Root]
        /\ Goto(t, "exiting")
        /\ UNCHANGED <<has_been_entered, active, shield, cancelled_caught,
                       overdue, abandoned, parent, owner, current, children,
                       parent_nursery, nested_child_running,
                       parent_waiting_in_aexit, pending_starts, closed,
                       new_nursery, called_started>>
        /\ PendingExcs([pending_excs EXCEPT ![n] = @ \cup toNursery])

\* ... and the nursery is poked.
ChildFinished(t) ==
    LET n == parent_nursery[t]
    IN  /\ current = t /\ pc[t] = "exiting"
        /\ current' = None
        /\ children' = [children EXCEPT ![n] = @ \ {t}]
        /\ parent_nursery' = [parent_nursery EXCEPT ![t] = None]
        /\ UNCHANGED <<nested_child_running, pending_starts>>
        /\ CheckNurseryClosed(n)
        /\ Goto(t, "dead")
        /\ UNCHANGED <<scopeVars, status, raised, pending_excs, new_nursery,
                       called_started, main_task_outcome>>

\* The main nursery is closed: run() is over.
Finished ==
    /\ Root \in closed
    /\ UNCHANGED allVars

TaskNext(t) ==
    \/ CodeStep(t)
    \/ Wake(t)
    \/ ResumeCode(t)
    \/ AexitWait(t)
    \/ AexitCheckpoint(t)
    \/ ResumeInAexit(t)
    \/ ResumeCancelled(t)
    \/ AexitClose(t)
    \/ TaskExited(t)
    \/ ChildFinished(t)
    \/ \E u \in Task : StartSpawn(t, u)
    \/ \E n \in NurseryScope :
          \/ OpenNursery(t, n)
          \/ NestedChildFinished(t, n)
          \/ StartRefused(t, n)
          \/ \E u \in Task : StartSoon(t, u, n)
          \/ \E o \in StartScope : Start(t, n, o)
    \/ \E o \in StartScope :
          \/ StartReturns(t, o)
          \/ Started(t, o)
          \/ StartedPoke(t, o)
          \/ StartedAgain(t, o)

NurseryNext ==
    \/ \E t \in Task : TaskNext(t)
    \/ Time
    \/ Finished

NurserySpec == NurseryInit /\ [][NurseryNext]_allVars

--------------------------------------------------------------------------------
(***************************************************************************)
(* Properties                                                              *)
(***************************************************************************)

Alive(t) == parent_nursery[t] # None

(***************************************************************************)
(* No task outlives its nursery, and no nursery outlives its tasks: a live *)
(* task is a child of exactly the nursery it points to, that nursery is    *)
(* still open, and the task's status lies below the nursery's, also after  *)
(* started() has moved it; while a start() is under way its target nursery *)
(* does not close (the assertion in started()); and when no handler is     *)
(* running, a parent asleep in __aexit__ still has a child, or a start()   *)
(* into its nursery, whose end will wake it.                               *)
(***************************************************************************)
NurseryWaitsForItsTasks ==
    /\ NurseryTypeOK
    /\ \A t \in Task : Alive(t) /\ pc[t] # "exiting" =>
          /\ parent_nursery[t] \in active \ closed
          /\ Encloses(parent, parent_nursery[t], status[t])
    /\ \A t \in Task, n \in Scope : t \in children[n] <=> parent_nursery[t] = n
    /\ \A o \in StartScope : new_nursery[o] # None => new_nursery[o] \in active \ closed
    /\ Quiet => \A n \in parent_waiting_in_aexit :
                   children[n] # {} \/ pending_starts[n] > 0

(***************************************************************************)
(* started() moves tasks and statuses to another part of the tree while    *)
(* they run, sleep or are being cancelled: afterwards every status still   *)
(* agrees with its scope and parent, and no task that can be cancelled     *)
(* sleeps in a cancelled status.                                           *)
(***************************************************************************)
CancellationFollowsTasks == Consistent /\ NoLostCancel

(***************************************************************************)
(* Every Cancelled on its way (to be sent, in flight, kept by a nursery)   *)
(* has an open cancelled scope around it that will catch it.               *)
(***************************************************************************)
EveryCancelledHasACatcher ==
    LET Caught(s) == \E a \in active \cap cancel_called : Encloses(parent, a, s)
    IN  /\ \A t \in Task : Alive(t) =>
              /\ next_send[t] = "Cancelled" /\ pc[t] # "cancelled"
                    => Caught(status[t])
              /\ "Cancelled" \in raised[t] => Caught(parent_nursery[t])
        /\ \A s \in active :
              "Cancelled" \in raised[s] \cup pending_excs[s] => Caught(s)

(***************************************************************************)
(* An error is never dropped by a nursery: when it closes with one among   *)
(* its exceptions, the error goes on in the parent task's code.            *)
(***************************************************************************)
ErrorsPropagate ==
    [][\A n \in Scope :
          "Error" \in pending_excs[n] /\ n \in active /\ n \notin active'
              => "Error" \in raised'[Block(status', owner', owner[n])]]_allVars
================================================================================
