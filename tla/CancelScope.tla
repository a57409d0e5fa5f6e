------------------------------ MODULE CancelScope ------------------------------
(***************************************************************************)
(* Cancel scopes, the tree of cancel statuses behind them, and the         *)
(* delivery of Cancelled into the tasks (trio/_core/_run.py: Deadlines     *)
(* expiry, CancelStatus, CancelScope, Task, the task step of               *)
(* unrolled_run).                                                          *)
(*                                                                         *)
(* A scope is entered at most once (__enter__ checks it), so a scope and   *)
(* the CancelStatus made for it share one name.  Boolean attributes are    *)
(* sets of scopes.  The first task starts inside Root, the scope of the    *)
(* main nursery; others are spawned into an active scope.  How tasks end,  *)
(* and what nurseries do with their exceptions, is in module Nursery.  The *)
(* order in which the run loop picks tasks is left open.                   *)
(***************************************************************************)
EXTENDS Naturals, FiniteSets

CONSTANTS
    Task,        \* the tasks
    Scope,       \* the CancelScope objects (and the CancelStatus of each)
    Root,        \* the scope of the nursery in which the first task starts
    None,        \* Python's None
    Shielding,   \* the scopes whose shield the program sets
    Deadlined,   \* the scopes that have a deadline
    Misnesting   \* may __exit__ be called in any order and by any task?

ASSUME CancelScopeAssumption ==
    /\ Root \in Scope
    /\ None \notin Scope
    /\ None \notin Task
    /\ Scope \cap Task = {}
    /\ Shielding \subseteq Scope
    /\ Deadlined \subseteq Scope
    /\ Misnesting \in BOOLEAN

VARIABLES
    has_been_entered,      \* scopes whose __enter__ has run
    active,                \* scopes whose _cancel_status is not None
    shield,                \* scopes whose _shield is set
    cancel_called,         \* scopes whose _cancel_called is set
    cancelled_caught,      \* scopes that swallowed a Cancelled
    overdue,               \* scopes with current_time() >= _deadline
    effectively_cancelled, \* statuses whose tasks get Cancelled
    abandoned,             \* statuses marked abandoned_by_misnesting
    parent,                \* CancelStatus._parent
    owner,                 \* the task whose with-block the scope guards
    status,                \* Task._cancel_status
    current,               \* GLOBAL_RUN_CONTEXT.task
    wait,                  \* how a task is blocked in wait_task_rescheduled
    next_send,             \* Task._next_send of a task in the run queue
    raised                 \* the exceptions in flight in a block or a task

scopeVars == <<has_been_entered, active, shield, cancel_called,
               cancelled_caught, overdue, effectively_cancelled, abandoned,
               parent, owner>>
taskVars  == <<status, current, wait, next_send, raised>>
vars      == <<scopeVars, taskVars>>

(***************************************************************************)
(* An exception in flight is the set of the kinds of its leaves: {} when   *)
(* there is none, {"Cancelled", "Error"} for a group of both.              *)
(***************************************************************************)
Exception == SUBSET {"Cancelled", "Error"}

(***************************************************************************)
(* A blocked task has an abort function that will return SUCCEEDED, that   *)
(* will return FAILED, or that will call cancel() on the scope the task is *)
(* in and return FAILED (a nursery waiting in __aexit__); or it had one    *)
(* that returned FAILED ("failed": _abort_func is None and only            *)
(* reschedule() wakes the task).                                           *)
(***************************************************************************)
AbortKind == {"succeeds", "fails", "cancels"}
Wait == AbortKind \cup {"none", "failed"}
HasAbortFunc(t) == wait[t] \in AbortKind

TypeOK ==
    /\ has_been_entered \subseteq Scope
    /\ active \subseteq has_been_entered
    /\ shield \subseteq Scope
    /\ cancel_called \subseteq Scope
    /\ cancelled_caught \subseteq Scope
    /\ overdue \subseteq Scope
    /\ effectively_cancelled \subseteq Scope
    /\ abandoned \subseteq Scope
    /\ parent \in [Scope -> Scope \cup {None}]
    /\ owner \in [Scope -> Task \cup {None}]
    /\ status \in [Task -> Scope]
    /\ current \in Task \cup {None}
    /\ wait \in [Task -> Wait]
    /\ next_send \in [Task -> {"none", "Value", "Cancelled"}]
    /\ raised \in [Scope \cup Task -> Exception]

Init ==
    /\ has_been_entered = {Root}
    /\ active = {Root}
    /\ shield = {}
    /\ cancel_called = {}
    /\ cancelled_caught = {}
    /\ overdue = {}
    /\ effectively_cancelled = {}
    /\ abandoned = {}
    /\ parent = [s \in Scope |-> None]
    /\ owner = [s \in Scope |-> None]
    /\ status = [t \in Task |-> Root]
    /\ current = None
    /\ wait = [t \in Task |-> "none"]
    /\ \E main \in Task :
          next_send = [t \in Task |-> IF t = main THEN "Value" ELSE "none"]
    /\ raised = [x \in Scope \cup Task |-> {}]

--------------------------------------------------------------------------------
(***************************************************************************)
(* CancelStatus                                                            *)
(***************************************************************************)

Children(p, s) == {c \in Scope : p[c] = s}

\* A set of statuses that contains the parents of its members.
UpwardClosed(p, A) == \A x \in A : p[x] # None => p[x] \in A

(***************************************************************************)
(* self.encloses(other): self is on the path from other to its root, that  *)
(* is, in every set that holds other and goes on to the parents.           *)
(***************************************************************************)
Encloses(p, self, other) ==
    \A A \in SUBSET Scope : other \in A /\ UpwardClosed(p, A) => self \in A

ParentCancellationIsVisible(sh, p, e, s) ==
    p[s] # None /\ s \notin sh /\ p[s] \in e

\* The value recalculate() computes for effectively_cancelled.
NewState(c, sh, p, e, s) ==
    s \in c \/ ParentCancellationIsVisible(sh, p, e, s)

ChangedRoot(c, sh, p, e, R) ==
    {r \in R : NewState(c, sh, p, e, r) # (r \in e)}

\* A child of a status that has just flipped, and must flip too.
ChangedChild(c, sh, p, e, x) ==
    (x \in c \/ (x \notin sh /\ p[x] \notin e)) # (x \in e)

ChangeClosed(c, sh, p, e, R, A) ==
    /\ ChangedRoot(c, sh, p, e, R) \subseteq A
    /\ \A x \in Scope :
          (p[x] \in A /\ ChangedChild(c, sh, p, e, x)) => x \in A

(***************************************************************************)
(* The statuses whose effectively_cancelled flips when recalculate() runs  *)
(* on every member of R: its work list starts with R and grows by the      *)
(* children of a status that flipped, so they are the least set with the   *)
(* flipped members of R and the children that must follow their parent.    *)
(***************************************************************************)
Changed(c, sh, p, e, R) ==
    {x \in Scope :
        \A A \in SUBSET Scope : ChangeClosed(c, sh, p, e, R, A) => x \in A}

\* The statuses the work list goes through.
Visited(p, R, ch) == R \cup {x \in Scope : p[x] \in ch}

\* The scopes that a read of their cancel_called property cancels.
LateScopes == overdue \cap active

(***************************************************************************)
(* Task._attempt_abort on a task blocked in state w.                       *)
(***************************************************************************)
AfterAbort(w) ==
    IF w = "succeeds" THEN "none"
    ELSE IF w \in {"fails", "cancels"} THEN "failed" ELSE w

(***************************************************************************)
(* Task._attempt_delivery_of_any_pending_cancel for the tasks in T, whose  *)
(* statuses st are cancelled; c are the scopes cancelled so far.  The      *)
(* abort function runs once; if it succeeds the task is rescheduled with   *)
(* Cancelled, and if it fails the task stays blocked.  A scope that the    *)
(* abort function cancels is effectively cancelled already, so that        *)
(* cancel() has nothing to propagate.                                      *)
(***************************************************************************)
Deliver(c, st, T) ==
    /\ cancel_called' = c \cup {st[t] : t \in {u \in T : wait[u] = "cancels"}}
    /\ wait' = [t \in Task |-> IF t \in T THEN AfterAbort(wait[t]) ELSE wait[t]]
    /\ next_send' = [t \in Task |->
            IF t \in T /\ wait[t] = "succeeds" THEN "Cancelled"
            ELSE next_send[t]]

RecalculateForgetsTasks(c, sh, p, e, st, R) ==
    LET ch == Changed(c \cup LateScopes, sh, p, e, R)
    IN  /\ effectively_cancelled' = (e \ ch) \cup (ch \ e)
        /\ Deliver(c \cup (Visited(p, R, ch) \cap LateScopes), st,
                   {t \in Task : st[t] \in (ch \ e) \cap R})

(***************************************************************************)
(* recalculate() on every status in R, from the cancelled scopes c, the    *)
(* shields sh, the parents p, the effectively cancelled statuses e and the *)
(* tasks' statuses st.                                                     *)
(***************************************************************************)
Recalculate(c, sh, p, e, st, R) ==
    LET ch == Changed(c \cup LateScopes, sh, p, e, R)
    IN  /\ effectively_cancelled' = (e \ ch) \cup (ch \ e)
        /\ Deliver(c \cup (Visited(p, R, ch) \cap LateScopes), st,
                   {t \in Task : st[t] \in ch \ e})

--------------------------------------------------------------------------------
(***************************************************************************)
(* CancelScope                                                             *)
(***************************************************************************)

\* The innermost block task t is in, given the statuses st and owners ow.
Block(st, ow, t) == IF st[t] # None /\ ow[st[t]] = t THEN st[t] ELSE t

\* An exception leaves the code of t at block b; {} when the code is fine.
Raise(b, exc) == raised' = [raised EXCEPT ![b] = IF exc = {} THEN @ ELSE exc]

\* __enter__'s check that the scope has had its one with-block.
Used(s) == s \in has_been_entered

(***************************************************************************)
(* __enter__ by the running task, on a scope it has at hand.  The new      *)
(* status has no children and its task is running, so its first            *)
(* recalculate() and the activation deliver nothing.                       *)
(***************************************************************************)
Enter(t, s) ==
    /\ current = t
    /\ ~Used(s)
    /\ LET c == IF s \in overdue THEN cancel_called \cup {s} ELSE cancel_called
           p == [parent EXCEPT ![s] = status[t]]
       IN  /\ cancel_called' = c
           /\ parent' = p
           /\ effectively_cancelled' =
                IF NewState(c, shield, p, effectively_cancelled, s)
                THEN effectively_cancelled \cup {s} ELSE effectively_cancelled
    /\ has_been_entered' = has_been_entered \cup {s}
    /\ active' = active \cup {s}
    /\ owner' = [owner EXCEPT ![s] = t]
    /\ status' = [status EXCEPT ![t] = s]
    /\ UNCHANGED <<shield, cancelled_caught, overdue, abandoned, current, wait,
                   next_send, raised>>

\* __enter__ on a scope that was used before: RuntimeError.
EnterAgain(t, s) ==
    /\ current = t
    /\ Used(s)
    /\ s # Root
    /\ Raise(Block(status, owner, t), {"Error"})
    /\ UNCHANGED <<scopeVars, status, current, wait, next_send>>

RemainingSwallowsAll(s, exc) ==
    IF /\ s \in effectively_cancelled
       /\ ~ParentCancellationIsVisible(shield, parent, effectively_cancelled, s)
    THEN {} ELSE exc

(***************************************************************************)
(* The part of _close that filters the exception: Cancelled is swallowed   *)
(* where the cancellation ends, in a cancelled scope whose parent's        *)
(* cancellation is not visible.                                            *)
(***************************************************************************)
Remaining(s, exc) ==
    IF /\ exc # {}
       /\ s \in effectively_cancelled
       /\ ~ParentCancellationIsVisible(shield, parent, effectively_cancelled, s)
    THEN exc \ {"Cancelled"} ELSE exc

CloseStatusForgetsOrphans(s, st) ==
    /\ parent' = [parent EXCEPT ![s] = None]
    /\ UNCHANGED <<abandoned, effectively_cancelled, cancel_called, wait,
                   next_send>>

(***************************************************************************)
(* CancelStatus.close, after the exiting task has moved to the statuses    *)
(* st.  Tasks or children left behind are marked abandoned and cancelled.  *)
(***************************************************************************)
CloseStatus(s, st) ==
    LET p        == [parent EXCEPT ![s] = None]
        tasks    == {t \in Task : st[t] = s}
        children == Children(parent, s)
        e        == effectively_cancelled \cup {s}
        ch       == Changed(cancel_called \cup LateScopes, shield, p, e, children)
        subtree  == {x \in Scope : Encloses(parent, s, x)}
    IN  /\ parent' = p
        /\ IF tasks = {} /\ children = {}
           THEN UNCHANGED <<abandoned, effectively_cancelled, cancel_called,
                            wait, next_send>>
           ELSE /\ abandoned' = abandoned \cup subtree
                /\ effectively_cancelled' = (e \ ch) \cup (ch \ e)
                /\ Deliver(cancel_called
                             \cup (Visited(p, children, ch) \cap LateScopes),
                           st, tasks \cup {t \in Task : st[t] \in ch \ e})

(***************************************************************************)
(* The rest of _close once the exiting task t has status st[t]: filter     *)
(* exc, close the status, forget it.  What remains is raised in the block  *)
(* the task is in now.                                                     *)
(***************************************************************************)
CloseScope(t, s, exc, st) ==
    /\ status' = st
    /\ raised' = [raised EXCEPT
            ![Block(status, owner, t)] = {},
            ![Block(st, owner, t)] = IF Remaining(s, exc) = {} THEN @
                                     ELSE Remaining(s, exc)]
    /\ cancelled_caught' = IF "Cancelled" \in exc \ Remaining(s, exc)
                           THEN cancelled_caught \cup {s} ELSE cancelled_caught
    /\ CloseStatus(s, st)
    /\ active' = active \ {s}
    /\ UNCHANGED <<has_been_entered, shield, overdue, owner, current>>

\* The exception the running task hands to __exit__.
InFlight(t) == raised[Block(status, owner, t)]

(***************************************************************************)
(* __exit__ of the innermost block: the with statement.  A nursery has     *)
(* waited for its children before its scope gets here.                     *)
(***************************************************************************)
Exit(t, s) ==
    /\ current = t
    /\ s \in active \ {Root}
    /\ status[t] = s
    /\ Misnesting \/ /\ owner[s] = t
                     /\ \A u \in Task \ {t} : ~Encloses(parent, s, status[u])
    /\ CloseScope(t, s, InFlight(t), [status EXCEPT ![t] = parent[s]])

\* __exit__ of a scope that an outer scope's closing has abandoned.
ExitAbandoned(t, s) ==
    /\ Misnesting
    /\ current = t
    /\ s \in active \ {Root}
    /\ status[t] # s
    /\ s \in abandoned
    /\ CloseScope(t, s, InFlight(t), status)

\* __exit__ of an outer scope while the task is still inside inner ones.
ExitMisnested(t, s) ==
    /\ Misnesting
    /\ current = t
    /\ s \in active \ {Root}
    /\ status[t] # s
    /\ s \notin abandoned
    /\ Encloses(parent, s, status[t])
    /\ CloseScope(t, s, {"Error"}, [status EXCEPT ![t] = parent[s]])

(***************************************************************************)
(* __exit__ of a scope already exited, or by a task outside of it:         *)
(* RuntimeError, and no state changes.                                     *)
(***************************************************************************)
ExitRefused(t, s) ==
    /\ Misnesting
    /\ current = t
    /\ s \in has_been_entered \ {Root}
    /\ \/ s \notin active
       \/ status[t] # s /\ s \notin abandoned /\ ~Encloses(parent, s, status[t])
    /\ Raise(Block(status, owner, t), {"Error"})
    /\ UNCHANGED <<scopeVars, status, current, wait, next_send>>

(***************************************************************************)
(* cancel(), from the running task or, in guest mode, from the host loop   *)
(* between two task steps.  It also stands for the scope's cancel_called   *)
(* property being read when the scope is overdue.                          *)
(***************************************************************************)
Cancel(s) ==
    /\ s \notin cancel_called
    /\ IF s \in active
       THEN Recalculate(cancel_called \cup {s}, shield, parent,
                        effectively_cancelled, status, {s})
       ELSE /\ cancel_called' = cancel_called \cup {s}
            /\ UNCHANGED <<effectively_cancelled, wait, next_send>>
    /\ UNCHANGED <<has_been_entered, active, shield, cancelled_caught, overdue,
                   abandoned, parent, owner, status, current, raised>>

\* The shield setter with a new value.
SetShield(s) ==
    /\ shield' = (shield \ {s}) \cup ({s} \ shield)
    /\ IF s \in active
       THEN Recalculate(cancel_called, shield', parent, effectively_cancelled,
                        status, {s})
       ELSE UNCHANGED <<effectively_cancelled, cancel_called, wait, next_send>>
    /\ UNCHANGED <<has_been_entered, active, cancelled_caught, overdue,
                   abandoned, parent, owner, status, current, raised>>

(***************************************************************************)
(* The clock passes the deadline of s, or the deadline setter moves it to  *)
(* the other side of the clock.                                            *)
(***************************************************************************)
MoveDeadline(s) ==
    /\ overdue' = (overdue \ {s}) \cup ({s} \ overdue)
    /\ UNCHANGED <<has_been_entered, active, shield, cancel_called,
                   cancelled_caught, effectively_cancelled, abandoned, parent,
                   owner, taskVars>>

(***************************************************************************)
(* Deadlines.expire, between two task steps: every scope with a registered *)
(* deadline (active and not yet cancelled) that has passed is cancelled.   *)
(***************************************************************************)
Expire ==
    /\ current = None
    /\ LET expired == LateScopes \ cancel_called
       IN  /\ expired # {}
           /\ Recalculate(cancel_called \cup expired, shield, parent,
                          effectively_cancelled, status, expired)
    /\ UNCHANGED <<has_been_entered, active, shield, cancelled_caught, overdue,
                   abandoned, parent, owner, status, current, raised>>

--------------------------------------------------------------------------------
(***************************************************************************)
(* Tasks and the run loop                                                  *)
(***************************************************************************)

\* A task that has not been spawned.
Unborn(t) == t # current /\ wait[t] = "none" /\ next_send[t] = "none"

(***************************************************************************)
(* spawn_impl: the new task starts in the status of its nursery's scope;   *)
(* it is not blocked, so activating a cancelled status delivers nothing.   *)
(***************************************************************************)
Spawn(u, s) ==
    /\ current # None
    /\ Unborn(u)
    /\ s \in active
    /\ status' = [status EXCEPT ![u] = s]
    /\ next_send' = [next_send EXCEPT ![u] = "Value"]
    /\ UNCHANGED <<scopeVars, current, wait, raised>>

\* The run loop takes a task out of the batch and sends it its outcome.
Resume(t) ==
    /\ current = None
    /\ next_send[t] # "none"
    /\ current' = t
    /\ next_send' = [next_send EXCEPT ![t] = "none"]
    /\ Raise(Block(status, owner, t),
             IF next_send[t] = "Cancelled" THEN {"Cancelled"} ELSE {})
    /\ UNCHANGED <<scopeVars, status, wait>>

(***************************************************************************)
(* The task yields WaitTaskRescheduled with an abort function of kind k;   *)
(* the run loop stores it and delivers a cancellation already pending.     *)
(***************************************************************************)
WaitTaskRescheduled(t, k) ==
    /\ current = t
    /\ current' = None
    /\ LET cancelled == status[t] \in effectively_cancelled
       IN  /\ wait' = [wait EXCEPT ![t] = IF cancelled THEN AfterAbort(k) ELSE k]
           /\ next_send' = [next_send EXCEPT ![t] =
                        IF cancelled /\ k = "succeeds" THEN "Cancelled" ELSE @]
           /\ cancel_called' = IF cancelled /\ k = "cancels"
                               THEN cancel_called \cup {status[t]}
                               ELSE cancel_called
    /\ UNCHANGED <<has_been_entered, active, shield, cancelled_caught, overdue,
                   effectively_cancelled, abandoned, parent, owner, status, raised>>

\* The task yields CancelShieldedCheckpoint.
CancelShieldedCheckpoint(t) ==
    /\ current = t
    /\ current' = None
    /\ next_send' = [next_send EXCEPT ![t] = "Value"]
    /\ UNCHANGED <<scopeVars, status, wait, raised>>

RescheduleKeepsAbort(t, outcome) ==
    /\ wait[t] # "none"
    /\ outcome = "Cancelled" => wait[t] = "failed"
    /\ next_send' = [next_send EXCEPT ![t] = outcome]
    /\ UNCHANGED <<scopeVars, status, current, wait, raised>>

(***************************************************************************)
(* Whoever is responsible for a blocked task wakes it, with a value or, if *)
(* its abort function was called and failed, with the exception that the   *)
(* function's raise_cancel argument raises.                                *)
(***************************************************************************)
Reschedule(t, outcome) ==
    /\ wait[t] # "none"
    /\ outcome = "Cancelled" => wait[t] = "failed"
    /\ next_send' = [next_send EXCEPT ![t] = outcome]
    /\ wait' = [wait EXCEPT ![t] = "none"]
    /\ UNCHANGED <<scopeVars, status, current, raised>>

(***************************************************************************)
(* The code of the running task handles what was raised, or raises an      *)
(* error in its place.                                                     *)
(***************************************************************************)
UserCode(t) ==
    /\ current = t
    /\ \E exc \in {{}, {"Error"}} :
          raised' = [raised EXCEPT ![Block(status, owner, t)] = exc]
    /\ UNCHANGED <<scopeVars, status, current, wait, next_send>>

TaskStep(t) ==
    \/ Resume(t)
    \/ \E k \in AbortKind : WaitTaskRescheduled(t, k)
    \/ CancelShieldedCheckpoint(t)
    \/ \E outcome \in {"Value", "Cancelled"} : Reschedule(t, outcome)
    \/ UserCode(t)

ScopeStep(t, s) ==
    \/ Spawn(t, s)
    \/ Enter(t, s)
    \/ EnterAgain(t, s)
    \/ Exit(t, s)
    \/ ExitAbandoned(t, s)
    \/ ExitMisnested(t, s)
    \/ ExitRefused(t, s)

Next ==
    \/ \E t \in Task : TaskStep(t)
    \/ \E t \in Task, s \in Scope : ScopeStep(t, s)
    \/ \E s \in Scope : Cancel(s)
    \/ \E s \in Shielding : SetShield(s)
    \/ \E s \in Deadlined : MoveDeadline(s)
    \/ Expire

Spec == Init /\ [][Next]_vars

--------------------------------------------------------------------------------
(***************************************************************************)
(* Properties                                                              *)
(***************************************************************************)

\* A status is in use while its scope is active or a task is still in it.
InUse(s) == s \in active \/ \E t \in Task : status[t] = s

(***************************************************************************)
(* What effectively_cancelled promises, read off the whole tree instead of *)
(* being pushed down it: the code in s must see Cancelled if a scope that  *)
(* was cancelled, or that was closed around it, encloses s and no shield   *)
(* stands strictly between that scope and the code.                        *)
(***************************************************************************)
CancellationReaches(s) ==
    \E a \in Scope :
        /\ Encloses(parent, a, s)
        /\ a \in cancel_called \/ a \notin active
        /\ \A x \in Scope :
              Encloses(parent, a, x) /\ Encloses(parent, x, s) /\ x # a
                  => x \notin shield

(***************************************************************************)
(* effectively_cancelled, which cancel(), the shield setter, expire,       *)
(* __enter__ and close() maintain by propagation, always equals what the   *)
(* tree says: no order of those calls loses or invents a cancellation.     *)
(***************************************************************************)
EffectivelyCancelledIsExact ==
    \A s \in Scope : InUse(s) =>
        (s \in effectively_cancelled <=> CancellationReaches(s))

(***************************************************************************)
(* The local form of the same promise, which recalculate() re-establishes  *)
(* for one status at a time.                                               *)
(***************************************************************************)
Consistent ==
    \A s \in active :
        s \in effectively_cancelled
            <=> NewState(cancel_called, shield, parent, effectively_cancelled, s)

(***************************************************************************)
(* No task is left blocked with an untried abort function in a cancelled   *)
(* status, however the cancellation came about: before, while or after it  *)
(* went to sleep.                                                          *)
(***************************************************************************)
NoLostCancel ==
    \A t \in Task : HasAbortFunc(t) => status[t] \notin effectively_cancelled

(***************************************************************************)
(* The statuses form a forest (encloses() and recalculate() terminate).    *)
(***************************************************************************)
Forest ==
    \A s \in Scope : parent[s] # None => ~Encloses(parent, s, parent[s])

\* A scope says it caught a cancellation only if it was itself cancelled.
CaughtImpliesCancelled == cancelled_caught \subseteq cancel_called

(***************************************************************************)
(* reschedule()'s assertion: a task that already has something to be sent  *)
(* is not given something else before it has run.                          *)
(***************************************************************************)
SentOnce ==
    [][\A t \in Task : next_send[t] # "none" /\ next_send'[t] # next_send[t]
            => next_send'[t] = "none" /\ current' = t]_vars
================================================================================
