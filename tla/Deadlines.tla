------------------------------- MODULE Deadlines -------------------------------
(***************************************************************************)
(* The heap of deadlines (trio/_core/_run.py: Deadlines, and               *)
(* CancelScope._might_change_registered_deadline).  Changing a deadline    *)
(* leaves the old entry in the heap; an entry counts only while it is the  *)
(* deadline its scope has registered.  Old entries are dropped when they   *)
(* come to the top, and all at once when there are too many.               *)
(*                                                                         *)
(* In guest mode the host loop runs code while the run loop sleeps in a    *)
(* thread, so a deadline that moves must cut that sleep short.             *)
(***************************************************************************)
EXTENDS Integers, FiniteSets, Functions, FiniteSetsExt

CONSTANTS
    Scope,        \* cancel scopes, numbered by their id()
    MaxDeadline,  \* bound: times are 0 .. MaxDeadline
    Guest,        \* Runner.is_guest
    MinPrune,     \* DEADLINE_HEAP_MIN_PRUNE_THRESHOLD
    MaxCopies     \* bound: equal entries in the heap

ASSUME DeadlinesAssumption ==
    /\ Scope \subseteq Nat /\ IsFiniteSet(Scope)
    /\ MaxDeadline \in Nat \ {0}
    /\ Guest \in BOOLEAN
    /\ MinPrune \in Nat
    /\ MaxCopies \in Nat \ {0}

Inf == MaxDeadline + 1
Deadline == 0 .. MaxDeadline
Entry == Deadline \X Scope

VARIABLES
    heap,            \* Deadlines._heap: how often each entry is in it
    active,          \* Deadlines._active
    registered,      \* CancelScope._registered_deadline
    now,             \* Clock.current_time()
    loop,            \* where the run loop is
    sleeping_until,  \* the deadline its sleep was computed from
    tick_scheduled   \* Runner.guest_tick_scheduled

deadlineVars == <<heap, active, registered, now, loop, sleeping_until, tick_scheduled>>

DeadlinesTypeOK ==
    /\ heap \in [Entry -> Nat]
    /\ active \in Nat
    /\ registered \in [Scope -> Deadline \cup {Inf}]
    /\ now \in Deadline
    /\ loop \in {"tasks", "asleep", "expiring"}
    /\ sleeping_until \in Deadline \cup {Inf}
    /\ tick_scheduled \in BOOLEAN

DeadlinesInit ==
    /\ heap = [e \in Entry |-> 0]
    /\ active = 0
    /\ registered = [s \in Scope |-> Inf]
    /\ now = 0
    /\ loop = "tasks"
    /\ sleeping_until = Inf
    /\ tick_scheduled = TRUE

--------------------------------------------------------------------------------
\* The heap order: by deadline, then by id.
AtOrBefore(e, f) == e[1] < f[1] \/ (e[1] = f[1] /\ e[2] <= f[2])

In(h) == {e \in Entry : h[e] > 0}

\* The entry at the top of the heap.
Top(h) == {e \in In(h) : \A f \in In(h) : AtOrBefore(e, f)}

\* The entries that look current under registration r.
Current(h, r) == {e \in In(h) : e[1] = r[e[2]]}

DropsNothing(h, r) == h

DropsCurrentToo(h, r) ==
    [e \in Entry |-> IF \E f \in Current(h, r) : f # e /\ AtOrBefore(f, e)
                     THEN h[e] ELSE 0]

\* What next_deadline() leaves: it pops entries until one is current.
DropStale(h, r) ==
    [e \in Entry |-> IF \E f \in Current(h, r) : AtOrBefore(f, e) THEN h[e] ELSE 0]

\* What next_deadline() returns.
NextDeadline(h, r) ==
    IF Current(h, r) = {} THEN Inf ELSE Min({e[1] : e \in Current(h, r)})

(***************************************************************************)
(* The end of _might_change_registered_deadline(), with h the heap and d   *)
(* the deadline that scope s should have, which is not the one it has.  In *)
(* guest mode next_deadline() is called before and after, both times with  *)
(* the new registration, and the two are compared.                         *)
(***************************************************************************)
Reregister(h, s, d) ==
    LET r      == [registered EXCEPT ![s] = d]
        before == IF Guest THEN DropStale(h, r) ELSE h
        added  == IF d = Inf THEN before ELSE [before EXCEPT ![<<d, s>>] = @ + 1]
        moved  == NextDeadline(before, r) # NextDeadline(added, r)
    IN  /\ registered' = r
        /\ heap' = IF Guest THEN DropStale(added, r) ELSE added
        /\ active' = active - (IF registered[s] = Inf THEN 0 ELSE 1)
                            + (IF d = Inf THEN 0 ELSE 1)
        /\ tick_scheduled' = (tick_scheduled \/ (Guest /\ moved))

(***************************************************************************)
(* A task enters, leaves or cancels a scope, or sets its deadline; or the  *)
(* host does.  In expire() itself, cancelling one scope may cancel others  *)
(* that are overdue as well (the property cancel_called).                  *)
(***************************************************************************)
ChangeDeadline(s, d) ==
    /\ \/ loop = "tasks"
       \/ Guest /\ loop = "asleep"
       \/ loop = "expiring" /\ registered[s] <= now /\ d = Inf
    /\ d # registered[s]
    /\ d # Inf => heap[<<d, s>>] < MaxCopies
    /\ Reregister(heap, s, d)
    /\ UNCHANGED <<now, loop, sleeping_until>>

\* The run loop looks up the next deadline and waits for events.
FallAsleep ==
    /\ loop = "tasks"
    /\ loop' = "asleep"
    /\ sleeping_until' = NextDeadline(heap, registered)
    /\ heap' = DropStale(heap, registered)
    /\ tick_scheduled' = FALSE
    /\ UNCHANGED <<active, registered, now>>

\* expire() works with one reading of the clock.
Tick ==
    /\ now < MaxDeadline
    /\ loop # "expiring"
    /\ now' = now + 1
    /\ UNCHANGED <<heap, active, registered, loop, sleeping_until, tick_scheduled>>

\* The wait ends: by its timeout, by an event or by force_wakeup().
WakeUp ==
    /\ loop = "asleep"
    /\ loop' = "expiring"
    /\ tick_scheduled' = TRUE
    /\ UNCHANGED <<heap, active, registered, now, sleeping_until>>

Overdue == {e \in Top(heap) : e[1] <= now}

\* One turn of the loop in expire(); a current entry's scope is cancelled.
Expire ==
    \E e \in Overdue :
        LET h == [heap EXCEPT ![e] = @ - 1]
        IN  /\ loop = "expiring"
            /\ IF registered[e[2]] = e[1]
               THEN Reregister(h, e[2], Inf)
               ELSE heap' = h /\ UNCHANGED <<active, registered, tick_scheduled>>
            /\ UNCHANGED <<now, loop, sleeping_until>>

\* _prune(): one entry for each deadline that is registered.
Prune(h) == [e \in Entry |-> IF e \in Current(h, registered) THEN 1 ELSE 0]

\* The rest of expire().
EndExpire ==
    /\ loop = "expiring" /\ Overdue = {}
    /\ loop' = "tasks"
    /\ heap' = IF SumFunction(heap) > active * 2 + MinPrune THEN Prune(heap) ELSE heap
    /\ UNCHANGED <<active, registered, now, sleeping_until, tick_scheduled>>

DeadlinesNext ==
    \/ \E s \in Scope, d \in Deadline \cup {Inf} : ChangeDeadline(s, d)
    \/ FallAsleep
    \/ Tick
    \/ WakeUp
    \/ Expire
    \/ EndExpire

DeadlinesSpec == DeadlinesInit /\ [][DeadlinesNext]_deadlineVars

--------------------------------------------------------------------------------
(***************************************************************************)
(* Properties                                                              *)
(***************************************************************************)

(***************************************************************************)
(* No registered deadline is missing from the heap, however often it was   *)
(* changed and the heap cleaned up in between.                             *)
(***************************************************************************)
NoDeadlineLost ==
    \A s \in Scope : registered[s] # Inf => heap[<<registered[s], s>>] > 0

(***************************************************************************)
(* _active counts the registered deadlines; together with the last one     *)
(* this is the assertion in _prune().                                      *)
(***************************************************************************)
ActiveIsExact ==
    /\ active = Cardinality({s \in Scope : registered[s] # Inf})
    /\ active = Cardinality(Current(heap, registered))

(***************************************************************************)
(* A sleeping run loop does not sleep past a deadline: if one was set, or  *)
(* moved, to before the end of the sleep, then a tick has been forced.     *)
(***************************************************************************)
NeverSleepsPastDeadline ==
    loop = "asleep" /\ ~ tick_scheduled =>
        \A s \in Scope : sleeping_until <= registered[s]
================================================================================
