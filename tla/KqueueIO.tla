------------------------------ MODULE KqueueIO ------------------------------
(***************************************************************************)
(* trio/_core/_io_kqueue.py: one receiver for each (ident, filter) pair,   *)
(* a task in wait_kevent or the UnboundedQueue of monitor_kevent.  The     *)
(* READ and WRITE filters are those of wait_readable and wait_writable;    *)
(* PROC stands for a filter that a caller registers with the kernel        *)
(* itself before it calls wait_kevent or monitor_kevent.  get_events takes *)
(* events from the kernel and process_events handles them: at once in a    *)
(* regular run, while in guest mode the host loop runs in between.         *)
(***************************************************************************)
EXTENDS Naturals, FiniteSets

CONSTANTS Task, Fd, None, Monitor \* Monitor: the receiver that is a queue

Filter == {"READ", "WRITE", "PROC"}
Key == Fd \X Filter

VARIABLES
    receivers,  \* _registered: a task, Monitor or None for each key
    kqueue,     \* the kernel's events: "oneshot", "always" or "no"
    asleep_on,  \* the key each task sleeps on, or None
    vanished,   \* keys the kernel dropped because the fd was closed behind trio's back
    fetched,    \* the events that get_events has returned, with their flags
    guest_mode, \* the run is a guest of another loop
    key_error   \* process_events has raised KeyError: the end of the run

kqueueVars == <<receivers, kqueue, asleep_on, vanished, fetched, guest_mode, key_error>>
loopVars == <<fetched, guest_mode, key_error>>

NoEvents == [k \in Key |-> "no"]

KqueueInit ==
    /\ receivers = [k \in Key |-> None] /\ kqueue = NoEvents /\ fetched = NoEvents
    /\ asleep_on = [t \in Task |-> None] /\ vanished = {}
    /\ guest_mode \in BOOLEAN /\ key_error = FALSE

\* Tasks run when the events of the tick have been processed; the code of a
\* host, which may cancel scopes and close sockets, at any other time too.
TasksRun == fetched = NoEvents
TasksOrHostRun == TasksRun \/ guest_mode

\* _wait_common, then wait_kevent: the event is added first, so that a call
\* that gets a BusyResourceError has added it again
_wait_common(t, fd, filter) ==
    LET k == <<fd, filter>> IN
    /\ TasksRun /\ asleep_on[t] = None /\ filter # "PROC"
    /\ kqueue' = [kqueue EXCEPT ![k] = "oneshot"]
    /\ vanished' = vanished \ {k}
    /\ IF receivers[k] = None
       THEN /\ receivers' = [receivers EXCEPT ![k] = t]
            /\ asleep_on' = [asleep_on EXCEPT ![t] = k]
       ELSE UNCHANGED <<receivers, asleep_on>>
    /\ UNCHANGED loopVars

\* wait_kevent for an event the caller has added (EV_ONESHOT), and the
\* caller's abort function may refuse
wait_kevent(t, fd) ==
    LET k == <<fd, "PROC">> IN
    /\ TasksRun /\ asleep_on[t] = None /\ receivers[k] = None
    /\ kqueue' = [kqueue EXCEPT ![k] = "oneshot"]
    /\ receivers' = [receivers EXCEPT ![k] = t]
    /\ asleep_on' = [asleep_on EXCEPT ![t] = k]
    /\ UNCHANGED <<vanished, loopVars>>

\* Cancelled: EV_DELETE, which may find that the event is gone already.  The
\* abort function of another caller of wait_kevent (the subprocess module's)
\* lets that error out, and the task stays where it is.
AbortKevent(t) ==
    /\ TasksOrHostRun /\ asleep_on[t] # None
    /\ asleep_on[t][2] = "PROC" => fetched[asleep_on[t]] = "no"
    /\ kqueue' = [kqueue EXCEPT ![asleep_on[t]] = "no"]
    /\ receivers' = [receivers EXCEPT ![asleep_on[t]] = None]
    /\ asleep_on' = [asleep_on EXCEPT ![t] = None]
    /\ vanished' = vanished \ {asleep_on[t]}
    /\ UNCHANGED loopVars

\* monitor_kevent; its user adds the event inside and deletes it before the end
monitor_kevent(fd) ==
    LET k == <<fd, "PROC">> IN
    /\ TasksRun /\ UNCHANGED <<asleep_on, vanished, loopVars>>
    /\ \/ /\ receivers[k] = None
          /\ receivers' = [receivers EXCEPT ![k] = Monitor]
          /\ kqueue' = [kqueue EXCEPT ![k] = "always"]
       \/ /\ receivers[k] = Monitor
          /\ receivers' = [receivers EXCEPT ![k] = None]
          /\ kqueue' = [kqueue EXCEPT ![k] = "no"]

\* get_events takes an event, and the kernel forgets it if it is one-shot
get_events(k) ==
    /\ kqueue[k] # "no"
    /\ fetched' = [fetched EXCEPT ![k] = kqueue[k]]
    /\ kqueue' = [kqueue EXCEPT ![k] = IF @ = "oneshot" THEN "no" ELSE @]
    /\ UNCHANGED <<receivers, asleep_on, vanished, guest_mode, key_error>>

\* process_events in the next tick: trio too forgets the one-shot events; a
\* task is woken, a queue gets another entry.  An event without a receiver
\* is a KeyError, and the run ends with a TrioInternalError.
process_events ==
    LET ready == {k \in Key : fetched[k] # "no"} IN
    /\ ready # {}
    /\ IF \A k \in ready : receivers[k] # None
       THEN /\ receivers' = [k \in Key |-> IF fetched[k] = "oneshot" THEN None ELSE receivers[k]]
            /\ asleep_on' = [t \in Task |-> IF asleep_on[t] \in ready THEN None ELSE asleep_on[t]]
            /\ vanished' = vanished \ ready /\ fetched' = NoEvents
            /\ UNCHANGED key_error
       ELSE key_error' = TRUE /\ UNCHANGED <<receivers, asleep_on, vanished, fetched>>
    /\ UNCHANGED <<kqueue, guest_mode>>

\* notify_closing, READ first.  EV_DELETE fails for an event that the kernel
\* does not have; the error goes to whoever closes the fd, and the rest of
\* the loop is not reached.
KqueueNotifyClosing(fd) ==
    LET refused(filter) == receivers[<<fd, filter>>] # None /\ kqueue[<<fd, filter>>] = "no"
        keys == {fd} \X (IF refused("READ") THEN {}
                         ELSE IF refused("WRITE") THEN {"READ"} ELSE {"READ", "WRITE"})
    IN /\ TasksOrHostRun
       /\ receivers' = [k \in Key |-> IF k \in keys THEN None ELSE receivers[k]]
       /\ kqueue' = [k \in Key |-> IF k \in keys THEN "no" ELSE kqueue[k]]
       /\ asleep_on' = [t \in Task |-> IF asleep_on[t] \in keys THEN None ELSE asleep_on[t]]
       /\ UNCHANGED <<vanished, loopVars>>

\* The fd is closed behind trio's back: the kernel drops its events
KqueueCloseBehind(fd) ==
    LET keys == {fd} \X {"READ", "WRITE"} IN
    /\ \E k \in keys : kqueue[k] # "no"
    /\ kqueue' = [k \in Key |-> IF k \in keys THEN "no" ELSE kqueue[k]]
    /\ vanished' = vanished \cup {k \in keys : receivers[k] # None}
    /\ UNCHANGED <<receivers, asleep_on, loopVars>>

KqueueNext ==
    /\ ~key_error
    /\ \/ \E t \in Task, fd \in Fd : \/ \E filter \in Filter : _wait_common(t, fd, filter)
                                     \/ wait_kevent(t, fd)
       \/ \E t \in Task : AbortKevent(t)
       \/ \E k \in Key : get_events(k)
       \/ process_events
       \/ \E fd \in Fd : monitor_kevent(fd) \/ KqueueNotifyClosing(fd) \/ KqueueCloseBehind(fd)
----------------------------------------------------------------------------
\* The kernel's events and trio's receivers stay in step: the kernel has an
\* event only for somebody, a sleeping task is the receiver of its key, and
\* its event is with the kernel or on its way to process_events, unless the
\* fd was closed behind trio's back; and in a regular run process_events
\* finds a receiver for every event (a KeyError there would end the run).
KqueueInStep ==
    /\ \A k \in Key : kqueue[k] # "no" => receivers[k] # None
    /\ \A t \in Task, k \in Key : receivers[k] = t <=> asleep_on[t] = k
    /\ \A k \in Key \ vanished :
          receivers[k] # None => kqueue[k] # "no" \/ fetched[k] # "no"
    /\ ~guest_mode => ~key_error /\ \A k \in Key : fetched[k] # "no" => receivers[k] # None

\* "It's your responsibility to make sure that handle_io never receives an
\* event without a corresponding registration!": with no caller but trio's
\* own wait_readable(), wait_writable() and subprocesses, it never does.
EveryEventHasAReceiver == ~key_error
=============================================================================
