------------------------------- MODULE EpollIO -------------------------------
(***************************************************************************)
(* trio/_core/_io_epoll.py and wake_all of _io_common.py: tasks wait for   *)
(* an fd to become readable or writable; epoll's EPOLLONESHOT registration *)
(* of the fd is kept in step with who is waiting.                          *)
(***************************************************************************)
EXTENDS Naturals, FiniteSets

CONSTANTS Task, Fd, None

Mode == {"read_task", "write_task"}
Flag(mode) == IF mode = "read_task" THEN "IN" ELSE "OUT"

VARIABLES
    registered, \* _registered: EpollWaiters of each fd, Nobody if it has none
    epoll,      \* the kernel's registration of each fd: its armed flags, or Unknown
    file,       \* what each fd is: "open" or "closed"
    waiting,    \* what each task sleeps on: <<fd, mode>> or None
    behind      \* the fds closed behind trio's back while it had them registered

epollVars == <<registered, epoll, file, waiting, behind>>

Nobody == [read_task |-> None, write_task |-> None, current_flags |-> {}]
Unknown == {"unknown"}
Wanted(w) == {Flag(m) : m \in {m \in Mode : w[m] # None}}
Waiters(w) == {w[m] : m \in Mode} \ {None}

EpollInit ==
    /\ registered = [fd \in Fd |-> Nobody] /\ epoll = [fd \in Fd |-> Unknown]
    /\ file = [fd \in Fd |-> "open"] /\ waiting = [t \in Task |-> None] /\ behind = {}

\* The tasks of S are rescheduled, or go on running
Wake(S, table) == [t \in Task |-> IF t \in S THEN None ELSE table[t]]

\* _update_registrations(fd) with the waiters w and the sleepers `table`:
\* EPOLL_CTL_MOD, else EPOLL_CTL_ADD, else the fd is bad: wake_all
_update_registrations(fd, w, table) ==
    LET changed == Wanted(w) # w.current_flags
        bad == changed /\ file[fd] = "closed"
        now == [w EXCEPT !.current_flags = Wanted(w)]
    IN /\ registered' = [registered EXCEPT ![fd] = IF bad \/ Wanted(w) = {} THEN Nobody ELSE now]
       /\ epoll' = IF changed /\ ~bad THEN [epoll EXCEPT ![fd] = Wanted(w)] ELSE epoll
       /\ waiting' = IF bad THEN Wake(Waiters(w), table) ELSE table
       /\ behind' = IF changed \/ Wanted(w) = {} THEN behind \ {fd} ELSE behind

\* _epoll_wait; a second task for the same fd and mode gets a
\* BusyResourceError and changes nothing
_epoll_wait(t, fd, mode) ==
    /\ waiting[t] = None /\ registered[fd][mode] = None
    /\ _update_registrations(fd, [registered[fd] EXCEPT ![mode] = t],
                             [waiting EXCEPT ![t] = <<fd, mode>>])
    /\ UNCHANGED file

\* The abort function of _epoll_wait
AbortWait(t) ==
    /\ waiting[t] # None
    /\ LET fd == waiting[t][1] mode == waiting[t][2] IN
       _update_registrations(fd, [registered[fd] EXCEPT ![mode] = None],
                             [waiting EXCEPT ![t] = None])
    /\ UNCHANGED file

\* A plausible bug: the one-shot registration is not armed again for the
\* task that is still waiting.
RearmForgotten(fd, w) == {}

\* The flags of an fd after its event, when w are the waiters that are left
Rearmed(fd, w) == IF file[fd] = "open" THEN Wanted(w) ELSE {}

\* process_events for one fd.  EPOLLONESHOT disarms the registration when
\* it reports; an event other than EPOLLIN alone wakes the writer, one other
\* than EPOLLOUT alone the reader.
process_events(fd, flags) ==
    /\ epoll[fd] \notin {Unknown, {}} /\ flags # {} /\ flags \subseteq epoll[fd] \cup {"ERR"}
    /\ LET old == [registered[fd] EXCEPT !.current_flags = {}]
           woken == {m \in Mode : old[m] # None /\ flags \ {Flag(CHOOSE n \in Mode : n # m)} # {}}
           w == [m \in DOMAIN old |-> IF m \in woken THEN None ELSE old[m]]
           table == Wake({old[m] : m \in woken}, waiting)
       IN /\ registered' = [registered EXCEPT ![fd] =
                                IF Wanted(w) = {} \/ file[fd] = "closed" THEN Nobody
                                ELSE [w EXCEPT !.current_flags = Wanted(w)]]
          /\ epoll' = [epoll EXCEPT ![fd] = Rearmed(fd, w)]
          /\ waiting' = IF file[fd] = "closed" THEN Wake(Waiters(w), table) ELSE table
          /\ behind' = behind \ {fd}
    /\ UNCHANGED file

\* notify_closing: everyone is woken with ClosedResourceError; then the
\* caller closes the fd
notify_closing(fd) ==
    /\ file[fd] = "open"
    /\ waiting' = Wake(Waiters(registered[fd]), waiting)
    /\ registered' = [registered EXCEPT ![fd] = Nobody]
    /\ epoll' = [epoll EXCEPT ![fd] = Unknown]
    /\ file' = [file EXCEPT ![fd] = "closed"]
    /\ behind' = behind \ {fd}

\* The user closes the fd without a word, and the kernel forgets it
CloseBehindOurBack(fd) ==
    /\ file[fd] = "open"
    /\ file' = [file EXCEPT ![fd] = "closed"] /\ epoll' = [epoll EXCEPT ![fd] = Unknown]
    /\ behind' = IF registered[fd] = Nobody THEN behind ELSE behind \cup {fd}
    /\ UNCHANGED <<registered, waiting>>

\* The number is used for a new file
Reopen(fd) ==
    /\ file[fd] = "closed"
    /\ file' = [file EXCEPT ![fd] = "open"]
    /\ UNCHANGED <<registered, epoll, waiting, behind>>

EpollNext ==
    \/ \E t \in Task : AbortWait(t) \/ \E fd \in Fd, mode \in Mode : _epoll_wait(t, fd, mode)
    \/ \E fd \in Fd : \/ notify_closing(fd) \/ CloseBehindOurBack(fd) \/ Reopen(fd)
                      \/ \E flags \in SUBSET {"IN", "OUT", "ERR"} : process_events(fd, flags)
----------------------------------------------------------------------------
\* A sleeping task is registered for exactly what it sleeps on, and the
\* kernel is armed for exactly what the tasks of an fd want, whatever order
\* they come, go, are cancelled and woken in: nobody is forgotten, and nobody
\* is woken who has left.  (Only tasks of an fd that was closed behind trio's
\* back can wait for nothing.)
EpollForgetsNobody ==
    /\ \A t \in Task, fd \in Fd, m \in Mode : registered[fd][m] = t <=> waiting[t] = <<fd, m>>
    /\ \A fd \in Fd : registered[fd].current_flags = Wanted(registered[fd])
    /\ \A fd \in Fd \ behind : registered[fd] # Nobody => epoll[fd] = Wanted(registered[fd])
=============================================================================
