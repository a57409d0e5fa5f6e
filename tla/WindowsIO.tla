----------------------------- MODULE WindowsIO -----------------------------
(***************************************************************************)
(* trio/_core/_io_windows.py.  Tasks that wait for a socket share one      *)
(* AFD_POLL operation, thrown away and issued anew whenever the set of     *)
(* waiters changes; overlapped operations are awaited one by one.  Both    *)
(* are completed by the kernel through one first-in first-out completion   *)
(* port.  Op and Lpo bound the addresses of OVERLAPPED structures that are *)
(* in use at one time; Group bounds the AFD handles ever created.          *)
(***************************************************************************)
EXTENDS Naturals, Sequences, FiniteSets, SequencesExt

CONSTANTS Task, Sock, Op, Lpo, None, MAX_AFD_GROUP_SIZE, MaxGroup

AfdMode == {"read_task", "write_task"}
Group == 1 .. MaxGroup

VARIABLES
    afd_waiters,    \* _afd_waiters: read_task, write_task and current_op of each socket
    afd_ops,        \* _afd_ops: socket, flags, group and status of each operation, or None
    size,           \* AFDGroup.size of each group, 0 for one not created yet
    handles,        \* Len(_all_afd_handles)
    vacant,         \* _vacant_afd_groups
    sock,           \* "open" or "closed"
    lpo,            \* the io of each OVERLAPPED: "none", "pending", "complete", "cancelled"
    lpo_registered, \* register_with_iocp was called for the handle of the io
    overlapped_waiters, \* _overlapped_waiters: the task of each OVERLAPPED
    too_late,       \* _posted_too_late_to_cancel
    port,           \* the completion port: <<completion key, address, events>>
    sleeping,       \* what each task sleeps on: <<socket, mode>>, an Lpo or None
    crashed         \* the TrioInternalError of process_events

winVars == <<afd_waiters, afd_ops, size, handles, vacant, sock, lpo, lpo_registered,
             overlapped_waiters, too_late, port, sleeping, crashed>>
afdVars == <<afd_waiters, afd_ops, size, handles, vacant, sock>>
overlappedVars == <<lpo, lpo_registered, overlapped_waiters, too_late>>

NoWaiters == [read_task |-> None, write_task |-> None, current_op |-> None]
Flags(w) == {m \in AfdMode : w[m] # None}
Wakes(tasks) == [t \in Task |-> IF t \in tasks THEN None ELSE sleeping[t]]

WindowsInit ==
    /\ afd_waiters = [s \in Sock |-> NoWaiters] /\ afd_ops = [o \in Op |-> None]
    /\ size = [g \in Group |-> 0] /\ handles = 0 /\ vacant = {}
    /\ sock = [s \in Sock |-> "open"]
    /\ lpo = [l \in Lpo |-> "none"] /\ lpo_registered = [l \in Lpo |-> TRUE]
    /\ overlapped_waiters = [l \in Lpo |-> None] /\ too_late = {}
    /\ port = <<>> /\ sleeping = [t \in Task |-> None] /\ crashed = FALSE

\* CancelIoEx(handle, op): an operation that is still with the kernel
\* completes as cancelled; ERROR_NOT_FOUND is ignored
Cancelled(o, ops) ==
    IF o # None /\ ops[o].status = "pending" THEN [ops EXCEPT ![o].status = "complete"] ELSE ops
CancelPosts(o, ops) ==
    IF o # None /\ ops[o].status = "pending" THEN << <<"AFD_POLL", o, {}>> >> ELSE <<>>

\* What _refresh_afd does to the group counts when it throws `old` away
DropOp(old) ==
    IF old = None THEN [size |-> size, vacant |-> vacant]
    ELSE LET g == afd_ops[old].group IN [size |-> [size EXCEPT ![g] = @ - 1], vacant |-> vacant \cup {g}]

\* _refresh_afd(s) where w are the waiters, `ops` the table of operations,
\* `queue` the port and `table` the sleepers as the caller left them
_refresh_afd(s, w, ops, queue, table) ==
    LET old == w.current_op
        kept == Cancelled(old, ops)
        dropped == DropOp(old)
        failed == sock[s] = "closed"
    IN /\ port' = queue \o CancelPosts(old, ops)
       /\ IF Flags(w) = {}
          THEN /\ afd_waiters' = [afd_waiters EXCEPT ![s] = NoWaiters]
               /\ afd_ops' = kept /\ sleeping' = table
               /\ size' = dropped.size /\ vacant' = dropped.vacant /\ UNCHANGED handles
          ELSE /\ dropped.vacant = {} => handles < MaxGroup
               /\ \E g \in IF dropped.vacant = {} THEN {handles + 1} ELSE dropped.vacant :
                     /\ handles' = IF dropped.vacant = {} THEN handles + 1 ELSE handles
                     /\ IF failed
                        THEN /\ afd_waiters' = [afd_waiters EXCEPT ![s] = NoWaiters]
                             /\ sleeping' = [t \in Task |-> IF t \in {w[m] : m \in AfdMode} THEN None ELSE table[t]]
                             /\ afd_ops' = kept /\ size' = dropped.size
                             /\ vacant' = dropped.vacant \cup {g}
                        ELSE LET o == CHOOSE x \in Op : kept[x] = None IN
                             /\ \E x \in Op : kept[x] = None
                             /\ afd_ops' = [kept EXCEPT ![o] = [sock |-> s, flags |-> Flags(w), group |-> g,
                                                                status |-> "pending"]]
                             /\ afd_waiters' = [afd_waiters EXCEPT ![s] = [w EXCEPT !.current_op = o]]
                             /\ sleeping' = table
                             /\ size' = [dropped.size EXCEPT ![g] = @ + 1]
                             /\ vacant' = IF size'[g] >= MAX_AFD_GROUP_SIZE THEN dropped.vacant \ {g}
                                          ELSE dropped.vacant \cup {g}

\* _afd_poll; a second task in the same mode gets a BusyResourceError, and
\* _get_base_socket raises for a closed socket
_afd_poll(t, s, mode) ==
    /\ sleeping[t] = None /\ sock[s] = "open" /\ afd_waiters[s][mode] = None
    /\ _refresh_afd(s, [afd_waiters[s] EXCEPT ![mode] = t], afd_ops, port,
                    [sleeping EXCEPT ![t] = <<s, mode>>])
    /\ UNCHANGED <<sock, overlappedVars, crashed>>

\* abort_fn of _afd_poll
AbortPoll(t) ==
    /\ sleeping[t] \in Sock \X AfdMode
    /\ LET s == sleeping[t][1] mode == sleeping[t][2] IN
       _refresh_afd(s, [afd_waiters[s] EXCEPT ![mode] = None], afd_ops, port, Wakes({t}))
    /\ UNCHANGED <<sock, overlappedVars, crashed>>

\* notify_closing; the user then closes the socket
WindowsNotifyClosing(s) ==
    /\ sock[s] = "open"
    /\ _refresh_afd(s, [afd_waiters[s] EXCEPT !.read_task = None, !.write_task = None],
                    afd_ops, port, Wakes({afd_waiters[s][m] : m \in AfdMode}))
    /\ sock' = [sock EXCEPT ![s] = "closed"]
    /\ UNCHANGED <<overlappedVars, crashed>>

\* The user closes the socket without a word: the kernel reports
\* AFD_POLL_LOCAL_CLOSE, which is in both sets of flags.  Or opens it again.
CloseOrOpen(s) ==
    LET mine == {o \in Op : afd_ops[o] # None /\ afd_ops[o].sock = s /\ afd_ops[o].status = "pending"} IN
    /\ sock' = [sock EXCEPT ![s] = IF @ = "open" THEN "closed" ELSE "open"]
    /\ afd_ops' = [o \in Op |-> IF o \in mine THEN [afd_ops[o] EXCEPT !.status = "complete"] ELSE afd_ops[o]]
    /\ port' = port \o SetToSeq({<<"AFD_POLL", o, AfdMode>> : o \in mine})
    /\ UNCHANGED <<afd_waiters, size, handles, vacant, overlappedVars, sleeping, crashed>>

\* The kernel completes a poll operation, for some of the flags asked for
PollCompletes(o, events) ==
    /\ afd_ops[o] # None /\ afd_ops[o].status = "pending"
    /\ events # {} /\ events \subseteq afd_ops[o].flags
    /\ afd_ops' = [afd_ops EXCEPT ![o].status = "complete"]
    /\ port' = Append(port, <<"AFD_POLL", o, events>>)
    /\ UNCHANGED <<afd_waiters, size, handles, vacant, sock, overlappedVars, sleeping, crashed>>

\* process_events for an AFD_POLL entry: a stale operation is dropped, the
\* current one wakes its readers and writers and is issued anew
ProcessPoll ==
    /\ port # <<>> /\ Head(port)[1] = "AFD_POLL" /\ ~crashed
    /\ LET o == Head(port)[2]
           s == afd_ops[o].sock
           w == afd_waiters[s]
           woken == {m \in AfdMode : w[m] # None /\ m \in Head(port)[3]}
           left == [m \in DOMAIN w |-> IF m \in woken \cup {"current_op"} THEN None ELSE w[m]]
           ops == [afd_ops EXCEPT ![o] = None]
       IN IF w.current_op # o
          THEN /\ afd_ops' = ops /\ port' = Tail(port)
               /\ UNCHANGED <<afd_waiters, size, handles, vacant, sleeping>>
          ELSE _refresh_afd(s, left, ops, Tail(port), Wakes({w[m] : m \in woken}))
    /\ UNCHANGED <<sock, overlappedVars, crashed>>

\* _perform_overlapped: the io is submitted with a new OVERLAPPED, whose
\* address is not one that something still refers to, and then awaited
_perform_overlapped(t, l, registered) ==
    /\ sleeping[t] = None /\ lpo[l] = "none" /\ overlapped_waiters[l] = None /\ l \notin too_late
    /\ lpo' = [lpo EXCEPT ![l] = "pending"]
    /\ lpo_registered' = [lpo_registered EXCEPT ![l] = registered]
    /\ overlapped_waiters' = [overlapped_waiters EXCEPT ![l] = t]
    /\ sleeping' = [sleeping EXCEPT ![t] = l]
    /\ UNCHANGED <<afdVars, too_late, port, crashed>>

\* The kernel finishes the io; only a registered handle is reported
IoCompletes(l) ==
    /\ lpo[l] = "pending"
    /\ lpo' = [lpo EXCEPT ![l] = "complete"]
    /\ port' = IF lpo_registered[l] THEN Append(port, <<"WAIT_OVERLAPPED", l, {}>>) ELSE port
    /\ UNCHANGED <<afdVars, lpo_registered, overlapped_waiters, too_late, sleeping, crashed>>

\* abort of wait_overlapped: CancelIoEx, or, too late for that, a post of
\* LATE_CANCEL; the task sleeps on in either case, and is not asked again
AbortOverlapped(t) ==
    /\ sleeping[t] \in Lpo
    /\ LET l == sleeping[t] IN
       IF lpo[l] = "pending"
       THEN /\ lpo' = [lpo EXCEPT ![l] = "cancelled"]
            /\ port' = IF lpo_registered[l] THEN Append(port, <<"WAIT_OVERLAPPED", l, {}>>) ELSE port
            /\ UNCHANGED too_late
       ELSE /\ lpo[l] = "complete" /\ l \notin too_late
            /\ too_late' = too_late \cup {l}
            /\ port' = Append(port, <<"LATE_CANCEL", l, {}>>)
            /\ UNCHANGED lpo
    /\ UNCHANGED <<afdVars, lpo_registered, overlapped_waiters, sleeping, crashed>>

\* process_events for a WAIT_OVERLAPPED entry: the task returns and its
\* OVERLAPPED is freed
ProcessOverlapped ==
    /\ port # <<>> /\ Head(port)[1] = "WAIT_OVERLAPPED" /\ ~crashed
    /\ LET l == Head(port)[2] IN
       /\ overlapped_waiters' = [overlapped_waiters EXCEPT ![l] = None]
       /\ sleeping' = Wakes({overlapped_waiters[l]})
       /\ lpo' = [lpo EXCEPT ![l] = "none"]
    /\ port' = Tail(port)
    /\ UNCHANGED <<afdVars, lpo_registered, too_late, crashed>>

\* A plausible bug: every LATE_CANCEL is taken for a forgotten registration.
UnwokenAnyway(l) == TRUE

\* The completion has not come before the LATE_CANCEL posted after it
Unwoken(l) == overlapped_waiters[l] # None

\* process_events for a LATE_CANCEL entry
ProcessLateCancel ==
    /\ port # <<>> /\ Head(port)[1] = "LATE_CANCEL" /\ ~crashed
    /\ LET l == Head(port)[2] IN
       /\ too_late' = too_late \ {l}
       /\ crashed' = Unwoken(l)
       /\ overlapped_waiters' = [overlapped_waiters EXCEPT ![l] = None]
    /\ port' = Tail(port)
    /\ UNCHANGED <<afdVars, lpo, lpo_registered, sleeping>>

AFDNext ==
    \/ \E t \in Task : AbortPoll(t) \/ \E s \in Sock, mode \in AfdMode : _afd_poll(t, s, mode)
    \/ \E s \in Sock : WindowsNotifyClosing(s) \/ CloseOrOpen(s)
    \/ \E o \in Op, events \in SUBSET AfdMode : PollCompletes(o, events)
    \/ ProcessPoll

OverlappedNext ==
    \/ \E t \in Task : AbortOverlapped(t)
                       \/ \E l \in Lpo, registered \in BOOLEAN : _perform_overlapped(t, l, registered)
    \/ \E l \in Lpo : IoCompletes(l)
    \/ ProcessOverlapped \/ ProcessLateCancel

WindowsNext == ~crashed /\ (AFDNext \/ OverlappedNext)
----------------------------------------------------------------------------
\* Whatever order tasks come, go, are cancelled and the kernel completes in:
\* every task asleep on a socket is in its AFDWaiters, whose one current
\* operation is among _afd_ops, polls for exactly the modes waited for, and
\* is with the kernel or on its way through the port; and every completion
\* finds its operation (process_events would crash the run otherwise).
PollsCoverWaiters ==
    /\ \A t \in Task, s \in Sock, m \in AfdMode : afd_waiters[s][m] = t <=> sleeping[t] = <<s, m>>
    /\ \A s \in Sock : LET w == afd_waiters[s] IN
         IF Flags(w) = {} THEN w = NoWaiters
         ELSE /\ w.current_op # None /\ afd_ops[w.current_op] # None
              /\ afd_ops[w.current_op].sock = s /\ afd_ops[w.current_op].flags = Flags(w)
    /\ \A o \in Op : (afd_ops[o] # None /\ afd_ops[o].status = "complete")
                        <=> \E i \in 1 .. Len(port) : port[i][1] = "AFD_POLL" /\ port[i][2] = o

\* The TrioInternalError "Did you forget to call register_with_iocp()?"
\* accuses nobody wrongly, and a task asleep on a registered handle is still
\* going to be woken: its io is with the kernel or its completion in the port.
LateCancelIsRight ==
    /\ crashed => \E l \in Lpo : ~lpo_registered[l] /\ lpo[l] = "complete"
    /\ \A t \in Task, l \in Lpo : sleeping[t] = l /\ lpo_registered[l] /\ ~crashed =>
         /\ overlapped_waiters[l] = t
         /\ lpo[l] = "pending" \/ \E i \in 1 .. Len(port) : port[i] = <<"WAIT_OVERLAPPED", l, {}>>

\* "The solution is to spread our sockets out over multiple AFD handles":
\* a new handle is made when the sockets waited for fill the ones there are.
HandlesInProportion ==
    handles > 1 => (handles - 1) * MAX_AFD_GROUP_SIZE < Cardinality(Sock)
=============================================================================
