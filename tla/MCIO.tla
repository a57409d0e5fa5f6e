---------------------------------- MODULE MCIO ---------------------------------
(***************************************************************************)
(* Model-checking instances of what tasks and the run loop wait for, each  *)
(* by itself: the deadline heap, in a regular run and in one in guest mode    *)
(* that prunes its heap at every opportunity; the three I/O managers, the  *)
(* two halves of the Windows one apart; the streams on file descriptors    *)
(* and sockets; and what stays inside the process, the memory channel and  *)
(* the in-memory streams of trio.testing.                                  *)
(***************************************************************************)
EXTENDS Deadlines, MemoryChannel

CONSTANTS
    Fd, Monitor, Sock, Op, Lpo, MAX_AFD_GROUP_SIZE, MaxGroup,
    Msg, MsgLen, Buffer, MaxIn, MaxBytes

\* What tasks sleep on and what they are told apart by: no task, operation,
\* OVERLAPPED or pair is taken for another thing, or for nothing at all.
\* A message is not empty, and the kernel buffers at least one byte.
ASSUME WaitingAssumption ==
    /\ None \notin Task \cup Op \cup Lpo \cup Msg \cup {Monitor} /\ Monitor \notin Task
    /\ \A x \in Fd \cup Sock, y \in {"read_task", "write_task", "READ", "WRITE", "PROC"} :
           <<x, y>> # None /\ <<x, y>> \notin Lpo
    /\ None \notin [sock : Sock, flags : SUBSET {"read_task", "write_task"}, group : Nat,
                    status : {"pending", "complete"}]
ASSUME SizesAssumption ==
    MsgLen \in Nat \ {0} /\ Buffer \in Nat \ {0} /\ MaxBytes \in Nat /\ MaxIn \in Nat /\ IsFiniteSet(Op)

VARIABLES
    part,    \* which of them this is
    epoll, file, waiting, behind,
    receivers, kqueue, asleep_on, vanished, fetched, guest_mode, key_error,
    afd_waiters, afd_ops, size, handles, vacant, sock, lpo, lpo_registered,
    overlapped_waiters, too_late, port, sleeping, crashed,
    kind, fd, owner, call, wire, taken, inbox, came, received, peer, shutdown, done, misused,
    flavour, outgoing, sender_closed, receiver_closed, eof, receiver_waiting, does,
    sent, got,
    mem_data,           \* _data of the in-memory streams
    epoll_registered    \* EpollIOManager._registered

InGuestMode == INSTANCE Deadlines WITH Guest <- TRUE, MinPrune <- 0
Epoll       == INSTANCE EpollIO WITH registered <- epoll_registered
Kqueue      == INSTANCE KqueueIO
Windows     == INSTANCE WindowsIO
Bytes       == INSTANCE ByteStream
Memory      == INSTANCE MemoryStreams WITH data <- mem_data

epollVars  == <<epoll_registered, epoll, file, waiting, behind>>
kqueueVars == <<receivers, kqueue, asleep_on, vanished, fetched, guest_mode, key_error>>
winVars    == <<afd_waiters, afd_ops, size, handles, vacant, sock, lpo, lpo_registered,
                overlapped_waiters, too_late, port, sleeping, crashed>>
byteVars   == <<kind, fd, owner, call, wire, taken, inbox, came, received, peer, shutdown, done, misused>>
memVars    == <<flavour, mem_data, outgoing, sender_closed, receiver_closed, eof, receiver_waiting, does,
                sent, got>>
Managers   == <<epollVars, kqueueVars, winVars>>
Streams    == <<byteVars, memVars, channelVars>>
MCVars     == <<deadlineVars, Managers, Streams, part>>

MCInit ==
    /\ part \in {"run", "guest", "epoll", "kqueue", "afd", "overlapped", "bytes", "memory",
                "channel"}
    /\ DeadlinesInit /\ ChannelInit /\ Epoll!EpollInit /\ Kqueue!KqueueInit /\ Windows!WindowsInit
    /\ Bytes!ByteInit /\ Memory!MemoryInit
    /\ part # "bytes" => kind = "FdStream"
    /\ created = {CHOOSE h \in SendHandle : TRUE, CHOOSE h \in ReceiveHandle : TRUE}
    /\ part # "channel" => max_buffer_size = 0
    /\ part # "memory" => flavour = "memory"
    /\ part # "kqueue" => ~guest_mode

MCNext ==
    /\ UNCHANGED part
    /\ \/ part = "run" /\ DeadlinesNext /\ UNCHANGED <<Managers, Streams>>
       \/ part = "guest" /\ InGuestMode!DeadlinesNext /\ UNCHANGED <<Managers, Streams>>
       \/ /\ part = "epoll" /\ Epoll!EpollNext
          /\ UNCHANGED <<deadlineVars, kqueueVars, winVars, Streams>>
       \/ /\ part = "kqueue" /\ Kqueue!KqueueNext
          /\ UNCHANGED <<deadlineVars, epollVars, winVars, Streams>>
       \/ /\ part = "afd" /\ ~crashed /\ Windows!AFDNext
          /\ UNCHANGED <<deadlineVars, epollVars, kqueueVars, Streams>>
       \/ /\ part = "overlapped" /\ ~crashed /\ Windows!OverlappedNext
          /\ UNCHANGED <<deadlineVars, epollVars, kqueueVars, Streams>>
       \/ /\ part = "bytes" /\ Bytes!ByteNext
          /\ UNCHANGED <<deadlineVars, Managers, memVars, channelVars>>
       \/ /\ part = "memory" /\ (Memory!LockstepNext \/ Memory!MemoryNext)
          /\ UNCHANGED <<deadlineVars, Managers, byteVars, channelVars>>
       \/ /\ part = "channel" /\ ChannelNext
          /\ UNCHANGED <<deadlineVars, Managers, byteVars, memVars>>

MCSpec == MCInit /\ [][MCNext]_MCVars

(***************************************************************************)
(* No I/O manager forgets a waiter, whichever order tasks come, go, are    *)
(* cancelled and woken in and descriptors are closed in: what a task       *)
(* sleeps on, what the manager has on record and what the kernel was asked *)
(* for agree (epoll's flags, kqueue's events, the one current AFD poll of  *)
(* a socket), so that every event finds its tasks and every task its event *)
(***************************************************************************)
NoWaiterForgotten ==
    Epoll!EpollForgetsNobody /\ Kqueue!KqueueInStep /\ Windows!PollsCoverWaiters

(***************************************************************************)
(* The TrioInternalError "Did you forget to call register_with_iocp()?"    *)
(* accuses nobody wrongly, and whoever sleeps on a registered handle is    *)
(* going to be woken, however late the cancellation was.                   *)
(***************************************************************************)
LateCancelIsRight == Windows!LateCancelIsRight

(***************************************************************************)
(* Messages never mix on the wire of an FdStream or SocketStream and lose  *)
(* nothing, however sends block half way and are cancelled.                *)
(***************************************************************************)
MessagesDoNotMix == Bytes!MessagesDoNotMix

(***************************************************************************)
(* After close() nobody sleeps on the stream, and no task that was in a    *)
(* call touches the file that has got its number meanwhile.                *)
(***************************************************************************)
ClosedIsClosed == Bytes!ClosedIsClosed

(***************************************************************************)
(* No wakeup is lost in the in-memory streams of trio.testing: a task that *)
(* is parked has nothing to do yet.                                        *)
(***************************************************************************)
NobodyParkedForNothing == Memory!NobodyParkedForNothing

(***************************************************************************)
(* "The solution is to spread our sockets out over multiple AFD handles":  *)
(* a handle is added when the sockets waited for fill those there are.     *)
(***************************************************************************)
HandlesInProportion == Windows!HandlesInProportion

(***************************************************************************)
(* Kqueue never returns an event that nobody is registered for, whoever    *)
(* cancels a task that waits for it and when.                              *)
(***************************************************************************)
EveryEventHasAReceiver == Kqueue!EveryEventHasAReceiver
================================================================================
