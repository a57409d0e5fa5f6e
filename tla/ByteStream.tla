----------------------------- MODULE ByteStream -----------------------------
(***************************************************************************)
(* FdStream of trio/_unix_pipes.py and SocketStream of                     *)
(* trio/_highlevel_socket.py over _nonblocking_helper of trio/_socket.py:  *)
(* tasks that send, receive, half close and close one stream.  A byte is   *)
(* <<message, position>>; the kernel holds at most Buffer bytes each way;  *)
(* Msg is the set of messages ever sent, MsgLen their length, MaxIn how    *)
(* many bytes the peer sends.                                              *)
(***************************************************************************)
EXTENDS Integers, Sequences, FiniteSets, SequencesExt

CONSTANTS Task, None, Msg, MsgLen, Buffer, MaxIn

VARIABLES
    kind,       \* "FdStream" or "SocketStream"
    fd,         \* the number the stream holds, or -1
    owner,      \* whose file that number is: "ours", "free" or "other"
    call,       \* each task's call: [op, msg, sent, at], or None
    wire,       \* bytes written, in order
    taken,      \* how many of them the peer has read
    inbox,      \* bytes from the peer that were not read yet
    came,       \* bytes the peer has sent
    received,   \* bytes read, in order
    peer,       \* "open", or "gone" (it has closed its end)
    shutdown,   \* did_shutdown_SHUT_WR
    done,       \* messages whose send_all has returned
    misused     \* a system call was made on another's file

byteVars == <<kind, fd, owner, call, wire, taken, inbox, came, received, peer, shutdown, done, misused>>
wireVars == <<wire, taken, inbox, came, received, peer>>

ByteInit ==
    /\ kind \in {"FdStream", "SocketStream"}
    /\ fd = 1 /\ owner = "ours" /\ call = [t \in Task |-> None]
    /\ wire = <<>> /\ taken = 0 /\ inbox = <<>> /\ came = 0 /\ received = <<>> /\ peer = "open"
    /\ shutdown = FALSE /\ done = {} /\ misused = FALSE

\* wait_writable: wait_send_all_might_not_block()
SendOps == {"send_all", "send_eof", "wait_writable"}

\* A plausible bug: no ConflictDetector around send_all.
SendingUnnoticed == {}

\* Who is inside the ConflictDetectors
Sending == {t \in Task : call[t] # None /\ call[t].op \in SendOps}
Receiving == {t \in Task : call[t] # None /\ call[t].op = "receive_some"}
Asleep(op) == {t \in Task : call[t] # None /\ call[t].op = op /\ call[t].at = "wait"}
Used(m) == m \in done \/ (\E i \in 1 .. Len(wire) : wire[i][1] = m) \/ \E t \in Task : call[t] # None /\ call[t].msg = m

\* Start of a call, up to its first checkpoint.  The ConflictDetectors: one
\* sender (send_eof and wait_writable are too); one receiver for FdStream only
Start(t, op, m) ==
    /\ call[t] = None
    /\ op \in SendOps => Sending = {}
    /\ op = "receive_some" /\ kind = "FdStream" => Receiving = {}
    /\ op = "send_all" => ~shutdown /\ (kind = "FdStream" => fd # -1) /\ m # None /\ ~Used(m)
    /\ op # "send_all" => m = None
    /\ op = "send_eof" => kind = "SocketStream"
    /\ op = "wait_writable" => fd # -1
    /\ call' = [call EXCEPT ![t] = [op |-> op, msg |-> m, sent |-> 0,
                                    at |-> IF op = "wait_writable" THEN "wait" ELSE "yield"]]
    /\ UNCHANGED <<kind, fd, owner, wireVars, shutdown, done, misused>>

Misuse == misused' = (misused \/ (fd # -1 /\ owner = "other"))

\* The call goes on after a checkpoint or a wait: it writes what the kernel
\* takes (FdStream goes on to the end; each send of SocketStream is followed
\* by a checkpoint), sleeps if that is nothing, and returns or raises
ResumeSend(t) ==
    /\ call[t] # None /\ call[t].op = "send_all" /\ call[t].at \in {"yield", "run"}
    /\ Misuse
    /\ LET c == call[t]
           space == Buffer - (Len(wire) - taken)
           left == MsgLen - c.sent
           least == IF space < left THEN space ELSE left
       IN IF fd = -1 \/ owner # "ours" \/ peer = "gone"
          THEN call' = [call EXCEPT ![t] = None] /\ UNCHANGED <<wire, done>>
          ELSE \E n \in IF kind = "FdStream" \/ least = 0 THEN {least} ELSE 1 .. least :
                 /\ wire' = wire \o [i \in 1 .. n |-> <<c.msg, c.sent + i>>]
                 /\ IF n = left
                    THEN done' = done \cup {c.msg} /\ call' = [call EXCEPT ![t] = None]
                    ELSE /\ UNCHANGED done
                         /\ call' = [call EXCEPT ![t] = [c EXCEPT !.sent = @ + n,
                               !.at = IF n = space /\ (kind = "FdStream" \/ n = 0) THEN "wait" ELSE "yield"]]
    /\ UNCHANGED <<kind, fd, owner, taken, inbox, came, received, peer, shutdown>>

ResumeReceive(t) ==
    /\ call[t] # None /\ call[t].op = "receive_some" /\ call[t].at \in {"yield", "run"}
    /\ Misuse
    /\ IF fd = -1 \/ owner # "ours" \/ (inbox = <<>> /\ peer = "gone")
       THEN call' = [call EXCEPT ![t] = None] /\ UNCHANGED <<inbox, received>>
       ELSE IF inbox = <<>>
       THEN /\ Asleep("receive_some") = {} \* otherwise wait_readable raises BusyResourceError
            /\ call' = [call EXCEPT ![t].at = "wait"] /\ UNCHANGED <<inbox, received>>
       ELSE \E n \in 1 .. Len(inbox) :
            /\ received' = received \o SubSeq(inbox, 1, n) /\ inbox' = SubSeq(inbox, n + 1, Len(inbox))
            /\ call' = [call EXCEPT ![t] = None]
    /\ UNCHANGED <<kind, fd, owner, wire, taken, came, peer, shutdown, done>>

ResumeBusy(t) ==
    /\ call[t] # None /\ call[t].op = "receive_some" /\ call[t].at \in {"yield", "run"}
    /\ fd # -1 /\ inbox = <<>> /\ peer = "open" /\ Asleep("receive_some") # {}
    /\ Misuse /\ call' = [call EXCEPT ![t] = None]
    /\ UNCHANGED <<kind, fd, owner, wireVars, shutdown, done>>

ResumeEof(t) ==
    /\ call[t] # None /\ call[t].op = "send_eof" /\ Misuse
    /\ shutdown' = (shutdown \/ fd # -1)
    /\ call' = [call EXCEPT ![t] = None]
    /\ UNCHANGED <<kind, fd, owner, wireVars, done>>

\* wait_writable or wait_readable returns
Ready(t) ==
    /\ call[t] # None /\ call[t].at = "wait"
    /\ IF call[t].op \in SendOps THEN Len(wire) - taken < Buffer \/ peer = "gone"
                               ELSE inbox # <<>> \/ peer = "gone"
    /\ call' = [call EXCEPT ![t] = IF call[t].op = "wait_writable" THEN None ELSE [@ EXCEPT !.at = "run"]]
    /\ UNCHANGED <<kind, fd, owner, wireVars, shutdown, done, misused>>

CancelCall(t) ==
    /\ call[t] # None /\ call[t].at \in {"yield", "wait"}
    /\ call' = [call EXCEPT ![t] = None]
    /\ UNCHANGED <<kind, fd, owner, wireVars, shutdown, done, misused>>

\* A plausible bug: close() does not forget the number.
CloseKeepsNumber ==
    /\ fd # -1 /\ owner = "ours" /\ owner' = "free"
    /\ call' = [t \in Task |-> IF call[t] # None /\ call[t].at = "wait" THEN None ELSE call[t]]
    /\ UNCHANGED <<kind, fd, wireVars, shutdown, done, misused>>

\* close(): notify_closing wakes the sleepers with a ClosedResourceError, the
\* number is forgotten, and the file is closed
Close ==
    /\ fd # -1 /\ fd' = -1 /\ owner' = "free"
    /\ call' = [t \in Task |-> IF call[t] # None /\ call[t].at = "wait" THEN None ELSE call[t]]
    /\ UNCHANGED <<kind, wireVars, shutdown, done, misused>>

\* The number is given to a file that somebody else opens
Reuse ==
    /\ owner = "free" /\ owner' = "other"
    /\ UNCHANGED <<kind, fd, call, wireVars, shutdown, done, misused>>

\* The peer reads, writes or goes
Peer ==
    /\ peer = "open"
    /\ \/ /\ taken < Len(wire) /\ \E n \in taken + 1 .. Len(wire) : taken' = n
          /\ UNCHANGED <<inbox, came, peer>>
       \/ /\ came < MaxIn /\ Len(inbox) < Buffer
          /\ came' = came + 1 /\ inbox' = Append(inbox, came + 1) /\ UNCHANGED <<taken, peer>>
       \/ peer' = "gone" /\ UNCHANGED <<taken, inbox, came>>
    /\ UNCHANGED <<kind, fd, owner, call, wire, received, shutdown, done, misused>>

ByteNext ==
    \/ \E t \in Task : \/ ResumeSend(t) \/ ResumeReceive(t) \/ ResumeBusy(t) \/ ResumeEof(t)
                       \/ Ready(t) \/ CancelCall(t)
                       \/ \E op \in SendOps \cup {"receive_some"}, m \in Msg \cup {None} : Start(t, op, m)
    \/ Close \/ Reuse \/ Peer
----------------------------------------------------------------------------
\* Messages never mix on the wire and lose nothing: each appears as an
\* unbroken run of its bytes from the first on, whole if its send_all returned,
\* however sends block half way and are cancelled; what is read is what came.
MessagesDoNotMix ==
    /\ \A i \in 1 .. Len(wire) : \/ wire[i][2] = 1
                                 \/ i > 1 /\ wire[i - 1] = <<wire[i][1], wire[i][2] - 1>>
    /\ \A m \in done : \E i \in 1 .. Len(wire) : wire[i] = <<m, MsgLen>>
    /\ received \o inbox = [i \in 1 .. came |-> i]

\* After close() nobody sleeps on the stream, and no task that was in a call
\* touches the file that has got its number meanwhile.
ClosedIsClosed == ~misused /\ (fd = -1 => \A t \in Task : call[t] # None => call[t].at # "wait")
=============================================================================
