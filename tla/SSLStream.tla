----------------------------- MODULE SSLStream -----------------------------
(***************************************************************************)
(* trio/_ssl.py: SSLStream over a transport stream, and the _Once that     *)
(* makes the first user do the handshake.                                  *)
(*                                                                         *)
(* Tasks run one at a time and switch only at checkpoints: `running` names *)
(* the task in the middle of an await-free stretch, and nothing else moves *)
(* until it reaches its next await.  The records OpenSSL puts into the     *)
(* outgoing BIO are numbered in the order it makes them, so that the wire  *)
(* can be compared with it; what the peer sends is a message of Message.   *)
(***************************************************************************)
EXTENDS Naturals, Sequences, SequencesExt, FiniteSets

CONSTANTS
    Task,       \* the tasks that use the stream
    None,       \* no task
    Uses,       \* the operations that each task calls
    MaxCalls,   \* bound on the calls made to the stream
    MaxPeer     \* bound on the messages the peer sends

\* hello: a handshake message (a renegotiation's answer too); reneg: the
\* peer asks for a renegotiation; close: close_notify; bad: a forged record;
\* eof: it closed its side
Message == {"hello", "reneg", "data", "close", "bad", "eof"}

Op == {"do_handshake", "receive_some", "send_all", "unwrap", "aclose", "wait_writable"}

VARIABLES
    conf,       \* server_side (with TLS 1.3) and https_compatible
    state,      \* _state: "OK", "BROKEN" or "CLOSED"
    once,       \* _handshook: "no", "started" or "done"
    task,       \* what each task does, see Idle
    running,    \* the task in an await-free stretch, or None
    sendq,      \* _inner_send_lock: its owner, then those waiting in line
    recvq,      \* _inner_recv_lock, likewise
    recvcount,  \* _inner_recv_count
    delayed,    \* _delayed_outgoing
    sender,     \* the task inside _outer_send_conflict_detector, or None
    receiver,   \* the task inside _outer_recv_conflict_detector, or None
    incoming,   \* the messages in the incoming BIO
    eof,        \* write_eof() was called on it
    ssl,        \* the SSLObject: its phase, and whether it has sent close_notify
    made,       \* the number of records put into the outgoing BIO
    wire,       \* the records handed to transport_stream.send_all
    transport,  \* "open", "closed" or "unwrapped"
    peer,       \* the last message of the peer, or "none"
    sent,       \* the number of messages the peer has sent
    calls,      \* the number of calls made to the stream
    dropped     \* records of a task cancelled while in line for the send lock

sslVars == <<conf, state, once, task, running, sendq, recvq, recvcount, delayed, sender, receiver,
             incoming, eof, ssl, made, wire, transport, peer, sent, calls, dropped>>

\* pc: idle, once (waiting in _Once.ensure), call (at the head of _retry's
\* loop), send_line, sending, recv_line, receiving, yield (the checkpoint
\* at the end of _retry), line (for the lock in wait_send_all_might_not_block),
\* writable, closing (transport_stream.aclose), checkpoint
Idle == [pc |-> "idle", op |-> "none", fn |-> "none", out |-> <<>>, seen |-> 0, fin |-> FALSE]

SSLInit ==
    /\ conf \in [server : BOOLEAN, https : BOOLEAN]
    /\ state = "OK" /\ once = "no" /\ transport = "open"
    /\ task = [t \in Task |-> Idle] /\ running = None
    /\ sendq = <<>> /\ recvq = <<>> /\ recvcount = 0 /\ delayed = <<>>
    /\ sender = None /\ receiver = None
    /\ incoming = <<>> /\ eof = FALSE
    /\ ssl = [phase |-> "start", shut |-> FALSE]
    /\ made = 0 /\ wire = <<>> /\ dropped = {}
    /\ peer = "none" /\ sent = 0 /\ calls = 0

(***************************************************************************)
(* ssl.SSLObject, as _retry uses it: a call returns ("done"), raises       *)
(* SSLWantReadError ("want") or another SSLError ("error"); it makes       *)
(* `emit` records and uses up `used` messages.  The write of a             *)
(* renegotiating connection needs the peer's answer first.                 *)
(***************************************************************************)
Got(m) == incoming # <<>> /\ Head(incoming) = m
Starved == incoming = <<>> /\ ~eof
Outcome(ret, emit, phase, used) == [ret |-> ret, emit |-> emit, phase |-> phase, used |-> used]
Nothing(ret) == Outcome(ret, 0, ssl.phase, 0)

HandshakeCall ==
    CASE ssl.phase = "start" /\ ~conf.server -> Outcome("want", 1, "await", 0)
      [] ssl.phase = "start" /\ conf.server /\ Got("hello") -> Outcome("want", 1, "await", 1)
      [] ssl.phase = "await" /\ Got("hello") -> Outcome("done", 1, "ready", 1)
      [] (ssl.phase = "start" => conf.server) /\ Starved -> Nothing("want")
      [] OTHER -> Nothing("error")

ReadCall ==
    CASE ssl.phase = "ready" /\ Got("data") -> Outcome("done", 0, "ready", 1)
      [] ssl.phase = "ready" /\ Got("reneg") -> Outcome("want", 1, "reneg", 1)
      [] ssl.phase = "reneg" /\ Got("hello") -> Outcome("want", 1, "ready", 1)
      [] Got("close") -> Nothing("done")
      [] Starved -> Nothing("want")
      [] OTHER -> Nothing("error")

WriteCall ==
    CASE ~ssl.shut /\ ssl.phase = "ready" -> Outcome("done", 1, "ready", 0)
      [] ~ssl.shut /\ ssl.phase # "ready" /\ Got("hello") -> Outcome("done", 1, "ready", 1)
      [] ~ssl.shut /\ ssl.phase # "ready" /\ Starved -> Nothing("want")
      [] OTHER -> Nothing("error")

UnwrapCall ==
    LET notify == IF ssl.shut THEN 0 ELSE 1 IN
    CASE ssl.phase = "ready" /\ Got("close") -> Outcome("done", notify, "ready", 1)
      [] ssl.phase = "ready" /\ Starved -> Outcome("want", notify, "ready", 0)
      [] OTHER -> Nothing("error")

SslCall(f) ==
    CASE f = "handshake" -> HandshakeCall
      [] f = "read" -> ReadCall
      [] f = "write" -> WriteCall
      [] f = "unwrap" -> UnwrapCall

(***************************************************************************)
(* The ends of a call.  Leave puts a task out of the locks and conflict    *)
(* detectors it is in, as the `with` blocks do whatever way it leaves.     *)
(***************************************************************************)
\* StrictFIFOLock and Lock hand themselves to the first in line
Granted(q, table, from, to) ==
    IF q # <<>> /\ table[Head(q)].pc = from
    THEN [table EXCEPT ![Head(q)].pc = to] ELSE table

GrantSend(q, table) == Granted(q, Granted(q, table, "send_line", "sending"), "line", "writable")

LeaveDetectors(t) ==
    /\ sender' = IF sender = t THEN None ELSE sender
    /\ receiver' = IF receiver = t THEN None ELSE receiver

\* Everything of the locks after t is out of them and its record is r
LeaveLocks(t, r) ==
    LET sq == RemoveFirst(sendq, t) rq == RemoveFirst(recvq, t) IN
    /\ sendq' = sq /\ recvq' = rq
    /\ task' = Granted(rq, GrantSend(sq, [task EXCEPT ![t] = r]), "recv_line", "receiving")

Broken(s, is) == IF is THEN "BROKEN" ELSE s

\* transport_stream is None once unwrap() has given it away
TransportClosed == IF transport = "unwrapped" THEN transport ELSE "closed"

\* The last await of an aclose() that has come through fn
Closing(fn) == [Idle EXCEPT !.pc = "closing", !.op = "aclose", !.fn = fn]

\* An exception leaves _retry or _Once.ensure: "broken" is a
\* BrokenResourceError.  A failed handshake leaves the stream broken and
\* _done unset; aclose() swallows a BrokenResourceError of its close_notify
\* and turns anything else into aclose_forcefully().
Raise(t, kind, breaks) ==
    LET me == task[t]
        closing == me.op = "aclose"
        graceful == kind = "broken" /\ me.fn = "unwrap"
    IN /\ LeaveLocks(t, IF closing THEN Closing("unwrap") ELSE Idle)
       /\ state' = Broken(state, breaks \/ me.fn = "handshake")
       /\ transport' = IF closing /\ ~graceful THEN TransportClosed ELSE transport
       /\ LeaveDetectors(t)
       /\ running' = None

Fail(t, kind, breaks) ==
    /\ Raise(t, kind, breaks)
    /\ UNCHANGED <<conf, once, recvcount, incoming, eof, ssl, made, wire, peer, sent, calls>>

(***************************************************************************)
(* The operations up to their first await.                                 *)
(***************************************************************************)
Main(o) ==
    CASE o = "receive_some" -> "read" [] o = "send_all" -> "write"
      [] o \in {"unwrap", "aclose"} -> "unwrap" [] OTHER -> "none"

UsesSend(o) == o \in {"send_all", "unwrap", "wait_writable"}
UsesRecv(o) == o \in {"receive_some", "unwrap"}

\* _check_status passes, and the conflict detectors are free (a call that
\* fails here raises at once and changes nothing)
Admitted(o) ==
    /\ UsesSend(o) => sender = None
    /\ UsesRecv(o) => receiver = None
    /\ o # "aclose" => state = "OK"

\* _Once.ensure: the first caller does the handshake, later ones wait for
\* the _done event
EnsureHandshake(t, o) ==
    /\ once' = IF once = "no" THEN "started" ELSE once
    /\ LET go(pc, fn) == task' = [task EXCEPT ![t] = [Idle EXCEPT !.pc = pc, !.op = o, !.fn = fn]]
       IN \/ once = "no" /\ go("call", "handshake") /\ running' = t
          \/ once = "done" /\ o # "do_handshake" /\ go("call", Main(o)) /\ running' = t
          \/ once = "done" /\ o = "do_handshake" /\ go("checkpoint", "none") /\ running' = None
          \/ once = "started" /\ go("once", "none") /\ running' = None

\* do_handshake(), receive_some(), send_all() and unwrap()
Start(t, o) ==
    /\ o \in Uses[t] \cap {"do_handshake", "receive_some", "send_all", "unwrap"} /\ Admitted(o)
    /\ running = None /\ task[t].pc = "idle" /\ calls < MaxCalls
    /\ calls' = calls + 1
    /\ sender' = IF UsesSend(o) THEN t ELSE sender
    /\ receiver' = IF UsesRecv(o) THEN t ELSE receiver
    /\ EnsureHandshake(t, o)
    /\ UNCHANGED <<conf, state, sendq, recvq, recvcount, delayed, incoming, eof, ssl, made, wire,
                   transport, peer, sent, dropped>>

\* aclose(): a closed stream only executes a checkpoint, a broken or
\* https_compatible one closes its transport at once
AClose(t) ==
    /\ "aclose" \in Uses[t] /\ running = None /\ task[t].pc = "idle" /\ calls < MaxCalls
    /\ state # "CLOSED"
    /\ calls' = calls + 1
    /\ \/ /\ state = "BROKEN" \/ conf.https
          /\ state' = "CLOSED"
          /\ task' = [task EXCEPT ![t] = Closing("none")]
          /\ UNCHANGED <<once, running>>
       \/ /\ state = "OK" /\ ~conf.https
          /\ EnsureHandshake(t, "aclose")
          /\ UNCHANGED state
    /\ UNCHANGED <<conf, sendq, recvq, recvcount, delayed, sender, receiver, incoming, eof, ssl, made,
                   wire, transport, peer, sent, dropped>>

\* wait_send_all_might_not_block(): the send lock, but no handshake
WaitWritable(t) ==
    /\ "wait_writable" \in Uses[t] /\ Admitted("wait_writable")
    /\ running = None /\ task[t].pc = "idle" /\ calls < MaxCalls
    /\ calls' = calls + 1 /\ sender' = t
    /\ sendq' = Append(sendq, t)
    /\ task' = GrantSend(sendq', [task EXCEPT ![t] =
                   [Idle EXCEPT !.pc = "line", !.op = "wait_writable"]])
    /\ UNCHANGED <<conf, state, once, running, recvq, recvcount, delayed, receiver, incoming, eof, ssl,
                   made, wire, transport, peer, sent, dropped>>

\* The task was woken after _done.set(); do_handshake() is over then
HandshakeAwaited(t) ==
    /\ running = None /\ task[t].pc = "once" /\ once = "done"
    /\ LET o == task[t].op
           next == IF o = "do_handshake" THEN Idle
                   ELSE [Idle EXCEPT !.pc = "call", !.op = o, !.fn = Main(o)]
       IN /\ task' = [task EXCEPT ![t] = next]
          /\ running' = IF o = "do_handshake" THEN None ELSE t
    /\ UNCHANGED <<conf, state, once, sendq, recvq, recvcount, delayed, sender, receiver, incoming, eof,
                   ssl, made, wire, transport, peer, sent, calls, dropped>>

(***************************************************************************)
(* The loop of _retry.                                                     *)
(***************************************************************************)
NewRecords(n) == [i \in 1 .. n |-> made + i]

\* A plausible bug: aclose() waits for the peer's close_notify.
FinishedByPeer(t, r) == r.ret = "done"

\* ignore_want_read=True is what aclose() asks for
Finished(t, r) == r.ret = "done" \/ (task[t].op = "aclose" /\ task[t].fn = "unwrap")

\* Who the lock goes to, once t has joined the line
JoinSend(t, me) ==
    /\ sendq' = Append(sendq, t)
    /\ task' = GrantSend(sendq', [task EXCEPT ![t] = [me EXCEPT !.pc = "send_line"]])
    /\ UNCHANGED recvq

JoinRecv(t, me) ==
    /\ recvq' = Append(recvq, t)
    /\ task' = Granted(recvq', [task EXCEPT ![t] = [me EXCEPT !.pc = "recv_line", !.seen = recvcount]],
                       "recv_line", "receiving")
    /\ UNCHANGED sendq

\* One turn of the loop: call the SSLObject, take what it has to send, and
\* get in line for the one thing that moves the call forward: sending if
\* there is anything to send, otherwise receiving if it wants to read.
Retry(t) ==
    LET me == task[t]
        r == SslCall(me.fn)
        fin == Finished(t, r)
        ticket == me.fn = "handshake" /\ r.ret = "done" /\ conf.server
        out == IF ticket THEN <<>> ELSE NewRecords(r.emit)
    IN /\ running = t /\ me.pc = "call" /\ r.ret # "error"
       /\ ssl' = [phase |-> r.phase, shut |-> ssl.shut \/ (me.fn = "unwrap" /\ r.emit > 0)]
       /\ incoming' = SubSeq(incoming, r.used + 1, Len(incoming))
       /\ made' = made + r.emit
       /\ delayed' = IF ticket THEN NewRecords(r.emit) ELSE delayed
       /\ LET mine == [me EXCEPT !.out = out, !.fin = fin] IN
          \/ out # <<>> /\ JoinSend(t, mine)
          \/ out = <<>> /\ ~fin /\ JoinRecv(t, mine)
          \/ /\ out = <<>> /\ fin
             /\ task' = [task EXCEPT ![t] = [mine EXCEPT !.pc = "yield"]]
             /\ UNCHANGED <<sendq, recvq>>
       /\ running' = None
       /\ UNCHANGED <<conf, state, once, recvcount, sender, receiver, eof, wire, transport, peer, sent,
                      calls, dropped>>

\* ... which raises an SSLError: the stream is broken.  An https_compatible
\* receive_some() makes an empty read of it, which changes nothing else.
RetryFails(t) ==
    LET r == SslCall(task[t].fn) IN
    /\ running = t /\ task[t].pc = "call" /\ r.ret = "error"
    /\ Raise(t, "broken", TRUE)
    /\ ssl' = [ssl EXCEPT !.shut = ssl.shut \/ task[t].fn = "unwrap"]
    /\ UNCHANGED <<conf, once, recvcount, delayed, incoming, eof, made, wire, peer, sent, calls, dropped>>

\* The rest of a call whose _retry has returned, up to its next await
AfterRetry(t, sq, rq, table) ==
    LET o == task[t].op
        done == task[t].fn # "handshake" \/ o = "do_handshake"
        put(r) == Granted(rq, GrantSend(sq, [table EXCEPT ![t] = r]), "recv_line", "receiving")
    IN /\ once' = IF task[t].fn = "handshake" THEN "done" ELSE once
       /\ sendq' = sq /\ recvq' = rq
       /\ \/ /\ ~done
             /\ task' = put([Idle EXCEPT !.pc = "call", !.op = o, !.fn = Main(o)])
             /\ running' = t
             /\ UNCHANGED <<sender, receiver, state, transport>>
          \/ /\ done /\ o = "aclose"
             /\ task' = put(Closing("unwrap"))
             /\ running' = None
             /\ UNCHANGED <<sender, receiver, state, transport>>
          \/ /\ done /\ o # "aclose"
             /\ task' = put(Idle) /\ running' = None
             /\ LeaveDetectors(t)
             /\ state' = IF o = "unwrap" THEN "CLOSED" ELSE state
             /\ transport' = IF o = "unwrap" /\ transport = "open" THEN "unwrapped" ELSE transport

\* A plausible bug: the session tickets held back go out after newer records.
DelayedLast(t) == task[t].out \o delayed

\* What goes out when t has the lock
Outgoing(t) == delayed \o task[t].out

\* transport_stream.send_all returns: the records, the delayed ones first,
\* are on the wire, the lock goes to the next in line
SendDone(t) ==
    /\ running = None /\ task[t].pc = "sending" /\ transport = "open"
    /\ wire' = wire \o Outgoing(t)
    /\ delayed' = <<>>
    /\ \/ task[t].fin /\ AfterRetry(t, RemoveFirst(sendq, t), recvq, task)
       \/ /\ ~task[t].fin
          /\ sendq' = RemoveFirst(sendq, t)
          /\ task' = GrantSend(sendq', [task EXCEPT ![t].pc = "call", ![t].out = <<>>])
          /\ running' = t
          /\ UNCHANGED <<once, recvq, sender, receiver, state, transport>>
    /\ UNCHANGED <<conf, recvcount, incoming, eof, ssl, made, peer, sent, calls, dropped>>

\* What the peer, a TLS implementation, can say next: it answers handshake
\* messages, may ask for a renegotiation, sends data, garbage and
\* close_notify, and closes its side
PeerMaySend(m) ==
    /\ sent < MaxPeer
    /\ peer = "eof" => m = "eof"
    /\ peer = "close" => m = "eof"
    /\ m = "hello" => Len(wire) > 0 \/ (conf.server /\ sent = 0)
    /\ m \in {"data", "reneg", "close"} => ssl.phase # "start"

Received(t) ==
    /\ recvq' = RemoveFirst(recvq, t)
    /\ task' = Granted(recvq', [task EXCEPT ![t].pc = "call"], "recv_line", "receiving")
    /\ running' = t
    /\ UNCHANGED <<conf, state, once, sendq, delayed, sender, receiver, ssl, made, wire, transport,
                   calls, dropped>>

\* A plausible bug: _inner_recv_count is not looked at again with the lock.
NeverStale(t) == FALSE

\* Someone has received since the SSLObject was asked
Stale(t) == task[t].seen # recvcount

\* The lock for receiving is ours: transport_stream.receive_some returns
\* a message of the peer, or b"" at its end
ReceiveDone(t, m) ==
    /\ running = None /\ task[t].pc = "receiving" /\ transport = "open"
    /\ ~Stale(t)
    /\ PeerMaySend(m) /\ peer' = m /\ sent' = sent + 1
    /\ eof' = (m = "eof")
    /\ incoming' = IF m = "eof" THEN incoming ELSE Append(incoming, m)
    /\ recvcount' = recvcount + 1
    /\ Received(t)

\* ... unless someone has received since the SSLObject was asked
ReceiveSkipped(t) ==
    /\ running = None /\ task[t].pc = "receiving"
    /\ Stale(t)
    /\ Received(t)
    /\ UNCHANGED <<recvcount, incoming, eof, peer, sent>>

\* cancel_shielded_checkpoint() at the end of _retry, and the checkpoint of
\* a do_handshake() that has nothing to do
Yielded(t) ==
    /\ running = None /\ task[t].pc \in {"yield", "checkpoint"}
    /\ IF task[t].pc = "yield" THEN AfterRetry(t, sendq, recvq, task)
       ELSE /\ task' = [task EXCEPT ![t] = Idle]
            /\ UNCHANGED <<once, sendq, recvq, running, sender, receiver, state, transport>>
    /\ UNCHANGED <<conf, recvcount, delayed, incoming, eof, ssl, made, wire, peer, sent, calls, dropped>>

\* transport_stream.wait_send_all_might_not_block() returns
Writable(t) ==
    /\ running = None /\ task[t].pc = "writable" /\ transport = "open"
    /\ LeaveLocks(t, Idle) /\ LeaveDetectors(t)
    /\ UNCHANGED <<conf, state, once, running, recvcount, delayed, incoming, eof, ssl, made, wire,
                   transport, peer, sent, calls, dropped>>

\* transport_stream.aclose() is over, by whichever way, and so is aclose();
\* its `finally` is only on the way through the close_notify
Closed(t) ==
    /\ running = None /\ task[t].pc = "closing"
    /\ task' = [task EXCEPT ![t] = Idle]
    /\ transport' = TransportClosed
    /\ state' = IF task[t].fn = "unwrap" THEN "CLOSED" ELSE state
    /\ UNCHANGED <<conf, once, running, sendq, recvq, recvcount, delayed, sender, receiver, incoming, eof,
                   ssl, made, wire, peer, sent, calls, dropped>>

\* The transport fails, or was closed under the task: only an exception out
\* of send_all breaks the stream
TransportFails(t, kind) ==
    /\ running = None /\ task[t].pc \in {"sending", "receiving", "writable"}
    /\ kind = IF transport = "open" THEN "broken" ELSE "closed"
    /\ delayed' = IF task[t].pc = "sending" THEN <<>> ELSE delayed
    /\ dropped' = dropped
    /\ Fail(t, kind, task[t].pc = "sending")

\* Cancelled at a checkpoint.  In line for the send lock the exception is
\* raised outside of the `try` that marks the stream broken.
Cancel(t) ==
    /\ running = None
    /\ task[t].pc \in {"once", "send_line", "sending", "recv_line", "receiving", "line",
                       "writable", "checkpoint"}
    /\ delayed' = IF task[t].pc = "sending" THEN <<>> ELSE delayed
    /\ dropped' = IF task[t].pc = "send_line" THEN dropped \cup ToSet(task[t].out) ELSE dropped
    /\ Fail(t, "cancelled", task[t].pc = "sending")

SSLNext ==
    \E t \in Task :
          \/ \E o \in Op : Start(t, o)
          \/ AClose(t) \/ WaitWritable(t) \/ HandshakeAwaited(t)
          \/ Retry(t) \/ RetryFails(t) \/ SendDone(t) \/ ReceiveSkipped(t) \/ Yielded(t)
          \/ \E m \in Message : ReceiveDone(t, m)
          \/ Writable(t) \/ Closed(t) \/ Cancel(t)
          \/ \E kind \in {"broken", "closed"} : TransportFails(t, kind)

SSLSpec == SSLInit /\ [][SSLNext]_sslVars

\* A runnable task runs, and the peer keeps reading, so that send_all()
\* returns and the transport becomes writable.  Nothing is promised about
\* what the peer sends.
SSLFairness ==
    \A t \in Task : WF_sslVars(HandshakeAwaited(t) \/ Retry(t) \/ RetryFails(t) \/ SendDone(t)
                               \/ ReceiveSkipped(t) \/ Yielded(t) \/ Writable(t) \/ Closed(t)
                               \/ TransportFails(t, "closed"))
----------------------------------------------------------------------------
\* The stream stays coherent under concurrent calls: records reach the
\* transport in the order the SSLObject made them, none is missing from an
\* unbroken stream except those of a task cancelled in line, and no two
\* tasks are in the transport's sending methods, or in its receiving one,
\* at once (_retry's StrictFIFOLock, wait_send_all_might_not_block).
RecordsInOrder ==
    /\ \A i, j \in DOMAIN wire : i < j => wire[i] < wire[j]
    /\ state = "OK" /\ running = None =>
          \A k \in 1 .. made : \/ k \in ToSet(wire) \cup ToSet(delayed) \cup dropped
                               \/ \E t \in Task : k \in ToSet(task[t].out)
    /\ \A t, u \in Task : \A pcs \in {{"sending", "writable"}, {"receiving"}} :
          t # u => ~(task[t].pc \in pcs /\ task[u].pc \in pcs)

\* No task waits for the peer to send what another task has already
\* received for it: a call that is receiving, with the lock, could not be
\* finished by the SSLObject as it is now.
NoStaleReceive ==
    running = None => \A t \in Task :
        task[t].pc = "receiving" /\ ~Stale(t) => SslCall(task[t].fn).ret # "done"

\* aclose() does not depend on what the peer sends: once the handshake is
\* over it ends, whatever other tasks are doing with the stream.
ACloseEnds ==
    \A t \in Task : (task[t].op = "aclose" /\ task[t].fn = "unwrap") ~> (task[t].op # "aclose")

\* "If this happens then any future attempt to use the object will raise
\* BrokenResourceError" (receive_some, send_all): a stream that has lost
\* records, and that nobody is closing, says that it is broken.
LostRecordsBreakTheStream ==
    dropped # {} /\ transport = "open" /\ (\A t \in Task : task[t].op \notin {"aclose", "unwrap"})
       => state # "OK"
=============================================================================
