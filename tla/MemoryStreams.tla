--------------------------- MODULE MemoryStreams ---------------------------
(***************************************************************************)
(* The in-memory streams of trio/testing/_memory_streams.py: "lockstep" is *)
(* _LockstepByteQueue, "memory" a MemorySendStream that memory_stream_pump *)
(* connects to a MemoryReceiveStream.  Bytes are numbered in the order     *)
(* they are sent; MaxBytes bounds how many ever are.                       *)
(***************************************************************************)
EXTENDS Naturals, Sequences, FiniteSets, SequencesExt

CONSTANTS Task, None, MaxBytes

VARIABLES
    flavour,    \* "lockstep" or "memory"
    data,       \* _data: of the lockstep queue, or of the receiver's _incoming
    outgoing,   \* _data of the sender's _outgoing ("memory")
    sender_closed, receiver_closed,
    eof,        \* _incoming._closed ("memory")
    receiver_waiting,   \* _receiver_waiting ("lockstep")
    does,       \* each task's call: [op, at, last], or None; at: "park", "yield" or "ready"
    sent,       \* bytes given to send_all so far
    got         \* bytes returned by receive_some or get_data, in order

memVars == <<flavour, data, outgoing, sender_closed, receiver_closed, eof, receiver_waiting, does, sent, got>>
flags == <<flavour, sender_closed, receiver_closed, eof, receiver_waiting>>

MemoryInit ==
    /\ flavour \in {"lockstep", "memory"}
    /\ data = <<>> /\ outgoing = <<>> /\ sender_closed = FALSE /\ receiver_closed = FALSE /\ eof = FALSE
    /\ receiver_waiting = FALSE /\ does = [t \in Task |-> None]
    /\ sent = 0 /\ got = <<>>

SendSide == {"send_all", "wait_send"}
Busy(ops) == \E t \in Task : does[t] # None /\ does[t].op \in ops
Bytes(n) == [i \in 1 .. n |-> sent + i]

\* unpark_all of the one ParkingLot of a lockstep queue; of one of the two
\* queues of the memory streams, where only fetching tasks park
UnparkAll(table, ops) ==
    [t \in Task |-> IF table[t] # None /\ table[t].at = "park" /\ table[t].op \in ops
                    THEN [table[t] EXCEPT !.at = "ready"] ELSE table[t]]

\* A plausible bug: only the receiver is told.
UnparkReceiver(table) == UnparkAll(table, {"receive_some"})

_something_happened(table) == UnparkAll(table, {"send_all", "wait_send", "receive_some"})

\* The condition of _wait_for, where a closed side is one for everybody
Condition(op, d, waiting) ==
    \/ sender_closed \/ receiver_closed
    \/ CASE op = "send_all" -> d = <<>> [] op = "wait_send" -> waiting [] OTHER -> d # <<>>

Enter(op, last, ok) == [op |-> op, at |-> IF ok THEN "yield" ELSE "park", last |-> last]

\* _LockstepByteQueue.send_all (with n bytes), wait_send_all_might_not_block
\* and receive_some, up to _wait_for.  After a send_all that was cancelled
\* the bytes are still there, and the next one fails "assert not self._data"
LockstepCall(t, op, n) ==
    /\ flavour = "lockstep" /\ does[t] = None
    /\ (op # "send_all" => n = 0) /\ sent + n <= MaxBytes
    /\ IF op = "receive_some" THEN ~Busy({"receive_some"}) /\ ~receiver_closed
       ELSE ~Busy(SendSide) /\ ~sender_closed /\ ~receiver_closed
    /\ op = "send_all" => data = <<>>
    /\ sent' = sent + n
    /\ data' = data \o Bytes(n)
    /\ receiver_waiting' = (receiver_waiting \/ op = "receive_some")
    /\ does' = [(IF op = "wait_send" THEN does ELSE _something_happened(does)) EXCEPT ![t] =
                   Enter(op, sent + n, Condition(op, data', receiver_waiting'))]
    /\ UNCHANGED <<flavour, sender_closed, receiver_closed, eof, outgoing, got>>

\* _wait_for after unpark_all: the condition is looked at again
LockstepWoken(t) ==
    /\ flavour = "lockstep" /\ does[t] # None /\ does[t].at = "ready"
    /\ does' = [does EXCEPT ![t].at = IF Condition(does[t].op, data, receiver_waiting) THEN "yield" ELSE "park"]
    /\ UNCHANGED <<flags, data, outgoing, sent, got>>

\* After the last checkpoint of _wait_for: receive_some takes what is there;
\* a send returns or raises
LockstepDone(t) ==
    /\ flavour = "lockstep" /\ does[t] # None /\ does[t].at = "yield"
    /\ IF does[t].op = "receive_some"
       THEN /\ receiver_waiting' = FALSE
            /\ IF receiver_closed \/ data = <<>>
               THEN /\ does' = [does EXCEPT ![t] = None] /\ UNCHANGED <<data, got>>
               ELSE \E n \in 1 .. Len(data) :
                    /\ got' = got \o SubSeq(data, 1, n) /\ data' = SubSeq(data, n + 1, Len(data))
                    /\ does' = _something_happened([does EXCEPT ![t] = None])
       ELSE does' = [does EXCEPT ![t] = None] /\ UNCHANGED <<receiver_waiting, data, got>>
    /\ UNCHANGED <<flavour, sender_closed, receiver_closed, eof, outgoing, sent>>

\* A lockstep call is cancelled; what send_all has put there stays there
LockstepCancelled(t) ==
    /\ flavour = "lockstep" /\ does[t] # None /\ does[t].at \in {"park", "yield"}
    /\ receiver_waiting' = (receiver_waiting /\ does[t].op # "receive_some")
    /\ does' = [does EXCEPT ![t] = None]
    /\ UNCHANGED <<flavour, sender_closed, receiver_closed, eof, data, outgoing, sent, got>>

LockstepClose(side) ==
    /\ flavour = "lockstep"
    /\ \/ side = "sender" /\ ~sender_closed /\ sender_closed' = TRUE /\ UNCHANGED receiver_closed
       \/ side = "receiver" /\ ~receiver_closed /\ receiver_closed' = TRUE /\ UNCHANGED sender_closed
    /\ does' = _something_happened(does)
    /\ UNCHANGED <<flavour, eof, receiver_waiting, data, outgoing, sent, got>>

\* A call of the memory streams, up to its checkpoints; get_data fetches from
\* the sender's own buffer
MemoryCall(t, op, n) ==
    /\ flavour = "memory" /\ does[t] = None
    /\ (op # "send_all" => n = 0) /\ sent + n <= MaxBytes
    /\ IF op \in SendSide THEN ~Busy(SendSide) ELSE ~Busy({op})
    /\ sent' = sent + n
    /\ does' = [does EXCEPT ![t] = [op |-> op, at |-> IF op = "get_data" /\ outgoing = <<>> /\ ~sender_closed
                                                      THEN "park" ELSE "yield", last |-> n]]
    /\ UNCHANGED <<flags, data, outgoing, got>>

\* send_all and wait_send_all_might_not_block after their checkpoints: put()
\* into the outgoing queue, and for send_all memory_stream_pump (unless the
\* hook was taken away, `pump` FALSE)
MemorySends(t, pump) ==
    /\ flavour = "memory" /\ does[t] # None /\ does[t].op \in SendSide /\ does[t].at = "yield"
    /\ LET c == does[t]
           put == outgoing \o [i \in 1 .. c.last |-> sent - c.last + i]
           woken == UnparkAll([does EXCEPT ![t] = None], {"get_data"})
           moves == pump /\ c.op = "send_all" /\ put # <<>> /\ ~(\E x \in Task : woken[x] # None /\ woken[x].op = "get_data")
       IN IF sender_closed THEN does' = [does EXCEPT ![t] = None] /\ UNCHANGED <<outgoing, data>>
          ELSE IF moves
          THEN /\ outgoing' = <<>>
               /\ IF eof THEN UNCHANGED data /\ does' = woken
                  ELSE data' = data \o put /\ does' = UnparkAll(woken, {"receive_some"})
          ELSE outgoing' = put /\ does' = woken /\ UNCHANGED data
    /\ UNCHANGED <<flags, sent, got>>

\* receive_some: past its checkpoints into _incoming.get, which parks if
\* there is nothing; then _get_impl
MemoryFetches(t) ==
    /\ flavour = "memory" /\ does[t] # None /\ does[t].op \in {"receive_some", "get_data"}
    /\ does[t].at \in {"yield", "ready"}
    /\ LET mine == IF does[t].op = "get_data" THEN outgoing ELSE data
           closed == IF does[t].op = "get_data" THEN sender_closed ELSE eof
       IN IF does[t].at = "yield" /\ does[t].op = "receive_some" /\ ~receiver_closed /\ mine = <<>> /\ ~closed
          THEN does' = [does EXCEPT ![t].at = "park"] /\ UNCHANGED <<data, outgoing, got>>
          ELSE /\ does' = [does EXCEPT ![t] = None]
               /\ IF mine = <<>> THEN UNCHANGED <<data, outgoing, got>>
                  ELSE \E n \in 1 .. Len(mine) :
                       /\ got' = got \o SubSeq(mine, 1, n)
                       /\ IF does[t].op = "get_data"
                          THEN outgoing' = SubSeq(mine, n + 1, Len(mine)) /\ UNCHANGED data
                          ELSE data' = SubSeq(mine, n + 1, Len(mine)) /\ UNCHANGED outgoing
    /\ UNCHANGED <<flags, sent>>

MemoryCancelled(t) ==
    /\ flavour = "memory" /\ does[t] # None /\ does[t].at # "ready"
    /\ does' = [does EXCEPT ![t] = None]
    /\ UNCHANGED <<flags, data, outgoing, sent, got>>

\* close() of the sender pumps what is left, or an end-of-file; close() of
\* the receiver wipes its buffer
MemoryClose(side) ==
    /\ flavour = "memory"
    /\ LET fetching == \E x \in Task : does[x] # None /\ does[x].op = "get_data" IN
       \/ /\ side = "sender" /\ ~sender_closed /\ sender_closed' = TRUE /\ UNCHANGED receiver_closed
          /\ IF fetching \/ (eof /\ outgoing # <<>>)
             THEN does' = UnparkAll(does, {"get_data"}) /\ UNCHANGED <<eof, data>>
                  /\ outgoing' = IF fetching THEN outgoing ELSE <<>>
             ELSE /\ does' = UnparkAll(does, {"get_data", "receive_some"})
                  /\ eof' = (eof \/ outgoing = <<>>) /\ data' = data \o outgoing /\ outgoing' = <<>>
       \/ /\ side = "receiver" /\ ~receiver_closed /\ receiver_closed' = TRUE /\ UNCHANGED sender_closed
          /\ eof' = TRUE /\ data' = <<>> /\ does' = UnparkAll(does, {"receive_some"}) /\ UNCHANGED outgoing
    /\ UNCHANGED <<flavour, receiver_waiting, sent, got>>

LockstepNext ==
    \/ \E t \in Task : \/ LockstepWoken(t) \/ LockstepDone(t) \/ LockstepCancelled(t)
                       \/ \E op \in SendSide \cup {"receive_some"}, n \in 0 .. 2 : LockstepCall(t, op, n)
    \/ \E side \in {"sender", "receiver"} : LockstepClose(side)

MemoryNext ==
    \/ \E t \in Task : \/ MemoryFetches(t) \/ MemoryCancelled(t) \/ \E pump \in BOOLEAN : MemorySends(t, pump)
                       \/ \E op \in SendSide \cup {"receive_some", "get_data"}, n \in 0 .. 2 : MemoryCall(t, op, n)
    \/ \E side \in {"sender", "receiver"} : MemoryClose(side)
----------------------------------------------------------------------------
\* No wakeup is lost: a task that is parked has nothing to do yet, whichever
\* calls come, are cancelled or close a side between its look and its sleep.
NobodyParkedForNothing ==
    \A t \in Task : does[t] # None /\ does[t].at = "park" =>
        CASE flavour = "lockstep" -> ~Condition(does[t].op, data, receiver_waiting)
          [] does[t].op = "get_data" -> outgoing = <<>> /\ ~sender_closed
          [] OTHER -> data = <<>> /\ ~eof
=============================================================================
