------------------------------- MODULE IOProofs -------------------------------
(***************************************************************************)
(* Proofs about what tasks wait for: the I/O managers (EpollIO, KqueueIO,  *)
(* WindowsIO), the byte streams (ByteStream) and the in-memory streams     *)
(* (MemoryStreams), as MCIO puts them together.                            *)
(***************************************************************************)
EXTENDS MCIO, QueueProofs

-----------------------------------------------------------------------------
(* kqueue                                                                  *)

KqueueType ==
    /\ receivers \in [Kqueue!Key -> Task \cup {Monitor, None}]
    /\ kqueue \in [Kqueue!Key -> {"no", "oneshot", "always"}]
    /\ asleep_on \in [Task -> Kqueue!Key \cup {None}]
    /\ fetched \in [Kqueue!Key -> {"no", "oneshot", "always"}]

\* An event that stays after it has been reported is a queue's, and the other
\* way round: process_events keeps the receiver of exactly those
QueuesStay == \A k \in Kqueue!Key : kqueue[k] = "always" <=> receivers[k] = Monitor

\* Only events of the caller's own filter have a queue
QueuesOwnFilter == \A k \in Kqueue!Key : receivers[k] = Monitor => k[2] = "PROC"

\* A one-shot event that was fetched is no longer with the kernel, and has
\* not been added again before it is processed; a queue's is still there
FetchedOnce ==
    \A k \in Kqueue!Key :
        /\ fetched[k] = "oneshot" => kqueue[k] = "no"
        /\ fetched[k] = "always" => kqueue[k] = "always"

KqueueInv ==
    KqueueType /\ QueuesStay /\ QueuesOwnFilter /\ FetchedOnce /\ Kqueue!KqueueInStep

\* Waiting, aborting, a queue that comes and goes, fetching and processing of
\* events and a close keep _registered, the kernel's events and the sleepers
\* in step, also when a host aborts and closes between the two
LEMMA KqueueStep ==
    ASSUME KqueueInv, Kqueue!KqueueNext
    PROVE  KqueueInv'
<1> DEFINE Key == Kqueue!Key
<1>0. /\ None \notin Task /\ Monitor \notin Task /\ Monitor # None /\ None \notin Key
      /\ \A fdx \in Fd, filter \in Kqueue!Filter : <<fdx, filter>> \in Key
  <2>1. \A f \in Fd, y \in Kqueue!Filter : <<f, y>> # None
    BY WaitingAssumption DEF Kqueue!Filter
  <2> QED BY <2>1, WaitingAssumption DEF Kqueue!Key
<1> HIDE DEF Key
<1>k. Kqueue!Key = Key
  BY DEF Key
<1>e. \A k \in Key : Kqueue!NoEvents[k] = "no"
  BY <1>k DEF Kqueue!NoEvents
<1>n. ~key_error
  BY DEF Kqueue!KqueueNext
<1> USE <1>k DEF KqueueInv, KqueueType, QueuesStay, QueuesOwnFilter, FetchedOnce, Kqueue!KqueueInStep
<1>1. ASSUME NEW t \in Task, NEW fdx \in Fd, NEW filter \in Kqueue!Filter, Kqueue!_wait_common(t, fdx, filter)
      PROVE  KqueueInv'
  <2> DEFINE k == <<fdx, filter>>
  <2>1. k \in Key /\ k[2] # "PROC"
    BY <1>0, <1>1 DEF Kqueue!_wait_common
  <2> HIDE DEF k
  <2>2. /\ fetched = Kqueue!NoEvents /\ asleep_on[t] = None
        /\ UNCHANGED <<fetched, guest_mode, key_error>>
        /\ kqueue' = [kqueue EXCEPT ![k] = "oneshot"]
        /\ vanished' = vanished \ {k}
        /\ IF receivers[k] = None
           THEN /\ receivers' = [receivers EXCEPT ![k] = t]
                /\ asleep_on' = [asleep_on EXCEPT ![t] = k]
           ELSE UNCHANGED <<receivers, asleep_on>>
    BY <1>1 DEF Kqueue!_wait_common, Kqueue!TasksRun, Kqueue!loopVars, k
  <2> QED BY <1>0, <1>e, <1>n, <2>1, <2>2
<1>2. ASSUME NEW t \in Task, NEW fdx \in Fd, Kqueue!wait_kevent(t, fdx)
      PROVE  KqueueInv'
  <2> DEFINE k == <<fdx, "PROC">>
  <2>1. k \in Key /\ k[2] = "PROC"
    BY <1>0 DEF Kqueue!Filter
  <2> HIDE DEF k
  <2>2. /\ fetched = Kqueue!NoEvents /\ asleep_on[t] = None /\ receivers[k] = None
        /\ UNCHANGED <<fetched, guest_mode, key_error>>
        /\ kqueue' = [kqueue EXCEPT ![k] = "oneshot"]
        /\ receivers' = [receivers EXCEPT ![k] = t]
        /\ asleep_on' = [asleep_on EXCEPT ![t] = k]
        /\ UNCHANGED vanished
    BY <1>2 DEF Kqueue!wait_kevent, Kqueue!TasksRun, Kqueue!loopVars, k
  <2> QED BY <1>0, <1>e, <1>n, <2>1, <2>2
<1>3. ASSUME NEW t \in Task, Kqueue!AbortKevent(t)
      PROVE  KqueueInv'
  <2>1. PICK k \in Key : k = asleep_on[t]
    BY <1>3 DEF Kqueue!AbortKevent
  <2>2. /\ fetched = Kqueue!NoEvents \/ guest_mode
        /\ UNCHANGED <<fetched, guest_mode, key_error>>
        /\ kqueue' = [kqueue EXCEPT ![k] = "no"]
        /\ receivers' = [receivers EXCEPT ![k] = None]
        /\ asleep_on' = [asleep_on EXCEPT ![t] = None]
        /\ vanished' = vanished \ {k}
    BY <1>3, <2>1 DEF Kqueue!AbortKevent, Kqueue!TasksOrHostRun, Kqueue!TasksRun, Kqueue!loopVars
  <2> QED BY <1>0, <1>e, <1>n, <2>1, <2>2
<1>4. ASSUME NEW k \in Key, Kqueue!get_events(k)
      PROVE  KqueueInv'
  BY <1>0, <1>n, <1>4 DEF Kqueue!get_events
<1>5. ASSUME Kqueue!process_events
      PROVE  KqueueInv'
  <2> DEFINE ready == {k \in Key : fetched[k] # "no"}
  <2>1. CASE \A k \in ready : receivers[k] # None
    <3>1. /\ receivers' = [k \in Key |-> IF fetched[k] = "oneshot" THEN None ELSE receivers[k]]
          /\ asleep_on' = [t \in Task |-> IF asleep_on[t] \in ready THEN None ELSE asleep_on[t]]
          /\ vanished' = vanished \ ready /\ fetched' = Kqueue!NoEvents
          /\ UNCHANGED <<kqueue, guest_mode, key_error>>
      BY <1>5, <2>1 DEF Kqueue!process_events
    <3>2. KqueueType'
      BY <3>1 DEF Kqueue!NoEvents
    <3>3. QueuesStay' /\ QueuesOwnFilter' /\ FetchedOnce'
      BY <1>0, <1>e, <3>1
    <3>4. \A t \in Task, k \in Key : receivers'[k] = t <=> asleep_on'[t] = k
      BY <1>0, <3>1
    <3>5. \A k \in Key \ vanished' : receivers'[k] # None => kqueue'[k] # "no"
      BY <1>0, <3>1
    <3>6. \A k \in Key : kqueue'[k] # "no" => receivers'[k] # None
      BY <1>0, <3>1
    <3> QED BY <1>e, <1>n, <3>1, <3>2, <3>3, <3>4, <3>5, <3>6
  <2>2. CASE \E k \in ready : receivers[k] = None
    <3>1. /\ key_error' = TRUE
          /\ UNCHANGED <<receivers, kqueue, asleep_on, vanished, fetched, guest_mode>>
      BY <1>5, <2>2 DEF Kqueue!process_events
    <3> QED BY <2>2, <3>1
  <2> QED BY <2>1, <2>2
<1>6. ASSUME NEW fdx \in Fd, Kqueue!monitor_kevent(fdx)
      PROVE  KqueueInv'
  <2> DEFINE k == <<fdx, "PROC">>
  <2>1. k \in Key /\ k[2] = "PROC"
    BY <1>0 DEF Kqueue!Filter
  <2> HIDE DEF k
  <2>2. /\ fetched = Kqueue!NoEvents
        /\ UNCHANGED <<asleep_on, vanished, fetched, guest_mode, key_error>>
        /\ \/ /\ receivers[k] = None
              /\ receivers' = [receivers EXCEPT ![k] = Monitor]
              /\ kqueue' = [kqueue EXCEPT ![k] = "always"]
           \/ /\ receivers[k] = Monitor
              /\ receivers' = [receivers EXCEPT ![k] = None]
              /\ kqueue' = [kqueue EXCEPT ![k] = "no"]
    BY <1>6 DEF Kqueue!monitor_kevent, Kqueue!TasksRun, Kqueue!loopVars, k
  <2> QED BY <1>0, <1>e, <1>n, <2>1, <2>2
<1>7. ASSUME NEW fdx \in Fd, Kqueue!KqueueNotifyClosing(fdx)
      PROVE  KqueueInv'
  <2>1. PICK keys \in SUBSET ({fdx} \X {"READ", "WRITE"}) :
        /\ fetched = Kqueue!NoEvents \/ guest_mode
        /\ UNCHANGED <<vanished, fetched, guest_mode, key_error>>
        /\ receivers' = [k \in Key |-> IF k \in keys THEN None ELSE receivers[k]]
        /\ kqueue' = [k \in Key |-> IF k \in keys THEN "no" ELSE kqueue[k]]
        /\ asleep_on' = [t \in Task |-> IF asleep_on[t] \in keys THEN None ELSE asleep_on[t]]
    <3> DEFINE refused(filter) == receivers[<<fdx, filter>>] # None /\ kqueue[<<fdx, filter>>] = "no"
               keys == {fdx} \X (IF refused("READ") THEN {}
                                 ELSE IF refused("WRITE") THEN {"READ"} ELSE {"READ", "WRITE"})
    <3>1. keys \in SUBSET ({fdx} \X {"READ", "WRITE"})
      OBVIOUS
    <3>2. /\ fetched = Kqueue!NoEvents \/ guest_mode
          /\ UNCHANGED <<vanished, fetched, guest_mode, key_error>>
          /\ receivers' = [k \in Key |-> IF k \in keys THEN None ELSE receivers[k]]
          /\ kqueue' = [k \in Key |-> IF k \in keys THEN "no" ELSE kqueue[k]]
          /\ asleep_on' = [t \in Task |-> IF asleep_on[t] \in keys THEN None ELSE asleep_on[t]]
      BY <1>7 DEF Kqueue!KqueueNotifyClosing, Kqueue!TasksOrHostRun, Kqueue!TasksRun, Kqueue!loopVars
    <3> HIDE DEF keys
    <3> QED BY <3>1, <3>2
  <2>2. ASSUME NEW k \in keys PROVE k \in Key /\ k[2] # "PROC"
    <3>1. PICK y \in {"READ", "WRITE"} : k = <<fdx, y>>
      BY <2>2
    <3> QED BY <1>0, <3>1 DEF Kqueue!Filter
  <2> QED BY <1>0, <1>e, <1>n, <2>1, <2>2
<1>8. ASSUME NEW fdx \in Fd, Kqueue!KqueueCloseBehind(fdx)
      PROVE  KqueueInv'
  <2> DEFINE keys == {fdx} \X {"READ", "WRITE"}
  <2>1. ASSUME NEW k \in keys PROVE k \in Key /\ k[2] # "PROC"
    <3>1. PICK y \in {"READ", "WRITE"} : k = <<fdx, y>>
      BY <2>1
    <3> QED BY <1>0, <3>1 DEF Kqueue!Filter
  <2> HIDE DEF keys
  <2>2. /\ kqueue' = [k \in Key |-> IF k \in keys THEN "no" ELSE kqueue[k]]
        /\ vanished' = vanished \cup {k \in keys : receivers[k] # None}
        /\ UNCHANGED <<receivers, asleep_on, fetched, guest_mode, key_error>>
    BY <1>8 DEF Kqueue!KqueueCloseBehind, Kqueue!loopVars, keys
  <2> QED BY <1>0, <1>n, <2>1, <2>2
<1> QED BY <1>1, <1>2, <1>3, <1>4, <1>5, <1>6, <1>7, <1>8 DEF Kqueue!KqueueNext

-----------------------------------------------------------------------------
(* The in-memory streams                                                   *)

MemOps == {"send_all", "wait_send", "receive_some", "get_data"}

MemCall == [op : MemOps, at : {"park", "yield", "ready"}, last : Nat]
MemTable == [Task -> MemCall \cup {None}]

MemoryType ==
    /\ flavour \in {"lockstep", "memory"}
    /\ mem_data \in Seq(Int) /\ outgoing \in Seq(Int) /\ sent \in Nat
    /\ does \in MemTable

\* Which calls there are, and in the memory streams only those that fetch park
MemoryCalls == \A t \in Task : does[t] # None =>
    /\ flavour = "lockstep" => does[t].op # "get_data"
    /\ flavour = "memory" /\ does[t].at = "park" => does[t].op \in {"receive_some", "get_data"}

\* NobodyParkedForNothing, one kind of call at a time
NothingYet(op, d, waits) ==
    /\ ~sender_closed /\ ~receiver_closed
    /\ op = "send_all" => d # <<>>
    /\ op = "wait_send" => ~waits
    /\ op = "receive_some" => d = <<>>

ParkedForSomething == \A t \in Task : does[t] # None /\ does[t].at = "park" =>
    /\ flavour = "lockstep" => NothingYet(does[t].op, mem_data, receiver_waiting)
    /\ flavour = "memory" /\ does[t].op = "get_data" => outgoing = <<>> /\ ~sender_closed
    /\ flavour = "memory" /\ does[t].op = "receive_some" => mem_data = <<>> /\ ~eof

MemoryInv == MemoryType /\ MemoryCalls /\ ParkedForSomething

\* unpark_all leaves nobody parked whose call is one of ops, and changes
\* nothing else
LEMMA UnparkAllOK ==
    ASSUME NEW table \in MemTable, NEW ops
    PROVE  /\ Memory!UnparkAll(table, ops) \in MemTable
           /\ \A t \in Task : LET new == Memory!UnparkAll(table, ops)[t] IN
                 new # None => /\ table[t] # None /\ new.op = table[t].op
                               /\ new.at = "park" => table[t].at = "park" /\ table[t].op \notin ops
<1>1. ASSUME NEW t \in Task, table[t] # None
      PROVE  table[t] \in MemCall
  BY <1>1 DEF MemTable
<1>2. ASSUME NEW r \in MemCall
      PROVE  /\ [r EXCEPT !.at = "ready"] \in MemCall
             /\ [r EXCEPT !.at = "ready"].op = r.op /\ [r EXCEPT !.at = "ready"].at = "ready"
  BY DEF MemCall
<1> QED BY <1>1, <1>2 DEF Memory!UnparkAll, MemTable

\* Kind by kind, the invariant says that nobody is parked for nothing
LEMMA MemoryInvSuffices == MemoryInv => Memory!NobodyParkedForNothing
<1> SUFFICES ASSUME MemoryInv, NEW t \in Task, does[t] # None, does[t].at = "park"
             PROVE  CASE flavour = "lockstep" -> ~Memory!Condition(does[t].op, mem_data, receiver_waiting)
                      [] does[t].op = "get_data" -> outgoing = <<>> /\ ~sender_closed
                      [] OTHER -> mem_data = <<>> /\ ~eof
  BY DEF Memory!NobodyParkedForNothing
<1>1. does[t].op \in MemOps /\ flavour \in {"lockstep", "memory"}
  BY DEF MemoryInv, MemoryType, MemTable, MemCall
<1>2. CASE flavour = "lockstep"
  <2>1. does[t].op # "get_data" /\ NothingYet(does[t].op, mem_data, receiver_waiting)
    BY <1>2 DEF MemoryInv, MemoryCalls, ParkedForSomething
  <2>2. ~Memory!Condition(does[t].op, mem_data, receiver_waiting)
    BY <1>1, <2>1 DEF Memory!Condition, NothingYet, MemOps
  <2> QED BY <1>2, <2>1, <2>2
<1>3. CASE flavour = "memory" /\ does[t].op = "get_data"
  BY <1>3 DEF MemoryInv, ParkedForSomething
<1>4. CASE flavour = "memory" /\ does[t].op = "receive_some"
  BY <1>4 DEF MemoryInv, ParkedForSomething
<1> QED BY <1>1, <1>2, <1>3, <1>4 DEF MemoryInv, MemoryCalls

\* Every call, return and close of the lockstep and the memory streams
LEMMA MemoryStep ==
    ASSUME MemoryInv, Memory!LockstepNext \/ Memory!MemoryNext
    PROVE  MemoryInv'
<1>t. MemoryType /\ MemoryCalls /\ ParkedForSomething
  BY DEF MemoryInv
<1>r. ASSUME NEW t \in Task, does[t] # None
      PROVE  does[t] \in MemCall
  BY <1>t, <1>r DEF MemoryType, MemTable
<1>u. /\ Memory!_something_happened(does) \in MemTable
      /\ \A t \in Task : LET new == Memory!_something_happened(does)[t] IN
            new # None => does[t] # None /\ new.op = does[t].op /\ (new.at = "park" => does[t].op = "get_data")
  BY <1>t, <1>r, UnparkAllOK DEF MemoryType, Memory!_something_happened, MemCall, MemOps
<1>1. ASSUME NEW t \in Task, NEW op \in Memory!SendSide \cup {"receive_some"}, NEW n \in 0 .. 2,
             Memory!LockstepCall(t, op, n)
      PROVE  MemoryInv'
  <2> DEFINE new == Memory!Enter(op, sent + n, Memory!Condition(op, mem_data', receiver_waiting'))
             base == IF op = "wait_send" THEN does ELSE Memory!_something_happened(does)
  <2>1. /\ new \in MemCall /\ new.op = op /\ op # "get_data"
        /\ new.at = "park" => NothingYet(op, mem_data', receiver_waiting')
    BY <1>t DEF MemCall, MemOps, Memory!Enter, Memory!SendSide, MemoryType,
       Memory!Condition, NothingYet
  <2>2. base \in MemTable
    BY <1>t, <1>u DEF MemoryType
  <2> HIDE DEF new, base
  <2>3. does' = [base EXCEPT ![t] = new] /\ flavour = "lockstep" /\ flavour' = flavour
        /\ UNCHANGED <<sender_closed, receiver_closed, eof, outgoing>>
    BY <1>1 DEF Memory!LockstepCall, new, base
  <2>4. mem_data' \in Seq(Int) /\ sent' \in Nat /\ (n = 0 => mem_data' = mem_data)
    <3>1. Memory!Bytes(n) \in Seq(Int) /\ (n = 0 => Memory!Bytes(n) = <<>>)
      BY <1>t DEF Memory!Bytes, MemoryType
    <3>2. mem_data \in Seq(Int) /\ sent \in Nat
      BY <1>t DEF MemoryType
    <3>3. mem_data' = mem_data \o Memory!Bytes(n) /\ sent' = sent + n
      BY <1>1 DEF Memory!LockstepCall
    <3>4. mem_data \o Memory!Bytes(n) \in Seq(Int) /\ mem_data \o <<>> = mem_data
      BY ONLY <3>1, <3>2, ConcatProperties, ConcatEmptySeq
    <3> QED BY ONLY <3>1, <3>2, <3>3, <3>4, n \in 0 .. 2
  <2>5. MemoryType'
    BY <1>t, <2>1, <2>2, <2>3, <2>4 DEF MemoryType, MemTable
  <2>6. op # "send_all" => n = 0 /\ receiver_waiting' = (receiver_waiting \/ op = "receive_some")
    BY <1>1 DEF Memory!LockstepCall
  <2>7. MemoryCalls'
    BY <1>t, <1>u, <2>1, <2>2, <2>3 DEF MemoryCalls, MemTable, base
  <2>8. ASSUME NEW x \in Task, does'[x] # None, does'[x].at = "park"
        PROVE  NothingYet(does'[x].op, mem_data', receiver_waiting')
    <3>1. CASE x = t
      BY <2>1, <2>2, <2>3, <2>8, <3>1 DEF MemTable
    <3>2. CASE x # t /\ op = "wait_send"
      <4>1. does'[x] = does[x] /\ mem_data' = mem_data /\ (receiver_waiting' <=> receiver_waiting)
        BY <2>2, <2>3, <2>4, <2>6, <3>2, <1>1 DEF MemTable, base, Memory!LockstepCall
      <4> QED BY <1>t, <2>3, <2>8, <4>1 DEF ParkedForSomething, NothingYet
    <3>3. CASE x # t /\ op # "wait_send"
      BY <1>t, <1>u, <2>2, <2>3, <2>8, <3>3 DEF MemTable, base, MemoryCalls
    <3> QED BY <3>1, <3>2, <3>3
  <2>9. ParkedForSomething'
    BY <2>3, <2>8 DEF ParkedForSomething, NothingYet
  <2> QED BY <2>5, <2>7, <2>9 DEF MemoryInv
<1>2. ASSUME NEW t \in Task, Memory!LockstepWoken(t)
      PROVE  MemoryInv'
  <2>1. /\ flavour = "lockstep" /\ does[t] \in MemCall
        /\ UNCHANGED <<flavour, sender_closed, receiver_closed, eof, receiver_waiting, mem_data, outgoing, sent>>
    BY <1>r, <1>2 DEF Memory!LockstepWoken, Memory!flags
  <2> DEFINE new == [does[t] EXCEPT !.at = IF Memory!Condition(does[t].op, mem_data, receiver_waiting)
                                           THEN "yield" ELSE "park"]
  <2>2. /\ does' = [does EXCEPT ![t] = new] /\ does[t] # None
        /\ new \in MemCall /\ new.op = does[t].op /\ new.op # "get_data"
        /\ new.at = "park" => ~Memory!Condition(does[t].op, mem_data, receiver_waiting)
    BY <1>t, <1>2, <2>1 DEF Memory!LockstepWoken, MemCall, MemoryCalls
  <2>3. new.at = "park" => NothingYet(does[t].op, mem_data, receiver_waiting)
    BY <2>1, <2>2 DEF Memory!Condition, NothingYet, MemCall, MemOps
  <2> HIDE DEF new
  <2>4. MemoryType'
    BY <1>t, <2>1, <2>2 DEF MemoryType, MemTable
  <2>5. MemoryCalls'
    BY <1>t, <2>1, <2>2 DEF MemoryType, MemTable, MemoryCalls
  <2>6. ParkedForSomething'
    BY <1>t, <2>1, <2>2, <2>3 DEF MemoryType, MemTable, ParkedForSomething, NothingYet
  <2> QED BY <2>4, <2>5, <2>6 DEF MemoryInv
<1>3. ASSUME NEW t \in Task, Memory!LockstepDone(t)
      PROVE  MemoryInv'
  <2>1. /\ flavour = "lockstep" /\ does[t] \in MemCall
        /\ UNCHANGED <<flavour, sender_closed, receiver_closed, eof, outgoing, sent>>
        /\ receiver_waiting' => receiver_waiting
    BY <1>r, <1>3 DEF Memory!LockstepDone
  <2> DEFINE gone == [does EXCEPT ![t] = None]
  <2>2. gone \in MemTable /\ \A x \in Task : gone[x] # None => gone[x] = does[x] /\ does[x] # None
    BY <1>t DEF MemoryType, MemTable
  <2> HIDE DEF gone
  <2>3. /\ Memory!_something_happened(gone) \in MemTable
        /\ \A x \in Task : LET new == Memory!_something_happened(gone)[x] IN
              new # None => gone[x] # None /\ new.op = gone[x].op /\ (new.at = "park" => gone[x].op = "get_data")
    BY <1>r, <2>2, UnparkAllOK DEF Memory!_something_happened, MemCall, MemOps
  <2>4. \/ does' = gone /\ mem_data' = mem_data
        \/ /\ does' = Memory!_something_happened(gone)
           /\ \E n \in 1 .. Len(mem_data) : mem_data' = SubSeq(mem_data, n + 1, Len(mem_data))
    BY <1>3 DEF Memory!LockstepDone, gone
  <2>5. mem_data' \in Seq(Int)
    <3>1. mem_data \in Seq(Int) /\ Len(mem_data) \in Nat
      BY <1>t DEF MemoryType
    <3>2. ASSUME NEW n \in 1 .. Len(mem_data) PROVE SubSeq(mem_data, n + 1, Len(mem_data)) \in Seq(Int)
      BY ONLY <3>1, <3>2, SplitQueue
    <3> QED BY <2>4, <3>1, <3>2
  <2>6. MemoryType'
    BY <1>t, <2>1, <2>2, <2>3, <2>4, <2>5 DEF MemoryType
  <2>7. MemoryCalls'
    BY <1>t, <2>1, <2>2, <2>3, <2>4 DEF MemoryCalls
  <2>8. ParkedForSomething'
    BY <1>t, <2>1, <2>2, <2>3, <2>4 DEF MemoryCalls, ParkedForSomething, NothingYet
  <2> QED BY <2>6, <2>7, <2>8 DEF MemoryInv
<1>4. ASSUME NEW t \in Task, Memory!LockstepCancelled(t)
      PROVE  MemoryInv'
  <2>1. /\ flavour = "lockstep" /\ does' = [does EXCEPT ![t] = None]
        /\ UNCHANGED <<flavour, sender_closed, receiver_closed, eof, mem_data, outgoing, sent>>
        /\ receiver_waiting' => receiver_waiting
    BY <1>4 DEF Memory!LockstepCancelled
  <2>2. MemoryType'
    BY <1>t, <2>1 DEF MemoryType, MemTable
  <2>3. \A x \in Task : does'[x] # None => does'[x] = does[x]
    BY <1>t, <2>1 DEF MemoryType, MemTable
  <2>4. MemoryCalls' /\ ParkedForSomething'
    BY <1>t, <2>1, <2>3 DEF MemoryCalls, ParkedForSomething, NothingYet
  <2> QED BY <2>2, <2>4 DEF MemoryInv
<1>5. ASSUME NEW side \in {"sender", "receiver"}, Memory!LockstepClose(side)
      PROVE  MemoryInv'
  <2>1. /\ flavour = "lockstep" /\ does' = Memory!_something_happened(does)
        /\ UNCHANGED <<flavour, eof, receiver_waiting, mem_data, outgoing, sent>>
    BY <1>5 DEF Memory!LockstepClose
  <2>2. MemoryType'
    BY <1>t, <1>u, <2>1 DEF MemoryType
  <2>3. \A x \in Task : does'[x] # None => does'[x].at # "park" /\ does'[x].op # "get_data"
    BY <1>t, <1>u, <2>1 DEF MemoryCalls
  <2>4. MemoryCalls' /\ ParkedForSomething'
    BY <2>1, <2>3 DEF MemoryCalls, ParkedForSomething
  <2> QED BY <2>2, <2>4 DEF MemoryInv
<1>6. ASSUME NEW t \in Task, NEW op \in Memory!SendSide \cup {"receive_some", "get_data"}, NEW n \in 0 .. 2,
             Memory!MemoryCall(t, op, n)
      PROVE  MemoryInv'
  <2> DEFINE parks == op = "get_data" /\ outgoing = <<>> /\ ~sender_closed
             new == [op |-> op, at |-> IF parks THEN "park" ELSE "yield", last |-> n]
  <2>1. /\ flavour = "memory" /\ does' = [does EXCEPT ![t] = new] /\ sent' = sent + n
        /\ UNCHANGED <<flavour, sender_closed, receiver_closed, eof, receiver_waiting, mem_data, outgoing>>
    BY <1>6 DEF Memory!MemoryCall, Memory!flags
  <2>2. new \in MemCall /\ new.op = op /\ (new.at = "park" => parks)
    BY DEF MemCall, MemOps, Memory!SendSide
  <2> HIDE DEF new
  <2>3. MemoryType'
    BY <1>t, <2>1, <2>2 DEF MemoryType, MemTable
  <2>4. MemoryCalls'
    BY <1>t, <2>1, <2>2 DEF MemoryType, MemTable, MemoryCalls
  <2>5. ParkedForSomething'
    BY <1>t, <2>1, <2>2 DEF MemoryType, MemTable, ParkedForSomething
  <2> QED BY <2>3, <2>4, <2>5 DEF MemoryInv
<1>7. ASSUME NEW t \in Task, NEW pump \in BOOLEAN, Memory!MemorySends(t, pump)
      PROVE  MemoryInv'
  <2> DEFINE gone == [does EXCEPT ![t] = None]
             put == outgoing \o [i \in 1 .. does[t].last |-> sent - does[t].last + i]
             woken == Memory!UnparkAll(gone, {"get_data"})
             both == Memory!UnparkAll(woken, {"receive_some"})
  <2>1. /\ flavour = "memory" /\ does[t] \in MemCall
        /\ UNCHANGED <<flavour, sender_closed, receiver_closed, eof, receiver_waiting, sent>>
    BY <1>r, <1>7 DEF Memory!MemorySends, Memory!flags
  <2>2. \/ does' = gone /\ UNCHANGED <<outgoing, mem_data>>
        \/ does' = woken /\ outgoing' \in {<<>>, put} /\ UNCHANGED mem_data
        \/ does' = both /\ outgoing' = <<>> /\ mem_data' = mem_data \o put
    BY <1>7, Zenon DEF Memory!MemorySends
  <2>3. put \in Seq(Int)
    <3>1. does[t].last \in Nat
      BY <2>1 DEF MemCall
    <3>2. [i \in 1 .. does[t].last |-> sent - does[t].last + i] \in Seq(Int)
      <4>1. \A i \in 1 .. does[t].last : sent - does[t].last + i \in Int
        BY <1>t, <3>1 DEF MemoryType
      <4>2. [i \in 1 .. does[t].last |-> sent - does[t].last + i] \in [1 .. does[t].last -> Int]
        BY <4>1
      <4> QED BY <3>1, <4>2, SeqDef
    <3> QED BY <1>t, <3>2 DEF MemoryType
  <2> HIDE DEF put
  <2>4. gone \in MemTable /\ \A x \in Task : gone[x] # None => gone[x] = does[x] /\ does[x] # None
    BY <1>t DEF MemoryType, MemTable
  <2> HIDE DEF gone
  <2>5. /\ woken \in MemTable
        /\ \A x \in Task : woken[x] # None =>
              /\ does[x] # None /\ woken[x].op = does[x].op
              /\ woken[x].at = "park" => does[x].at = "park" /\ does[x].op # "get_data"
    BY <2>4, UnparkAllOK
  <2> HIDE DEF woken
  <2>6. /\ both \in MemTable
        /\ \A x \in Task : both[x] # None =>
              /\ does[x] # None /\ both[x].op = does[x].op
              /\ both[x].at = "park" => does[x].at = "park" /\ does[x].op \notin {"get_data", "receive_some"}
    BY <2>5, UnparkAllOK
  <2> HIDE DEF both
  <2>7. MemoryType'
    <3>1. mem_data \in Seq(Int) /\ mem_data \o put \in Seq(Int) /\ outgoing \in Seq(Int) /\ <<>> \in Seq(Int)
      BY <1>t, <2>3 DEF MemoryType
    <3>2. mem_data' \in Seq(Int) /\ outgoing' \in Seq(Int) /\ does' \in MemTable
      BY <2>2, <2>3, <2>4, <2>5, <2>6, <3>1
    <3> QED BY <1>t, <2>1, <3>2 DEF MemoryType
  <2>8. MemoryCalls'
    BY <1>t, <2>1, <2>2, <2>4, <2>5, <2>6 DEF MemoryCalls
  <2>9. ParkedForSomething'
    BY <1>t, <2>1, <2>2, <2>4, <2>5, <2>6 DEF ParkedForSomething
  <2> QED BY <2>7, <2>8, <2>9 DEF MemoryInv
<1>8. ASSUME NEW t \in Task, Memory!MemoryFetches(t)
      PROVE  MemoryInv'
  <2> DEFINE mine == IF does[t].op = "get_data" THEN outgoing ELSE mem_data
  <2>1. /\ flavour = "memory" /\ does[t] \in MemCall /\ does[t] # None
        /\ does[t].op \in {"receive_some", "get_data"}
        /\ UNCHANGED <<flavour, sender_closed, receiver_closed, eof, receiver_waiting, sent>>
    BY <1>r, <1>8 DEF Memory!MemoryFetches, Memory!flags
  <2>2. \/ /\ does' = [does EXCEPT ![t].at = "park"] /\ UNCHANGED <<mem_data, outgoing>>
           /\ does[t].op = "receive_some" /\ mem_data = <<>> /\ ~eof
        \/ does' = [does EXCEPT ![t] = None] /\ UNCHANGED <<mem_data, outgoing>>
        \/ /\ does' = [does EXCEPT ![t] = None] /\ mine # <<>>
           /\ \E n \in 1 .. Len(mine) :
                 IF does[t].op = "get_data"
                 THEN outgoing' = SubSeq(mine, n + 1, Len(mine)) /\ UNCHANGED mem_data
                 ELSE mem_data' = SubSeq(mine, n + 1, Len(mine)) /\ UNCHANGED outgoing
    BY <1>8, <2>1 DEF Memory!MemoryFetches
  <2>3. CASE /\ does' = [does EXCEPT ![t].at = "park"] /\ UNCHANGED <<mem_data, outgoing>>
             /\ does[t].op = "receive_some" /\ mem_data = <<>> /\ ~eof
    <3> DEFINE new == [does[t] EXCEPT !.at = "park"]
    <3>1. new \in MemCall /\ new.op = "receive_some" /\ does' = [does EXCEPT ![t] = new]
      BY <2>1, <2>3 DEF MemCall
    <3> HIDE DEF new
    <3>2. MemoryType'
      BY <1>t, <2>1, <2>3, <3>1 DEF MemoryType, MemTable
    <3>3. \A x \in Task : \/ x # t /\ does'[x] = does[x]
                          \/ does'[x].op = "receive_some"
      BY <1>t, <3>1 DEF MemoryType, MemTable
    <3>4. MemoryCalls'
      BY <1>t, <2>1, <2>3, <3>3 DEF MemoryCalls
    <3>5. ParkedForSomething'
      BY <1>t, <2>1, <2>3, <3>3 DEF ParkedForSomething
    <3> QED BY <3>2, <3>4, <3>5 DEF MemoryInv
  <2>4. CASE does' = [does EXCEPT ![t] = None]
    <3>1. does' \in MemTable /\ \A x \in Task : does'[x] # None => does'[x] = does[x] /\ does[x] # None
      BY <1>t, <2>4 DEF MemoryType, MemTable
    <3>2. mem_data' \in Seq(Int) /\ outgoing' \in Seq(Int)
      <4>1. mine \in Seq(Int) /\ Len(mine) \in Nat
        BY <1>t DEF MemoryType
      <4> HIDE DEF mine
      <4>2. ASSUME NEW n \in 1 .. Len(mine) PROVE SubSeq(mine, n + 1, Len(mine)) \in Seq(Int)
        BY ONLY <4>1, <4>2, SplitQueue
      <4> QED BY <1>t, <2>2, <4>2 DEF MemoryType
    <3>3. MemoryType'
      BY <1>t, <2>1, <3>1, <3>2 DEF MemoryType
    <3>4. MemoryCalls'
      BY <1>t, <2>1, <3>1 DEF MemoryCalls
    <3>5. ASSUME NEW x \in Task, does'[x] # None, does'[x].at = "park"
          PROVE  /\ does[x].op = "get_data" => outgoing' = <<>> /\ ~sender_closed'
                 /\ does[x].op = "receive_some" => mem_data' = <<>> /\ ~eof'
      <4>1. /\ does[x].op = "get_data" => outgoing = <<>> /\ ~sender_closed
            /\ does[x].op = "receive_some" => mem_data = <<>> /\ ~eof
        BY <1>t, <2>1, <3>1, <3>5 DEF ParkedForSomething
      <4>2. /\ outgoing = <<>> => outgoing' = <<>>
            /\ mem_data = <<>> => mem_data' = <<>>
        BY <2>1, <2>2, <2>3
      <4> QED BY <2>1, <4>1, <4>2
    <3>6. ParkedForSomething'
      BY <2>1, <3>1, <3>5 DEF ParkedForSomething
    <3> QED BY <3>3, <3>4, <3>6 DEF MemoryInv
  <2> QED BY <2>2, <2>3, <2>4
<1>9. ASSUME NEW t \in Task, Memory!MemoryCancelled(t)
      PROVE  MemoryInv'
  <2>1. /\ flavour = "memory" /\ does' = [does EXCEPT ![t] = None]
        /\ UNCHANGED <<flavour, sender_closed, receiver_closed, eof, receiver_waiting, mem_data, outgoing, sent>>
    BY <1>9 DEF Memory!MemoryCancelled, Memory!flags
  <2>2. does' \in MemTable /\ \A x \in Task : does'[x] # None => does'[x] = does[x]
    BY <1>t, <2>1 DEF MemoryType, MemTable
  <2>3. MemoryType'
    BY <1>t, <2>1, <2>2 DEF MemoryType
  <2>4. MemoryCalls' /\ ParkedForSomething'
    BY <1>t, <2>1, <2>2 DEF MemoryCalls, ParkedForSomething
  <2> QED BY <2>3, <2>4 DEF MemoryInv
<1>10. ASSUME NEW side \in {"sender", "receiver"}, Memory!MemoryClose(side)
       PROVE  MemoryInv'
  <2> DEFINE one == Memory!UnparkAll(does, {"get_data"})
             all == Memory!UnparkAll(does, {"get_data", "receive_some"})
             other == Memory!UnparkAll(does, {"receive_some"})
  <2>1. /\ flavour = "memory" /\ UNCHANGED <<flavour, receiver_waiting, sent>>
        /\ \/ does' = one /\ outgoing' \in {<<>>, outgoing} /\ UNCHANGED <<eof, mem_data>>
           \/ does' = all /\ outgoing' = <<>> /\ mem_data' = mem_data \o outgoing
           \/ does' = other /\ mem_data' = <<>> /\ UNCHANGED <<outgoing, sender_closed>>
    BY <1>10 DEF Memory!MemoryClose
  <2>2. does \in MemTable
    BY <1>t DEF MemoryType
  <2>3. /\ one \in MemTable
        /\ \A x \in Task : one[x] # None =>
              /\ does[x] # None /\ one[x].op = does[x].op
              /\ one[x].at = "park" => does[x].at = "park" /\ does[x].op # "get_data"
    BY <2>2, UnparkAllOK
  <2>4. /\ all \in MemTable
        /\ \A x \in Task : all[x] # None =>
              /\ does[x] # None /\ all[x].op = does[x].op
              /\ all[x].at = "park" => does[x].at = "park" /\ does[x].op \notin {"get_data", "receive_some"}
    BY <2>2, UnparkAllOK
  <2>5. /\ other \in MemTable
        /\ \A x \in Task : other[x] # None =>
              /\ does[x] # None /\ other[x].op = does[x].op
              /\ other[x].at = "park" => does[x].at = "park" /\ does[x].op # "receive_some"
    BY <2>2, UnparkAllOK
  <2> HIDE DEF one, all, other
  <2>6. MemoryType'
    <3>1. mem_data \in Seq(Int) /\ mem_data \o outgoing \in Seq(Int) /\ outgoing \in Seq(Int) /\ <<>> \in Seq(Int)
      BY <1>t DEF MemoryType
    <3>2. mem_data' \in Seq(Int) /\ outgoing' \in Seq(Int) /\ does' \in MemTable
      BY <2>1, <2>3, <2>4, <2>5, <3>1
    <3> QED BY <1>t, <2>1, <3>2 DEF MemoryType
  <2>7. MemoryCalls'
    BY <1>t, <2>1, <2>3, <2>4, <2>5 DEF MemoryCalls
  <2>8. ParkedForSomething'
    BY <1>t, <2>1, <2>3, <2>4, <2>5 DEF ParkedForSomething
  <2> QED BY <2>6, <2>7, <2>8 DEF MemoryInv
<1> QED
  BY <1>1, <1>2, <1>3, <1>4, <1>5, <1>6, <1>7, <1>8, <1>9, <1>10
  DEF Memory!LockstepNext, Memory!MemoryNext

-----------------------------------------------------------------------------
(* Byte streams                                                            *)

ByteOps == {"send_all", "send_eof", "wait_writable", "receive_some"}
ByteCall == [op : ByteOps, msg : Msg \cup {None}, sent : Nat, at : {"yield", "wait", "run"}]
Byte == Msg \X Nat

ByteType ==
    /\ fd \in {1, -1}
    /\ call \in [Task -> ByteCall \cup {None}]
    /\ wire \in Seq(Byte) /\ taken \in Nat
    /\ inbox \in Seq(Nat) /\ received \in Seq(Nat) /\ came \in Nat

\* The stream knows the number only while it is that of its own file, so that
\* nobody can use another's
OwnNumber ==
    /\ fd # -1 => owner = "ours"
    /\ ~misused
    /\ fd = -1 => \A t \in Task : call[t] # None => call[t].at # "wait"

\* The kernel holds no more than its buffer
WireFits == taken <= Len(wire) /\ Len(wire) <= taken + Buffer

\* The ConflictDetector of the sending side
OneSender ==
    \A t, u \in Task :
        call[t] # None /\ call[t].op \in Bytes!SendOps /\ call[u] # None /\ call[u].op \in Bytes!SendOps => t = u

\* A send_all that is under way has written the end of the wire up to here
HalfSent ==
    \A t \in Task : call[t] # None /\ call[t].op = "send_all" =>
        /\ call[t].msg \in Msg /\ call[t].sent < MsgLen
        /\ call[t].sent > 0 => wire # <<>> /\ wire[Len(wire)] = <<call[t].msg, call[t].sent>>

Unbroken(w) ==
    \A i \in 1 .. Len(w) : w[i][2] = 1 \/ (i > 1 /\ w[i - 1] = <<w[i][1], w[i][2] - 1>>)
WholeIfDone == \A m \in done : \E i \in 1 .. Len(wire) : wire[i] = <<m, MsgLen>>
ReadInOrder == received \o inbox = [i \in 1 .. came |-> i]

ByteInv ==
    /\ ByteType /\ OwnNumber
    /\ WireFits /\ OneSender /\ HalfSent
    /\ Unbroken(wire) /\ WholeIfDone /\ ReadInOrder

\* The next bytes of a message, written behind what there is of it
LEMMA RunAppended ==
    ASSUME NEW w \in Seq(Byte), NEW m \in Msg, NEW p \in Nat, NEW n \in Nat, Unbroken(w),
           p > 0 => w # <<>> /\ w[Len(w)] = <<m, p>>
    PROVE  LET new == w \o [i \in 1 .. n |-> <<m, p + i>>] IN
           /\ new \in Seq(Byte) /\ Len(new) = Len(w) + n /\ Unbroken(new)
           /\ \A i \in 1 .. Len(w) : new[i] = w[i]
           /\ n > 0 => new[Len(new)] = <<m, p + n>>
           /\ n = 0 => new = w
<1> DEFINE run == [i \in 1 .. n |-> <<m, p + i>>]
           new == w \o run
<1>1. run \in Seq(Byte) /\ Len(run) = n /\ \A i \in 1 .. n : run[i] = <<m, p + i>>
  <2>1. run \in [1 .. n -> Byte]
    BY DEF Byte
  <2>2. run \in Seq(Byte)
    <3> HIDE DEF run
    <3> QED BY ONLY <2>1, n \in Nat, SeqDef
  <2>3. DOMAIN run = 1 .. n /\ DOMAIN run = 1 .. Len(run) /\ Len(run) \in Nat
    BY ONLY <2>1, <2>2, LenProperties
  <2>4. Len(run) = n
    BY ONLY <2>3, n \in Nat
  <2> QED BY <2>2, <2>4
<1> HIDE DEF run
<1>2. /\ new \in Seq(Byte) /\ Len(new) = Len(w) + n /\ Len(w) \in Nat
      /\ \A i \in 1 .. Len(w) : new[i] = w[i]
      /\ \A i \in 1 .. Len(w) + n : i > Len(w) => new[i] = run[i - Len(w)]
  <2>1. /\ new \in Seq(Byte) /\ Len(new) = Len(w) + Len(run) /\ Len(w) \in Nat
        /\ \A i \in 1 .. Len(w) + Len(run) : new[i] = IF i <= Len(w) THEN w[i] ELSE run[i - Len(w)]
    BY ONLY w \in Seq(Byte), <1>1, ConcatProperties, LenProperties DEF new
  <2> HIDE DEF new
  <2> QED BY <1>1, <2>1
<1>3. n = 0 => new = w
  <2>1. n = 0 => run = <<>>
    BY <1>1, EmptySeq
  <2> QED BY <2>1, ConcatEmptySeq
<1> HIDE DEF new
<1>4. ASSUME NEW j \in 1 .. n
      PROVE  Len(w) + j \in 1 .. Len(w) + n /\ new[Len(w) + j] = <<m, p + j>>
  <2>1. Len(w) + j \in 1 .. Len(w) + n /\ Len(w) + j > Len(w) /\ (Len(w) + j) - Len(w) = j
    BY <1>2
  <2>2. new[Len(w) + j] = run[j]
    BY <1>2, <2>1
  <2> QED BY <1>1, <2>1, <2>2
<1>5. n > 0 => new[Len(new)] = <<m, p + n>>
  BY <1>2, <1>4
<1>6. ASSUME NEW i \in 1 .. Len(w) + n
      PROVE  new[i][2] = 1 \/ (i > 1 /\ new[i - 1] = <<new[i][1], new[i][2] - 1>>)
  <2>1. CASE i <= Len(w)
    <3>1. new[i] = w[i] /\ (i > 1 => new[i - 1] = w[i - 1]) /\ i \in 1 .. Len(w)
      BY <1>2, <2>1
    <3> QED BY <3>1 DEF Unbroken
  <2>2. CASE i > Len(w)
    <3>1. PICK j \in 1 .. n : i = Len(w) + j
      <4>1. i - Len(w) \in 1 .. n /\ i = Len(w) + (i - Len(w))
        BY ONLY <1>2, <2>2, n \in Nat, i \in 1 .. Len(w) + n
      <4> QED BY ONLY <4>1
    <3>2. new[i] = <<m, p + j>> /\ new[i][1] = m /\ new[i][2] = p + j
      <4>1. new[Len(w) + j] = <<m, p + j>>
        BY <1>4
      <4> QED BY <3>1, <4>1
    <3>3. CASE j > 1
      <4>1. j - 1 \in 1 .. n /\ i - 1 = Len(w) + (j - 1) /\ p + (j - 1) = p + j - 1 /\ i > 1
        BY <1>2, <3>1, <3>3
      <4>2. new[i - 1] = <<m, p + (j - 1)>>
        BY <1>4, <4>1
      <4> QED BY <3>2, <4>1, <4>2
    <3>4. CASE j = 1 /\ p = 0
      BY <3>2, <3>4
    <3>5. CASE j = 1 /\ p > 0
      <4>1. i - 1 = Len(w) /\ Len(w) > 0 /\ i > 1 /\ Len(w) \in 1 .. Len(w)
        BY <1>2, <3>1, <3>5, EmptySeq
      <4>2. new[i - 1] = <<m, p>> /\ p = p + j - 1
        BY <1>2, <3>5, <4>1
      <4> QED BY <3>2, <4>1, <4>2
    <3> QED BY <3>3, <3>4, <3>5
  <2> QED BY <1>2, <2>1, <2>2
<1>7. Unbroken(new)
  BY <1>2, <1>6 DEF Unbroken
<1> QED BY <1>2, <1>3, <1>5, <1>7 DEF new, run

\* A step that adds no call and writes nothing: what is said of senders stays
LEMMA SendersKept ==
    ASSUME ByteInv, call' \in [Task -> ByteCall \cup {None}], UNCHANGED <<wire, done>>,
           \A x \in Task : call'[x] # None =>
               call[x] # None /\ call'[x].op = call[x].op /\ call'[x].msg = call[x].msg /\ call'[x].sent = call[x].sent
    PROVE  (OneSender /\ HalfSent /\ Unbroken(wire) /\ WholeIfDone)'
<1>1. OneSender'
  BY DEF ByteInv, OneSender, Bytes!SendOps
<1>2. HalfSent'
  BY DEF ByteInv, HalfSent
<1>3. Unbroken(wire)'
  BY DEF ByteInv, Unbroken
<1>4. WholeIfDone'
  BY DEF ByteInv, WholeIfDone
<1> QED BY <1>1, <1>2, <1>3, <1>4

\* Every call, system call, cancellation and close of an FdStream or SocketStream,
\* and whatever the kernel and the peer do meanwhile
LEMMA ByteStep ==
    ASSUME ByteInv, Bytes!ByteNext
    PROVE  ByteInv'
<1> DEFINE Table == [Task -> ByteCall \cup {None}]
<1>t. ByteType /\ OwnNumber /\ WireFits /\ ReadInOrder /\ call \in Table
  BY DEF ByteInv, ByteType
<1>r. ASSUME NEW t \in Task, call[t] # None PROVE call[t] \in ByteCall
  BY <1>t, <1>r DEF ByteType
<1> HIDE DEF Table
<1>a. \A x, y, z \in Seq(Nat) : (x \o y) \o z = x \o (y \o z)
  BY ONLY ConcatAssociative, SMTT(40)
<1>m. Bytes!Misuse /\ owner' = owner /\ fd' = fd => ~misused'
  BY <1>t DEF Bytes!Misuse, OwnNumber
\* the calls that end
<1>g. ASSUME NEW t \in Task, call' = [call EXCEPT ![t] = None]
      PROVE  /\ call' \in Table
             /\ \A x \in Task : call'[x] # None => call'[x] = call[x]
  BY <1>t, <1>g DEF Table
<1>1. ASSUME NEW t \in Task, NEW op \in Bytes!SendOps \cup {"receive_some"}, NEW m \in Msg \cup {None},
             Bytes!Start(t, op, m)
      PROVE  ByteInv'
  <2> DEFINE new == [op |-> op, msg |-> m, sent |-> 0, at |-> IF op = "wait_writable" THEN "wait" ELSE "yield"]
  <2>1. /\ call' = [call EXCEPT ![t] = new] /\ call[t] = None
        /\ UNCHANGED <<fd, owner, wire, taken, inbox, came, received, done, misused>>
    BY <1>1 DEF Bytes!Start, Bytes!wireVars
  <2>2. /\ op \in Bytes!SendOps => \A x \in Task : ~(call[x] # None /\ call[x].op \in Bytes!SendOps)
        /\ op = "wait_writable" => fd # -1
        /\ op = "send_all" => m \in Msg
    BY <1>1 DEF Bytes!Start, Bytes!Sending
  <2>3. /\ new \in ByteCall /\ new.op = op /\ new.msg = m /\ new.sent = 0 /\ (new.at = "wait" => fd # -1)
    BY <2>2 DEF ByteCall, ByteOps, Bytes!SendOps
  <2> HIDE DEF new
  <2>4. /\ call' \in Table /\ call'[t] = new
        /\ \A x \in Task : x # t => call'[x] = call[x]
    BY <1>t, <2>1, <2>3 DEF Table
  <2>5. ByteType'
    BY <1>t, <2>1, <2>4 DEF ByteType, Table
  <2>6. OwnNumber'
    BY <1>t, <2>1, <2>3, <2>4 DEF OwnNumber
  <2>7. WireFits' /\ ReadInOrder'
    BY <1>t, <2>1 DEF WireFits, ReadInOrder
  <2>8. OneSender'
    BY <2>2, <2>3, <2>4 DEF OneSender, ByteInv, Bytes!SendOps
  <2>9. HalfSent'
    BY <2>1, <2>2, <2>3, <2>4, SizesAssumption DEF HalfSent, ByteInv
  <2>10. Unbroken(wire)' /\ WholeIfDone'
    BY <2>1 DEF ByteInv, Unbroken, WholeIfDone
  <2> QED BY <2>5, <2>6, <2>7, <2>8, <2>9, <2>10 DEF ByteInv
<1>2. ASSUME NEW t \in Task, Bytes!ResumeSend(t)
      PROVE  ByteInv'
  <2>1. /\ call[t] # None /\ call[t].op = "send_all" /\ Bytes!Misuse
        /\ UNCHANGED <<fd, owner, taken, inbox, came, received>>
    BY <1>2 DEF Bytes!ResumeSend
  <2>2. CASE call' = [call EXCEPT ![t] = None] /\ UNCHANGED <<wire, done>>
    <3>1. ByteType'
      BY <1>t, <1>g, <2>1, <2>2 DEF ByteType, Table
    <3>2. OwnNumber'
      BY <1>t, <1>g, <1>m, <2>1, <2>2 DEF OwnNumber
    <3>3. WireFits' /\ ReadInOrder'
      BY <1>t, <2>1, <2>2 DEF WireFits, ReadInOrder
    <3>4. (OneSender /\ HalfSent /\ Unbroken(wire) /\ WholeIfDone)'
      BY <1>g, <2>2, SendersKept DEF Table
    <3> QED BY <3>1, <3>2, <3>3, <3>4 DEF ByteInv
  <2>3. CASE ~(fd = -1 \/ owner # "ours" \/ peer = "gone")
    <3> DEFINE c == call[t]
               space == Buffer - (Len(wire) - taken)
               left == MsgLen - c.sent
               least == IF space < left THEN space ELSE left
    <3>1. PICK n \in IF kind = "FdStream" \/ least = 0 THEN {least} ELSE 1 .. least :
             /\ wire' = wire \o [i \in 1 .. n |-> <<c.msg, c.sent + i>>]
             /\ IF n = left
                THEN done' = done \cup {c.msg} /\ call' = [call EXCEPT ![t] = None]
                ELSE /\ UNCHANGED done
                     /\ call' = [call EXCEPT ![t] = [c EXCEPT !.sent = @ + n,
                           !.at = IF n = space /\ (kind = "FdStream" \/ n = 0) THEN "wait" ELSE "yield"]]
      BY <1>2, <2>3 DEF Bytes!ResumeSend
    <3>2. /\ c \in ByteCall /\ c.op = "send_all" /\ c.sent \in Nat /\ c.msg \in Msg /\ c.sent < MsgLen
          /\ c.sent > 0 => wire # <<>> /\ wire[Len(wire)] = <<c.msg, c.sent>>
      BY <1>r, <2>1 DEF ByteInv, HalfSent, ByteCall
    <3>3. wire \in Seq(Byte) /\ Len(wire) \in Nat /\ taken \in Nat /\ Unbroken(wire)
      BY <1>t DEF ByteInv, ByteType
    <3>4. space \in Nat /\ left \in Nat \ {0}
      BY <1>t, <3>2, <3>3, SizesAssumption DEF WireFits
    <3> HIDE DEF c, space, left
    <3>5. n \in Nat /\ n <= space /\ n <= left
      BY <3>4
    <3>6. /\ wire' \in Seq(Byte) /\ Len(wire') = Len(wire) + n /\ Unbroken(wire')
          /\ \A i \in 1 .. Len(wire) : wire'[i] = wire[i]
          /\ n > 0 => wire'[Len(wire')] = <<c.msg, c.sent + n>>
          /\ n = 0 => wire' = wire
      <4>1. wire' = wire \o [i \in 1 .. n |-> <<c.msg, c.sent + i>>]
        BY <3>1
      <4> DEFINE added == wire \o [i \in 1 .. n |-> <<c.msg, c.sent + i>>]
      <4>2. /\ added \in Seq(Byte) /\ Len(added) = Len(wire) + n /\ Unbroken(added)
            /\ \A i \in 1 .. Len(wire) : added[i] = wire[i]
            /\ n > 0 => added[Len(added)] = <<c.msg, c.sent + n>>
            /\ n = 0 => added = wire
        <5> DEFINE m == c.msg
                   p == c.sent
        <5>1. m \in Msg /\ p \in Nat /\ (p > 0 => wire # <<>> /\ wire[Len(wire)] = <<m, p>>)
          BY <3>2
        <5> HIDE DEF m, p
        <5>2. LET new == wire \o [i \in 1 .. n |-> <<m, p + i>>] IN
              /\ new \in Seq(Byte) /\ Len(new) = Len(wire) + n /\ Unbroken(new)
              /\ \A i \in 1 .. Len(wire) : new[i] = wire[i]
              /\ n > 0 => new[Len(new)] = <<m, p + n>>
              /\ n = 0 => new = wire
          <6>1. n \in Nat /\ wire \in Seq(Byte) /\ Unbroken(wire)
            BY ONLY <3>3, <3>5
          <6> HIDE DEF Unbroken, Byte
          <6> QED BY ONLY <5>1, <6>1, RunAppended, ZenonT(40)
        <5> QED BY ONLY <5>2 DEF m, p
      <4> QED BY ONLY <4>1, <4>2
    <3> DEFINE next == IF n = space /\ (kind = "FdStream" \/ n = 0) THEN "wait" ELSE "yield"
               new == [c EXCEPT !.sent = @ + n, !.at = next]
    <3>7a. next \in {"yield", "wait", "run"} /\ c.sent + n \in Nat
      BY <3>2, <3>5
    <3> HIDE DEF next
    <3>7. new \in ByteCall /\ new.op = "send_all" /\ new.msg = c.msg /\ new.sent = c.sent + n
      BY ONLY <3>2, <3>7a DEF ByteCall
    <3>8. \/ /\ n = left /\ done' = done \cup {c.msg} /\ call' = [call EXCEPT ![t] = None]
          \/ n # left /\ done' = done /\ call' = [call EXCEPT ![t] = new]
      BY <3>1 DEF next
    <3> HIDE DEF new
    <3>9. /\ call' \in Table
          /\ \A x \in Task : x # t => call'[x] = call[x]
          /\ call'[t] = None \/ (call'[t] = new /\ n # left)
      <4>1. CASE n = left /\ call' = [call EXCEPT ![t] = None]
        BY <1>t, <4>1 DEF Table
      <4>2. CASE n # left /\ call' = [call EXCEPT ![t] = new]
        BY <1>t, <3>7, <4>2 DEF Table
      <4> QED BY <3>8, <4>1, <4>2
    <3>10. ByteType'
      BY <1>t, <2>1, <3>6, <3>9 DEF ByteType, Table
    <3>11. OwnNumber'
      BY <1>t, <1>m, <2>1, <2>3, <3>9 DEF OwnNumber
    <3>12. WireFits' /\ ReadInOrder'
      <4>1. ReadInOrder'
        BY <1>t, <2>1 DEF ReadInOrder
      <4>2. taken' = taken /\ taken <= Len(wire) /\ Len(wire) + space = taken + Buffer
        BY <1>t, <2>1, <3>3, SizesAssumption DEF WireFits, space
      <4>3. WireFits'
        BY <3>3, <3>4, <3>5, <3>6, <4>2, SizesAssumption DEF WireFits
      <4> QED BY <4>1, <4>3
    <3>13. OneSender'
      BY <2>1, <3>9, <3>7 DEF OneSender, ByteInv, Bytes!SendOps
    <3>14. HalfSent'
      <4> SUFFICES ASSUME NEW x \in Task, call'[x] # None, call'[x].op = "send_all"
                   PROVE  /\ call'[x].msg \in Msg /\ call'[x].sent < MsgLen
                          /\ call'[x].sent > 0 => wire' # <<>> /\ wire'[Len(wire')] = <<call'[x].msg, call'[x].sent>>
        BY DEF HalfSent
      <4>1. x = t
        BY <2>1, <3>9 DEF OneSender, ByteInv, Bytes!SendOps
      <4>2. call'[x] = new /\ n < left
        BY <3>4, <3>5, <3>9, <4>1
      <4>3. c.sent + n < MsgLen
        BY <3>2, <3>5, <4>2, SizesAssumption DEF left
      <4>4. CASE n = 0
        BY <3>2, <3>6, <3>7, <4>2, <4>3, <4>4
      <4>5. CASE n > 0
        <5>1. wire' # <<>>
          BY <3>3, <3>5, <3>6, <4>5, EmptySeq
        <5> QED BY <3>2, <3>6, <3>7, <4>2, <4>3, <4>5, <5>1
      <4> QED BY <3>5, <4>4, <4>5
    <3>15. WholeIfDone'
      <4> SUFFICES ASSUME NEW m \in done'
                   PROVE  \E i \in 1 .. Len(wire') : wire'[i] = <<m, MsgLen>>
        BY DEF WholeIfDone
      <4>1. CASE m \in done
        <5>1. PICK i \in 1 .. Len(wire) : wire[i] = <<m, MsgLen>>
          BY <4>1 DEF WholeIfDone, ByteInv
        <5>2. i \in 1 .. Len(wire') /\ wire'[i] = wire[i]
          BY <3>3, <3>5, <3>6
        <5> QED BY <5>1, <5>2
      <4>2. CASE m \notin done
        <5>1. n = left /\ m = c.msg
          BY <3>8, <4>2
        <5>2. n > 0 /\ c.sent + n = MsgLen
          BY <3>2, <3>4, <5>1, SizesAssumption DEF left
        <5>3. Len(wire') \in 1 .. Len(wire')
          BY <3>3, <3>5, <3>6, <5>2
        <5> QED BY <3>6, <5>1, <5>2, <5>3
      <4> QED BY <4>1, <4>2
    <3> QED BY <3>6, <3>10, <3>11, <3>12, <3>13, <3>14, <3>15 DEF ByteInv
  <2> QED BY <1>2, <2>2, <2>3 DEF Bytes!ResumeSend
<1>3. ASSUME NEW t \in Task, Bytes!ResumeReceive(t)
      PROVE  ByteInv'
  <2> DEFINE new == [call[t] EXCEPT !.at = "wait"]
  <2>1. /\ call[t] # None /\ Bytes!Misuse
        /\ UNCHANGED <<fd, owner, wire, taken, came, done>>
        /\ \/ call' = [call EXCEPT ![t] = None]
           \/ call' = [call EXCEPT ![t] = new] /\ fd # -1
    BY <1>3 DEF Bytes!ResumeReceive
  <2>2. \/ UNCHANGED <<inbox, received>>
        \/ \E n \in 1 .. Len(inbox) :
             received' = received \o SubSeq(inbox, 1, n) /\ inbox' = SubSeq(inbox, n + 1, Len(inbox))
    BY <1>3 DEF Bytes!ResumeReceive
  <2>3. /\ new \in ByteCall
        /\ new.op = call[t].op /\ new.msg = call[t].msg /\ new.sent = call[t].sent
    BY <1>r, <2>1 DEF ByteCall
  <2> HIDE DEF new
  <2>4. /\ call' \in Table
        /\ \A x \in Task : call'[x] # None =>
             /\ call[x] # None /\ (call'[x].at = "wait" => call[x].at = "wait" \/ fd # -1)
             /\ call'[x].op = call[x].op /\ call'[x].msg = call[x].msg /\ call'[x].sent = call[x].sent
    BY <1>t, <2>1, <2>3 DEF Table
  <2>5. inbox' \in Seq(Nat) /\ received' \in Seq(Nat) /\ received' \o inbox' = received \o inbox
    <3>1. inbox \in Seq(Nat) /\ received \in Seq(Nat) /\ Len(inbox) \in Nat
      BY <1>t DEF ByteType
    <3>2. ASSUME NEW n \in 1 .. Len(inbox),
                 received' = received \o SubSeq(inbox, 1, n), inbox' = SubSeq(inbox, n + 1, Len(inbox))
          PROVE  inbox' \in Seq(Nat) /\ received' \in Seq(Nat) /\ received' \o inbox' = received \o inbox
      <4> DEFINE l == SubSeq(inbox, 1, n)
                 r == SubSeq(inbox, n + 1, Len(inbox))
      <4>1. n \in 0 .. Len(inbox)
        BY <3>1
      <4>2. l \in Seq(Nat) /\ r \in Seq(Nat) /\ l \o r = inbox
        BY ONLY <3>1, <4>1, SplitQueue
      <4> HIDE DEF l, r
      <4>3. (received \o l) \o r = received \o inbox
        <5>1. (received \o l) \o r = received \o (l \o r)
          BY ONLY <3>1, <4>2, <1>a, Zenon
        <5> QED BY ONLY <4>2, <5>1
      <4>4. received \o l \in Seq(Nat)
        BY ONLY <3>1, <4>2, ConcatProperties
      <4> QED BY <3>2, <4>2, <4>3, <4>4 DEF l, r
    <3> QED BY <2>2, <3>1, <3>2
  <2>6. ByteType'
    BY <1>t, <2>1, <2>4, <2>5 DEF ByteType, Table
  <2>7. OwnNumber'
    BY <1>t, <1>m, <2>1, <2>4 DEF OwnNumber
  <2>8. WireFits' /\ ReadInOrder'
    BY <1>t, <2>1, <2>5 DEF WireFits, ReadInOrder
  <2>9. (OneSender /\ HalfSent /\ Unbroken(wire) /\ WholeIfDone)'
    BY <2>1, <2>4, SendersKept DEF Table
  <2> QED BY <2>6, <2>7, <2>8, <2>9 DEF ByteInv
<1>4. ASSUME NEW t \in Task, Bytes!ResumeBusy(t) \/ Bytes!ResumeEof(t)
      PROVE  ByteInv'
  <2>1. /\ call' = [call EXCEPT ![t] = None] /\ Bytes!Misuse
        /\ UNCHANGED <<fd, owner, wire, taken, inbox, came, received, done>>
    BY <1>4 DEF Bytes!ResumeBusy, Bytes!ResumeEof, Bytes!wireVars
  <2>2. ByteType'
    BY <1>t, <1>g, <2>1 DEF ByteType, Table
  <2>3. OwnNumber'
    BY <1>t, <1>g, <1>m, <2>1 DEF OwnNumber
  <2>4. WireFits' /\ ReadInOrder'
    BY <1>t, <2>1 DEF WireFits, ReadInOrder
  <2>5. (OneSender /\ HalfSent /\ Unbroken(wire) /\ WholeIfDone)'
    BY <1>g, <2>1, SendersKept DEF Table
  <2> QED BY <2>2, <2>3, <2>4, <2>5 DEF ByteInv
<1>5. ASSUME NEW t \in Task, Bytes!Ready(t)
      PROVE  ByteInv'
  <2> DEFINE new == [call[t] EXCEPT !.at = "run"]
  <2>1. /\ call' = [call EXCEPT ![t] = None] \/ (call' = [call EXCEPT ![t] = new] /\ call[t] # None)
        /\ UNCHANGED <<fd, owner, wire, taken, inbox, came, received, done, misused>>
    BY <1>5 DEF Bytes!Ready, Bytes!wireVars
  <2>2. call[t] # None => /\ new \in ByteCall /\ new.at = "run"
                          /\ new.op = call[t].op /\ new.msg = call[t].msg /\ new.sent = call[t].sent
    BY <1>r DEF ByteCall
  <2> HIDE DEF new
  <2>3. /\ call' \in Table
        /\ \A x \in Task : call'[x] # None =>
             /\ call[x] # None /\ (call'[x].at = "wait" => call[x].at = "wait")
             /\ call'[x].op = call[x].op /\ call'[x].msg = call[x].msg /\ call'[x].sent = call[x].sent
    BY <1>t, <2>1, <2>2 DEF Table
  <2>4. ByteType'
    BY <1>t, <2>1, <2>3 DEF ByteType, Table
  <2>5. OwnNumber'
    BY <1>t, <2>1, <2>3 DEF OwnNumber
  <2>6. WireFits' /\ ReadInOrder'
    BY <1>t, <2>1 DEF WireFits, ReadInOrder
  <2>7. (OneSender /\ HalfSent /\ Unbroken(wire) /\ WholeIfDone)'
    BY <2>1, <2>3, SendersKept DEF Table
  <2> QED BY <2>4, <2>5, <2>6, <2>7 DEF ByteInv
<1>6. ASSUME NEW t \in Task, Bytes!CancelCall(t)
      PROVE  ByteInv'
  <2>1. /\ call' = [call EXCEPT ![t] = None]
        /\ UNCHANGED <<fd, owner, wire, taken, inbox, came, received, done, misused>>
    BY <1>6 DEF Bytes!CancelCall, Bytes!wireVars
  <2>2. ByteType'
    BY <1>t, <1>g, <2>1 DEF ByteType, Table
  <2>3. OwnNumber'
    BY <1>t, <1>g, <2>1 DEF OwnNumber
  <2>4. WireFits' /\ ReadInOrder'
    BY <1>t, <2>1 DEF WireFits, ReadInOrder
  <2>5. (OneSender /\ HalfSent /\ Unbroken(wire) /\ WholeIfDone)'
    BY <1>g, <2>1, SendersKept DEF Table
  <2> QED BY <2>2, <2>3, <2>4, <2>5 DEF ByteInv
<1>7. ASSUME Bytes!Close \/ Bytes!Reuse
      PROVE  ByteInv'
  <2>1. /\ \/ /\ fd' = -1
              /\ call' = [t \in Task |-> IF call[t] # None /\ call[t].at = "wait" THEN None ELSE call[t]]
           \/ fd' = fd /\ call' = call /\ owner = "free" /\ owner' = "other"
        /\ UNCHANGED <<wire, taken, inbox, came, received, done, misused>>
    BY <1>7 DEF Bytes!Close, Bytes!Reuse, Bytes!wireVars
  <2>2. /\ call' \in Table
        /\ \A x \in Task : call'[x] # None =>
              call'[x] = call[x] /\ (fd' = -1 /\ fd # -1 => call'[x].at # "wait")
    BY <1>t, <2>1 DEF Table
  <2>3. ByteType'
    BY <1>t, <2>1, <2>2 DEF ByteType, Table
  <2>4. OwnNumber'
    BY <1>t, <2>1, <2>2 DEF OwnNumber
  <2>5. WireFits' /\ ReadInOrder'
    BY <1>t, <2>1 DEF WireFits, ReadInOrder
  <2>6. (OneSender /\ HalfSent /\ Unbroken(wire) /\ WholeIfDone)'
    BY <2>1, <2>2, SendersKept DEF Table
  <2> QED BY <2>3, <2>4, <2>5, <2>6 DEF ByteInv
<1>8. ASSUME Bytes!Peer
      PROVE  ByteInv'
  <2>1. UNCHANGED <<fd, owner, call, wire, received, done, misused>>
    BY <1>8 DEF Bytes!Peer
  <2>2. \/ UNCHANGED <<inbox, came>> /\ taken' \in taken .. Len(wire)
        \/ taken' = taken /\ came' = came + 1 /\ inbox' = Append(inbox, came + 1)
    <3>1. Len(wire) \in Nat /\ taken \in Nat /\ taken <= Len(wire)
      BY <1>t DEF ByteType, WireFits
    <3> QED BY <1>8, <3>1 DEF Bytes!Peer
  <2>3. ByteType' /\ WireFits'
    <3>1. taken' \in Nat /\ came' \in Nat /\ inbox' \in Seq(Nat) /\ wire' = wire
      <4>1. inbox \in Seq(Nat) /\ came \in Nat /\ taken \in Nat /\ Len(wire) \in Nat /\ came + 1 \in Nat
        BY <1>t DEF ByteType
      <4>2. Append(inbox, came + 1) \in Seq(Nat)
        BY ONLY <4>1, AppendProperties
      <4>3. taken' \in Nat
        BY <2>2, <4>1
      <4> QED BY <2>1, <2>2, <4>1, <4>2, <4>3
    <3>2. taken <= taken' /\ taken' <= Len(wire)
      BY <1>t, <2>2 DEF ByteType, WireFits
    <3>3. WireFits'
      BY <1>t, <3>1, <3>2, SizesAssumption DEF ByteType, WireFits
    <3> QED BY <1>t, <2>1, <3>1, <3>3 DEF ByteType
  <2>4. OwnNumber'
    BY <1>t, <2>1 DEF OwnNumber
  <2>5. ReadInOrder'
    <3>1. CASE UNCHANGED <<inbox, came>>
      BY <1>t, <2>1, <3>1 DEF ReadInOrder
    <3>2. CASE came' = came + 1 /\ inbox' = Append(inbox, came + 1)
      <4> DEFINE q == received \o inbox
                 new == received \o inbox'
      <4>1. /\ received \in Seq(Nat) /\ inbox \in Seq(Nat) /\ came \in Nat /\ came + 1 \in Nat
            /\ q = [i \in 1 .. came |-> i]
        BY <1>t DEF ByteType, ReadInOrder
      <4>2. q \in Seq(Nat) /\ DOMAIN q = 1 .. came /\ DOMAIN q = 1 .. Len(q) /\ Len(q) \in Nat
        BY <4>1, ConcatProperties, LenProperties
      <4>3. Len(q) = came
        BY ONLY <4>1, <4>2
      <4>4. Append(inbox, came + 1) = inbox \o <<came + 1>> /\ <<came + 1>> \in Seq(Nat)
        BY ONLY <4>1, AppendIsConcat
      <4>5. new = q \o <<came + 1>>
        <5>1. (received \o inbox) \o <<came + 1>> = received \o (inbox \o <<came + 1>>)
          BY ONLY <4>1, <4>4, <1>a, Zenon
        <5> QED BY ONLY <3>2, <4>4, <5>1 DEF new, q
      <4> HIDE DEF q
      <4>6. q \o <<came + 1>> = Append(q, came + 1)
        BY ONLY <4>1, <4>2, AppendIsConcat
      <4>7. Append(q, came + 1) = [i \in 1 .. came + 1 |-> i]
        BY ONLY <4>1, <4>2, <4>3
      <4> QED BY <2>1, <3>2, <4>5, <4>6, <4>7 DEF ReadInOrder
    <3> QED BY <2>2, <3>1, <3>2
  <2>6. (OneSender /\ HalfSent /\ Unbroken(wire) /\ WholeIfDone)'
    BY <1>t, <2>1, SendersKept DEF Table
  <2> QED BY <2>3, <2>4, <2>5, <2>6 DEF ByteInv
<1> QED BY <1>1, <1>2, <1>3, <1>4, <1>5, <1>6, <1>7, <1>8 DEF Bytes!ByteNext

-----------------------------------------------------------------------------
(* epoll                                                                   *)

EpollWaiters == [read_task : Task \cup {None}, write_task : Task \cup {None}, current_flags : SUBSET {"IN", "OUT"}]
Sleepers == [Task -> (Fd \X Epoll!Mode) \cup {None}]

EpollType ==
    /\ epoll_registered \in [Fd -> EpollWaiters]
    /\ DOMAIN epoll = Fd
    /\ file \in [Fd -> {"open", "closed"}]
    /\ waiting \in Sleepers

EpollInv == EpollType /\ Epoll!EpollForgetsNobody

\* What Nobody, Wanted and the two fields of EpollWaiters have to do with each other
LEMMA WantedFacts ==
    ASSUME NEW w \in EpollWaiters
    PROVE  /\ \A m \in Epoll!Mode : w[m] \in Task \cup {None}
           /\ Epoll!Wanted(w) \in SUBSET {"IN", "OUT"}
           /\ \A m \in Epoll!Mode : Epoll!Flag(m) \in Epoll!Wanted(w) <=> w[m] # None
           /\ Epoll!Nobody \in EpollWaiters /\ Epoll!Wanted(Epoll!Nobody) = {}
           /\ Epoll!Nobody.current_flags = {} /\ \A m \in Epoll!Mode : Epoll!Nobody[m] = None
           /\ [w EXCEPT !.current_flags = Epoll!Wanted(w)] \in EpollWaiters
           /\ [w EXCEPT !.current_flags = Epoll!Wanted(w)].current_flags = Epoll!Wanted(w)
           /\ \A m \in Epoll!Mode : [w EXCEPT !.current_flags = Epoll!Wanted(w)][m] = w[m]
<1>1. \A m \in Epoll!Mode : w[m] \in Task \cup {None}
  BY DEF EpollWaiters, Epoll!Mode
<1>2. Epoll!Wanted(w) \in SUBSET {"IN", "OUT"}
  BY DEF Epoll!Wanted, Epoll!Flag
<1>3. \A m \in Epoll!Mode : Epoll!Flag(m) \in Epoll!Wanted(w) <=> w[m] # None
  BY DEF Epoll!Wanted, Epoll!Flag, Epoll!Mode
<1>4. /\ Epoll!Nobody \in EpollWaiters
      /\ Epoll!Nobody.current_flags = {} /\ \A m \in Epoll!Mode : Epoll!Nobody[m] = None
  BY DEF EpollWaiters, Epoll!Nobody, Epoll!Mode
<1>5. Epoll!Wanted(Epoll!Nobody) = {}
  BY <1>4 DEF Epoll!Wanted
<1> DEFINE W == Epoll!Wanted(w)
<1> HIDE DEF W
<1>6. /\ [w EXCEPT !.current_flags = W] \in EpollWaiters
      /\ [w EXCEPT !.current_flags = W].current_flags = W
      /\ \A m \in Epoll!Mode : [w EXCEPT !.current_flags = W][m] = w[m]
  BY <1>2 DEF EpollWaiters, Epoll!Mode, W
<1> QED BY <1>1, <1>2, <1>3, <1>4, <1>5, <1>6 DEF W

\* The entry of one fd is replaced, in step with who sleeps on it
LEMMA EntryReplaced ==
    ASSUME EpollInv, NEW f \in Fd, NEW w \in EpollWaiters,
           epoll_registered' = [epoll_registered EXCEPT ![f] = w],
           w.current_flags = Epoll!Wanted(w), waiting' \in Sleepers,
           \A t \in Task, m \in Epoll!Mode : w[m] = t <=> waiting'[t] = <<f, m>>,
           \A t \in Task, g \in Fd, m \in Epoll!Mode : g # f => (waiting'[t] = <<g, m>> <=> waiting[t] = <<g, m>>),
           file' \in [Fd -> {"open", "closed"}],
           DOMAIN epoll' = Fd, \A g \in Fd : g # f => epoll'[g] = epoll[g],
           w = Epoll!Nobody \/ epoll'[f] = Epoll!Wanted(w) \/ f \in behind',
           behind \ {f} \subseteq behind'
    PROVE  EpollInv'
<1> USE DEF EpollInv, EpollType
<1>1. epoll_registered' \in [Fd -> EpollWaiters] /\ epoll_registered'[f] = w
      /\ \A g \in Fd : g # f => epoll_registered'[g] = epoll_registered[g]
  OBVIOUS
<1>2. ASSUME NEW t \in Task, NEW g \in Fd, NEW m \in Epoll!Mode
      PROVE  epoll_registered'[g][m] = t <=> waiting'[t] = <<g, m>>
  BY <1>1, <1>2 DEF Epoll!EpollForgetsNobody
<1>3. ASSUME NEW g \in Fd
      PROVE  epoll_registered'[g].current_flags = Epoll!Wanted(epoll_registered'[g])
  BY <1>1, <1>3 DEF Epoll!EpollForgetsNobody
<1>4. ASSUME NEW g \in Fd, g \notin behind', epoll_registered'[g] # Epoll!Nobody
      PROVE  epoll'[g] = Epoll!Wanted(epoll_registered'[g])
  BY <1>1, <1>4 DEF Epoll!EpollForgetsNobody
<1>5. EpollType'
  BY <1>1
<1>6. Epoll!EpollForgetsNobody'
  BY ONLY <1>2, <1>3, <1>4 DEF Epoll!EpollForgetsNobody, Epoll!Wanted, Epoll!Nobody
<1> QED BY <1>5, <1>6

\* _update_registrations, called with waiters whose flags are out of date
LEMMA UpdateRegistrations ==
    ASSUME EpollInv, NEW f \in Fd, NEW w \in EpollWaiters, NEW table \in Sleepers,
           Epoll!Wanted(w) # w.current_flags,
           \A t \in Task, m \in Epoll!Mode : w[m] = t <=> table[t] = <<f, m>>,
           \A t \in Task, g \in Fd, m \in Epoll!Mode : g # f => (table[t] = <<g, m>> <=> waiting[t] = <<g, m>>),
           Epoll!_update_registrations(f, w, table), file' = file
    PROVE  EpollInv'
<1> DEFINE W == Epoll!Wanted(w)
           armed == [w EXCEPT !.current_flags = W]
           bad == file[f] = "closed"
           new == IF bad \/ W = {} THEN Epoll!Nobody ELSE armed
<1>1. /\ epoll_registered' = [epoll_registered EXCEPT ![f] = new]
      /\ epoll' = IF ~bad THEN [epoll EXCEPT ![f] = W] ELSE epoll
      /\ waiting' = IF bad THEN Epoll!Wake(Epoll!Waiters(w), table) ELSE table
      /\ behind' = behind \ {f}
  BY DEF Epoll!_update_registrations
<1>2. armed \in EpollWaiters /\ armed.current_flags = W /\ (\A m \in Epoll!Mode : armed[m] = w[m]) /\ Epoll!Wanted(armed) = W
  <2>1. armed \in EpollWaiters /\ armed.current_flags = W /\ \A m \in Epoll!Mode : armed[m] = w[m]
    BY WantedFacts
  <2> HIDE DEF armed
  <2>2. Epoll!Wanted(armed) = W
    BY <2>1 DEF Epoll!Wanted, W
  <2> QED BY <2>1, <2>2
<1> HIDE DEF armed
<1>3. /\ new \in EpollWaiters /\ new.current_flags = Epoll!Wanted(new)
      /\ new = Epoll!Nobody \/ (new = armed /\ ~bad)
  BY <1>2, WantedFacts
<1>4. ASSUME NEW m \in Epoll!Mode
      PROVE  new[m] = IF bad THEN None ELSE w[m]
  <2>1. W = {} => w[m] = None
    BY WantedFacts
  <2> QED BY <1>2, <2>1, WantedFacts
<1>5. waiting' \in Sleepers
  BY <1>1 DEF Sleepers, Epoll!Wake
<1>p. \A g \in Fd, m \in Epoll!Mode : <<g, m>> # None
  BY WaitingAssumption DEF Epoll!Mode
<1>n. None \notin Task
  BY WaitingAssumption
<1>6. ASSUME NEW t \in Task
      PROVE  waiting'[t] = IF bad /\ (\E m \in Epoll!Mode : w[m] = t) THEN None ELSE table[t]
  BY <1>1, <1>n DEF Epoll!Wake, Epoll!Waiters
<1>7. ASSUME NEW t \in Task, NEW m \in Epoll!Mode
      PROVE  new[m] = t <=> waiting'[t] = <<f, m>>
  <2>1. w[m] = t <=> table[t] = <<f, m>>
    OBVIOUS
  <2>2. <<f, m>> # None /\ t # None
    BY <1>p, <1>n
  <2>3. CASE bad
    <3>1. new[m] # t
      BY <1>4, <2>2, <2>3
    <3>2. waiting'[t] # <<f, m>>
      BY <1>6, <2>1, <2>2, <2>3
    <3> QED BY <3>1, <3>2
  <2>4. CASE ~bad
    <3>1. new[m] = w[m] /\ waiting'[t] = table[t]
      BY <1>4, <1>6, <2>4
    <3> QED BY <2>1, <3>1
  <2> QED BY <2>3, <2>4
<1>8. ASSUME NEW t \in Task, NEW g \in Fd, NEW m \in Epoll!Mode, g # f
      PROVE  waiting'[t] = <<g, m>> <=> waiting[t] = <<g, m>>
  <2>1. CASE bad /\ \E k \in Epoll!Mode : w[k] = t
    <3>1. PICK k \in Epoll!Mode : table[t] = <<f, k>>
      BY <2>1
    <3>2. <<f, k>> # <<g, m>>
      BY <1>8
    <3>3. waiting'[t] = None /\ <<g, m>> # None
      BY <1>6, <1>p, <2>1
    <3>4. table[t] = <<g, m>> <=> waiting[t] = <<g, m>>
      BY <1>8
    <3> QED BY ONLY <3>1, <3>2, <3>3, <3>4
  <2>2. CASE ~(bad /\ \E k \in Epoll!Mode : w[k] = t)
    BY <1>6, <1>8, <2>2
  <2> QED BY <2>1, <2>2
<1>9. /\ DOMAIN epoll' = Fd /\ \A g \in Fd : g # f => epoll'[g] = epoll[g]
      /\ new = Epoll!Nobody \/ epoll'[f] = Epoll!Wanted(new)
  BY <1>1, <1>2, <1>3 DEF EpollInv, EpollType
<1>10. /\ behind \ {f} \subseteq behind' /\ epoll_registered' = [epoll_registered EXCEPT ![f] = new]
       /\ file' \in [Fd -> {"open", "closed"}]
  BY <1>1 DEF EpollInv, EpollType
<1> HIDE DEF new
<1> QED BY ONLY EpollInv, f \in Fd, <1>3, <1>5, <1>7, <1>8, <1>9, <1>10, EntryReplaced, ZenonT(30)

\* Waiting, aborting, events, closes with and without a word, and reuse of the
\* number keep the EpollWaiters and the kernel's flags right
LEMMA EpollStep ==
    ASSUME EpollInv, Epoll!EpollNext
    PROVE  EpollInv'
<1>t. /\ epoll_registered \in [Fd -> EpollWaiters] /\ DOMAIN epoll = Fd /\ waiting \in Sleepers
      /\ file \in [Fd -> {"open", "closed"}]
      /\ \A t \in Task, f \in Fd, m \in Epoll!Mode : epoll_registered[f][m] = t <=> waiting[t] = <<f, m>>
      /\ \A f \in Fd : epoll_registered[f].current_flags = Epoll!Wanted(epoll_registered[f])
  BY DEF EpollInv, EpollType, Epoll!EpollForgetsNobody
<1>p. \A g \in Fd, m \in Epoll!Mode : <<g, m>> # None
  BY WaitingAssumption DEF Epoll!Mode
<1>n. None \notin Task
  BY WaitingAssumption
\* one field of one entry is set
<1>e. ASSUME NEW f \in Fd, NEW mode \in Epoll!Mode, NEW x \in Task \cup {None},
             (epoll_registered[f][mode] = None) # (x = None)
      PROVE  LET w == [epoll_registered[f] EXCEPT ![mode] = x] IN
             /\ w \in EpollWaiters /\ w[mode] = x
             /\ \A m \in Epoll!Mode : m # mode => w[m] = epoll_registered[f][m]
             /\ Epoll!Wanted(w) # w.current_flags
  <2> DEFINE old == epoll_registered[f]
             w == [old EXCEPT ![mode] = x]
  <2>1. old \in EpollWaiters /\ old.current_flags = Epoll!Wanted(old)
    BY <1>t
  <2> HIDE DEF old
  <2>2. /\ w \in EpollWaiters /\ w[mode] = x /\ w.current_flags = old.current_flags
        /\ \A m \in Epoll!Mode : m # mode => w[m] = old[m]
    BY <2>1 DEF EpollWaiters, Epoll!Mode
  <2> HIDE DEF w
  <2>3. Epoll!Flag(mode) \in Epoll!Wanted(w) <=> x # None
    BY <2>2, WantedFacts
  <2>4. Epoll!Flag(mode) \in Epoll!Wanted(old) <=> old[mode] # None
    BY <2>1, WantedFacts
  <2>5. Epoll!Wanted(w) # w.current_flags
    BY <1>e, <2>1, <2>2, <2>3, <2>4 DEF old
  <2> QED BY <2>2, <2>5 DEF w, old
<1>1. ASSUME NEW t \in Task, NEW f \in Fd, NEW mode \in Epoll!Mode, Epoll!_epoll_wait(t, f, mode)
      PROVE  EpollInv'
  <2> DEFINE w == [epoll_registered[f] EXCEPT ![mode] = t]
             table == [waiting EXCEPT ![t] = <<f, mode>>]
  <2>1. waiting[t] = None /\ epoll_registered[f][mode] = None /\ Epoll!_update_registrations(f, w, table)
        /\ file' = file
    BY <1>1 DEF Epoll!_epoll_wait
  <2>2. /\ w \in EpollWaiters /\ w[mode] = t
        /\ \A m \in Epoll!Mode : m # mode => w[m] = epoll_registered[f][m]
        /\ Epoll!Wanted(w) # w.current_flags
    BY <1>e, <1>n, <2>1
  <2>3. /\ table \in Sleepers /\ table[t] = <<f, mode>> /\ \A x \in Task : x # t => table[x] = waiting[x]
    BY <1>t DEF Sleepers
  <2> HIDE DEF w, table
  <2>4. ASSUME NEW x \in Task, NEW m \in Epoll!Mode PROVE w[m] = x <=> table[x] = <<f, m>>
    <3>1. CASE m = mode
      <4>1. waiting[x] # <<f, mode>>
        BY <1>t, <1>n, <2>1
      <4> QED BY <2>2, <2>3, <3>1, <4>1
    <3>2. CASE m # mode
      <4>1. w[m] = x <=> waiting[x] = <<f, m>>
        BY <1>t, <2>2, <3>2
      <4>2. <<f, m>> # <<f, mode>> /\ <<f, m>> # None
        BY <1>p, <3>2
      <4> QED BY <2>1, <2>3, <4>1, <4>2
    <3> QED BY <3>1, <3>2
  <2>5. ASSUME NEW x \in Task, NEW g \in Fd, NEW m \in Epoll!Mode, g # f
        PROVE  table[x] = <<g, m>> <=> waiting[x] = <<g, m>>
    BY <1>p, <2>1, <2>3, <2>5
  <2> QED BY <2>1, <2>2, <2>3, <2>4, <2>5, UpdateRegistrations
<1>2. ASSUME NEW t \in Task, Epoll!AbortWait(t)
      PROVE  EpollInv'
  <2>0. PICK f \in Fd, mode \in Epoll!Mode : waiting[t] = <<f, mode>>
    BY <1>2, <1>t DEF Epoll!AbortWait, Sleepers
  <2> DEFINE w == [epoll_registered[f] EXCEPT ![mode] = None]
             table == [waiting EXCEPT ![t] = None]
  <2>1. epoll_registered[f][mode] = t /\ Epoll!_update_registrations(f, w, table)
        /\ file' = file
    BY <1>2, <1>t, <2>0 DEF Epoll!AbortWait
  <2>2. /\ w \in EpollWaiters /\ w[mode] = None
        /\ \A m \in Epoll!Mode : m # mode => w[m] = epoll_registered[f][m]
        /\ Epoll!Wanted(w) # w.current_flags
    BY <1>e, <1>n, <2>1
  <2>3. /\ table \in Sleepers /\ table[t] = None /\ \A x \in Task : x # t => table[x] = waiting[x]
    BY <1>t DEF Sleepers
  <2> HIDE DEF w, table
  <2>4. ASSUME NEW x \in Task, NEW m \in Epoll!Mode PROVE w[m] = x <=> table[x] = <<f, m>>
    <3>1. CASE m = mode
      <4>1. x # t => waiting[x] # <<f, mode>>
        BY <1>t, <1>n, <2>1
      <4> QED BY <1>n, <1>p, <2>2, <2>3, <3>1, <4>1
    <3>2. CASE m # mode
      <4>1. w[m] = x <=> waiting[x] = <<f, m>>
        BY <1>t, <2>2, <3>2
      <4>2. <<f, m>> # <<f, mode>> /\ <<f, m>> # None
        BY <1>p, <3>2
      <4> QED BY <2>0, <2>3, <4>1, <4>2
    <3> QED BY <3>1, <3>2
  <2>5. ASSUME NEW x \in Task, NEW g \in Fd, NEW m \in Epoll!Mode, g # f
        PROVE  table[x] = <<g, m>> <=> waiting[x] = <<g, m>>
    BY <1>p, <2>0, <2>3, <2>5
  <2> QED BY <2>1, <2>2, <2>3, <2>4, <2>5, UpdateRegistrations
<1>3. ASSUME NEW f \in Fd, NEW flags, Epoll!process_events(f, flags)
      PROVE  EpollInv'
  <2> DEFINE old == [epoll_registered[f] EXCEPT !.current_flags = {}]
             woken == {m \in Epoll!Mode : old[m] # None /\ flags \ {Epoll!Flag(CHOOSE n \in Epoll!Mode : n # m)} # {}}
             w == [m \in DOMAIN old |-> IF m \in woken THEN None ELSE old[m]]
             table == Epoll!Wake({old[m] : m \in woken}, waiting)
             armed == [w EXCEPT !.current_flags = Epoll!Wanted(w)]
             new == IF Epoll!Wanted(w) = {} \/ file[f] = "closed" THEN Epoll!Nobody ELSE armed
  <2>1. /\ epoll_registered' = [epoll_registered EXCEPT ![f] = new]
        /\ epoll' = [epoll EXCEPT ![f] = Epoll!Rearmed(f, w)]
        /\ waiting' = IF file[f] = "closed" THEN Epoll!Wake(Epoll!Waiters(w), table) ELSE table
        /\ behind' = behind \ {f}
    BY <1>3 DEF Epoll!process_events
  <2>2. /\ old \in EpollWaiters /\ \A m \in Epoll!Mode : old[m] = epoll_registered[f][m]
        /\ woken \subseteq Epoll!Mode
    BY <1>t DEF EpollWaiters, Epoll!Mode
  <2> HIDE DEF old, woken
  <2>3. w \in EpollWaiters /\ \A m \in Epoll!Mode : w[m] = IF m \in woken THEN None ELSE old[m]
    BY <2>2 DEF EpollWaiters, Epoll!Mode
  <2> HIDE DEF w
  <2>4. /\ armed \in EpollWaiters /\ armed.current_flags = Epoll!Wanted(w) /\ \A m \in Epoll!Mode : armed[m] = w[m]
    BY <2>3, WantedFacts
  <2> HIDE DEF armed
  <2>5. Epoll!Wanted(armed) = Epoll!Wanted(w)
    BY <2>4 DEF Epoll!Wanted
  <2>6. /\ new \in EpollWaiters /\ new.current_flags = Epoll!Wanted(new)
        /\ new = Epoll!Nobody \/ Epoll!Rearmed(f, w) = Epoll!Wanted(new)
    <3>1. new = Epoll!Nobody \/ (new = armed /\ file[f] # "closed")
      OBVIOUS
    <3>2. file[f] # "closed" => file[f] = "open"
      BY <1>t
    <3> QED BY <2>3, <2>4, <2>5, <3>1, <3>2, WantedFacts DEF Epoll!Rearmed
  <2>7. ASSUME NEW m \in Epoll!Mode
        PROVE  /\ w[m] = IF m \in woken THEN None ELSE epoll_registered[f][m]
               /\ new[m] = IF file[f] = "closed" THEN None ELSE w[m]
    <3>1. Epoll!Wanted(w) = {} => w[m] = None
      BY <2>3, WantedFacts
    <3> QED BY <2>2, <2>3, <2>4, <3>1, WantedFacts
  <2>8. table \in Sleepers /\ \A t \in Task : table[t] = IF \E m \in woken : old[m] = t THEN None ELSE waiting[t]
    BY <1>t DEF Sleepers, Epoll!Wake
  <2> HIDE DEF table
  <2>9. waiting' \in Sleepers
    BY <2>1, <2>8 DEF Sleepers, Epoll!Wake
  <2>10. ASSUME NEW t \in Task
         PROVE  \/ waiting'[t] = waiting[t]
                   /\ ~(\E m \in woken : epoll_registered[f][m] = t)
                   /\ ~(file[f] = "closed" /\ \E m \in Epoll!Mode : w[m] = t)
                \/ waiting'[t] = None
                   /\ \/ \E m \in woken : epoll_registered[f][m] = t
                      \/ file[f] = "closed" /\ \E m \in Epoll!Mode : w[m] = t
    BY <1>n, <2>1, <2>2, <2>8 DEF Epoll!Wake, Epoll!Waiters
  <2> HIDE DEF new
  <2>11. ASSUME NEW t \in Task, NEW m \in Epoll!Mode
         PROVE  new[m] = t <=> waiting'[t] = <<f, m>>
    <3>1. epoll_registered[f][m] = t <=> waiting[t] = <<f, m>>
      BY <1>t
    <3>2. ASSUME NEW k \in Epoll!Mode, epoll_registered[f][k] = t, waiting[t] = <<f, m>>
          PROVE  k = m
      <4>1. waiting[t] = <<f, k>>
        BY <1>t, <3>2
      <4> QED BY <3>2, <4>1
    <3>3. CASE waiting'[t] = waiting[t]
                   /\ ~(\E k \in woken : epoll_registered[f][k] = t)
                   /\ ~(file[f] = "closed" /\ \E k \in Epoll!Mode : w[k] = t)
      BY <1>n, <2>7, <3>1, <3>3
    <3>4. CASE waiting'[t] = None
                   /\ \/ \E k \in woken : epoll_registered[f][k] = t
                      \/ file[f] = "closed" /\ \E k \in Epoll!Mode : w[k] = t
      <4>1. waiting'[t] # <<f, m>>
        BY <1>p, <3>4
      <4>2. new[m] # t
        <5>1. CASE file[f] = "closed"
          BY <1>n, <2>7, <5>1
        <5>2. CASE file[f] # "closed"
          <6>1. PICK k \in woken : epoll_registered[f][k] = t
            BY <3>4, <5>2
          <6>2. CASE epoll_registered[f][m] = t
            <7>1. k = m
              BY <2>2, <3>1, <3>2, <6>1, <6>2
            <7> QED BY <1>n, <2>7, <5>2, <6>1, <7>1
          <6>3. CASE epoll_registered[f][m] # t
            BY <1>n, <2>7, <5>2, <6>3
          <6> QED BY <6>2, <6>3
        <5> QED BY <5>1, <5>2
      <4> QED BY <4>1, <4>2
    <3> QED BY <2>10, <3>3, <3>4
  <2>12. ASSUME NEW t \in Task, NEW g \in Fd, NEW m \in Epoll!Mode, g # f
         PROVE  waiting'[t] = <<g, m>> <=> waiting[t] = <<g, m>>
    <3>1. CASE waiting'[t] = waiting[t]
      BY <3>1
    <3>2. CASE waiting'[t] = None /\ \E k \in Epoll!Mode : epoll_registered[f][k] = t
      <4>1. PICK k \in Epoll!Mode : waiting[t] = <<f, k>>
        BY <1>t, <3>2
      <4>2. <<f, k>> # <<g, m>> /\ None # <<g, m>>
        BY <1>p, <2>12
      <4> QED BY <3>2, <4>1, <4>2
    <3>3. waiting'[t] = waiting[t] \/ (waiting'[t] = None /\ \E k \in Epoll!Mode : epoll_registered[f][k] = t)
      BY <1>n, <2>2, <2>7, <2>10
    <3> QED BY <3>1, <3>2, <3>3
  <2>13. /\ DOMAIN epoll' = Fd /\ \A g \in Fd : g # f => epoll'[g] = epoll[g]
         /\ new = Epoll!Nobody \/ epoll'[f] = Epoll!Wanted(new)
    BY <1>t, <2>1, <2>6
  <2>14. /\ behind \ {f} \subseteq behind' /\ epoll_registered' = [epoll_registered EXCEPT ![f] = new]
         /\ file' \in [Fd -> {"open", "closed"}]
    BY <1>t, <1>3, <2>1 DEF Epoll!process_events
  <2> QED BY ONLY EpollInv, f \in Fd, <2>6, <2>9, <2>11, <2>12, <2>13, <2>14, EntryReplaced, ZenonT(30)
<1>4. ASSUME NEW f \in Fd, Epoll!notify_closing(f)
      PROVE  EpollInv'
  <2> DEFINE new == Epoll!Nobody
  <2>1. /\ epoll_registered' = [epoll_registered EXCEPT ![f] = new]
        /\ behind \ {f} \subseteq behind' /\ file' \in [Fd -> {"open", "closed"}]
        /\ DOMAIN epoll' = Fd /\ \A g \in Fd : g # f => epoll'[g] = epoll[g]
        /\ waiting' = Epoll!Wake(Epoll!Waiters(epoll_registered[f]), waiting)
    BY <1>t, <1>4 DEF Epoll!notify_closing
  <2>2. /\ new \in EpollWaiters /\ new.current_flags = Epoll!Wanted(new) /\ \A m \in Epoll!Mode : new[m] = None
    BY <1>t, WantedFacts
  <2>3. waiting' \in Sleepers
    BY <1>t, <2>1 DEF Sleepers, Epoll!Wake
  <2>4. ASSUME NEW t \in Task
        PROVE  waiting'[t] = IF \E m \in Epoll!Mode : epoll_registered[f][m] = t THEN None ELSE waiting[t]
    BY <1>n, <2>1 DEF Epoll!Wake, Epoll!Waiters
  <2> HIDE DEF new
  <2>5. ASSUME NEW t \in Task, NEW m \in Epoll!Mode
        PROVE  new[m] = t <=> waiting'[t] = <<f, m>>
    <3>1. new[m] # t
      BY <1>n, <2>2
    <3>2. waiting[t] = <<f, m>> => epoll_registered[f][m] = t
      BY <1>t
    <3> QED BY <1>p, <2>4, <3>1, <3>2
  <2>6. ASSUME NEW t \in Task, NEW g \in Fd, NEW m \in Epoll!Mode, g # f
        PROVE  waiting'[t] = <<g, m>> <=> waiting[t] = <<g, m>>
    <3>1. CASE \E k \in Epoll!Mode : epoll_registered[f][k] = t
      <4>1. PICK k \in Epoll!Mode : waiting[t] = <<f, k>>
        BY <1>t, <3>1
      <4>2. <<f, k>> # <<g, m>> /\ None # <<g, m>>
        BY <1>p, <2>6
      <4> QED BY <2>4, <3>1, <4>1, <4>2
    <3>2. CASE ~\E k \in Epoll!Mode : epoll_registered[f][k] = t
      BY <2>4, <3>2
    <3> QED BY <3>1, <3>2
  <2>7. new = Epoll!Nobody
    BY DEF new
  <2> QED BY ONLY EpollInv, f \in Fd, <2>1, <2>2, <2>3, <2>5, <2>6, <2>7, EntryReplaced
<1>5. ASSUME NEW f \in Fd, Epoll!CloseBehindOurBack(f)
      PROVE  EpollInv'
  <2>1. /\ DOMAIN epoll' = Fd /\ \A g \in Fd : g # f => epoll'[g] = epoll[g]
        /\ behind' = IF epoll_registered[f] = Epoll!Nobody THEN behind ELSE behind \cup {f}
        /\ UNCHANGED <<epoll_registered, waiting>> /\ file' \in [Fd -> {"open", "closed"}]
    BY <1>5, <1>t DEF Epoll!CloseBehindOurBack
  <2> QED BY <1>t, <2>1 DEF EpollInv, EpollType, Epoll!EpollForgetsNobody, Epoll!Wanted, Epoll!Nobody
<1>6. ASSUME NEW f \in Fd, Epoll!Reopen(f)
      PROVE  EpollInv'
  BY <1>6 DEF Epoll!Reopen, EpollInv, EpollType, Epoll!EpollForgetsNobody, Epoll!Wanted,
     Epoll!Nobody
<1> QED BY <1>1, <1>2, <1>3, <1>4, <1>5, <1>6 DEF Epoll!EpollNext

-----------------------------------------------------------------------------
(* Windows                                                                 *)

AfdWaiters == [read_task : Task \cup {None}, write_task : Task \cup {None}, current_op : Op \cup {None}]
AfdOp == [sock : Sock, flags : SUBSET Windows!AfdMode, group : Nat, status : {"pending", "complete"}]
PortEntry == ({"AFD_POLL"} \X Op \X SUBSET Windows!AfdMode) \cup ({"WAIT_OVERLAPPED", "LATE_CANCEL"} \X Lpo \X {{}})

\* An entry of the port with this completion key and address
Has(q, key, addr) == \E i \in 1 .. Len(q) : q[i][1] = key /\ q[i][2] = addr

\* No address is reported twice, and a LATE_CANCEL comes after the completion
\* it was too late for
PortOK(q) ==
    /\ q \in Seq(PortEntry)
    /\ \A i, j \in 1 .. Len(q) : q[i][1] = q[j][1] /\ q[i][2] = q[j][2] => i = j
    /\ \A i, j \in 1 .. Len(q) :
          q[i][1] = "LATE_CANCEL" /\ q[j][1] = "WAIT_OVERLAPPED" /\ q[i][2] = q[j][2] => j < i

WindowsType ==
    /\ afd_waiters \in [Sock -> AfdWaiters] /\ afd_ops \in [Op -> AfdOp \cup {None}]
    /\ handles \in Nat /\ vacant \subseteq Nat
    /\ sock \in [Sock -> {"open", "closed"}]
    /\ lpo \in [Lpo -> {"none", "pending", "complete", "cancelled"}] /\ lpo_registered \in [Lpo -> BOOLEAN]
    /\ overlapped_waiters \in [Lpo -> Task \cup {None}]
    /\ sleeping \in [Task -> (Sock \X Windows!AfdMode) \cup Lpo \cup {None}]

\* PollsCoverWaiters for the waiters ws of sockets, the sleepers `table`, the
\* operations ops and the port q
SleepersKnown(ws, table) == \A t \in Task, s \in Sock, m \in Windows!AfdMode : ws[s][m] = t <=> table[t] = <<s, m>>
Covered(w, s, ops) ==
    IF Windows!Flags(w) = {} THEN w = Windows!NoWaiters
    ELSE /\ w.current_op \in Op /\ ops[w.current_op] # None
         /\ ops[w.current_op].sock = s /\ ops[w.current_op].flags = Windows!Flags(w)
Reported(ops, q) == \A o \in Op : (ops[o] # None /\ ops[o].status = "complete") <=> Has(q, "AFD_POLL", o)

\* The overlapped half: who sleeps on an OVERLAPPED is on record as long as
\* its io is known, and the completion of a registered one is in the port
OverlappedOK ==
    /\ \A t \in Task, l \in Lpo : sleeping[t] = l <=> overlapped_waiters[l] = t
    /\ \A l \in Lpo : overlapped_waiters[l] # None <=> lpo[l] # "none"
    /\ \A l \in Lpo : Has(port, "WAIT_OVERLAPPED", l) <=> lpo_registered[l] /\ lpo[l] \in {"complete", "cancelled"}
    /\ \A l \in Lpo : l \in too_late <=> Has(port, "LATE_CANCEL", l)
    /\ \A l \in Lpo : l \in too_late => lpo[l] \in {"none", "complete"}

WindowsInv ==
    /\ WindowsType /\ PortOK(port)
    /\ SleepersKnown(afd_waiters, sleeping)
    /\ \A s \in Sock : Covered(afd_waiters[s], s, afd_ops)
    /\ Reported(afd_ops, port)
    /\ ~crashed => OverlappedOK
    /\ crashed => \E l \in Lpo : ~lpo_registered[l] /\ lpo[l] = "complete"

\* Every address of a set, once and in some order
LEMMA SetToSeqOK ==
    ASSUME NEW S, IsFiniteSet(S)
    PROVE  LET q == Windows!SetToSeq(S) IN
           /\ q \in Seq(S)
           /\ \A i, j \in 1 .. Len(q) : q[i] = q[j] => i = j
           /\ \A x \in S : \E i \in 1 .. Len(q) : q[i] = x
<1> DEFINE n == Cardinality(S)
           q == Windows!SetToSeq(S)
<1>1. n \in Nat /\ ExistsBijection(1 .. n, S)
  BY FS_CardinalityType
<1>2. \E f \in [1 .. n -> S] : Windows!IsInjective(f)
  BY <1>1 DEF ExistsBijection, Bijection, Injection, IsInjective, Windows!IsInjective
<1>c. Windows!Cardinality(S) = Cardinality(S)
  BY Zenon DEF Windows!Cardinality, Cardinality, Windows!IsFiniteSet, IsFiniteSet
<1>3. q \in [1 .. n -> S] /\ Windows!IsInjective(q)
  BY <1>2, <1>c DEF Windows!SetToSeq
<1> HIDE DEF q, n
<1>4. q \in Seq(S) /\ Len(q) = n /\ DOMAIN q = 1 .. n
  <2>1. q \in Seq(S) /\ DOMAIN q = 1 .. n
    BY <1>1, <1>3, SeqDef
  <2>2. DOMAIN q = 1 .. Len(q) /\ Len(q) \in Nat
    BY <2>1, LenProperties
  <2>3. Len(q) = n
    BY ONLY <1>1, <2>1, <2>2
  <2> QED BY <2>1, <2>3
<1>5. q \in Injection(1 .. n, S)
  BY <1>3 DEF Injection, IsInjective, Windows!IsInjective
<1>6. Cardinality(1 .. n) = n
  BY <1>1, FS_Interval
<1>7. q \in Surjection(1 .. n, S)
  BY <1>5, <1>6, FS_Injection DEF n
<1>8. \A x \in S : \E i \in 1 .. n : q[i] = x
  BY <1>7 DEF Surjection
<1> QED BY <1>3, <1>4, <1>8 DEF q, Windows!IsInjective

\* Posting an entry that is not there yet
LEMMA PortAppend ==
    ASSUME NEW q, PortOK(q), NEW e \in PortEntry, ~Has(q, e[1], e[2]),
           e[1] = "WAIT_OVERLAPPED" => ~Has(q, "LATE_CANCEL", e[2])
    PROVE  /\ PortOK(Append(q, e))
           /\ \A key, addr : Has(Append(q, e), key, addr) <=> Has(q, key, addr) \/ (key = e[1] /\ addr = e[2])
<1> DEFINE p == Append(q, e)
<1>1. q \in Seq(PortEntry)
  BY DEF PortOK
<1>2. /\ p \in Seq(PortEntry) /\ Len(p) = Len(q) + 1 /\ Len(q) \in Nat
      /\ \A i \in 1 .. Len(q) : p[i] = q[i]
      /\ p[Len(q) + 1] = e
  BY ONLY <1>1, e \in PortEntry, AppendProperties, LenProperties
<1> HIDE DEF p
<1>3. \A i \in 1 .. Len(p) : i \in 1 .. Len(q) \/ i = Len(q) + 1
  BY <1>2
<1>4. ASSUME NEW i \in 1 .. Len(p), NEW j \in 1 .. Len(p), p[i][1] = p[j][1], p[i][2] = p[j][2]
      PROVE  i = j
  BY <1>2, <1>3, <1>4 DEF PortOK, Has
<1>5. ASSUME NEW i \in 1 .. Len(p), NEW j \in 1 .. Len(p), p[i][1] = "LATE_CANCEL", p[j][1] = "WAIT_OVERLAPPED",
             p[i][2] = p[j][2]
      PROVE  j < i
  <2>1. CASE i \in 1 .. Len(q) /\ j \in 1 .. Len(q)
    BY <1>2, <1>5, <2>1 DEF PortOK
  <2>2. CASE i \in 1 .. Len(q) /\ j = Len(q) + 1
    BY <1>2, <1>5, <2>2 DEF Has
  <2>3. CASE i = Len(q) + 1
    <3>1. j # i
      BY <1>5
    <3> QED BY <1>2, <1>3, <2>3, <3>1
  <2> QED BY <1>3, <2>1, <2>2, <2>3
<1>6. PortOK(p)
  BY <1>2, <1>4, <1>5 DEF PortOK
<1>7. ASSUME NEW key, NEW addr
      PROVE  Has(p, key, addr) <=> Has(q, key, addr) \/ (key = e[1] /\ addr = e[2])
  <2>1. ASSUME NEW i \in 1 .. Len(p), p[i][1] = key, p[i][2] = addr
        PROVE  Has(q, key, addr) \/ (key = e[1] /\ addr = e[2])
    BY <1>2, <1>3, <2>1 DEF Has
  <2>2. ASSUME NEW i \in 1 .. Len(q), q[i][1] = key, q[i][2] = addr
        PROVE  i \in 1 .. Len(p) /\ p[i][1] = key /\ p[i][2] = addr
    BY <1>2, <2>2
  <2>3. Len(q) + 1 \in 1 .. Len(p)
    BY <1>2
  <2> QED BY <1>2, <2>1, <2>2, <2>3 DEF Has
<1> QED BY <1>6, <1>7 DEF p

\* Taking the first entry
LEMMA PortTail ==
    ASSUME NEW q, PortOK(q), q # <<>>
    PROVE  /\ PortOK(Tail(q)) /\ Head(q) \in PortEntry
           /\ Has(q, Head(q)[1], Head(q)[2])
           /\ \A key, addr : Has(Tail(q), key, addr) <=> Has(q, key, addr) /\ ~(key = Head(q)[1] /\ addr = Head(q)[2])
           /\ Head(q)[1] = "LATE_CANCEL" => ~Has(q, "WAIT_OVERLAPPED", Head(q)[2])
<1> DEFINE p == Tail(q)
           e == Head(q)
<1>1. q \in Seq(PortEntry)
  BY DEF PortOK
<1>2. /\ p \in Seq(PortEntry) /\ Len(p) = Len(q) - 1 /\ Len(q) \in Nat \ {0}
      /\ \A i \in 1 .. Len(q) - 1 : p[i] = q[i + 1]
      /\ e = q[1] /\ e \in PortEntry
  BY ONLY <1>1, q # <<>>, TailQueue
<1> HIDE DEF p, e
<1>3. \A i \in 1 .. Len(p) : i + 1 \in 1 .. Len(q) /\ p[i] = q[i + 1]
  BY <1>2
<1>4. ASSUME NEW i \in 1 .. Len(p), NEW j \in 1 .. Len(p), p[i][1] = p[j][1], p[i][2] = p[j][2]
      PROVE  i = j
  <2>1. i + 1 \in 1 .. Len(q) /\ j + 1 \in 1 .. Len(q) /\ p[i] = q[i + 1] /\ p[j] = q[j + 1]
    BY <1>3
  <2>2. i + 1 = j + 1
    BY <1>4, <2>1 DEF PortOK
  <2> QED BY <1>2, <2>2
<1>5. ASSUME NEW i \in 1 .. Len(p), NEW j \in 1 .. Len(p), p[i][1] = "LATE_CANCEL", p[j][1] = "WAIT_OVERLAPPED",
             p[i][2] = p[j][2]
      PROVE  j < i
  <2>1. j + 1 < i + 1
    BY <1>3, <1>5 DEF PortOK
  <2> QED BY <2>1
<1>6. PortOK(p)
  BY <1>2, <1>4, <1>5 DEF PortOK
<1>7. 1 \in 1 .. Len(q)
  BY <1>2
<1>8. Has(q, e[1], e[2])
  BY <1>2, <1>7 DEF Has
<1>9. ASSUME NEW key, NEW addr
      PROVE  Has(p, key, addr) <=> Has(q, key, addr) /\ ~(key = e[1] /\ addr = e[2])
  <2>1. ASSUME NEW i \in 1 .. Len(p), p[i][1] = key, p[i][2] = addr
        PROVE  Has(q, key, addr) /\ ~(key = e[1] /\ addr = e[2])
    <3>1. i + 1 \in 1 .. Len(q) /\ q[i + 1][1] = key /\ q[i + 1][2] = addr /\ i + 1 # 1
      BY <1>3, <2>1
    <3> QED BY <1>2, <1>7, <3>1 DEF Has, PortOK
  <2>2. ASSUME NEW i \in 1 .. Len(q), q[i][1] = key, q[i][2] = addr, ~(key = e[1] /\ addr = e[2])
        PROVE  Has(p, key, addr)
    <3>1. i # 1
      BY <1>2, <2>2
    <3>2. i - 1 \in 1 .. Len(p) /\ i - 1 \in 1 .. Len(q) - 1 /\ (i - 1) + 1 = i
      BY <1>2, <3>1
    <3>3. p[i - 1] = q[i]
      BY <1>2, <3>2
    <3> QED BY <2>2, <3>2, <3>3 DEF Has
  <2> QED BY <2>1, <2>2 DEF Has
<1>10. e[1] = "LATE_CANCEL" => ~Has(q, "WAIT_OVERLAPPED", e[2])
  BY <1>2, <1>7 DEF PortOK, Has
<1> QED BY <1>2, <1>6, <1>8, <1>9, <1>10 DEF p, e

\* Several polls complete at once
LEMMA PortConcat ==
    ASSUME NEW q, PortOK(q), NEW r \in Seq(PortEntry),
           \A i \in 1 .. Len(r) : r[i][1] = "AFD_POLL" /\ ~Has(q, "AFD_POLL", r[i][2]),
           \A i, j \in 1 .. Len(r) : r[i][2] = r[j][2] => i = j
    PROVE  /\ PortOK(q \o r)
           /\ \A key, addr : Has(q \o r, key, addr) <=> Has(q, key, addr) \/ Has(r, key, addr)
<1> DEFINE p == q \o r
<1>1. q \in Seq(PortEntry)
  BY DEF PortOK
<1>2. /\ p \in Seq(PortEntry) /\ Len(p) = Len(q) + Len(r) /\ Len(q) \in Nat /\ Len(r) \in Nat
      /\ \A i \in 1 .. Len(q) + Len(r) : p[i] = IF i <= Len(q) THEN q[i] ELSE r[i - Len(q)]
  BY ONLY <1>1, r \in Seq(PortEntry), ConcatProperties, LenProperties
<1> HIDE DEF p
<1>3. ASSUME NEW i \in 1 .. Len(p)
      PROVE  \/ i \in 1 .. Len(q) /\ p[i] = q[i]
             \/ i > Len(q) /\ i - Len(q) \in 1 .. Len(r) /\ p[i] = r[i - Len(q)]
  BY <1>2
<1>4. ASSUME NEW i \in 1 .. Len(p), NEW j \in 1 .. Len(p), p[i][1] = p[j][1], p[i][2] = p[j][2]
      PROVE  i = j
  <2>1. CASE p[i] = q[i] /\ i \in 1 .. Len(q) /\ p[j] = q[j] /\ j \in 1 .. Len(q)
    BY <1>4, <2>1 DEF PortOK
  <2>2. CASE i - Len(q) \in 1 .. Len(r) /\ p[i] = r[i - Len(q)] /\ j - Len(q) \in 1 .. Len(r) /\ p[j] = r[j - Len(q)]
    <3>1. i - Len(q) = j - Len(q)
      BY <1>4, <2>2
    <3> QED BY <1>2, <3>1
  <2>3. CASE p[i] = q[i] /\ i \in 1 .. Len(q) /\ j - Len(q) \in 1 .. Len(r) /\ p[j] = r[j - Len(q)]
    BY <1>4, <2>3 DEF Has
  <2>4. CASE p[j] = q[j] /\ j \in 1 .. Len(q) /\ i - Len(q) \in 1 .. Len(r) /\ p[i] = r[i - Len(q)]
    BY <1>4, <2>4 DEF Has
  <2> QED BY <1>3, <2>1, <2>2, <2>3, <2>4
<1>5. ASSUME NEW i \in 1 .. Len(p), NEW j \in 1 .. Len(p), p[i][1] = "LATE_CANCEL", p[j][1] = "WAIT_OVERLAPPED",
             p[i][2] = p[j][2]
      PROVE  j < i
  <2>1. i \in 1 .. Len(q) /\ p[i] = q[i] /\ j \in 1 .. Len(q) /\ p[j] = q[j]
    BY <1>3, <1>5
  <2> QED BY <1>5, <2>1 DEF PortOK
<1>6. PortOK(p)
  BY <1>2, <1>4, <1>5 DEF PortOK
<1>7. ASSUME NEW key, NEW addr
      PROVE  Has(p, key, addr) <=> Has(q, key, addr) \/ Has(r, key, addr)
  <2>1. ASSUME NEW i \in 1 .. Len(p), p[i][1] = key, p[i][2] = addr
        PROVE  Has(q, key, addr) \/ Has(r, key, addr)
    BY <1>3, <2>1 DEF Has
  <2>2. ASSUME NEW i \in 1 .. Len(q), q[i][1] = key, q[i][2] = addr
        PROVE  Has(p, key, addr)
    <3>1. i \in 1 .. Len(p) /\ p[i] = q[i]
      BY <1>2
    <3> QED BY <2>2, <3>1 DEF Has
  <2>3. ASSUME NEW i \in 1 .. Len(r), r[i][1] = key, r[i][2] = addr
        PROVE  Has(p, key, addr)
    <3>1. Len(q) + i \in 1 .. Len(p) /\ ~(Len(q) + i <= Len(q)) /\ (Len(q) + i) - Len(q) = i
      BY <1>2
    <3>2. p[Len(q) + i] = r[i]
      BY <1>2, <3>1
    <3> QED BY <2>3, <3>1, <3>2 DEF Has
  <2> QED BY <2>1, <2>2, <2>3 DEF Has
<1> QED BY <1>6, <1>7 DEF p

\* CancelIoEx: the operation completes now, unless it has already
LEMMA CancelOK ==
    ASSUME NEW ops \in [Op -> AfdOp \cup {None}], NEW queue, PortOK(queue), Reported(ops, queue),
           NEW old \in Op \cup {None}, old # None => ops[old] # None
    PROVE  LET kept == Windows!Cancelled(old, ops)
               q == queue \o Windows!CancelPosts(old, ops) IN
           /\ kept \in [Op -> AfdOp \cup {None}] /\ PortOK(q) /\ Reported(kept, q)
           /\ \A o \in Op : (kept[o] = None <=> ops[o] = None)
           /\ \A o \in Op : ops[o] # None => kept[o].sock = ops[o].sock /\ kept[o].flags = ops[o].flags
           /\ \A key, addr : key # "AFD_POLL" => (Has(q, key, addr) <=> Has(queue, key, addr))
<1> DEFINE kept == Windows!Cancelled(old, ops)
           q == queue \o Windows!CancelPosts(old, ops)
           e == <<"AFD_POLL", old, {}>>
           finished == [ops[old] EXCEPT !.status = "complete"]
<1>1. queue \in Seq(PortEntry)
  BY DEF PortOK
<1>2. CASE old # None /\ ops[old].status = "pending"
  <2>1. old \in Op /\ ops[old] \in AfdOp
    BY <1>2
  <2>2. /\ finished \in AfdOp /\ finished # None /\ finished.sock = ops[old].sock /\ finished.flags = ops[old].flags
        /\ finished.status = "complete"
    BY <2>1, WaitingAssumption DEF AfdOp, Windows!AfdMode
  <2> HIDE DEF finished
  <2>3. kept = [ops EXCEPT ![old] = finished]
    BY <1>2 DEF Windows!Cancelled, finished
  <2>4. /\ kept \in [Op -> AfdOp \cup {None}] /\ kept[old] = finished
        /\ \A o \in Op : o # old => kept[o] = ops[o]
    BY <2>1, <2>2, <2>3
  <2>5. e \in PortEntry /\ e[1] = "AFD_POLL" /\ e[2] = old
    BY <2>1 DEF PortEntry
  <2>6. q = Append(queue, e)
    <3>1. q = queue \o <<e>>
      BY <1>2 DEF Windows!CancelPosts
    <3> QED BY <1>1, <2>5, <3>1, AppendIsConcat
  <2>7. ~Has(queue, "AFD_POLL", old)
    BY <1>2, <2>1 DEF Reported
  <2> HIDE DEF kept, q, e
  <2>8. /\ PortOK(q)
        /\ \A key, addr : Has(q, key, addr) <=> Has(queue, key, addr) \/ (key = "AFD_POLL" /\ addr = old)
    BY <2>5, <2>6, <2>7, PortAppend
  <2>9. Reported(kept, q)
    BY <2>1, <2>2, <2>4, <2>8 DEF Reported
  <2> QED BY <1>2, <2>2, <2>4, <2>8, <2>9 DEF kept, q
<1>3. CASE ~(old # None /\ ops[old].status = "pending")
  <2>1. kept = ops /\ q = queue
    <3>1. q = queue \o <<>>
      BY <1>3 DEF Windows!CancelPosts
    <3> QED BY <1>1, <1>3, <3>1, ConcatEmptySeq DEF Windows!Cancelled
  <2> QED BY <2>1
<1> QED BY <1>2, <1>3

SleepTable == [Task -> (Sock \X Windows!AfdMode) \cup Lpo \cup {None}]

\* The fields of AFDWaiters
LEMMA AfdWaitersFacts ==
    ASSUME NEW w \in AfdWaiters
    PROVE  /\ \A m \in Windows!AfdMode : w[m] \in Task \cup {None}
           /\ Windows!NoWaiters \in AfdWaiters /\ Windows!Flags(Windows!NoWaiters) = {}
           /\ \A m \in Windows!AfdMode : Windows!NoWaiters[m] = None
           /\ Windows!Flags(w) \subseteq Windows!AfdMode
           /\ \A o \in Op : LET new == [w EXCEPT !.current_op = o] IN
                 /\ new \in AfdWaiters /\ new.current_op = o
                 /\ \A m \in Windows!AfdMode : new[m] = w[m]
                 /\ Windows!Flags(new) = Windows!Flags(w)
<1>1. \A m \in Windows!AfdMode : w[m] \in Task \cup {None}
  BY DEF AfdWaiters, Windows!AfdMode
<1>2. /\ Windows!NoWaiters \in AfdWaiters
      /\ \A m \in Windows!AfdMode : Windows!NoWaiters[m] = None
  BY DEF AfdWaiters, Windows!AfdMode, Windows!NoWaiters
<1>3. Windows!Flags(Windows!NoWaiters) = {}
  BY <1>2 DEF Windows!Flags
<1>4. Windows!Flags(w) \subseteq Windows!AfdMode
  BY DEF Windows!Flags
<1>5. ASSUME NEW o \in Op
      PROVE  LET new == [w EXCEPT !.current_op = o] IN
                 /\ new \in AfdWaiters /\ new.current_op = o
                 /\ \A m \in Windows!AfdMode : new[m] = w[m]
                 /\ Windows!Flags(new) = Windows!Flags(w)
  <2> DEFINE new == [w EXCEPT !.current_op = o]
  <2>1. /\ new \in AfdWaiters /\ new.current_op = o
        /\ \A m \in Windows!AfdMode : new[m] = w[m]
    BY DEF AfdWaiters, Windows!AfdMode
  <2> HIDE DEF new
  <2>2. Windows!Flags(new) = Windows!Flags(w)
    BY <2>1 DEF Windows!Flags
  <2> QED BY <2>1, <2>2 DEF new
<1> QED BY <1>1, <1>2, <1>3, <1>4, <1>5

\* The caller of _refresh_afd has changed the waiters of s to w, the sleepers
\* to `table`, the operations to ops and the port to `queue`, and these agree
RefreshReady(s, w, ops, queue, table) ==
    /\ s \in Sock /\ w \in AfdWaiters /\ ops \in [Op -> AfdOp \cup {None}]
    /\ PortOK(queue) /\ Reported(ops, queue) /\ table \in SleepTable
    /\ w.current_op # None =>
           ops[w.current_op] # None /\ ops[w.current_op].sock = s /\ afd_ops[w.current_op].group \in Nat
    /\ \A x \in Sock : x # s => Covered(afd_waiters[x], x, ops)
    /\ \A t \in Task, m \in Windows!AfdMode : w[m] = t <=> table[t] = <<s, m>>
    /\ \A t \in Task, x \in Sock, m \in Windows!AfdMode :
           x # s => (afd_waiters[x][m] = t <=> table[t] = <<x, m>>)

\* What _refresh_afd leaves: every socket covered, and nothing else disturbed
Refreshed(queue, table) ==
    /\ afd_waiters' \in [Sock -> AfdWaiters] /\ afd_ops' \in [Op -> AfdOp \cup {None}]
    /\ handles' \in Nat /\ vacant' \subseteq Nat /\ sleeping' \in SleepTable
    /\ PortOK(port') /\ Reported(afd_ops', port')
    /\ SleepersKnown(afd_waiters', sleeping')
    /\ \A x \in Sock : Covered(afd_waiters'[x], x, afd_ops')
    /\ \A key, addr : key # "AFD_POLL" => (Has(port', key, addr) <=> Has(queue, key, addr))
    /\ \A t \in Task, l \in Lpo : sleeping'[t] = l <=> table[t] = l

\* _refresh_afd leaves the waiters of the socket covered by one new operation,
\* or with nobody left, and disturbs nothing else
LEMMA RefreshOK ==
    ASSUME NEW s, NEW w, NEW ops, NEW queue, NEW table, WindowsType, RefreshReady(s, w, ops, queue, table),
           Windows!_refresh_afd(s, w, ops, queue, table)
    PROVE  Refreshed(queue, table)
<1> s \in Sock /\ w \in AfdWaiters /\ ops \in [Op -> AfdOp \cup {None}] /\ table \in SleepTable
  BY DEF RefreshReady
<1>r. /\ PortOK(queue) /\ Reported(ops, queue)
      /\ (w.current_op # None =>
             ops[w.current_op] # None /\ ops[w.current_op].sock = s /\ afd_ops[w.current_op].group \in Nat)
      /\ (\A x \in Sock : x # s => Covered(afd_waiters[x], x, ops))
      /\ (\A t \in Task, m \in Windows!AfdMode : w[m] = t <=> table[t] = <<s, m>>)
      /\ (\A t \in Task, x \in Sock, m \in Windows!AfdMode :
             x # s => (afd_waiters[x][m] = t <=> table[t] = <<x, m>>))
  BY DEF RefreshReady
<1> USE <1>r
<1> DEFINE old == w.current_op
           kept == Windows!Cancelled(old, ops)
           dropped == Windows!DropOp(old)
           q == queue \o Windows!CancelPosts(old, ops)
<1>t. /\ afd_waiters \in [Sock -> AfdWaiters] /\ handles \in Nat /\ vacant \subseteq Nat
      /\ old \in Op \cup {None}
  BY DEF WindowsType, AfdWaiters
<1>p. /\ None \notin Task /\ None \notin Op /\ None \notin Lpo
      /\ \A x \in Sock, m \in Windows!AfdMode : <<x, m>> # None /\ <<x, m>> \notin Lpo
  BY WaitingAssumption DEF Windows!AfdMode
<1>1. /\ kept \in [Op -> AfdOp \cup {None}] /\ PortOK(q) /\ Reported(kept, q)
      /\ \A o \in Op : (kept[o] = None <=> ops[o] = None)
      /\ \A o \in Op : ops[o] # None => kept[o].sock = ops[o].sock /\ kept[o].flags = ops[o].flags
      /\ \A key, addr : key # "AFD_POLL" => (Has(q, key, addr) <=> Has(queue, key, addr))
  BY <1>t, CancelOK
<1>2. dropped.vacant \subseteq Nat
  BY <1>t DEF Windows!DropOp
<1>3. port' = q
  BY DEF Windows!_refresh_afd
<1>4. \A x \in Sock : x # s => Covered(afd_waiters[x], x, kept)
  BY <1>1 DEF Covered
<1>5. \/ /\ Windows!Flags(w) = {}
         /\ afd_waiters' = [afd_waiters EXCEPT ![s] = Windows!NoWaiters]
         /\ afd_ops' = kept /\ sleeping' = table
         /\ vacant' = dropped.vacant /\ handles' = handles
      \/ /\ afd_waiters' = [afd_waiters EXCEPT ![s] = Windows!NoWaiters]
         /\ sleeping' = [t \in Task |-> IF t \in {w[m] : m \in Windows!AfdMode} THEN None ELSE table[t]]
         /\ afd_ops' = kept
         /\ \E g \in dropped.vacant \cup {handles + 1} :
               vacant' = dropped.vacant \cup {g} /\ handles' \in {handles, handles + 1}
      \/ \E o \in Op, g \in dropped.vacant \cup {handles + 1} :
         /\ kept[o] = None
         /\ afd_ops' = [kept EXCEPT ![o] = [sock |-> s, flags |-> Windows!Flags(w), group |-> g, status |-> "pending"]]
         /\ afd_waiters' = [afd_waiters EXCEPT ![s] = [w EXCEPT !.current_op = o]]
         /\ sleeping' = table /\ Windows!Flags(w) # {}
         /\ vacant' \subseteq dropped.vacant \cup {g} /\ handles' \in {handles, handles + 1}
  <2>1. CASE Windows!Flags(w) = {}
    BY <2>1 DEF Windows!_refresh_afd
  <2>2. CASE Windows!Flags(w) # {}
    <3>1. PICK g \in IF dropped.vacant = {} THEN {handles + 1} ELSE dropped.vacant :
             /\ handles' = IF dropped.vacant = {} THEN handles + 1 ELSE handles
             /\ IF sock[s] = "closed"
                THEN /\ afd_waiters' = [afd_waiters EXCEPT ![s] = Windows!NoWaiters]
                     /\ sleeping' = [t \in Task |-> IF t \in {w[m] : m \in Windows!AfdMode} THEN None ELSE table[t]]
                     /\ afd_ops' = kept /\ size' = dropped.size
                     /\ vacant' = dropped.vacant \cup {g}
                ELSE LET o == CHOOSE x \in Op : kept[x] = None IN
                     /\ \E x \in Op : kept[x] = None
                     /\ afd_ops' = [kept EXCEPT ![o] = [sock |-> s, flags |-> Windows!Flags(w), group |-> g,
                                                        status |-> "pending"]]
                     /\ afd_waiters' = [afd_waiters EXCEPT ![s] = [w EXCEPT !.current_op = o]]
                     /\ sleeping' = table
                     /\ size' = [dropped.size EXCEPT ![g] = @ + 1]
                     /\ vacant' = IF size'[g] >= MAX_AFD_GROUP_SIZE THEN dropped.vacant \ {g}
                                  ELSE dropped.vacant \cup {g}
      BY <2>2 DEF Windows!_refresh_afd
    <3> HIDE DEF kept, q, dropped
    <3>2. g \in dropped.vacant \cup {handles + 1} /\ handles' \in {handles, handles + 1}
      BY <3>1
    <3>3. CASE sock[s] = "closed"
      BY <3>1, <3>2, <3>3
    <3>4. CASE sock[s] # "closed"
      <4> DEFINE o == CHOOSE x \in Op : kept[x] = None
      <4>1. o \in Op /\ kept[o] = None
        BY <3>1, <3>4
      <4> HIDE DEF o
      <4>2. /\ afd_ops' = [kept EXCEPT ![o] = [sock |-> s, flags |-> Windows!Flags(w), group |-> g,
                                               status |-> "pending"]]
            /\ afd_waiters' = [afd_waiters EXCEPT ![s] = [w EXCEPT !.current_op = o]]
            /\ sleeping' = table
            /\ vacant' \subseteq dropped.vacant \cup {g}
        BY <3>1, <3>4 DEF o
      <4> QED BY <2>2, <3>2, <4>1, <4>2
    <3> QED BY <3>3, <3>4
  <2> QED BY <2>1, <2>2
<1> HIDE DEF kept, q, dropped, old
<1>6. CASE /\ afd_waiters' = [afd_waiters EXCEPT ![s] = Windows!NoWaiters] /\ afd_ops' = kept
           /\ vacant' \subseteq Nat /\ handles' \in Nat
           /\ sleeping' \in SleepTable
           /\ \A t \in Task : sleeping'[t] = IF \E m \in Windows!AfdMode : w[m] = t THEN None ELSE table[t]
  <2>1. afd_waiters' \in [Sock -> AfdWaiters] /\ afd_waiters'[s] = Windows!NoWaiters
        /\ \A x \in Sock : x # s => afd_waiters'[x] = afd_waiters[x]
    BY <1>t, <1>6, AfdWaitersFacts
  <2>2. ASSUME NEW x \in Sock PROVE Covered(afd_waiters'[x], x, afd_ops')
    <3>1. CASE x = s
      BY <2>1, <3>1, AfdWaitersFacts DEF Covered
    <3>2. CASE x # s
      BY <1>4, <1>6, <2>1, <3>2
    <3> QED BY <3>1, <3>2
  <2>3. ASSUME NEW t \in Task, NEW x \in Sock, NEW m \in Windows!AfdMode
        PROVE  afd_waiters'[x][m] = t <=> sleeping'[t] = <<x, m>>
    <3>1. CASE x = s
      <4>1. afd_waiters'[x][m] # t
        BY <1>p, <2>1, <3>1, AfdWaitersFacts
      <4>2. table[t] = <<s, m>> => w[m] = t
        OBVIOUS
      <4>3. sleeping'[t] # <<s, m>>
        BY <1>p, <1>6, <4>2
      <4> QED BY <3>1, <4>1, <4>3
    <3>2. CASE x # s /\ \E k \in Windows!AfdMode : w[k] = t
      <4>1. PICK k \in Windows!AfdMode : table[t] = <<s, k>>
        BY <3>2
      <4>2. <<s, k>> # <<x, m>> /\ <<x, m>> # None
        BY <1>p, <3>2
      <4>3. afd_waiters[x][m] # t
        BY <3>2, <4>1, <4>2
      <4> QED BY <1>6, <2>1, <3>2, <4>2, <4>3
    <3>3. CASE x # s /\ ~\E k \in Windows!AfdMode : w[k] = t
      BY <1>6, <2>1, <3>3
    <3> QED BY <3>1, <3>2, <3>3
  <2>4. ASSUME NEW t \in Task, NEW l \in Lpo PROVE sleeping'[t] = l <=> table[t] = l
    <3>1. CASE \E k \in Windows!AfdMode : w[k] = t
      <4>1. PICK k \in Windows!AfdMode : table[t] = <<s, k>>
        BY <3>1
      <4> QED BY <1>p, <1>6, <3>1, <4>1
    <3>2. CASE ~\E k \in Windows!AfdMode : w[k] = t
      BY <1>6, <3>2
    <3> QED BY <3>1, <3>2
  <2>5. SleepersKnown(afd_waiters', sleeping')
    BY <2>3 DEF SleepersKnown
  <2> QED BY <1>1, <1>3, <1>6, <2>1, <2>2, <2>4, <2>5 DEF Refreshed
<1>7. ASSUME NEW o \in Op, NEW g \in Nat, kept[o] = None,
             afd_ops' = [kept EXCEPT ![o] = [sock |-> s, flags |-> Windows!Flags(w), group |-> g, status |-> "pending"]],
             afd_waiters' = [afd_waiters EXCEPT ![s] = [w EXCEPT !.current_op = o]],
             sleeping' = table, Windows!Flags(w) # {}, vacant' \subseteq Nat, handles' \in Nat
      PROVE  /\ afd_waiters' \in [Sock -> AfdWaiters] /\ afd_ops' \in [Op -> AfdOp \cup {None}]
             /\ Reported(afd_ops', q) /\ SleepersKnown(afd_waiters', sleeping')
             /\ \A x \in Sock : Covered(afd_waiters'[x], x, afd_ops')
  <2> DEFINE new == [w EXCEPT !.current_op = o]
             op == [sock |-> s, flags |-> Windows!Flags(w), group |-> g, status |-> "pending"]
  <2>1. /\ new \in AfdWaiters /\ new.current_op = o /\ Windows!Flags(new) = Windows!Flags(w)
        /\ \A m \in Windows!AfdMode : new[m] = w[m]
    BY AfdWaitersFacts
  <2>2. op \in AfdOp /\ op.sock = s /\ op.flags = Windows!Flags(w) /\ op.status = "pending" /\ op # None
    <3>1. op \in AfdOp /\ op.sock = s /\ op.flags = Windows!Flags(w) /\ op.status = "pending"
      BY AfdWaitersFacts DEF AfdOp
    <3>2. None \notin AfdOp
      BY WaitingAssumption DEF AfdOp, Windows!AfdMode
    <3> QED BY <3>1, <3>2
  <2>3. afd_waiters' = [afd_waiters EXCEPT ![s] = new] /\ afd_ops' = [kept EXCEPT ![o] = op]
    BY <1>7
  <2> HIDE DEF new, op
  <2>4. afd_waiters' \in [Sock -> AfdWaiters] /\ afd_waiters'[s] = new
        /\ \A x \in Sock : x # s => afd_waiters'[x] = afd_waiters[x]
    BY <1>t, <2>1, <2>3
  <2>5. afd_ops' \in [Op -> AfdOp \cup {None}] /\ afd_ops'[o] = op /\ \A y \in Op : y # o => afd_ops'[y] = kept[y]
    BY <1>1, <2>2, <2>3
  <2>6. Reported(afd_ops', q)
    BY <1>1, <1>7, <2>2, <2>5 DEF Reported
  <2>7. ASSUME NEW x \in Sock PROVE Covered(afd_waiters'[x], x, afd_ops')
    <3>1. CASE x = s
      BY <1>7, <2>1, <2>2, <2>4, <2>5, <3>1 DEF Covered
    <3>2. CASE x # s
      <4>1. Covered(afd_waiters[x], x, kept) /\ afd_waiters'[x] = afd_waiters[x]
        BY <1>4, <2>4, <3>2
      <4> QED BY <1>7, <2>5, <4>1 DEF Covered
    <3> QED BY <3>1, <3>2
  <2>8. SleepersKnown(afd_waiters', sleeping')
    BY <1>7, <2>1, <2>4 DEF SleepersKnown
  <2> QED BY <2>4, <2>5, <2>6, <2>7, <2>8
<1>8. CASE /\ Windows!Flags(w) = {}
           /\ afd_waiters' = [afd_waiters EXCEPT ![s] = Windows!NoWaiters]
           /\ afd_ops' = kept /\ sleeping' = table
           /\ vacant' = dropped.vacant /\ handles' = handles
  <2>1. \A t \in Task : ~\E m \in Windows!AfdMode : w[m] = t
    BY <1>p, <1>8 DEF Windows!Flags
  <2> QED BY <1>t, <1>2, <1>6, <1>8, <2>1
<1>9. CASE /\ afd_waiters' = [afd_waiters EXCEPT ![s] = Windows!NoWaiters]
           /\ sleeping' = [t \in Task |-> IF t \in {w[m] : m \in Windows!AfdMode} THEN None ELSE table[t]]
           /\ afd_ops' = kept
           /\ \E g \in dropped.vacant \cup {handles + 1} :
                 vacant' = dropped.vacant \cup {g} /\ handles' \in {handles, handles + 1}
  <2>1. vacant' \subseteq Nat /\ handles' \in Nat
    BY <1>t, <1>2, <1>9
  <2>2. sleeping' \in SleepTable
    BY <1>9 DEF SleepTable
  <2>3. \A t \in Task : sleeping'[t] = IF \E m \in Windows!AfdMode : w[m] = t THEN None ELSE table[t]
    BY <1>9
  <2> QED BY <1>6, <1>9, <2>1, <2>2, <2>3
<1>10. ASSUME NEW o \in Op, NEW g \in dropped.vacant \cup {handles + 1}, kept[o] = None,
              afd_ops' = [kept EXCEPT ![o] = [sock |-> s, flags |-> Windows!Flags(w), group |-> g, status |-> "pending"]],
              afd_waiters' = [afd_waiters EXCEPT ![s] = [w EXCEPT !.current_op = o]],
              sleeping' = table, Windows!Flags(w) # {},
              vacant' \subseteq dropped.vacant \cup {g}, handles' \in {handles, handles + 1}
       PROVE  /\ afd_waiters' \in [Sock -> AfdWaiters] /\ afd_ops' \in [Op -> AfdOp \cup {None}]
              /\ handles' \in Nat /\ vacant' \subseteq Nat /\ sleeping' \in SleepTable
              /\ PortOK(port') /\ Reported(afd_ops', port')
              /\ SleepersKnown(afd_waiters', sleeping')
              /\ \A x \in Sock : Covered(afd_waiters'[x], x, afd_ops')
              /\ \A key, addr : key # "AFD_POLL" => (Has(port', key, addr) <=> Has(queue, key, addr))
              /\ \A t \in Task, l \in Lpo : sleeping'[t] = l <=> table[t] = l
  <2>1. g \in Nat /\ vacant' \subseteq Nat /\ handles' \in Nat
    BY <1>t, <1>2, <1>10
  <2>2. /\ afd_waiters' \in [Sock -> AfdWaiters] /\ afd_ops' \in [Op -> AfdOp \cup {None}]
        /\ Reported(afd_ops', q) /\ SleepersKnown(afd_waiters', sleeping')
        /\ \A x \in Sock : Covered(afd_waiters'[x], x, afd_ops')
    BY <1>7, <1>10, <2>1
  <2> QED BY <1>1, <1>3, <1>10, <2>1, <2>2
<1> QED BY <1>5, <1>8, <1>9, <1>10 DEF Refreshed

\* What a step of the AFD half owes the invariant, given that it keeps the
\* overlapped half's entries and sleepers
LEMMA AfdFrame ==
    ASSUME WindowsInv, ~crashed,
           afd_waiters' \in [Sock -> AfdWaiters], afd_ops' \in [Op -> AfdOp \cup {None}],
           handles' \in Nat, vacant' \subseteq Nat, sleeping' \in SleepTable,
           sock' \in [Sock -> {"open", "closed"}],
           PortOK(port'), Reported(afd_ops', port'), SleepersKnown(afd_waiters', sleeping'),
           \A x \in Sock : Covered(afd_waiters'[x], x, afd_ops'),
           \A key, addr : key # "AFD_POLL" => (Has(port', key, addr) <=> Has(port, key, addr)),
           \A t \in Task, l \in Lpo : sleeping'[t] = l <=> sleeping[t] = l,
           UNCHANGED <<Windows!overlappedVars, crashed>>
    PROVE  WindowsInv'
<1>1. lpo' = lpo /\ lpo_registered' = lpo_registered /\ overlapped_waiters' = overlapped_waiters
      /\ too_late' = too_late /\ crashed' = crashed
  BY DEF Windows!overlappedVars
<1>2. WindowsType'
  BY <1>1 DEF WindowsInv, WindowsType, SleepTable
<1>3. "WAIT_OVERLAPPED" # "AFD_POLL" /\ "LATE_CANCEL" # "AFD_POLL"
  OBVIOUS
<1>4. OverlappedOK'
  BY <1>1, <1>3 DEF WindowsInv, OverlappedOK
<1> QED BY <1>1, <1>2, <1>4 DEF WindowsInv

\* What is known of a socket's waiters before the step
LEMMA CurrentOp ==
    ASSUME WindowsInv, NEW s \in Sock
    PROVE  LET w == afd_waiters[s] IN
           /\ w \in AfdWaiters
           /\ w.current_op # None => /\ w.current_op \in Op /\ afd_ops[w.current_op] # None
                                     /\ afd_ops[w.current_op].sock = s
                                     /\ afd_ops[w.current_op].group \in Nat
<1> DEFINE w == afd_waiters[s]
<1>1. w \in AfdWaiters /\ Covered(w, s, afd_ops) /\ afd_ops \in [Op -> AfdOp \cup {None}]
  BY DEF WindowsInv, WindowsType
<1> HIDE DEF w
<1>2. ASSUME w.current_op # None
      PROVE  w.current_op \in Op /\ afd_ops[w.current_op] # None /\ afd_ops[w.current_op].sock = s
  <2>1. w # Windows!NoWaiters
    BY <1>2 DEF Windows!NoWaiters
  <2> QED BY <1>1, <2>1 DEF Covered
<1>3. ASSUME w.current_op # None
      PROVE  afd_ops[w.current_op].group \in Nat
  <2>1. afd_ops[w.current_op] \in AfdOp
    BY <1>1, <1>2, <1>3
  <2> QED BY <2>1 DEF AfdOp
<1> QED BY <1>1, <1>2, <1>3 DEF w

\* The waiters of s become w and the sleepers `table`, which agree
WaitersAgree(s, w, table) ==
    /\ s \in Sock /\ w \in AfdWaiters /\ w.current_op = afd_waiters[s].current_op /\ table \in SleepTable
    /\ \A t \in Task, m \in Windows!AfdMode : w[m] = t <=> table[t] = <<s, m>>
    /\ \A t \in Task, x \in Sock, m \in Windows!AfdMode :
           x # s => (sleeping[t] = <<x, m>> <=> table[t] = <<x, m>>)
    /\ \A t \in Task, l \in Lpo : sleeping[t] = l <=> table[t] = l

\* A task that comes, is cancelled, or is woken by the closing of its socket
LEMMA WaitersChange ==
    ASSUME NEW s, NEW w, NEW table, WindowsInv, ~crashed, WaitersAgree(s, w, table),
           Windows!_refresh_afd(s, w, afd_ops, port, table),
           sock' \in [Sock -> {"open", "closed"}], UNCHANGED <<Windows!overlappedVars, crashed>>
    PROVE  WindowsInv'
<1> s \in Sock /\ w \in AfdWaiters /\ table \in SleepTable
  BY DEF WaitersAgree
<1>1. /\ WindowsType /\ PortOK(port) /\ Reported(afd_ops, port) /\ afd_ops \in [Op -> AfdOp \cup {None}]
      /\ \A x \in Sock : Covered(afd_waiters[x], x, afd_ops)
      /\ \A t \in Task, x \in Sock, m \in Windows!AfdMode : afd_waiters[x][m] = t <=> sleeping[t] = <<x, m>>
  BY DEF WindowsInv, WindowsType, SleepersKnown
<1>2. w.current_op # None =>
        afd_ops[w.current_op] # None /\ afd_ops[w.current_op].sock = s /\ afd_ops[w.current_op].group \in Nat
  BY CurrentOp DEF WaitersAgree
<1>3. \A t \in Task, x \in Sock, m \in Windows!AfdMode : x # s => (afd_waiters[x][m] = t <=> table[t] = <<x, m>>)
  BY <1>1 DEF WaitersAgree
<1>4. RefreshReady(s, w, afd_ops, port, table)
  BY <1>1, <1>2, <1>3 DEF RefreshReady, WaitersAgree
<1>5. Refreshed(port, table)
  BY <1>1, <1>4, RefreshOK
<1>6. \A t \in Task, l \in Lpo : sleeping'[t] = l <=> sleeping[t] = l
  BY <1>5 DEF Refreshed, WaitersAgree
<1> QED BY <1>5, <1>6, AfdFrame DEF Refreshed

\* A waiter added or removed is one field of the record
LEMMA WaiterField ==
    ASSUME NEW w \in AfdWaiters, NEW mode \in Windows!AfdMode, NEW x \in Task \cup {None}
    PROVE  LET new == [w EXCEPT ![mode] = x] IN
           /\ new \in AfdWaiters /\ new.current_op = w.current_op /\ new[mode] = x
           /\ \A m \in Windows!AfdMode : m # mode => new[m] = w[m]
BY DEF AfdWaiters, Windows!AfdMode

\* Each step of polling sockets keeps the invariant, with overlapped operations
\* in the same port
LEMMA AfdStep ==
    ASSUME WindowsInv, ~crashed, Windows!AFDNext
    PROVE  WindowsInv'
<1>i. /\ WindowsType /\ PortOK(port) /\ Reported(afd_ops, port)
      /\ SleepersKnown(afd_waiters, sleeping)
      /\ \A s \in Sock : Covered(afd_waiters[s], s, afd_ops)
  BY DEF WindowsInv
<1>t. /\ afd_waiters \in [Sock -> AfdWaiters] /\ afd_ops \in [Op -> AfdOp \cup {None}]
      /\ handles \in Nat /\ vacant \subseteq Nat /\ sleeping \in SleepTable
      /\ sock \in [Sock -> {"open", "closed"}]
  BY <1>i DEF WindowsType, SleepTable
<1>k. \A t \in Task, s \in Sock, m \in Windows!AfdMode : afd_waiters[s][m] = t <=> sleeping[t] = <<s, m>>
  BY <1>i DEF SleepersKnown
<1>p. /\ None \notin Task /\ None \notin Op /\ None \notin Lpo
      /\ \A x \in Sock, m \in Windows!AfdMode : <<x, m>> # None /\ <<x, m>> \notin Lpo
  BY WaitingAssumption DEF Windows!AfdMode
<1>1. ASSUME NEW t \in Task, NEW s \in Sock, NEW mode \in Windows!AfdMode, Windows!_afd_poll(t, s, mode)
      PROVE  WindowsInv'
  <2> DEFINE w == [afd_waiters[s] EXCEPT ![mode] = t]
             table == [sleeping EXCEPT ![t] = <<s, mode>>]
  <2>1. /\ sleeping[t] = None /\ afd_waiters[s][mode] = None
        /\ Windows!_refresh_afd(s, w, afd_ops, port, table)
        /\ sock' = sock /\ UNCHANGED <<Windows!overlappedVars, crashed>>
    BY <1>1 DEF Windows!_afd_poll
  <2>2. /\ w \in AfdWaiters /\ w.current_op = afd_waiters[s].current_op /\ w[mode] = t
        /\ \A m \in Windows!AfdMode : m # mode => w[m] = afd_waiters[s][m]
    BY <1>t, WaiterField
  <2>3. /\ table \in SleepTable /\ table[t] = <<s, mode>> /\ \A u \in Task : u # t => table[u] = sleeping[u]
    BY <1>t DEF SleepTable
  <2> HIDE DEF w, table
  <2>4. ASSUME NEW u \in Task, NEW m \in Windows!AfdMode PROVE w[m] = u <=> table[u] = <<s, m>>
    <3>1. CASE m = mode
      <4>1. sleeping[u] # <<s, mode>>
        BY <1>k, <1>p, <2>1
      <4> QED BY <2>2, <2>3, <3>1, <4>1
    <3>2. CASE m # mode
      <4>1. <<s, mode>> # <<s, m>> /\ w[m] = afd_waiters[s][m]
        BY <2>2, <3>2
      <4>2. afd_waiters[s][m] = u <=> sleeping[u] = <<s, m>>
        BY <1>k
      <4>3. sleeping[t] # <<s, m>>
        BY <1>p, <2>1
      <4> QED BY <2>3, <4>1, <4>2, <4>3
    <3> QED BY <3>1, <3>2
  <2>5. ASSUME NEW u \in Task, NEW x \in Sock, NEW m \in Windows!AfdMode, x # s
        PROVE  sleeping[u] = <<x, m>> <=> table[u] = <<x, m>>
    <3>1. <<x, m>> # <<s, mode>> /\ sleeping[t] # <<x, m>>
      BY <1>p, <2>1, <2>5
    <3> QED BY <2>3, <3>1
  <2>6. \A u \in Task, l \in Lpo : sleeping[u] = l <=> table[u] = l
    BY <1>p, <2>1, <2>3
  <2>7. WaitersAgree(s, w, table)
    BY <2>2, <2>3, <2>4, <2>5, <2>6 DEF WaitersAgree
  <2> QED BY <1>t, <2>1, <2>7, WaitersChange
<1>2. ASSUME NEW t \in Task, Windows!AbortPoll(t)
      PROVE  WindowsInv'
  <2>1. PICK s \in Sock, mode \in Windows!AfdMode : sleeping[t] = <<s, mode>>
    BY <1>2 DEF Windows!AbortPoll
  <2> DEFINE w == [afd_waiters[s] EXCEPT ![mode] = None]
             table == Windows!Wakes({t})
  <2>2. /\ Windows!_refresh_afd(s, w, afd_ops, port, table)
        /\ sock' = sock /\ UNCHANGED <<Windows!overlappedVars, crashed>>
    <3>1. sleeping[t][1] = s /\ sleeping[t][2] = mode
      BY <2>1
    <3> QED BY <1>2, <3>1 DEF Windows!AbortPoll
  <2>3. /\ w \in AfdWaiters /\ w.current_op = afd_waiters[s].current_op /\ w[mode] = None
        /\ \A m \in Windows!AfdMode : m # mode => w[m] = afd_waiters[s][m]
    BY <1>t, WaiterField
  <2>4. /\ table \in SleepTable /\ table[t] = None /\ \A u \in Task : u # t => table[u] = sleeping[u]
    BY <1>t DEF SleepTable, Windows!Wakes
  <2> HIDE DEF w, table
  <2>5. ASSUME NEW u \in Task, NEW m \in Windows!AfdMode PROVE w[m] = u <=> table[u] = <<s, m>>
    <3>0. afd_waiters[s][m] = u <=> sleeping[u] = <<s, m>>
      BY <1>k
    <3>1. CASE m = mode
      <4>1. afd_waiters[s][mode] = t
        BY <1>k, <2>1
      <4> QED BY <1>p, <2>3, <2>4, <3>0, <3>1, <4>1
    <3>2. CASE m # mode
      <4>1. <<s, mode>> # <<s, m>> /\ w[m] = afd_waiters[s][m]
        BY <2>3, <3>2
      <4> QED BY <1>p, <2>1, <2>4, <3>0, <4>1
    <3> QED BY <3>1, <3>2
  <2>6. ASSUME NEW u \in Task, NEW x \in Sock, NEW m \in Windows!AfdMode, x # s
        PROVE  sleeping[u] = <<x, m>> <=> table[u] = <<x, m>>
    <3>1. <<x, m>> # <<s, mode>> /\ <<x, m>> # None
      BY <1>p, <2>6
    <3> QED BY <2>1, <2>4, <3>1
  <2>7. \A u \in Task, l \in Lpo : sleeping[u] = l <=> table[u] = l
    BY <1>p, <2>1, <2>4
  <2>8. WaitersAgree(s, w, table)
    BY <2>3, <2>4, <2>5, <2>6, <2>7 DEF WaitersAgree
  <2> QED BY <1>t, <2>2, <2>8, WaitersChange
<1>3. ASSUME NEW s \in Sock, Windows!WindowsNotifyClosing(s)
      PROVE  WindowsInv'
  <2> DEFINE w == [afd_waiters[s] EXCEPT !.read_task = None, !.write_task = None]
             who == {afd_waiters[s][m] : m \in Windows!AfdMode}
             table == Windows!Wakes(who)
  <2>1. /\ Windows!_refresh_afd(s, w, afd_ops, port, table)
        /\ sock' = [sock EXCEPT ![s] = "closed"] /\ UNCHANGED <<Windows!overlappedVars, crashed>>
    BY <1>3 DEF Windows!WindowsNotifyClosing
  <2>2. sock' \in [Sock -> {"open", "closed"}]
    BY <1>t, <2>1
  <2>3. /\ w \in AfdWaiters /\ w.current_op = afd_waiters[s].current_op
        /\ \A m \in Windows!AfdMode : w[m] = None
    BY <1>t DEF AfdWaiters, Windows!AfdMode
  <2>4. \A u \in Task : u \in who <=> \E m \in Windows!AfdMode : sleeping[u] = <<s, m>>
    BY <1>k
  <2>5. /\ table \in SleepTable
        /\ \A u \in Task : table[u] = IF \E m \in Windows!AfdMode : sleeping[u] = <<s, m>> THEN None ELSE sleeping[u]
    BY <1>t, <2>4 DEF SleepTable, Windows!Wakes
  <2> HIDE DEF w, table, who
  <2>6. ASSUME NEW u \in Task, NEW m \in Windows!AfdMode PROVE w[m] = u <=> table[u] = <<s, m>>
    BY <1>p, <2>3, <2>5
  <2>7. ASSUME NEW u \in Task, NEW x \in Sock, NEW m \in Windows!AfdMode, x # s
        PROVE  sleeping[u] = <<x, m>> <=> table[u] = <<x, m>>
    <3>1. \A k \in Windows!AfdMode : <<x, m>> # <<s, k>> /\ <<x, m>> # None
      BY <1>p, <2>7
    <3> QED BY <2>5, <3>1
  <2>8. \A u \in Task, l \in Lpo : sleeping[u] = l <=> table[u] = l
    BY <1>p, <2>5
  <2>9. WaitersAgree(s, w, table)
    BY <2>3, <2>5, <2>6, <2>7, <2>8 DEF WaitersAgree
  <2> QED BY <2>1, <2>2, <2>9, WaitersChange
<1>4. ASSUME NEW o \in Op, NEW events \in SUBSET Windows!AfdMode, Windows!PollCompletes(o, events)
      PROVE  WindowsInv'
  <2> DEFINE e == <<"AFD_POLL", o, events>>
             finished == [afd_ops[o] EXCEPT !.status = "complete"]
  <2>1. /\ afd_ops[o] # None /\ afd_ops[o].status = "pending"
        /\ afd_ops' = [afd_ops EXCEPT ![o] = finished] /\ port' = Append(port, e)
        /\ UNCHANGED <<afd_waiters, handles, vacant, sock, Windows!overlappedVars, sleeping, crashed>>
    BY <1>4 DEF Windows!PollCompletes
  <2>2. /\ finished \in AfdOp /\ finished # None /\ finished.sock = afd_ops[o].sock
        /\ finished.flags = afd_ops[o].flags /\ finished.status = "complete"
    <3>1. afd_ops[o] \in AfdOp
      BY <1>t, <2>1
    <3> QED BY <3>1, WaitingAssumption DEF AfdOp, Windows!AfdMode
  <2>3. e \in PortEntry /\ e[1] = "AFD_POLL" /\ e[2] = o
    BY DEF PortEntry
  <2> HIDE DEF e, finished
  <2>4. ~Has(port, "AFD_POLL", o)
    BY <1>i, <2>1 DEF Reported
  <2>5. /\ PortOK(port')
        /\ \A key, addr : Has(port', key, addr) <=> Has(port, key, addr) \/ (key = "AFD_POLL" /\ addr = o)
    BY <1>i, <2>1, <2>3, <2>4, PortAppend
  <2>6. /\ afd_ops' \in [Op -> AfdOp \cup {None}] /\ afd_ops'[o] = finished
        /\ \A x \in Op : x # o => afd_ops'[x] = afd_ops[x]
    BY <1>t, <2>1, <2>2
  <2>7. Reported(afd_ops', port')
    BY <1>i, <2>2, <2>5, <2>6 DEF Reported
  <2>8. ASSUME NEW x \in Sock PROVE Covered(afd_waiters[x], x, afd_ops')
    BY <1>i, <2>1, <2>2, <2>6, ZenonT(40) DEF Covered
  <2>9. /\ afd_waiters' = afd_waiters /\ handles' = handles /\ vacant' = vacant /\ sock' = sock
        /\ sleeping' = sleeping /\ UNCHANGED <<Windows!overlappedVars, crashed>>
    BY <2>1
  <2>10. /\ afd_waiters' \in [Sock -> AfdWaiters] /\ handles' \in Nat /\ vacant' \subseteq Nat
         /\ sleeping' \in SleepTable /\ sock' \in [Sock -> {"open", "closed"}]
         /\ SleepersKnown(afd_waiters', sleeping')
    BY <1>i, <1>t, <2>9
  <2>11. \A x \in Sock : Covered(afd_waiters'[x], x, afd_ops')
    BY <2>8, <2>9
  <2>12. /\ \A key, addr : key # "AFD_POLL" => (Has(port', key, addr) <=> Has(port, key, addr))
         /\ \A t \in Task, l \in Lpo : sleeping'[t] = l <=> sleeping[t] = l
    BY <2>5, <2>9
  <2> QED BY ONLY WindowsInv, ~crashed, <2>5, <2>6, <2>7, <2>9, <2>10, <2>11, <2>12, AfdFrame
<1>5. ASSUME NEW s \in Sock, Windows!CloseOrOpen(s)
      PROVE  WindowsInv'
  <2> DEFINE mine == {o \in Op : afd_ops[o] # None /\ afd_ops[o].sock = s /\ afd_ops[o].status = "pending"}
             posts == {<<"AFD_POLL", o, Windows!AfdMode>> : o \in mine}
             r == Windows!SetToSeq(posts)
  <2>1. /\ sock' = [sock EXCEPT ![s] = IF @ = "open" THEN "closed" ELSE "open"]
        /\ afd_ops' = [o \in Op |-> IF o \in mine THEN [afd_ops[o] EXCEPT !.status = "complete"] ELSE afd_ops[o]]
        /\ port' = port \o r
        /\ UNCHANGED <<afd_waiters, handles, vacant, Windows!overlappedVars, sleeping, crashed>>
    BY <1>5 DEF Windows!CloseOrOpen
  <2>2. sock' \in [Sock -> {"open", "closed"}]
    BY <1>t, <2>1
  <2>3. mine \subseteq Op /\ \A o \in mine : afd_ops[o] # None /\ afd_ops[o].status = "pending"
    OBVIOUS
  <2>4. ASSUME NEW o \in Op
        PROVE  /\ afd_ops'[o] \in AfdOp \cup {None}
               /\ (afd_ops'[o] = None <=> afd_ops[o] = None)
               /\ (afd_ops[o] # None => afd_ops'[o].sock = afd_ops[o].sock /\ afd_ops'[o].flags = afd_ops[o].flags)
               /\ (o \in mine => afd_ops'[o].status = "complete")
               /\ (o \notin mine => afd_ops'[o] = afd_ops[o])
    <3>1. CASE o \notin mine
      BY <1>t, <2>1, <3>1
    <3>2. CASE o \in mine
      <4>1. afd_ops[o] \in AfdOp /\ afd_ops[o] # None
        BY <1>t, <2>3, <3>2
      <4>2. afd_ops'[o] = [afd_ops[o] EXCEPT !.status = "complete"]
        BY <2>1, <3>2
      <4>3. afd_ops'[o] \in AfdOp /\ afd_ops'[o].sock = afd_ops[o].sock /\ afd_ops'[o].flags = afd_ops[o].flags
            /\ afd_ops'[o].status = "complete"
        BY <4>1, <4>2 DEF AfdOp
      <4>4. None \notin AfdOp
        BY WaitingAssumption DEF AfdOp, Windows!AfdMode
      <4> QED BY <3>2, <4>1, <4>3, <4>4
    <3> QED BY <3>1, <3>2
  <2>5. DOMAIN afd_ops' = Op /\ afd_ops' = [o \in Op |-> afd_ops'[o]]
    BY <2>1
  <2>6. afd_ops' \in [Op -> AfdOp \cup {None}]
    BY <2>4, <2>5
  <2>7. /\ \A e \in posts : e \in PortEntry /\ e[1] = "AFD_POLL" /\ e[2] \in mine /\ e = <<"AFD_POLL", e[2], Windows!AfdMode>>
        /\ \A o \in mine : <<"AFD_POLL", o, Windows!AfdMode>> \in posts
    <3> HIDE DEF mine
    <3>1. ASSUME NEW e \in posts
          PROVE  e \in PortEntry /\ e[1] = "AFD_POLL" /\ e[2] \in mine /\ e = <<"AFD_POLL", e[2], Windows!AfdMode>>
      <4>1. PICK o \in mine : e = <<"AFD_POLL", o, Windows!AfdMode>>
        OBVIOUS
      <4>2. o \in Op
        BY <2>3
      <4>3. e \in {"AFD_POLL"} \X Op \X SUBSET Windows!AfdMode
        BY <4>1, <4>2
      <4> QED BY <4>1, <4>3 DEF PortEntry
    <3>2. \A o \in mine : <<"AFD_POLL", o, Windows!AfdMode>> \in posts
      OBVIOUS
    <3> QED BY <3>1, <3>2
  <2>8. IsFiniteSet(posts)
    <3>1. IsFiniteSet(mine)
      BY <2>3, SizesAssumption, FS_Subset
    <3>2. [o \in mine |-> <<"AFD_POLL", o, Windows!AfdMode>>] \in Surjection(mine, posts)
      BY DEF Surjection
    <3> QED BY <3>1, <3>2, FS_Surjection
  <2>9. /\ r \in Seq(posts)
        /\ \A i, j \in 1 .. Len(r) : r[i] = r[j] => i = j
        /\ \A x \in posts : \E i \in 1 .. Len(r) : r[i] = x
    BY <2>8, SetToSeqOK
  <2> HIDE DEF mine, posts, r
  <2>10. Len(r) \in Nat /\ \A i \in 1 .. Len(r) : r[i] \in posts
    BY <2>9, ElementOfSeq, LenProperties
  <2>11. r \in Seq(PortEntry)
    <3>1. posts \subseteq PortEntry
      BY <2>7
    <3>2. r \in [1 .. Len(r) -> PortEntry]
      BY <2>9, <2>10, <3>1, LenProperties
    <3> QED BY <2>10, <3>2, SeqDef
  <2>12. \A i \in 1 .. Len(r) : r[i][1] = "AFD_POLL" /\ ~Has(port, "AFD_POLL", r[i][2])
    <3>1. \A o \in mine : ~Has(port, "AFD_POLL", o)
      BY <1>i, <2>3 DEF Reported
    <3> QED BY <2>7, <2>10, <3>1
  <2>13. \A i, j \in 1 .. Len(r) : r[i][2] = r[j][2] => i = j
    <3>1. ASSUME NEW i \in 1 .. Len(r), NEW j \in 1 .. Len(r), r[i][2] = r[j][2]
          PROVE  i = j
      <4>1. r[i] \in posts /\ r[j] \in posts
        BY <2>10
      <4>2. r[i] = <<"AFD_POLL", r[i][2], Windows!AfdMode>> /\ r[j] = <<"AFD_POLL", r[j][2], Windows!AfdMode>>
        BY <2>7, <4>1
      <4>3. r[i] = r[j]
        BY <3>1, <4>2, Zenon
      <4> QED BY <2>9, <4>3
    <3> QED BY <3>1
  <2>14. /\ PortOK(port')
         /\ \A key, addr : Has(port', key, addr) <=> Has(port, key, addr) \/ Has(r, key, addr)
    BY <1>i, <2>1, <2>11, <2>12, <2>13, PortConcat
  <2>15. \A key, addr : Has(r, key, addr) <=> key = "AFD_POLL" /\ addr \in mine
    <3>1. ASSUME NEW key, NEW addr, Has(r, key, addr)
          PROVE  key = "AFD_POLL" /\ addr \in mine
      <4>1. PICK i \in 1 .. Len(r) : r[i][1] = key /\ r[i][2] = addr
        BY <3>1 DEF Has
      <4> QED BY <2>7, <2>10, <4>1
    <3>2. ASSUME NEW o \in mine
          PROVE  Has(r, "AFD_POLL", o)
      <4>1. PICK i \in 1 .. Len(r) : r[i] = <<"AFD_POLL", o, Windows!AfdMode>>
        BY <2>7, <2>9
      <4>2. r[i][1] = "AFD_POLL" /\ r[i][2] = o
        BY <4>1
      <4> QED BY <4>2 DEF Has
    <3> QED BY <3>1, <3>2
  <2>16. Reported(afd_ops', port')
    BY <1>i, <2>3, <2>4, <2>14, <2>15 DEF Reported
  <2>17. ASSUME NEW x \in Sock PROVE Covered(afd_waiters[x], x, afd_ops')
    BY <1>i, <2>4 DEF Covered
  <2>18. \A key, addr : key # "AFD_POLL" => (Has(port', key, addr) <=> Has(port, key, addr))
    BY <2>14, <2>15
  <2> QED BY <1>i, <1>t, <2>1, <2>2, <2>6, <2>14, <2>16, <2>17, <2>18, AfdFrame
<1>6. ASSUME Windows!ProcessPoll
      PROVE  WindowsInv'
  <2> DEFINE o == Head(port)[2]
             s == afd_ops[o].sock
             w == afd_waiters[s]
             woken == {m \in Windows!AfdMode : w[m] # None /\ m \in Head(port)[3]}
             left == [m \in DOMAIN w |-> IF m \in woken \cup {"current_op"} THEN None ELSE w[m]]
             ops == [afd_ops EXCEPT ![o] = None]
             table == Windows!Wakes({w[m] : m \in woken})
             queue == Tail(port)
  <2>1. /\ port # <<>> /\ Head(port)[1] = "AFD_POLL"
        /\ UNCHANGED <<sock, Windows!overlappedVars, crashed>>
        /\ IF w.current_op # o
           THEN afd_ops' = ops /\ port' = queue /\ UNCHANGED <<afd_waiters, handles, vacant, sleeping>>
           ELSE Windows!_refresh_afd(s, left, ops, queue, table)
    BY <1>6, ZenonT(40) DEF Windows!ProcessPoll
  <2>2. /\ PortOK(queue) /\ Head(port) \in PortEntry /\ Has(port, "AFD_POLL", o)
        /\ \A key, addr : Has(queue, key, addr) <=> Has(port, key, addr) /\ ~(key = "AFD_POLL" /\ addr = o)
    BY <1>i, <2>1, PortTail, ZenonT(40)
  <2>3. o \in Op
    BY <2>1, <2>2, Zenon DEF PortEntry
  <2> HIDE DEF o
  <2>4. afd_ops[o] # None /\ afd_ops[o] \in AfdOp
    BY <1>i, <1>t, <2>2, <2>3 DEF Reported
  <2>5. s \in Sock
    BY <2>4 DEF AfdOp
  <2>6. ops \in [Op -> AfdOp \cup {None}] /\ ops[o] = None /\ \A x \in Op : x # o => ops[x] = afd_ops[x]
    BY <1>t, <2>3
  <2>7. w \in AfdWaiters
    BY <1>t, <2>5
  <2> HIDE DEF ops, queue
  <2>8. Reported(ops, queue)
    BY <1>i, <2>2, <2>6 DEF Reported
  <2>9. ASSUME NEW x \in Sock, x # s \/ w.current_op # o
        PROVE  Covered(afd_waiters[x], x, ops)
    <3>1. Covered(afd_waiters[x], x, afd_ops)
      BY <1>i
    <3>2. CASE Windows!Flags(afd_waiters[x]) = {}
      BY <3>1, <3>2 DEF Covered
    <3>3. CASE Windows!Flags(afd_waiters[x]) # {}
      <4>1. /\ afd_waiters[x].current_op \in Op /\ afd_ops[afd_waiters[x].current_op] # None
            /\ afd_ops[afd_waiters[x].current_op].sock = x
            /\ afd_ops[afd_waiters[x].current_op].flags = Windows!Flags(afd_waiters[x])
        BY <3>1, <3>3 DEF Covered
      <4>2. afd_waiters[x].current_op # o
        BY <2>9, <4>1
      <4> QED BY <2>6, <3>3, <4>1, <4>2 DEF Covered
    <3> QED BY <3>2, <3>3
  <2>10. \A key, addr : key # "AFD_POLL" => (Has(queue, key, addr) <=> Has(port, key, addr))
    BY <2>2
  <2>11. CASE w.current_op # o
    <3>1. /\ afd_ops' = ops /\ port' = queue /\ UNCHANGED <<afd_waiters, handles, vacant, sleeping>>
          /\ UNCHANGED <<sock, Windows!overlappedVars, crashed>>
      BY <2>1, <2>11
    <3>2. \A x \in Sock : Covered(afd_waiters[x], x, ops)
      BY <2>9, <2>11
    <3> HIDE DEF s, w
    <3> QED BY <1>i, <1>t, <2>2, <2>6, <2>8, <2>10, <3>1, <3>2, AfdFrame
  <2>12. CASE w.current_op = o
    <3> HIDE DEF w
    <3>1. /\ left \in AfdWaiters /\ left.current_op = None
          /\ \A m \in Windows!AfdMode : left[m] = IF m \in woken THEN None ELSE w[m]
      BY <2>7 DEF AfdWaiters, Windows!AfdMode
    <3>2. \A t \in Task : t \in {w[m] : m \in woken} <=> \E m \in woken : sleeping[t] = <<s, m>>
      BY <1>k, <2>5 DEF w
    <3>3. /\ table \in SleepTable
          /\ \A t \in Task : table[t] = IF \E m \in woken : sleeping[t] = <<s, m>> THEN None ELSE sleeping[t]
      BY <1>t, <3>2 DEF SleepTable, Windows!Wakes
    <3>0. woken \subseteq Windows!AfdMode
      OBVIOUS
    <3> HIDE DEF left, table, woken, s
    <3>4. ASSUME NEW t \in Task, NEW m \in Windows!AfdMode
          PROVE  left[m] = t <=> table[t] = <<s, m>>
      <4>1. w[m] = t <=> sleeping[t] = <<s, m>>
        BY <1>k, <2>5 DEF w
      <4>2. \A k \in woken : sleeping[t] = <<s, k>> /\ sleeping[t] = <<s, m>> => k = m
        OBVIOUS
      <4> QED BY <1>p, <2>5, <3>1, <3>3, <4>1, <4>2
    <3>5. ASSUME NEW t \in Task, NEW x \in Sock, NEW m \in Windows!AfdMode, x # s
          PROVE  afd_waiters[x][m] = t <=> table[t] = <<x, m>>
      <4>1. afd_waiters[x][m] = t <=> sleeping[t] = <<x, m>>
        BY <1>k
      <4>2. \A k : <<s, k>> # <<x, m>>
        BY <3>5
      <4> QED BY <1>p, <3>3, <4>1, <4>2
    <3>6. RefreshReady(s, left, ops, queue, table)
      BY <2>2, <2>5, <2>6, <2>8, <2>9, <3>1, <3>3, <3>4, <3>5 DEF RefreshReady
    <3>7. Windows!_refresh_afd(s, left, ops, queue, table)
      BY <2>1, <2>12
    <3>8. Refreshed(queue, table)
      BY <1>i, <3>6, <3>7, RefreshOK
    <3>9. ASSUME NEW t \in Task, NEW l \in Lpo
          PROVE  sleeping'[t] = l <=> sleeping[t] = l
      <4>1. sleeping'[t] = l <=> table[t] = l
        BY <3>8 DEF Refreshed
      <4>2. CASE \E m \in woken : sleeping[t] = <<s, m>>
        <5>1. PICK m \in woken : sleeping[t] = <<s, m>>
          BY <4>2
        <5>2. <<s, m>> # l /\ table[t] # l
          BY <1>p, <2>5, <3>0, <3>3, <4>2, <5>1
        <5> QED BY <4>1, <5>1, <5>2
      <4>3. CASE ~\E m \in woken : sleeping[t] = <<s, m>>
        BY <3>3, <4>1, <4>3
      <4> QED BY <4>2, <4>3
    <3>10. \A key, addr : key # "AFD_POLL" => (Has(port', key, addr) <=> Has(port, key, addr))
      BY <2>10, <3>8 DEF Refreshed
    <3>11. sock' = sock /\ UNCHANGED <<Windows!overlappedVars, crashed>>
      BY <2>1
    <3> QED BY <1>t, <3>8, <3>9, <3>10, <3>11, AfdFrame DEF Refreshed
  <2> QED BY <2>11, <2>12, SMTT(40)
<1> QED BY <1>1, <1>2, <1>3, <1>4, <1>5, <1>6 DEF Windows!AFDNext

\* What a step of the overlapped half owes the invariant, given that it keeps
\* the polls' entries and the tasks asleep on sockets
LEMMA OverlappedFrame ==
    ASSUME WindowsInv, ~crashed, UNCHANGED Windows!afdVars,
           lpo' \in [Lpo -> {"none", "pending", "complete", "cancelled"}], lpo_registered' \in [Lpo -> BOOLEAN],
           overlapped_waiters' \in [Lpo -> Task \cup {None}], sleeping' \in SleepTable, PortOK(port'),
           \A o : Has(port', "AFD_POLL", o) <=> Has(port, "AFD_POLL", o),
           \A t \in Task, s \in Sock, m \in Windows!AfdMode : sleeping'[t] = <<s, m>> <=> sleeping[t] = <<s, m>>,
           ~crashed' => OverlappedOK',
           crashed' => \E l \in Lpo : ~lpo_registered'[l] /\ lpo'[l] = "complete"
    PROVE  WindowsInv'
<1>1. /\ afd_waiters' = afd_waiters /\ afd_ops' = afd_ops /\ handles' = handles /\ vacant' = vacant
      /\ sock' = sock
  BY DEF Windows!afdVars
<1>2. WindowsType'
  BY <1>1 DEF WindowsInv, WindowsType, SleepTable
<1>3. SleepersKnown(afd_waiters', sleeping')
  BY <1>1 DEF WindowsInv, SleepersKnown
<1>4. Reported(afd_ops', port')
  BY <1>1 DEF WindowsInv, Reported
<1>5. \A s \in Sock : Covered(afd_waiters'[s], s, afd_ops')
  BY <1>1 DEF WindowsInv
<1> QED BY <1>2, <1>3, <1>4, <1>5 DEF WindowsInv

\* Each step of an overlapped operation keeps the invariant
LEMMA OverlappedStep ==
    ASSUME WindowsInv, ~crashed, Windows!OverlappedNext
    PROVE  WindowsInv'
<1>i. /\ PortOK(port)
      /\ \A t \in Task, l \in Lpo : sleeping[t] = l <=> overlapped_waiters[l] = t
      /\ \A l \in Lpo : overlapped_waiters[l] # None <=> lpo[l] # "none"
      /\ \A l \in Lpo : Has(port, "WAIT_OVERLAPPED", l) <=> lpo_registered[l] /\ lpo[l] \in {"complete", "cancelled"}
      /\ \A l \in Lpo : l \in too_late <=> Has(port, "LATE_CANCEL", l)
      /\ \A l \in Lpo : l \in too_late => lpo[l] \in {"none", "complete"}
  BY DEF WindowsInv, OverlappedOK
<1>t. /\ lpo \in [Lpo -> {"none", "pending", "complete", "cancelled"}] /\ lpo_registered \in [Lpo -> BOOLEAN]
      /\ overlapped_waiters \in [Lpo -> Task \cup {None}] /\ sleeping \in SleepTable
  BY DEF WindowsInv, WindowsType, SleepTable
<1>p. /\ None \notin Task /\ None \notin Lpo
      /\ \A x \in Sock, m \in Windows!AfdMode : <<x, m>> # None /\ <<x, m>> \notin Lpo
  BY WaitingAssumption DEF Windows!AfdMode
<1>e. ASSUME NEW l \in Lpo, NEW key \in {"WAIT_OVERLAPPED", "LATE_CANCEL"}
      PROVE  LET e == <<key, l, {}>> IN e \in PortEntry /\ e[1] = key /\ e[2] = l
  BY DEF PortEntry
\* The io is reported: with the kernel before, and in the port after
<1>r. ASSUME NEW l \in Lpo, NEW how \in {"complete", "cancelled"}, lpo[l] = "pending",
             lpo' = [lpo EXCEPT ![l] = how],
             port' = IF lpo_registered[l] THEN Append(port, <<"WAIT_OVERLAPPED", l, {}>>) ELSE port,
             UNCHANGED <<Windows!afdVars, lpo_registered, overlapped_waiters, too_late, sleeping, crashed>>
      PROVE  WindowsInv'
  <2>1. ~Has(port, "WAIT_OVERLAPPED", l) /\ ~Has(port, "LATE_CANCEL", l) /\ l \notin too_late
    BY <1>i, <1>r
  <2>2. /\ PortOK(port')
        /\ \A key, addr : Has(port', key, addr) <=>
              Has(port, key, addr) \/ (lpo_registered[l] /\ key = "WAIT_OVERLAPPED" /\ addr = l)
    <3>1. CASE lpo_registered[l]
      <4> DEFINE e == <<"WAIT_OVERLAPPED", l, {}>>
      <4>1. e \in PortEntry /\ e[1] = "WAIT_OVERLAPPED" /\ e[2] = l /\ port' = Append(port, e)
        BY <1>e, <1>r, <3>1
      <4> HIDE DEF e
      <4>2. ~Has(port, e[1], e[2]) /\ ~Has(port, "LATE_CANCEL", e[2])
        BY <2>1, <4>1
      <4>3. /\ PortOK(port')
            /\ \A key, addr : Has(port', key, addr) <=> Has(port, key, addr) \/ (key = e[1] /\ addr = e[2])
        BY ONLY <1>i, <4>1, <4>2, PortAppend
      <4> QED BY <3>1, <4>1, <4>3
    <3>2. CASE ~lpo_registered[l]
      BY <1>i, <1>r, <3>2
    <3> QED BY <3>1, <3>2
  <2>3. /\ lpo' \in [Lpo -> {"none", "pending", "complete", "cancelled"}] /\ lpo'[l] = how
        /\ \A k \in Lpo : k # l => lpo'[k] = lpo[k]
    BY <1>r, <1>t
  <2>f. /\ UNCHANGED Windows!afdVars /\ lpo_registered' = lpo_registered
        /\ overlapped_waiters' = overlapped_waiters /\ too_late' = too_late
        /\ sleeping' = sleeping /\ crashed' = crashed
    BY <1>r
  <2>4. /\ \A k \in Lpo : Has(port', "WAIT_OVERLAPPED", k) <=>
              lpo_registered'[k] /\ lpo'[k] \in {"complete", "cancelled"}
        /\ \A k \in Lpo : k \in too_late' <=> Has(port', "LATE_CANCEL", k)
    <3>1. ASSUME NEW k \in Lpo
          PROVE  Has(port', "WAIT_OVERLAPPED", k) <=> lpo_registered'[k] /\ lpo'[k] \in {"complete", "cancelled"}
      <4>1. CASE k = l
        <5>1. Has(port', "WAIT_OVERLAPPED", l) <=> lpo_registered[l]
          BY <2>1, <2>2
        <5> QED BY <2>3, <2>f, <4>1, <5>1
      <4>2. CASE k # l
        <5>1. Has(port', "WAIT_OVERLAPPED", k) <=> Has(port, "WAIT_OVERLAPPED", k)
          BY <2>2, <4>2
        <5> QED BY <1>i, <2>3, <2>f, <4>2, <5>1
      <4> QED BY <4>1, <4>2
    <3>2. \A k \in Lpo : k \in too_late' <=> Has(port', "LATE_CANCEL", k)
      BY <1>i, <2>2, <2>f
    <3> QED BY <3>1, <3>2
  <2>5. /\ \A k \in Lpo : overlapped_waiters'[k] # None <=> lpo'[k] # "none"
        /\ \A k \in Lpo : k \in too_late' => lpo'[k] \in {"none", "complete"}
    BY <1>i, <1>r, <2>1, <2>3, <2>f
  <2>6. OverlappedOK'
    BY <1>i, <2>4, <2>5, <2>f DEF OverlappedOK
  <2>7. \A o : Has(port', "AFD_POLL", o) <=> Has(port, "AFD_POLL", o)
    BY <2>2
  <2> QED BY <1>t, <2>2, <2>3, <2>6, <2>7, <2>f, OverlappedFrame
<1>1. ASSUME NEW t \in Task, NEW l \in Lpo, NEW registered_ \in BOOLEAN, Windows!_perform_overlapped(t, l, registered_)
      PROVE  WindowsInv'
  <2>1. /\ sleeping[t] = None /\ lpo[l] = "none" /\ overlapped_waiters[l] = None /\ l \notin too_late
        /\ lpo' = [lpo EXCEPT ![l] = "pending"]
        /\ lpo_registered' = [lpo_registered EXCEPT ![l] = registered_]
        /\ overlapped_waiters' = [overlapped_waiters EXCEPT ![l] = t]
        /\ sleeping' = [sleeping EXCEPT ![t] = l]
        /\ UNCHANGED <<Windows!afdVars, too_late, port, crashed>>
    BY <1>1 DEF Windows!_perform_overlapped
  <2>2. /\ lpo' \in [Lpo -> {"none", "pending", "complete", "cancelled"}] /\ lpo'[l] = "pending"
        /\ \A k \in Lpo : k # l => lpo'[k] = lpo[k]
    BY <1>t, <2>1
  <2>3. /\ lpo_registered' \in [Lpo -> BOOLEAN] /\ \A k \in Lpo : k # l => lpo_registered'[k] = lpo_registered[k]
    BY <1>t, <2>1
  <2>4. /\ overlapped_waiters' \in [Lpo -> Task \cup {None}] /\ overlapped_waiters'[l] = t
        /\ \A k \in Lpo : k # l => overlapped_waiters'[k] = overlapped_waiters[k]
    BY <1>t, <2>1
  <2>5. sleeping' \in SleepTable /\ sleeping'[t] = l /\ \A u \in Task : u # t => sleeping'[u] = sleeping[u]
    BY <1>t, <2>1 DEF SleepTable
  <2>6. ASSUME NEW u \in Task, NEW k \in Lpo
        PROVE  sleeping'[u] = k <=> overlapped_waiters'[k] = u
    BY <1>i, <1>p, <2>1, <2>4, <2>5
  <2>7. OverlappedOK'
    BY <1>i, <1>p, <2>1, <2>2, <2>3, <2>4, <2>6 DEF OverlappedOK
  <2>8. \A u \in Task, s \in Sock, m \in Windows!AfdMode : sleeping'[u] = <<s, m>> <=> sleeping[u] = <<s, m>>
    BY <1>p, <2>1, <2>5
  <2> QED BY <1>i, <2>1, <2>2, <2>3, <2>4, <2>5, <2>7, <2>8, OverlappedFrame
<1>2. ASSUME NEW l \in Lpo, Windows!IoCompletes(l)
      PROVE  WindowsInv'
  BY <1>2, <1>r DEF Windows!IoCompletes
<1>3. ASSUME NEW t \in Task, Windows!AbortOverlapped(t)
      PROVE  WindowsInv'
  <2> DEFINE l == sleeping[t]
  <2>1. l \in Lpo
    BY <1>3 DEF Windows!AbortOverlapped
  <2>2. CASE lpo[l] = "pending"
    BY <1>3, <1>r, <2>1, <2>2 DEF Windows!AbortOverlapped
  <2>3. CASE lpo[l] # "pending"
    <3>1. /\ lpo[l] = "complete" /\ l \notin too_late /\ too_late' = too_late \cup {l}
          /\ port' = Append(port, <<"LATE_CANCEL", l, {}>>)
          /\ UNCHANGED <<lpo, Windows!afdVars, lpo_registered, overlapped_waiters, sleeping, crashed>>
      BY <1>3, <2>3 DEF Windows!AbortOverlapped
    <3> HIDE DEF l
    <3>2. /\ PortOK(port')
          /\ \A key, addr : Has(port', key, addr) <=> Has(port, key, addr) \/ (key = "LATE_CANCEL" /\ addr = l)
      <4> DEFINE e == <<"LATE_CANCEL", l, {}>>
      <4>1. e \in PortEntry /\ e[1] = "LATE_CANCEL" /\ e[2] = l /\ port' = Append(port, e)
        BY <1>e, <2>1, <3>1
      <4> HIDE DEF e
      <4>2. ~Has(port, e[1], e[2]) /\ e[1] # "WAIT_OVERLAPPED"
        BY <1>i, <2>1, <3>1, <4>1
      <4>3. /\ PortOK(port')
            /\ \A key, addr : Has(port', key, addr) <=> Has(port, key, addr) \/ (key = e[1] /\ addr = e[2])
        BY ONLY <1>i, <4>1, <4>2, PortAppend
      <4> QED BY <4>1, <4>3
    <3>3. /\ UNCHANGED Windows!afdVars /\ lpo' = lpo /\ lpo_registered' = lpo_registered
          /\ overlapped_waiters' = overlapped_waiters /\ sleeping' = sleeping /\ crashed' = crashed
      BY <3>1
    <3>4. OverlappedOK'
      <4>1. /\ \A k \in Lpo : Has(port', "WAIT_OVERLAPPED", k) <=> Has(port, "WAIT_OVERLAPPED", k)
            /\ \A k \in Lpo : k \in too_late' <=> Has(port', "LATE_CANCEL", k)
        BY <1>i, <3>1, <3>2
      <4>2. \A k \in Lpo : k \in too_late' => lpo'[k] \in {"none", "complete"}
        BY <1>i, <3>1, <3>3
      <4> QED BY <1>i, <3>3, <4>1, <4>2 DEF OverlappedOK
    <3>5. \A o : Has(port', "AFD_POLL", o) <=> Has(port, "AFD_POLL", o)
      BY <3>2
    <3> QED BY <1>t, <3>2, <3>3, <3>4, <3>5, OverlappedFrame
  <2> QED BY <2>2, <2>3
<1>4. ASSUME Windows!ProcessOverlapped
      PROVE  WindowsInv'
  <2> DEFINE l == Head(port)[2]
             u == overlapped_waiters[l]
  <2>1. /\ port # <<>> /\ Head(port)[1] = "WAIT_OVERLAPPED" /\ port' = Tail(port)
        /\ overlapped_waiters' = [overlapped_waiters EXCEPT ![l] = None]
        /\ sleeping' = Windows!Wakes({u}) /\ lpo' = [lpo EXCEPT ![l] = "none"]
        /\ UNCHANGED <<Windows!afdVars, lpo_registered, too_late, crashed>>
    BY <1>4 DEF Windows!ProcessOverlapped
  <2>2. /\ PortOK(port') /\ Head(port) \in PortEntry /\ Has(port, "WAIT_OVERLAPPED", l)
        /\ \A key, addr : Has(port', key, addr) <=> Has(port, key, addr) /\ ~(key = "WAIT_OVERLAPPED" /\ addr = l)
    BY <1>i, <2>1, PortTail
  <2>3. l \in Lpo
    BY <2>1, <2>2 DEF PortEntry
  <2> HIDE DEF l
  <2>4. u \in Task /\ sleeping[u] = l
    BY <1>i, <1>t, <2>2, <2>3
  <2>5. /\ lpo' \in [Lpo -> {"none", "pending", "complete", "cancelled"}] /\ lpo'[l] = "none"
        /\ \A k \in Lpo : k # l => lpo'[k] = lpo[k]
    BY <1>t, <2>1, <2>3
  <2>6. /\ overlapped_waiters' \in [Lpo -> Task \cup {None}] /\ overlapped_waiters'[l] = None
        /\ \A k \in Lpo : k # l => overlapped_waiters'[k] = overlapped_waiters[k]
    BY <1>t, <2>1, <2>3
  <2>7. sleeping' \in SleepTable /\ sleeping'[u] = None /\ \A v \in Task : v # u => sleeping'[v] = sleeping[v]
    BY <1>t, <2>1, <2>4 DEF SleepTable, Windows!Wakes
  <2>8. ASSUME NEW v \in Task, NEW k \in Lpo
        PROVE  sleeping'[v] = k <=> overlapped_waiters'[k] = v
    <3> HIDE DEF u
    <3>1. overlapped_waiters[l] = u
      BY DEF u
    <3> QED BY <1>i, <1>p, <2>3, <2>4, <2>6, <2>7, <3>1
  <2>f. /\ UNCHANGED Windows!afdVars /\ lpo_registered' = lpo_registered /\ too_late' = too_late
        /\ crashed' = crashed
    BY <2>1
  <2>a. /\ \A k \in Lpo : Has(port', "WAIT_OVERLAPPED", k) <=>
              lpo_registered'[k] /\ lpo'[k] \in {"complete", "cancelled"}
        /\ \A k \in Lpo : k \in too_late' <=> Has(port', "LATE_CANCEL", k)
    BY <1>i, <2>2, <2>3, <2>5, <2>f
  <2>b. /\ \A k \in Lpo : overlapped_waiters'[k] # None <=> lpo'[k] # "none"
        /\ \A k \in Lpo : k \in too_late' => lpo'[k] \in {"none", "complete"}
    BY <1>i, <2>3, <2>5, <2>6, <2>f
  <2>9. OverlappedOK'
    BY <2>8, <2>a, <2>b DEF OverlappedOK
  <2>10. \A v \in Task, s \in Sock, m \in Windows!AfdMode : sleeping'[v] = <<s, m>> <=> sleeping[v] = <<s, m>>
    BY <1>p, <2>3, <2>4, <2>7
  <2> QED BY <1>t, <2>1, <2>2, <2>5, <2>6, <2>7, <2>9, <2>10, OverlappedFrame
<1>5. ASSUME Windows!ProcessLateCancel
      PROVE  WindowsInv'
  <2> DEFINE l == Head(port)[2]
  <2>1. /\ port # <<>> /\ Head(port)[1] = "LATE_CANCEL" /\ port' = Tail(port)
        /\ too_late' = too_late \ {l} /\ (crashed' <=> overlapped_waiters[l] # None)
        /\ overlapped_waiters' = [overlapped_waiters EXCEPT ![l] = None]
        /\ UNCHANGED <<Windows!afdVars, lpo, lpo_registered, sleeping>>
    BY <1>5 DEF Windows!ProcessLateCancel, Windows!Unwoken
  <2>2. /\ PortOK(port') /\ Head(port) \in PortEntry /\ Has(port, "LATE_CANCEL", l)
        /\ ~Has(port, "WAIT_OVERLAPPED", l)
        /\ \A key, addr : Has(port', key, addr) <=> Has(port, key, addr) /\ ~(key = "LATE_CANCEL" /\ addr = l)
    BY <1>i, <2>1, PortTail
  <2>3. l \in Lpo
    BY <2>1, <2>2 DEF PortEntry
  <2> HIDE DEF l
  <2>4. /\ overlapped_waiters' \in [Lpo -> Task \cup {None}] /\ overlapped_waiters'[l] = None
        /\ \A k \in Lpo : k # l => overlapped_waiters'[k] = overlapped_waiters[k]
    BY <1>t, <2>1, <2>3
  <2>5. ASSUME crashed'
        PROVE  ~lpo_registered'[l] /\ lpo'[l] = "complete"
    BY <1>i, <2>1, <2>2, <2>3, <2>5
  <2>6. ASSUME ~crashed'
        PROVE  OverlappedOK'
    <3>1. \A k \in Lpo : overlapped_waiters'[k] = overlapped_waiters[k]
      BY <2>1, <2>4, <2>6
    <3> QED BY <1>i, <2>1, <2>2, <2>3, <3>1 DEF OverlappedOK
  <2> QED BY <1>t, <2>1, <2>2, <2>3, <2>4, <2>5, <2>6, OverlappedFrame
<1> QED BY <1>1, <1>2, <1>3, <1>4, <1>5 DEF Windows!OverlappedNext

-----------------------------------------------------------------------------
(* All of them together                                                    *)

\* Every I/O manager starts with nobody waiting
LEMMA ManagersInit ==
    ASSUME Epoll!EpollInit, Kqueue!KqueueInit, Windows!WindowsInit
    PROVE  EpollInv /\ KqueueInv /\ WindowsInv
<1>p. /\ None \notin Task /\ Monitor # None
      /\ \A x \in Fd, m \in Epoll!Mode : <<x, m>> # None
      /\ \A x \in Sock, m \in Windows!AfdMode : <<x, m>> # None
  BY WaitingAssumption DEF Epoll!Mode, Windows!AfdMode
<1>k. None \notin Kqueue!Key
  <2>1. ASSUME NEW k \in Kqueue!Key PROVE k # None
    <3>1. PICK x \in Fd, y \in Kqueue!Filter : k = <<x, y>>
      BY DEF Kqueue!Key
    <3> QED BY <3>1, WaitingAssumption DEF Kqueue!Filter
  <2> QED BY <2>1
<1>1. EpollInv
  <2>1. Epoll!Nobody \in EpollWaiters /\ Epoll!Wanted(Epoll!Nobody) = {}
        /\ Epoll!Nobody.current_flags = {} /\ \A m \in Epoll!Mode : Epoll!Nobody[m] = None
    BY DEF Epoll!Nobody, EpollWaiters, Epoll!Wanted, Epoll!Mode
  <2>2. EpollType
    BY <2>1 DEF Epoll!EpollInit, EpollType, Sleepers
  <2>3. Epoll!EpollForgetsNobody
    BY <1>p, <2>1 DEF Epoll!EpollInit, Epoll!EpollForgetsNobody
  <2> QED BY <2>2, <2>3 DEF EpollInv
<1>2. KqueueInv
  BY <1>k, <1>p DEF KqueueInv, KqueueType, QueuesStay, QueuesOwnFilter, FetchedOnce,
     Kqueue!KqueueInit, Kqueue!NoEvents, Kqueue!KqueueInStep
<1>3. WindowsInv
  <2>1. /\ Windows!NoWaiters \in AfdWaiters /\ Windows!Flags(Windows!NoWaiters) = {}
        /\ \A m \in Windows!AfdMode : Windows!NoWaiters[m] = None
    <3>1. Windows!NoWaiters \in AfdWaiters
      BY DEF AfdWaiters, Windows!NoWaiters
    <3> QED BY <3>1, AfdWaitersFacts
  <2>2. port = <<>> /\ \A key, addr : ~Has(port, key, addr)
    BY DEF Windows!WindowsInit, Has
  <2>3. PortOK(port)
    BY <2>2 DEF PortOK
  <2>4. WindowsType
    BY <2>1 DEF WindowsType, Windows!WindowsInit
  <2>5. SleepersKnown(afd_waiters, sleeping)
    BY <1>p, <2>1 DEF SleepersKnown, Windows!WindowsInit
  <2>6. \A s \in Sock : Covered(afd_waiters[s], s, afd_ops)
    BY <2>1 DEF Covered, Windows!WindowsInit
  <2>7. Reported(afd_ops, port)
    BY <2>2 DEF Reported, Windows!WindowsInit
  <2>8. OverlappedOK /\ ~crashed
    BY <2>2, WaitingAssumption DEF OverlappedOK, Windows!WindowsInit
  <2> QED BY <2>3, <2>4, <2>5, <2>6, <2>7, <2>8 DEF WindowsInv
<1> QED BY <1>1, <1>2, <1>3

\* Every stream starts open and empty
LEMMA StreamsInit ==
    ASSUME Bytes!ByteInit, Memory!MemoryInit
    PROVE  ByteInv /\ MemoryInv
<1>1. MemoryInv
  BY DEF MemoryInv, MemoryType, MemTable, MemoryCalls, ParkedForSomething, Memory!MemoryInit
<1>2. ByteInv
  <2>1. ByteType /\ OwnNumber /\ OneSender /\ HalfSent
    BY DEF Bytes!ByteInit, ByteType, OwnNumber, OneSender, HalfSent
  <2>2. WireFits /\ Unbroken(wire) /\ WholeIfDone
    BY SizesAssumption DEF Bytes!ByteInit, WireFits, Unbroken, WholeIfDone
  <2>3. ReadInOrder
    <3>1. received = <<>> /\ inbox = <<>> /\ came = 0
      BY DEF Bytes!ByteInit
    <3>2. <<>> \o <<>> = <<>>
      OBVIOUS
    <3>3. [i \in 1 .. 0 |-> i] = <<>>
      OBVIOUS
    <3> QED BY <3>1, <3>2, <3>3 DEF ReadInOrder
  <2> QED BY <2>1, <2>2, <2>3 DEF ByteInv
<1> QED BY <1>1, <1>2

\* What one part leaves alone stays as it was
LEMMA Untouched ==
    /\ EpollInv /\ UNCHANGED epollVars => EpollInv'
    /\ KqueueInv /\ UNCHANGED kqueueVars => KqueueInv'
    /\ WindowsInv /\ UNCHANGED winVars => WindowsInv'
    /\ ByteInv /\ UNCHANGED byteVars => ByteInv'
    /\ MemoryInv /\ UNCHANGED memVars => MemoryInv'
<1>1. EpollInv /\ UNCHANGED epollVars => EpollInv'
  BY DEF epollVars, EpollInv, EpollType, Epoll!EpollForgetsNobody
<1>2. KqueueInv /\ UNCHANGED kqueueVars => KqueueInv'
  BY DEF kqueueVars, KqueueInv, KqueueType, QueuesStay, QueuesOwnFilter, FetchedOnce,
     Kqueue!KqueueInStep
<1>3. WindowsInv /\ UNCHANGED winVars => WindowsInv'
  BY DEF winVars, WindowsInv, WindowsType, OverlappedOK
<1>4. ByteInv /\ UNCHANGED byteVars => ByteInv'
  <2> SUFFICES ASSUME ByteInv, UNCHANGED byteVars PROVE ByteInv'
    OBVIOUS
  <2>1. /\ fd' = fd /\ owner' = owner /\ call' = call /\ wire' = wire /\ taken' = taken /\ inbox' = inbox
        /\ came' = came /\ received' = received /\ done' = done /\ misused' = misused
    BY DEF byteVars
  <2>2. ByteType' /\ OwnNumber' /\ WireFits'
    BY <2>1 DEF ByteInv, ByteType, OwnNumber, WireFits
  <2>3. OneSender' /\ HalfSent'
    BY <2>1 DEF ByteInv, OneSender, HalfSent
  <2>4. Unbroken(wire)' /\ WholeIfDone' /\ ReadInOrder'
    BY <2>1 DEF ByteInv, Unbroken, WholeIfDone, ReadInOrder
  <2> QED BY <2>2, <2>3, <2>4 DEF ByteInv
<1>5. MemoryInv /\ UNCHANGED memVars => MemoryInv'
  BY DEF memVars, MemoryInv, MemoryType, MemoryCalls, ParkedForSomething, NothingYet
<1> QED BY <1>1, <1>2, <1>3, <1>4, <1>5

IOInv == EpollInv /\ KqueueInv /\ WindowsInv /\ ByteInv /\ MemoryInv

\* Nobody waits for anything yet
LEMMA IOInvInit == MCInit => IOInv
BY ManagersInit, StreamsInit DEF MCInit, IOInv

\* A step of one part keeps its own invariant and leaves the others alone
LEMMA IOInvNext == IOInv /\ [MCNext]_MCVars => IOInv'
<1> SUFFICES ASSUME IOInv, [MCNext]_MCVars PROVE IOInv'
  OBVIOUS
<1>i. EpollInv /\ KqueueInv /\ WindowsInv /\ ByteInv /\ MemoryInv
  BY DEF IOInv
<1>1. ASSUME UNCHANGED <<Managers, Streams>> PROVE IOInv'
  BY <1>1, <1>i, Untouched DEF Managers, Streams, IOInv
<1>2. ASSUME Epoll!EpollNext, UNCHANGED <<kqueueVars, winVars, Streams>> PROVE IOInv'
  BY <1>2, <1>i, EpollStep, Untouched DEF Streams, IOInv
<1>3. ASSUME Kqueue!KqueueNext, UNCHANGED <<epollVars, winVars, Streams>> PROVE IOInv'
  BY <1>3, <1>i, KqueueStep, Untouched DEF Streams, IOInv
<1>4. ASSUME ~crashed, Windows!AFDNext \/ Windows!OverlappedNext, UNCHANGED <<epollVars, kqueueVars, Streams>>
      PROVE  IOInv'
  BY <1>4, <1>i, AfdStep, OverlappedStep, Untouched DEF Streams, IOInv
<1>5. ASSUME Bytes!ByteNext, UNCHANGED <<Managers, memVars>> PROVE IOInv'
  BY <1>5, <1>i, ByteStep, Untouched DEF Managers, IOInv
<1>6. ASSUME Memory!LockstepNext \/ Memory!MemoryNext, UNCHANGED <<Managers, byteVars>> PROVE IOInv'
  BY <1>6, <1>i, MemoryStep, Untouched DEF Managers, IOInv
<1>7. ASSUME UNCHANGED <<Managers, byteVars, memVars>> PROVE IOInv'
  BY <1>7, <1>i, Untouched DEF Managers, IOInv
<1>8. CASE MCNext
  BY <1>1, <1>2, <1>3, <1>4, <1>5, <1>6, <1>7, <1>8 DEF MCNext
<1>9. CASE UNCHANGED MCVars
  BY <1>1, <1>9 DEF MCVars
<1> QED BY <1>8, <1>9

\* The invariant says what the runs check
LEMMA IOInvMeans ==
    IOInv => /\ NoWaiterForgotten /\ LateCancelIsRight
             /\ MessagesDoNotMix /\ ClosedIsClosed /\ NobodyParkedForNothing
<1> SUFFICES ASSUME IOInv
             PROVE  /\ NoWaiterForgotten /\ LateCancelIsRight
                    /\ MessagesDoNotMix /\ ClosedIsClosed /\ NobodyParkedForNothing
  OBVIOUS
<1>i. EpollInv /\ KqueueInv /\ WindowsInv /\ ByteInv /\ MemoryInv
  BY DEF IOInv
<1>1. Windows!PollsCoverWaiters
  <2>1. \A t \in Task, s \in Sock, m \in Windows!AfdMode : afd_waiters[s][m] = t <=> sleeping[t] = <<s, m>>
    BY <1>i DEF WindowsInv, SleepersKnown
  <2>2. ASSUME NEW s \in Sock
        PROVE  LET w == afd_waiters[s] IN
               IF Windows!Flags(w) = {} THEN w = Windows!NoWaiters
               ELSE /\ w.current_op # None /\ afd_ops[w.current_op] # None
                    /\ afd_ops[w.current_op].sock = s /\ afd_ops[w.current_op].flags = Windows!Flags(w)
    <3>1. Covered(afd_waiters[s], s, afd_ops) /\ None \notin Op
      BY <1>i, WaitingAssumption DEF WindowsInv
    <3> QED BY <3>1 DEF Covered
  <2>3. \A o \in Op : (afd_ops[o] # None /\ afd_ops[o].status = "complete")
                        <=> \E i \in 1 .. Len(port) : port[i][1] = "AFD_POLL" /\ port[i][2] = o
    BY <1>i DEF WindowsInv, Reported, Has
  <2> QED BY <2>1, <2>2, <2>3 DEF Windows!PollsCoverWaiters
<1>2. NoWaiterForgotten
  BY <1>1, <1>i DEF NoWaiterForgotten, EpollInv, KqueueInv
<1>3. LateCancelIsRight
  <2>1. ASSUME NEW t \in Task, NEW l \in Lpo, sleeping[t] = l, lpo_registered[l], ~crashed
        PROVE  /\ overlapped_waiters[l] = t
               /\ lpo[l] = "pending" \/ \E i \in 1 .. Len(port) : port[i] = <<"WAIT_OVERLAPPED", l, {}>>
    <3>1. overlapped_waiters[l] = t
      BY <1>i, <2>1 DEF WindowsInv, OverlappedOK
    <3>2. lpo[l] \in {"pending", "complete", "cancelled"}
      BY <1>i, <2>1, <3>1, WaitingAssumption DEF WindowsInv, WindowsType, OverlappedOK
    <3>3. ASSUME lpo[l] # "pending"
          PROVE  \E i \in 1 .. Len(port) : port[i] = <<"WAIT_OVERLAPPED", l, {}>>
      <4>1. Has(port, "WAIT_OVERLAPPED", l)
        BY <1>i, <2>1, <3>2, <3>3 DEF WindowsInv, OverlappedOK
      <4>2. PICK i \in 1 .. Len(port) : port[i][1] = "WAIT_OVERLAPPED" /\ port[i][2] = l
        BY <4>1 DEF Has
      <4>3. port \in Seq(PortEntry)
        BY <1>i DEF WindowsInv, PortOK
      <4>4. port[i] \in PortEntry
        BY ONLY <4>2, <4>3, ElementOfSeq
      <4>5. port[i] = <<"WAIT_OVERLAPPED", l, {}>>
        BY <4>2, <4>4 DEF PortEntry
      <4> QED BY <4>5
    <3> QED BY <3>1, <3>3
  <2>2. crashed => \E l \in Lpo : ~lpo_registered[l] /\ lpo[l] = "complete"
    BY <1>i DEF WindowsInv
  <2> QED BY <2>1, <2>2 DEF LateCancelIsRight, Windows!LateCancelIsRight
<1>4. MessagesDoNotMix
  BY <1>i DEF MessagesDoNotMix, Bytes!MessagesDoNotMix, ByteInv, Unbroken, WholeIfDone,
     ReadInOrder
<1>5. ClosedIsClosed
  BY <1>i DEF ClosedIsClosed, Bytes!ClosedIsClosed, ByteInv, OwnNumber
<1>6. NobodyParkedForNothing
  BY <1>i, MemoryInvSuffices DEF NobodyParkedForNothing
<1> QED BY <1>2, <1>3, <1>4, <1>5, <1>6

(***************************************************************************)
(* NoWaiterForgotten: for any number of tasks, descriptors, sockets and    *)
(* operations, EpollIOManager's EpollWaiters and the flags given to        *)
(* epoll_ctl, KqueueIOManager._registered and the events added with        *)
(* kevent, and WindowsIOManager's AFDWaiters with their one current poll   *)
(* stay in agreement with who sleeps on what, however waits, aborts,       *)
(* events, closings and stale completions interleave.                      *)
(***************************************************************************)
THEOREM NoWaiterForgottenThm == MCSpec => []NoWaiterForgotten
<1>1. IOInv => NoWaiterForgotten
  BY IOInvMeans
<1> QED BY <1>1, IOInvInit, IOInvNext, PTL DEF MCSpec

(***************************************************************************)
(* LateCancelIsRight: for any number of tasks and OVERLAPPEDs, a           *)
(* LATE_CANCEL that WindowsIOManager.process_events finds before the       *)
(* completion belongs to a handle that was never registered, and a task    *)
(* asleep on a registered one has its completion to come: a completion     *)
(* posted once is never overtaken by the LATE_CANCEL posted after it.      *)
(***************************************************************************)
THEOREM LateCancelIsRightThm == MCSpec => []LateCancelIsRight
<1>1. IOInv => LateCancelIsRight
  BY IOInvMeans
<1> QED BY <1>1, IOInvInit, IOInvNext, PTL DEF MCSpec

(***************************************************************************)
(* MessagesDoNotMix: for any number of tasks, messages of any length and a *)
(* kernel buffer of any size, what FdStream.send_all and                   *)
(* SocketStream.send_all write stays unbroken on the wire and is whole     *)
(* when the call returns; and what receive_some returns is what came.      *)
(***************************************************************************)
THEOREM MessagesDoNotMixThm == MCSpec => []MessagesDoNotMix
<1>1. IOInv => MessagesDoNotMix
  BY IOInvMeans
<1> QED BY <1>1, IOInvInit, IOInvNext, PTL DEF MCSpec

(***************************************************************************)
(* ClosedIsClosed: _FdHolder forgets the number before it can be another's *)
(* and notify_closing wakes every sleeper, so that no call uses a file     *)
(* that is not the stream's, whatever order calls and closes come in.      *)
(***************************************************************************)
THEOREM ClosedIsClosedThm == MCSpec => []ClosedIsClosed
<1>1. IOInv => ClosedIsClosed
  BY IOInvMeans
<1> QED BY <1>1, IOInvInit, IOInvNext, PTL DEF MCSpec

(***************************************************************************)
(* NobodyParkedForNothing: every change that a parked task of              *)
(* _LockstepByteQueue or _UnboundedByteQueue may wait for is followed by   *)
(* the unpark_all of its lot, for any number of tasks and bytes.           *)
(***************************************************************************)
THEOREM NobodyParkedForNothingThm == MCSpec => []NobodyParkedForNothing
<1>1. IOInv => NobodyParkedForNothing
  BY IOInvMeans
<1> QED BY <1>1, IOInvInit, IOInvNext, PTL DEF MCSpec
=============================================================================
