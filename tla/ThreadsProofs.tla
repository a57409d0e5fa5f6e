----------------------------- MODULE ThreadsProofs -----------------------------
(***************************************************************************)
(* Proofs about what crosses threads: EntryQueue, KeyboardInterrupt,       *)
(* Threads and ThreadCache, for any number of threads, jobs, calls, tokens *)
(* and workers.                                                            *)
(***************************************************************************)
EXTENDS MCThreads, QueueProofs, FiniteSetTheorems, TLAPS

--------------------------------------------------------------------------------
(***************************************************************************)
(* EntryQueue.                                                             *)
(***************************************************************************)

\* The lock has one holder, which is inside run_sync_soon or about to set
\* done; so a thread that found done unset can rely on it.
LockHeld ==
    /\ \A t \in Thread : pc[t] # "outside" <=> lock = t
    /\ task = "locked" <=> lock = MainThread
    /\ \A t \in Thread : pc[t] \in {"checked", "queued"} => ~done

\* Where the task can be, and what a pass over the queues has still to do.
PassState ==
    /\ done => task \in {"start", "jobs", "keys", "ended"}
    /\ task = "ended" => done
    /\ task = "jobs" => bound <= Len(queue)
    /\ running # None => task \in {"jobs", "keys"}

\* The last pass: nothing is added any more, so it leaves nothing.
LastPass ==
    /\ done /\ task = "jobs" => bound = Len(queue)
    /\ done /\ task = "keys" => queue = <<>> /\ snapshot = idempotent_queue
    /\ task = "ended" => queue = <<>> /\ idempotent_queue = <<>>

\* The keys that the second loop has still to run are the first ones of the
\* dict, which holds no key twice: its del never raises KeyError.
KeysInOrder ==
    /\ IsInjective(idempotent_queue)
    /\ Len(snapshot) <= Len(idempotent_queue)
    /\ \A i \in 1 .. Len(snapshot) : snapshot[i] = idempotent_queue[i]
    /\ task # "keys" => snapshot = <<>>

FirstInFirstOut == accepted = processed \o Running \o queue

EntryInv ==
    /\ TypeOK /\ LockHeld /\ PassState /\ LastPass /\ KeysInOrder /\ FirstInFirstOut
    /\ NoLostWakeup

\* Nothing was queued and the task has not started.
LEMMA EntryInvInit == Init => EntryInv
<1> SUFFICES ASSUME Init PROVE EntryInv
    OBVIOUS
<1>1. done \in BOOLEAN /\ cancelled \in BOOLEAN /\ ~done
    BY Zenon DEF Init
<1>2. TypeOK
    BY <1>1, EntryQueueAssumption DEF Init, TypeOK, TaskPC, ThreadPC
<1>3. LockHeld
    BY EntryQueueAssumption DEF Init, LockHeld
<1>4. PassState /\ LastPass
    BY <1>1 DEF Init, PassState, LastPass
<1>5. KeysInOrder
    BY EmptyQueue DEF Init, KeysInOrder
<1>6. FirstInFirstOut
    BY EntryQueueAssumption DEF Init, FirstInFirstOut, Running
<1>7. NoLostWakeup
    BY DEF Init, NoLostWakeup
<1> QED
    BY <1>2, <1>3, <1>4, <1>5, <1>6, <1>7 DEF EntryInv

\* The two ways of saying that something is in a queue.
LEMMA InToSet ==
    ASSUME NEW S, NEW q \in Seq(S), NEW x
    PROVE  In(q, x) <=> x \in ToSet(q)
<1>1. DOMAIN q = 1 .. Len(q)
    OBVIOUS
<1> QED
    BY <1>1, Zenon DEF In, ToSet

\* What run_sync_soon adds: a job, a new key, or nothing.
LEMMA EnqueueCases ==
    ASSUME TypeOK, NEW x, Enqueue(x)
    PROVE  \/ /\ x \in Job /\ queue' = Append(queue, x) /\ accepted' = Append(accepted, x)
              /\ idempotent_queue' = idempotent_queue
           \/ /\ x \in Key /\ x \notin ToSet(idempotent_queue)
              /\ idempotent_queue' = Append(idempotent_queue, x)
              /\ UNCHANGED <<queue, accepted>>
           \/ UNCHANGED <<queue, idempotent_queue, accepted>>
<1>1. In(idempotent_queue, x) <=> x \in ToSet(idempotent_queue)
    BY InToSet DEF TypeOK
<1>2. CASE x \in Job
    BY <1>2, EntryQueueAssumption DEF Enqueue
<1>3. CASE x \in Key /\ x \notin Job
    BY <1>1, <1>3 DEF Enqueue
<1>4. CASE x \notin Key /\ x \notin Job
    BY <1>4 DEF Enqueue
<1> QED
    BY <1>2, <1>3, <1>4

\* Taking a job in puts it at the end of both sides of FirstInFirstOut.
LEMMA AppendToConcat ==
    ASSUME NEW p \in Seq(Job), NEW r \in Seq(Job), NEW q \in Seq(Job), NEW x \in Job
    PROVE  Append(p \o r \o q, x) = p \o r \o Append(q, x)
<1>1. Append(q, x) = q \o <<x>> /\ <<x>> \in Seq(Job)
    BY AppendIsConcat
<1>2. p \o r \in Seq(Job) /\ p \o r \o q \in Seq(Job)
    BY ConcatProperties
<1>3. Append(p \o r \o q, x) = (p \o r \o q) \o <<x>>
    BY ONLY <1>2, x \in Job, AppendIsConcat
<1>4. (p \o r \o q) \o <<x>> = p \o r \o (q \o <<x>>)
    <2> DEFINE y == p \o r
               z == <<x>>
    <2>1. y \in Seq(Job) /\ z \in Seq(Job)
        BY <1>1, <1>2
    <2> HIDE DEF y, z
    <2>2. (y \o q) \o z = y \o (q \o z)
        BY ONLY <2>1, q \in Seq(Job), ConcatAssociative, SMTT(40)
    <2> QED
        BY <2>2 DEF y, z
<1> QED
    BY <1>1, <1>3, <1>4

\* Taking a job from the queue to run it, ...
LEMMA HeadToRunning ==
    ASSUME NEW S, NEW p \in Seq(S), NEW q \in Seq(S), q # <<>>
    PROVE  p \o <<>> \o q = p \o <<Head(q)>> \o Tail(q)
<1>1. Head(q) \in S /\ Tail(q) \in Seq(S) /\ <<Head(q)>> \in Seq(S)
    BY TailQueue
<1>2. q = <<Head(q)>> \o Tail(q)
    BY <1>1
<1>3. p \o <<>> = p
    BY ConcatEmptySeq
<1>4. p \o <<Head(q)>> \o Tail(q) = p \o (<<Head(q)>> \o Tail(q))
    BY ONLY <1>1, p \in Seq(S), ConcatAssociative
<1> QED
    BY <1>2, <1>3, <1>4

\* ... and having run it leave what comes before and after in place.
LEMMA RunningToProcessed ==
    ASSUME NEW S, NEW p \in Seq(S), NEW q \in Seq(S), NEW x \in S
    PROVE  p \o <<x>> \o q = Append(p, x) \o <<>> \o q
<1>1. Append(p, x) = p \o <<x>> /\ Append(p, x) \in Seq(S)
    BY AppendIsConcat
<1>2. Append(p, x) \o <<>> = Append(p, x)
    BY ONLY <1>1, ConcatEmptySeq
<1> QED
    BY <1>1, <1>2

\* del of the first key of a dict without duplicates.
LEMMA WithoutHead ==
    ASSUME NEW S, NEW q \in Seq(S), q # <<>>, IsInjective(q)
    PROVE  Without(q, q[1]) = Tail(q)
<1> DEFINE p == CHOOSE i \in 1 .. Len(q) : q[i] = q[1]
<1>1. 1 \in 1 .. Len(q) /\ DOMAIN q = 1 .. Len(q) /\ Len(q) \in Nat
    OBVIOUS
<1>2. p \in 1 .. Len(q) /\ q[p] = q[1]
    BY <1>1
<1>3. p = 1
    BY <1>1, <1>2 DEF IsInjective
<1>4. Without(q, q[1]) = SubSeq(q, 1, 0) \o SubSeq(q, 2, Len(q))
    <2>1. Without(q, q[1]) = SubSeq(q, 1, p - 1) \o SubSeq(q, p + 1, Len(q))
        BY DEF Without
    <2> HIDE DEF p
    <2>2. p - 1 = 0 /\ p + 1 = 2
        BY <1>3
    <2> QED
        BY ONLY <2>1, <2>2
<1>5. SubSeq(q, 1, 0) = <<>> /\ SubSeq(q, 2, Len(q)) = Tail(q) /\ Tail(q) \in Seq(S)
    BY <1>1, TailIsSubSeq, SubSeqEmpty
<1> QED
    BY <1>4, <1>5, ConcatEmptySeq

\* What run_sync_soon adds goes to the end of its queue, in whatever pass the
\* task is.
LEMMA EnqueueKeeps ==
    ASSUME EntryInv, NEW x, Enqueue(x), UNCHANGED <<task, snapshot, running, processed>>
    PROVE  /\ queue' \in Seq(Job) /\ idempotent_queue' \in Seq(Key) /\ accepted' \in Seq(Job)
           /\ Len(queue') \in Nat /\ Len(queue) <= Len(queue')
           /\ KeysInOrder' /\ FirstInFirstOut'
<1> USE DEF EntryInv
<1>0. /\ queue \in Seq(Job) /\ idempotent_queue \in Seq(Key) /\ accepted \in Seq(Job) /\ processed \in Seq(Job)
      /\ snapshot \in Seq(Key) /\ IsInjective(idempotent_queue)
    BY DEF TypeOK, KeysInOrder
<1>1. CASE /\ x \in Job /\ queue' = Append(queue, x) /\ accepted' = Append(accepted, x)
           /\ idempotent_queue' = idempotent_queue
    <2>1. queue' \in Seq(Job) /\ accepted' \in Seq(Job) /\ Len(queue') = Len(queue) + 1 /\ Len(queue) \in Nat
        BY <1>0, <1>1
    <2>2. Running \in Seq(Job) /\ Running' = Running
        BY DEF Running
    <2>3. Append(processed \o Running \o queue, x) = processed \o Running \o Append(queue, x)
        <3>1. x \in Job /\ processed \in Seq(Job) /\ queue \in Seq(Job)
            BY <1>0, <1>1
        <3>2. ASSUME NEW r \in Seq(Job)
              PROVE  Append(processed \o r \o queue, x) = processed \o r \o Append(queue, x)
            BY ONLY <3>1, r \in Seq(Job), AppendToConcat, ZenonT(30)
        <3> QED
            BY <2>2, <3>2
    <2>4. FirstInFirstOut'
        BY <1>1, <2>2, <2>3 DEF FirstInFirstOut
    <2>5. KeysInOrder'
        BY <1>1 DEF KeysInOrder
    <2> QED
        BY <1>0, <1>1, <2>1, <2>4, <2>5
<1>2. CASE /\ x \in Key /\ x \notin ToSet(idempotent_queue)
           /\ idempotent_queue' = Append(idempotent_queue, x)
           /\ UNCHANGED <<queue, accepted>>
    <2>1. /\ idempotent_queue' \in Seq(Key) /\ Len(idempotent_queue') = Len(idempotent_queue) + 1
          /\ \A i \in 1 .. Len(idempotent_queue) : idempotent_queue'[i] = idempotent_queue[i]
          /\ IsInjective(idempotent_queue')
        BY ONLY <1>0, <1>2, AppendQueue, AppendDistinct
    <2>2. KeysInOrder'
        BY <1>0, <2>1 DEF KeysInOrder
    <2>3. FirstInFirstOut'
        BY <1>2 DEF FirstInFirstOut, Running
    <2> QED
        BY <1>0, <1>2, <2>1, <2>2, <2>3
<1>3. CASE UNCHANGED <<queue, idempotent_queue, accepted>>
    BY <1>0, <1>3 DEF KeysInOrder, FirstInFirstOut, Running
<1> QED
    BY <1>1, <1>2, <1>3, EnqueueCases

\* Every step of a thread in run_sync_soon and of the task that runs the
\* callbacks keeps the invariant.
LEMMA EntryInvNext ==
    ASSUME EntryInv, [Next]_entryVars
    PROVE  EntryInv'
<1> USE EntryQueueAssumption DEF EntryInv
<1>0. ASSUME UNCHANGED <<accepted, processed, running, queue>>
      PROVE  FirstInFirstOut'
    BY <1>0 DEF FirstInFirstOut, Running
<1>1. ASSUME NEW t \in Thread, NEW x \in Job \cup Key, Submit(t, x)
      PROVE  EntryInv'
    <2> USE <1>1 DEF Submit, queueVars, taskVars, submitVars, Goto
    <2>1. (done' <=> done) /\ done' \in BOOLEAN /\ cancelled' \in BOOLEAN
        BY Zenon DEF TypeOK
    <2>2. TypeOK'
        BY <2>1 DEF TypeOK, TaskPC, ThreadPC
    <2>3. LockHeld'
        BY <2>1 DEF LockHeld, TypeOK
    <2>4. PassState' /\ LastPass'
        BY <2>1 DEF PassState, LastPass, KeysInOrder, TypeOK
    <2>5. KeysInOrder'
        BY DEF KeysInOrder, TypeOK
    <2>6. FirstInFirstOut'
        BY <1>0
    <2>7. NoLostWakeup'
        BY DEF NoLostWakeup, LockHeld, TypeOK
    <2> QED
        BY <2>2, <2>3, <2>4, <2>5, <2>6, <2>7
<1>2. ASSUME NEW t \in Thread, CheckDone(t)
      PROVE  EntryInv'
    <2> USE <1>2 DEF CheckDone, queueVars, taskVars, submitVars, Goto
    <2>1. (done' <=> done) /\ done' \in BOOLEAN /\ cancelled' \in BOOLEAN
        BY Zenon DEF TypeOK
    <2>2. TypeOK'
        BY <2>1 DEF TypeOK, TaskPC, ThreadPC
    <2>3. LockHeld'
        BY <2>1 DEF LockHeld, TypeOK
    <2>4. PassState' /\ LastPass'
        BY <2>1 DEF PassState, LastPass, KeysInOrder, TypeOK
    <2>5. KeysInOrder'
        BY DEF KeysInOrder, TypeOK
    <2>6. FirstInFirstOut'
        BY <1>0
    <2>7. NoLostWakeup'
        BY DEF NoLostWakeup, LockHeld, TypeOK
    <2> QED
        BY <2>2, <2>3, <2>4, <2>5, <2>6, <2>7
<1>3. ASSUME NEW t \in Thread, Refuse(t)
      PROVE  EntryInv'
    <2> USE <1>3 DEF Refuse, queueVars, taskVars, submitVars, Goto
    <2>1. (done' <=> done) /\ done' \in BOOLEAN /\ cancelled' \in BOOLEAN
        BY Zenon DEF TypeOK
    <2>2. TypeOK'
        BY <2>1 DEF TypeOK, TaskPC, ThreadPC
    <2>3. LockHeld'
        BY <2>1 DEF LockHeld, TypeOK
    <2>4. PassState' /\ LastPass'
        BY <2>1 DEF PassState, LastPass, KeysInOrder, TypeOK
    <2>5. KeysInOrder'
        BY DEF KeysInOrder, TypeOK
    <2>6. FirstInFirstOut'
        BY <1>0
    <2>7. NoLostWakeup'
        BY DEF NoLostWakeup, LockHeld, TypeOK
    <2> QED
        BY <2>2, <2>3, <2>4, <2>5, <2>6, <2>7
<1>4. ASSUME NEW t \in Thread, Put(t)
      PROVE  EntryInv'
    <2> USE <1>4 DEF Put, Goto, queueVars, taskVars, submitVars
    <2>1. (done' <=> done) /\ done' \in BOOLEAN /\ cancelled' \in BOOLEAN /\ ~done
        <3>1. (done' <=> done) /\ done' \in BOOLEAN /\ cancelled' \in BOOLEAN
            BY Zenon DEF TypeOK
        <3> QED
            BY <3>1 DEF LockHeld
    <2>2. /\ queue' \in Seq(Job) /\ idempotent_queue' \in Seq(Key) /\ accepted' \in Seq(Job)
          /\ Len(queue') \in Nat /\ Len(queue) <= Len(queue') /\ KeysInOrder' /\ FirstInFirstOut'
        BY EnqueueKeeps
    <2>3. TypeOK'
        BY <2>1, <2>2 DEF TypeOK, ThreadPC
    <2>4. LockHeld'
        BY <2>1 DEF LockHeld, TypeOK
    <2>5. PassState' /\ LastPass'
        BY <2>1, <2>2 DEF PassState, LastPass, TypeOK
    <2>6. NoLostWakeup'
        BY DEF NoLostWakeup, LockHeld, TypeOK
    <2> QED
        BY <2>2, <2>3, <2>4, <2>5, <2>6
<1>5. ASSUME NEW t \in Thread, Send(t)
      PROVE  EntryInv'
    <2> USE <1>5 DEF Send, queueVars, taskVars, submitVars, Goto, WakeUp
    <2>1. (done' <=> done) /\ done' \in BOOLEAN /\ cancelled' \in BOOLEAN
        BY Zenon DEF TypeOK
    <2>2. TypeOK'
        BY <2>1 DEF TypeOK, TaskPC, ThreadPC
    <2>3. LockHeld'
        BY <2>1 DEF LockHeld, TypeOK
    <2>4. PassState' /\ LastPass'
        BY <2>1 DEF PassState, LastPass, KeysInOrder, TypeOK
    <2>5. KeysInOrder'
        BY DEF KeysInOrder, TypeOK
    <2>6. FirstInFirstOut'
        BY <1>0
    <2>7. NoLostWakeup'
        BY DEF NoLostWakeup, LockHeld, TypeOK
    <2> QED
        BY <2>2, <2>3, <2>4, <2>5, <2>6, <2>7
<1>6. ASSUME NEW t \in Thread, SubmitReturns(t)
      PROVE  EntryInv'
    <2> USE <1>6 DEF SubmitReturns, queueVars, taskVars, submitVars, Goto
    <2>1. (done' <=> done) /\ done' \in BOOLEAN /\ cancelled' \in BOOLEAN
        BY Zenon DEF TypeOK
    <2>2. TypeOK'
        BY <2>1 DEF TypeOK, TaskPC, ThreadPC
    <2>3. LockHeld'
        BY <2>1 DEF LockHeld, TypeOK
    <2>4. PassState' /\ LastPass'
        BY <2>1 DEF PassState, LastPass, KeysInOrder, TypeOK
    <2>5. KeysInOrder'
        BY DEF KeysInOrder, TypeOK
    <2>6. FirstInFirstOut'
        BY <1>0
    <2>7. NoLostWakeup'
        BY DEF NoLostWakeup, LockHeld, TypeOK
    <2> QED
        BY <2>2, <2>3, <2>4, <2>5, <2>6, <2>7
<1>7. ASSUME NEW x \in Job \cup Key, SignalSubmit(x)
      PROVE  EntryInv'
    <2> USE DEF queueVars, taskVars, submitVars
    <2>1. (done' <=> done) /\ done' \in BOOLEAN /\ cancelled' \in BOOLEAN
        BY <1>7, Zenon DEF SignalSubmit, TypeOK
    <2>2. fresh' = fresh \ {x} /\ UNCHANGED <<lock, task, bound, snapshot, running, pc, item, processed>>
        BY <1>7 DEF SignalSubmit
    <2>3. CASE done
        <3>1. UNCHANGED <<queue, idempotent_queue, wakeup, accepted>>
            BY <1>7, <2>3 DEF SignalSubmit
        <3>2. TypeOK'
            BY <2>1, <2>2, <3>1 DEF TypeOK
        <3>3. LockHeld' /\ PassState' /\ LastPass' /\ KeysInOrder' /\ NoLostWakeup'
            BY <2>1, <2>2, <3>1 DEF LockHeld, PassState, LastPass, KeysInOrder, NoLostWakeup
        <3> QED
            BY <1>0, <2>2, <3>1, <3>2, <3>3
    <2>4. CASE ~done
        <3>1. Enqueue(x) /\ WakeUp /\ task # "ended"
            BY <1>7, <2>4 DEF SignalSubmit
        <3>2. /\ queue' \in Seq(Job) /\ idempotent_queue' \in Seq(Key) /\ accepted' \in Seq(Job)
              /\ Len(queue') \in Nat /\ Len(queue) <= Len(queue') /\ KeysInOrder' /\ FirstInFirstOut'
            BY <2>2, <3>1, EnqueueKeeps
        <3>3. wakeup' \in 1 .. WakeupCapacity
            BY <3>1 DEF WakeUp, TypeOK
        <3>4. TypeOK'
            BY <2>1, <2>2, <3>2, <3>3 DEF TypeOK
        <3>5. LockHeld'
            BY <2>1, <2>2 DEF LockHeld
        <3>6. PassState' /\ LastPass'
            BY <2>1, <2>2, <2>4, <3>1, <3>2 DEF PassState, LastPass, TypeOK
        <3>7. NoLostWakeup'
            BY <3>3 DEF NoLostWakeup
        <3> QED
            BY <3>2, <3>4, <3>5, <3>6, <3>7
    <2> QED
        BY <2>3, <2>4
<1>8. CASE RunAll
    <2> USE <1>8 DEF RunAll, queueVars, taskVars, submitVars
    <2>1. (done' <=> done) /\ done' \in BOOLEAN /\ cancelled' \in BOOLEAN
        BY Zenon DEF TypeOK
    <2>2. TypeOK'
        BY <2>1 DEF TypeOK, TaskPC, ThreadPC
    <2>3. LockHeld'
        BY <2>1 DEF LockHeld, TypeOK
    <2>4. PassState' /\ LastPass'
        BY <2>1 DEF PassState, LastPass, KeysInOrder, TypeOK
    <2>5. KeysInOrder'
        BY DEF KeysInOrder, TypeOK
    <2>6. FirstInFirstOut'
        BY <1>0
    <2>7. NoLostWakeup'
        BY DEF NoLostWakeup, LockHeld, TypeOK
    <2> QED
        BY <2>2, <2>3, <2>4, <2>5, <2>6, <2>7
<1>9. CASE PopLeft
    <2> USE <1>9 DEF PopLeft, queueVars, taskVars, submitVars
    <2>1. (done' <=> done) /\ done' \in BOOLEAN /\ cancelled' \in BOOLEAN
        BY Zenon DEF TypeOK
    <2>2. queue \in Seq(Job) /\ queue # <<>> /\ processed \in Seq(Job)
        BY DEF TypeOK, PassState
    <2>3. /\ queue' \in Seq(Job) /\ Len(queue') = Len(queue) - 1 /\ Len(queue) \in Nat
          /\ running' \in Job /\ running' = Head(queue)
        BY <2>2, TailQueue
    <2>4. TypeOK'
        BY <2>1, <2>3 DEF TypeOK
    <2>5. LockHeld'
        BY <2>1 DEF LockHeld
    <2>6. PassState' /\ LastPass'
        <3>1. bound \in Nat /\ bound' = bound - 1 /\ bound <= Len(queue) /\ (done => bound = Len(queue))
            BY DEF PassState, LastPass, TypeOK
        <3>4. Len(queue') = Len(queue) - 1 /\ Len(queue) \in Nat /\ task' = "jobs"
            BY <2>3
        <3>5. bound' <= Len(queue')
            BY ONLY <3>1, <3>4
        <3>2. PassState'
            BY <3>4, <3>5, SMTT(40) DEF PassState
        <3>3. LastPass'
            BY <2>1, <2>3, <3>1, Zenon DEF LastPass
        <3> QED
            BY <3>2, <3>3
    <2>7. KeysInOrder' /\ NoLostWakeup'
        BY DEF KeysInOrder, NoLostWakeup
    <2>8. FirstInFirstOut'
        <3>1. Running = <<>> /\ Running' = <<Head(queue)>>
            BY <2>3 DEF Running
        <3>2. processed \o <<>> \o queue = processed \o <<Head(queue)>> \o Tail(queue)
            BY ONLY <2>2, HeadToRunning
        <3> QED
            BY <3>1, <3>2 DEF FirstInFirstOut
    <2> QED
        BY <2>4, <2>5, <2>6, <2>7, <2>8
<1>10. CASE TakeKeys
    <2> USE <1>10 DEF TakeKeys, queueVars, taskVars, submitVars
    <2>1. (done' <=> done) /\ done' \in BOOLEAN /\ cancelled' \in BOOLEAN
        BY Zenon DEF TypeOK
    <2>2. TypeOK'
        BY <2>1 DEF TypeOK, TaskPC, ThreadPC
    <2>3. LockHeld'
        BY <2>1 DEF LockHeld, TypeOK
    <2>4. PassState' /\ LastPass'
        BY <2>1 DEF PassState, LastPass, KeysInOrder, TypeOK
    <2>5. KeysInOrder'
        BY DEF KeysInOrder, TypeOK
    <2>6. FirstInFirstOut'
        BY <1>0
    <2>7. NoLostWakeup'
        BY DEF NoLostWakeup, LockHeld, TypeOK
    <2> QED
        BY <2>2, <2>3, <2>4, <2>5, <2>6, <2>7
<1>11. CASE DelKey
    <2> USE <1>11 DEF DelKey, queueVars, taskVars, submitVars
    <2>1. (done' <=> done) /\ done' \in BOOLEAN /\ cancelled' \in BOOLEAN
        BY Zenon DEF TypeOK
    <2>2. /\ snapshot \in Seq(Key) /\ snapshot # <<>> /\ idempotent_queue \in Seq(Key)
          /\ IsInjective(idempotent_queue)
        BY DEF TypeOK, KeysInOrder
    <2>3. /\ idempotent_queue # <<>> /\ Head(snapshot) = idempotent_queue[1]
          /\ 1 \in 1 .. Len(idempotent_queue)
        BY <2>2 DEF KeysInOrder
    <2>4. idempotent_queue' = Tail(idempotent_queue)
        BY <2>2, <2>3, WithoutHead
    <2>5. /\ idempotent_queue' \in Seq(Key) /\ Len(idempotent_queue') = Len(idempotent_queue) - 1
          /\ \A i \in 1 .. Len(idempotent_queue) - 1 : idempotent_queue'[i] = idempotent_queue[i + 1]
          /\ IsInjective(idempotent_queue')
        BY ONLY <2>2, <2>3, <2>4, TailQueue, TailDistinct
    <2>6. /\ snapshot' \in Seq(Key) /\ Len(snapshot') = Len(snapshot) - 1 /\ Len(snapshot) \in Nat
          /\ \A i \in 1 .. Len(snapshot) - 1 : snapshot'[i] = snapshot[i + 1]
          /\ running' \in Key
        BY <2>2, TailQueue
    <2>7. TypeOK'
        BY <2>1, <2>5, <2>6 DEF TypeOK
    <2>8. LockHeld'
        BY <2>1 DEF LockHeld
    <2>9. PassState' /\ LastPass'
        BY <2>1, <2>4 DEF PassState, LastPass, TypeOK
    <2>10. KeysInOrder'
        <3>0. Len(idempotent_queue) \in Nat /\ Len(snapshot) <= Len(idempotent_queue)
            BY <2>2 DEF KeysInOrder
        <3>1. ASSUME NEW i \in 1 .. Len(snapshot')
              PROVE  snapshot'[i] = idempotent_queue'[i]
            <4>1. /\ i \in 1 .. Len(snapshot) - 1 /\ i \in 1 .. Len(idempotent_queue) - 1
                  /\ i + 1 \in 1 .. Len(snapshot)
                BY ONLY <2>6, <3>0, i \in 1 .. Len(snapshot')
            <4>2. snapshot[i + 1] = idempotent_queue[i + 1]
                BY <4>1 DEF KeysInOrder
            <4> QED
                BY ONLY <2>5, <2>6, <4>1, <4>2
        <3> QED
            BY <2>2, <2>5, <2>6, <3>1 DEF KeysInOrder
    <2>11. FirstInFirstOut'
        <3>1. Running = <<>> /\ Running' = <<>>
            BY <2>6 DEF Running
        <3> QED
            BY <3>1 DEF FirstInFirstOut
    <2>12. NoLostWakeup'
        BY DEF NoLostWakeup
    <2> QED
        BY <2>7, <2>8, <2>9, <2>10, <2>11, <2>12
<1>12. CASE RunCb
    <2> USE <1>12 DEF RunCb, queueVars, taskVars, submitVars
    <2>1. (done' <=> done) /\ done' \in BOOLEAN /\ cancelled' \in BOOLEAN
        BY Zenon DEF TypeOK
    <2>2. processed' \in Seq(Job) /\ FirstInFirstOut'
        <3>1. CASE running \in Job
            <4>1. processed \in Seq(Job) /\ queue \in Seq(Job) /\ running \in Job
                BY <3>1 DEF TypeOK
            <4>2. Running = <<running>> /\ Running' = <<>> /\ processed' = Append(processed, running)
                BY <3>1 DEF Running
            <4>3. processed \o <<running>> \o queue = Append(processed, running) \o <<>> \o queue
                BY ONLY <4>1, RunningToProcessed
            <4>4. FirstInFirstOut'
                BY ONLY EntryInv, RunCb, <4>2, <4>3 DEF EntryInv, RunCb, queueVars,
                   FirstInFirstOut
            <4> QED
                BY <4>1, <4>2, <4>4
        <3>2. CASE running \notin Job
            <4>1. Running = <<>> /\ Running' = <<>> /\ processed' = processed
                BY <3>2 DEF Running
            <4> QED
                BY <4>1 DEF FirstInFirstOut, TypeOK
        <3> QED
            BY <3>1, <3>2
    <2>3. TypeOK'
        BY <2>1, <2>2 DEF TypeOK
    <2>4. LockHeld' /\ PassState' /\ LastPass' /\ KeysInOrder' /\ NoLostWakeup'
        BY <2>1 DEF LockHeld, PassState, LastPass, KeysInOrder, NoLostWakeup
    <2> QED
        BY <2>2, <2>3, <2>4
<1>13. CASE PassOver
    <2> USE <1>13 DEF PassOver, queueVars, taskVars, submitVars
    <2>1. (done' <=> done) /\ done' \in BOOLEAN /\ cancelled' \in BOOLEAN
        BY Zenon DEF TypeOK
    <2>2. TypeOK'
        BY <2>1 DEF TypeOK, TaskPC, ThreadPC
    <2>3. LockHeld'
        BY <2>1 DEF LockHeld, TypeOK
    <2>4. PassState' /\ LastPass'
        BY <2>1 DEF PassState, LastPass, KeysInOrder, TypeOK
    <2>5. KeysInOrder'
        BY DEF KeysInOrder, TypeOK
    <2>6. FirstInFirstOut'
        BY <1>0
    <2>7. NoLostWakeup'
        BY DEF NoLostWakeup, LockHeld, TypeOK
    <2> QED
        BY <2>2, <2>3, <2>4, <2>5, <2>6, <2>7
<1>14. CASE CheckEmpty
    <2> USE <1>14 DEF CheckEmpty, queueVars, taskVars, submitVars
    <2>1. (done' <=> done) /\ done' \in BOOLEAN /\ cancelled' \in BOOLEAN
        BY Zenon DEF TypeOK
    <2>2. TypeOK'
        BY <2>1 DEF TypeOK, TaskPC, ThreadPC
    <2>3. LockHeld'
        BY <2>1 DEF LockHeld, TypeOK
    <2>4. PassState' /\ LastPass'
        BY <2>1 DEF PassState, LastPass, KeysInOrder, TypeOK
    <2>5. KeysInOrder'
        BY DEF KeysInOrder, TypeOK
    <2>6. FirstInFirstOut'
        BY <1>0
    <2>7. NoLostWakeup'
        BY DEF NoLostWakeup, LockHeld, TypeOK
    <2> QED
        BY <2>2, <2>3, <2>4, <2>5, <2>6, <2>7
<1>15. CASE Woken
    <2> USE <1>15 DEF Woken, queueVars, taskVars, submitVars
    <2>1. (done' <=> done) /\ done' \in BOOLEAN /\ cancelled' \in BOOLEAN
        BY Zenon DEF TypeOK
    <2>2. TypeOK'
        BY <2>1 DEF TypeOK, TaskPC, ThreadPC
    <2>3. LockHeld'
        BY <2>1 DEF LockHeld, TypeOK
    <2>4. PassState' /\ LastPass'
        BY <2>1 DEF PassState, LastPass, KeysInOrder, TypeOK
    <2>5. KeysInOrder'
        BY DEF KeysInOrder, TypeOK
    <2>6. FirstInFirstOut'
        BY <1>0
    <2>7. NoLostWakeup'
        BY DEF NoLostWakeup, LockHeld, TypeOK
    <2> QED
        BY <2>2, <2>3, <2>4, <2>5, <2>6, <2>7
<1>16. CASE Drain
    <2> USE <1>16 DEF Drain, queueVars, taskVars, submitVars
    <2>1. (done' <=> done) /\ done' \in BOOLEAN /\ cancelled' \in BOOLEAN
        BY Zenon DEF TypeOK
    <2>2. TypeOK'
        BY <2>1 DEF TypeOK, TaskPC, ThreadPC
    <2>3. LockHeld'
        BY <2>1 DEF LockHeld, TypeOK
    <2>4. PassState' /\ LastPass'
        BY <2>1 DEF PassState, LastPass, KeysInOrder, TypeOK
    <2>5. KeysInOrder'
        BY DEF KeysInOrder, TypeOK
    <2>6. FirstInFirstOut'
        BY <1>0
    <2>7. NoLostWakeup'
        BY DEF NoLostWakeup, LockHeld, TypeOK
    <2> QED
        BY <2>2, <2>3, <2>4, <2>5, <2>6, <2>7
<1>17. CASE Checkpoint
    <2> USE <1>17 DEF Checkpoint, queueVars, taskVars, submitVars
    <2>1. (done' <=> done) /\ done' \in BOOLEAN /\ cancelled' \in BOOLEAN
        BY Zenon DEF TypeOK
    <2>2. TypeOK'
        BY <2>1 DEF TypeOK, TaskPC, ThreadPC
    <2>3. LockHeld'
        BY <2>1 DEF LockHeld, TypeOK
    <2>4. PassState' /\ LastPass'
        BY <2>1 DEF PassState, LastPass, KeysInOrder, TypeOK
    <2>5. KeysInOrder'
        BY DEF KeysInOrder, TypeOK
    <2>6. FirstInFirstOut'
        BY <1>0
    <2>7. NoLostWakeup'
        BY DEF NoLostWakeup, LockHeld, TypeOK
    <2> QED
        BY <2>2, <2>3, <2>4, <2>5, <2>6, <2>7
<1>18. CASE Stop
    <2> USE <1>18 DEF Stop, queueVars, taskVars, submitVars
    <2>1. (done' <=> done) /\ done' \in BOOLEAN /\ cancelled' \in BOOLEAN
        BY Zenon DEF TypeOK
    <2>2. TypeOK'
        BY <2>1 DEF TypeOK, TaskPC, ThreadPC
    <2>3. LockHeld'
        BY <2>1 DEF LockHeld, TypeOK
    <2>4. PassState' /\ LastPass'
        BY <2>1 DEF PassState, LastPass, KeysInOrder, TypeOK
    <2>5. KeysInOrder'
        BY DEF KeysInOrder, TypeOK
    <2>6. FirstInFirstOut'
        BY <1>0
    <2>7. NoLostWakeup'
        BY DEF NoLostWakeup, LockHeld, TypeOK
    <2> QED
        BY <2>2, <2>3, <2>4, <2>5, <2>6, <2>7
<1>19. CASE Cancelled
    <2> USE <1>19 DEF Cancelled, queueVars, taskVars, submitVars
    <2>1. (done' <=> done) /\ done' \in BOOLEAN /\ cancelled' \in BOOLEAN
        BY Zenon DEF TypeOK
    <2>2. TypeOK'
        BY <2>1 DEF TypeOK, TaskPC, ThreadPC
    <2>3. LockHeld'
        BY <2>1 DEF LockHeld, TypeOK
    <2>4. PassState' /\ LastPass'
        BY <2>1 DEF PassState, LastPass, KeysInOrder, TypeOK
    <2>5. KeysInOrder'
        BY DEF KeysInOrder, TypeOK
    <2>6. FirstInFirstOut'
        BY <1>0
    <2>7. NoLostWakeup'
        BY DEF NoLostWakeup, LockHeld, TypeOK
    <2> QED
        BY <2>2, <2>3, <2>4, <2>5, <2>6, <2>7
<1>20. CASE AcquireLock
    <2> USE <1>20 DEF AcquireLock, queueVars, taskVars, submitVars
    <2>1. (done' <=> done) /\ done' \in BOOLEAN /\ cancelled' \in BOOLEAN
        BY Zenon DEF TypeOK
    <2>2. TypeOK'
        BY <2>1 DEF TypeOK, TaskPC, ThreadPC
    <2>3. LockHeld'
        BY <2>1 DEF LockHeld, TypeOK
    <2>4. PassState' /\ LastPass'
        BY <2>1 DEF PassState, LastPass, KeysInOrder, TypeOK
    <2>5. KeysInOrder'
        BY DEF KeysInOrder, TypeOK
    <2>6. FirstInFirstOut'
        BY <1>0
    <2>7. NoLostWakeup'
        BY DEF NoLostWakeup, LockHeld, TypeOK
    <2> QED
        BY <2>2, <2>3, <2>4, <2>5, <2>6, <2>7
<1>21. CASE SetDone
    <2> USE <1>21 DEF SetDone, queueVars, taskVars, submitVars
    <2>1. done' /\ done' \in BOOLEAN /\ cancelled' \in BOOLEAN
        BY Zenon DEF TypeOK
    <2>2. TypeOK'
        BY <2>1 DEF TypeOK, TaskPC, ThreadPC
    <2>3. LockHeld'
        BY <2>1 DEF LockHeld, TypeOK
    <2>4. PassState' /\ LastPass'
        BY <2>1 DEF PassState, LastPass, KeysInOrder, TypeOK
    <2>5. KeysInOrder'
        BY DEF KeysInOrder, TypeOK
    <2>6. FirstInFirstOut'
        BY <1>0
    <2>7. NoLostWakeup'
        BY DEF NoLostWakeup, LockHeld, TypeOK
    <2> QED
        BY <2>2, <2>3, <2>4, <2>5, <2>6, <2>7
<1>22. CASE UNCHANGED entryVars
    <2> USE <1>22 DEF entryVars, queueVars, taskVars, submitVars
    <2>1. (done' <=> done) /\ done' \in BOOLEAN /\ cancelled' \in BOOLEAN
        BY Zenon DEF TypeOK
    <2>2. TypeOK'
        BY <2>1 DEF TypeOK
    <2>3. LockHeld' /\ PassState' /\ LastPass' /\ KeysInOrder' /\ NoLostWakeup'
        BY <2>1 DEF LockHeld, PassState, LastPass, KeysInOrder, NoLostWakeup
    <2> QED
        BY <1>0, <2>2, <2>3
<1> QED
    BY <1>1, <1>2, <1>3, <1>4, <1>5, <1>6, <1>7, <1>8, <1>9, <1>10, <1>11, <1>12, <1>13,
       <1>14, <1>15, <1>16, <1>17, <1>18, <1>19, <1>20, <1>21, <1>22 DEF Next, ThreadStep,
       TaskStep

\* No byte that should wake the entry queue's task is ever missing, whatever
\* the threads, the signal handler and the shutdown interleave.
THEOREM NoLostWakeupThm == Spec => []NoLostWakeup
<1>1. EntryInv => NoLostWakeup
    BY DEF EntryInv
<1> QED
    BY <1>1, EntryInvInit, EntryInvNext, PTL DEF Spec

\* Every accepted job is run once and in order, and when the entry queue's
\* task ends nothing is left over and nobody is in the middle of adding to it.
THEOREM RunsOnceInOrderThm == Spec => []RunsOnceInOrder
<1>1. ASSUME EntryInv PROVE RunsOnceInOrder
    <2> USE <1>1 DEF EntryInv
    <2>1. accepted = processed \o Running \o queue
        BY DEF FirstInFirstOut
    <2>2. ASSUME task = "ended"
          PROVE  /\ queue = <<>> /\ idempotent_queue = <<>> /\ running = None
                 /\ \A t \in Thread : pc[t] \notin {"checked", "queued"}
        BY <2>2 DEF LastPass, PassState, LockHeld
    <2> QED
        BY <2>1, <2>2 DEF RunsOnceInOrder
<1> QED
    BY <1>1, EntryInvInit, EntryInvNext, PTL DEF Spec

--------------------------------------------------------------------------------
(***************************************************************************)
(* KeyboardInterrupt.                                                      *)
(***************************************************************************)

\* The run is over in this order: the main task, then the entry queue's task,
\* then the handler.
ShutsDownInOrder ==
    /\ cancelled => main_task = "exited"
    /\ task \in {"stopping", "locked"} => cancelled
    /\ done => cancelled
    /\ ~installed => task = "ended"

\* Where a pending interrupt is: with a callback that will look for it, or
\* with the main task, or with the end of run().
InterruptKept ==
    /\ ki_pending => raised < sigints
    /\ sigints > 0 => raised > 0 \/ ki_pending
    /\ raised <= sigints
    /\ ~installed => ~ki_pending
    /\ ki_pending /\ main_task \in AbortKind => \E j \in KiJob : j \in ToSet(queue) \/ running = j

KiInv == EntryInv /\ KiTypeOK /\ ShutsDownInOrder /\ InterruptKept

\* The steps that only use a job's name up.
LEMMA FreshShrinks ==
    ASSUME EntryInv, fresh' \subseteq Job,
           UNCHANGED <<queueVars, done, lock, taskVars, cancelled, submitVars, accepted, processed>>
    PROVE  EntryInv'
<1> USE DEF EntryInv, queueVars, taskVars, submitVars
<1>1. (done' <=> done) /\ done' \in BOOLEAN /\ cancelled' \in BOOLEAN
    BY Zenon DEF TypeOK
<1>2. TypeOK'
    BY <1>1 DEF TypeOK
<1>3. LockHeld' /\ PassState' /\ LastPass' /\ KeysInOrder' /\ NoLostWakeup'
    BY <1>1 DEF LockHeld, PassState, LastPass, KeysInOrder, NoLostWakeup
<1>4. FirstInFirstOut'
    BY DEF FirstInFirstOut, Running
<1> QED
    BY <1>2, <1>3, <1>4

\* Every step of KeyboardInterrupt is one of EntryQueue, seen from there, or
\* only uses a name up.
LEMMA EntryInvKiNext ==
    ASSUME EntryInv, [KiNext]_allVars
    PROVE  EntryInv'
<1>1. CASE [Next]_entryVars
    BY <1>1, EntryInvNext
<1>2. CASE HandlerUnprotected
    BY <1>2, FreshShrinks DEF HandlerUnprotected, EntryInv, TypeOK
<1>3. ASSUME NEW j \in KiJob, HandlerProtected(j)
      PROVE  EntryInv'
    <2>1. CASE task = "ended"
        BY <1>3, <2>1, FreshShrinks DEF HandlerProtected, EntryInv, TypeOK
    <2>2. CASE task # "ended"
        <3>1. SignalSubmit(j) /\ j \in Job
            BY <1>3, <2>2, KiAssumption DEF HandlerProtected
        <3> QED
            BY <3>1, EntryInvNext DEF Next
    <2> QED
        BY <2>1, <2>2
<1>4. ASSUME QueueUse
      PROVE  Next
    BY <1>4 DEF QueueUse, Next
<1>5. ASSUME QueueTask \/ DeliverKiCb
      PROVE  Next
    BY <1>5 DEF QueueTask, DeliverKiCb, Next, TaskStep
<1>6. ASSUME \/ \E k \in AbortKind : Sleep(k)
             \/ Wake \/ MainExits \/ Close \/ Over \/ UNCHANGED allVars
      PROVE  UNCHANGED entryVars
    BY <1>6, Zenon DEF Sleep, Wake, MainExits, Close, Over, allVars
<1> QED
    BY <1>1, <1>2, <1>3, <1>4, <1>5, <1>6 DEF KiNext

\* Whatever leaves the main task alone keeps a pending interrupt on its way
\* if it keeps every callback on its way.
LEMMA CallbacksKept ==
    ASSUME KiInv, UNCHANGED kiVars,
           \A j \in KiJob : j \in ToSet(queue) \/ running = j => j \in ToSet(queue') \/ running' = j
    PROVE  InterruptKept'
<1>1. UNCHANGED <<main_task, sigints, raised>> /\ (ki_pending' <=> ki_pending)
      /\ (installed' <=> installed)
    BY Zenon DEF kiVars
<1> QED
    BY <1>1 DEF KiInv, InterruptKept

\* No control-C has arrived.
LEMMA KiInvInit == KiInit => KiInv
<1> SUFFICES ASSUME KiInit PROVE KiInv
    OBVIOUS
<1>1. EntryInv
    BY EntryInvInit DEF KiInit
<1>2. ki_pending \in BOOLEAN /\ ~ki_pending /\ installed /\ installed \in BOOLEAN /\ ~cancelled /\ ~done
    BY Zenon DEF KiInit, Init
<1>3. KiTypeOK
    BY <1>1, <1>2 DEF KiInit, KiTypeOK, MainPC, EntryInv
<1>4. ShutsDownInOrder
    BY <1>2 DEF KiInit, Init, ShutsDownInOrder
<1>5. InterruptKept
    BY <1>2 DEF KiInit, InterruptKept
<1> QED
    BY <1>1, <1>3, <1>4, <1>5 DEF KiInv

\* The queue's users and its task, until it has run it, keep a callback.
LEMMA CallbackStays ==
    ASSUME EntryInv, QueueTask \/ QueueUse, NEW j \in Job, j \in ToSet(queue) \/ running = j
    PROVE  j \in ToSet(queue') \/ running' = j
<1>0. queue \in Seq(Job)
    BY DEF EntryInv, TypeOK
<1>1. CASE PopLeft
    <2>1. queue # <<>>
        BY <1>1, EmptyLen DEF PopLeft, EntryInv, PassState, TypeOK
    <2>2. ToSet(queue) = ToSet(Tail(queue)) \cup {Head(queue)}
        BY ONLY <1>0, <2>1, TailQueue
    <2> QED
        BY <1>1, <2>2, EntryQueueAssumption DEF PopLeft
<1>2. CASE DelKey
    BY <1>2, EntryQueueAssumption DEF DelKey
<1>3. CASE queue' = queue /\ running' = running
    BY <1>3
<1>4. ASSUME NEW t \in Thread, Put(t) PROVE j \in ToSet(queue') \/ running' = j
    <2> DEFINE x == item[t]
    <2>1. Enqueue(x) /\ running' = running
        BY <1>4 DEF Put, taskVars
    <2> HIDE DEF x
    <2>2. queue' = queue \/ (x \in Job /\ queue' = Append(queue, x))
        BY <2>1, EnqueueCases DEF EntryInv
    <2>3. ASSUME x \in Job PROVE ToSet(Append(queue, x)) = ToSet(queue) \cup {x}
        BY ONLY <1>0, <2>3, AppendQueue
    <2> QED
        BY <2>1, <2>2, <2>3
<1>5. ASSUME NEW t \in Thread, NEW x, Submit(t, x) \/ CheckDone(t) \/ Refuse(t) \/ Send(t) \/ SubmitReturns(t)
      PROVE  queue' = queue /\ running' = running
    BY <1>5 DEF Submit, CheckDone, Refuse, Send, SubmitReturns, queueVars, taskVars
<1>6. ASSUME \/ RunAll \/ TakeKeys \/ PassOver \/ CheckEmpty \/ Woken \/ Drain
             \/ Checkpoint \/ Cancelled \/ AcquireLock \/ SetDone \/ Stop
      PROVE  queue' = queue /\ running' = running
    BY <1>6, Zenon DEF RunAll, TakeKeys, PassOver, CheckEmpty, Woken, Drain, Checkpoint,
       Cancelled,
        AcquireLock, SetDone, Stop, queueVars, taskVars
<1> QED
    BY <1>1, <1>2, <1>3, <1>4, <1>5, <1>6 DEF QueueTask, QueueUse, ThreadStep

\* The signal handler, the task and the checkpoints of the main task keep the
\* invariant.
LEMMA KiInvNext ==
    ASSUME KiInv, [KiNext]_allVars
    PROVE  KiInv'
<1>0. EntryInv'
    BY EntryInvKiNext DEF KiInv
<1>a. TypeOK' /\ TypeOK /\ EntryInv
    BY <1>0 DEF EntryInv, KiInv
<1> USE DEF KiInv
<1>1. ASSUME NEW k \in AbortKind, Sleep(k)
      PROVE  KiInv'
    <2>1. UNCHANGED <<queue, running, task, sigints>> /\ (done' <=> done) /\ (cancelled' <=> cancelled)
          /\ (installed' <=> installed) /\ installed' \in BOOLEAN /\ main_task = "code"
          /\ main_task' \in {k, "tried"}
        BY <1>1, Zenon DEF Sleep, DeliverKi, entryVars, queueVars, taskVars, KiTypeOK
    <2>2. ki_pending => main_task' = "tried" /\ (ki_pending' <=> k = "fails") /\ ki_pending' \in BOOLEAN
                        /\ raised' = IF k = "fails" THEN raised ELSE raised + 1
        BY <1>1, Zenon DEF Sleep, DeliverKi
    <2>3. ~ki_pending => ~ki_pending' /\ ki_pending' \in BOOLEAN /\ raised' = raised
        BY <1>1, Zenon DEF Sleep, KiTypeOK
    <2>4. KiTypeOK'
        BY <1>a, <2>1, <2>2, <2>3 DEF KiTypeOK, MainPC
    <2>5. ShutsDownInOrder'
        BY <2>1 DEF ShutsDownInOrder
    <2>6. InterruptKept'
        BY <2>1, <2>2, <2>3 DEF InterruptKept, KiTypeOK, AbortKind, ShutsDownInOrder
    <2> QED
        BY <1>0, <2>4, <2>5, <2>6
<1>2. CASE Wake \/ MainExits
    <2>1. UNCHANGED <<queue, running, task, sigints, raised>> /\ (done' <=> done) /\ (cancelled' <=> cancelled)
          /\ (installed' <=> installed) /\ installed' \in BOOLEAN
          /\ (ki_pending' <=> ki_pending) /\ ki_pending' \in BOOLEAN
        <3>1. UNCHANGED <<entryVars, ki_pending, installed, sigints, raised>>
            BY <1>2 DEF Wake, MainExits
        <3> QED
            BY <3>1, Zenon DEF entryVars, queueVars, taskVars, KiTypeOK
    <2>2. main_task' \in {"code", "exited"} /\ main_task # "exited"
        BY <1>2 DEF Wake, MainExits, AbortKind
    <2>4. KiTypeOK'
        BY <1>a, <2>1, <2>2 DEF KiTypeOK, MainPC
    <2>5. ShutsDownInOrder'
        BY <2>1, <2>2 DEF ShutsDownInOrder
    <2>6. InterruptKept'
        BY <2>1, <2>2 DEF InterruptKept, KiTypeOK, AbortKind
    <2> QED
        BY <1>0, <2>4, <2>5, <2>6
<1>3. CASE HandlerUnprotected
    <2>1. UNCHANGED <<queue, running, task, main_task>> /\ (done' <=> done) /\ (cancelled' <=> cancelled)
          /\ (installed' <=> installed) /\ installed' \in BOOLEAN
          /\ (ki_pending' <=> ki_pending) /\ ki_pending' \in BOOLEAN
          /\ sigints' = sigints + 1 /\ raised' = raised + 1
        BY <1>3, Zenon DEF HandlerUnprotected, queueVars, taskVars, KiTypeOK
    <2>4. KiTypeOK'
        BY <1>a, <2>1 DEF KiTypeOK
    <2>5. ShutsDownInOrder'
        BY <2>1 DEF ShutsDownInOrder
    <2>6. InterruptKept'
        BY <2>1 DEF InterruptKept, KiTypeOK
    <2> QED
        BY <1>0, <2>4, <2>5, <2>6
<1>4. ASSUME NEW j \in KiJob, HandlerProtected(j)
      PROVE  KiInv'
    <2>1. UNCHANGED <<raised, main_task>> /\ installed /\ installed' /\ installed' \in BOOLEAN
          /\ ki_pending' /\ ki_pending' \in BOOLEAN /\ sigints' = sigints + 1
        BY <1>4, Zenon DEF HandlerProtected, KiTypeOK
    <2>2. UNCHANGED <<task, running>> /\ (done' <=> done) /\ (cancelled' <=> cancelled)
        BY <1>4, Zenon DEF HandlerProtected, SignalSubmit, taskVars
    <2>3. KiTypeOK'
        BY <1>a, <2>1 DEF KiTypeOK
    <2>4. ShutsDownInOrder'
        BY <2>1, <2>2 DEF ShutsDownInOrder
    <2>5. ASSUME main_task \in AbortKind
          PROVE  j \in ToSet(queue')
        <3>1. ~done /\ task # "ended"
            BY <2>5 DEF ShutsDownInOrder, AbortKind, EntryInv, PassState
        <3>2. Enqueue(j) /\ j \in Job
            BY <1>4, <3>1, KiAssumption DEF HandlerProtected, SignalSubmit
        <3>3. queue' = Append(queue, j) /\ queue \in Seq(Job)
            BY <1>a, <3>2 DEF Enqueue, TypeOK
        <3>4. ToSet(queue') = ToSet(queue) \cup {j}
            BY ONLY <3>2, <3>3, AppendQueue
        <3> QED
            BY <3>4
    <2>6. InterruptKept'
        BY <2>1, <2>2, <2>5 DEF InterruptKept, KiTypeOK
    <2> QED
        BY <1>0, <2>3, <2>4, <2>6
<1>5. CASE DeliverKiCb
    <2>1. (done' <=> done) /\ (cancelled' <=> cancelled) /\ UNCHANGED <<queue, task, sigints>>
          /\ (installed' <=> installed) /\ installed' \in BOOLEAN /\ running # None /\ running' = None
        BY <1>5, Zenon DEF DeliverKiCb, RunCb, queueVars, KiTypeOK
    <2>2. CASE running \in KiJob /\ ki_pending /\ main_task \in AbortKind
        <3>1. DeliverKi(main_task) /\ main_task \in AbortKind
            BY <1>5, <2>2 DEF DeliverKiCb, AbortKind
        <3>2. main_task' = "tried" /\ (ki_pending' <=> main_task = "fails") /\ ki_pending' \in BOOLEAN
              /\ raised' = IF main_task = "fails" THEN raised ELSE raised + 1
            BY <3>1, Zenon DEF DeliverKi
        <3>4. KiTypeOK'
            BY <1>a, <2>1, <3>2 DEF KiTypeOK, MainPC
        <3>5. ShutsDownInOrder'
            BY <2>1, <2>2, <3>2 DEF ShutsDownInOrder, AbortKind
        <3>6. InterruptKept'
            BY <2>1, <2>2, <3>2 DEF InterruptKept, KiTypeOK, AbortKind, ShutsDownInOrder
        <3> QED
            BY <1>0, <3>4, <3>5, <3>6
    <2>3. CASE ~(running \in KiJob /\ ki_pending /\ main_task \in AbortKind)
        <3>1. UNCHANGED <<main_task, raised>> /\ (ki_pending' <=> ki_pending) /\ ki_pending' \in BOOLEAN
            BY <1>5, <2>3, Zenon DEF DeliverKiCb, DeliverKi, KiTypeOK
        <3>4. KiTypeOK'
            BY <1>a, <2>1, <3>1 DEF KiTypeOK
        <3>5. ShutsDownInOrder'
            BY <2>1, <3>1 DEF ShutsDownInOrder
        <3>6. InterruptKept'
            BY <2>1, <2>3, <3>1 DEF InterruptKept
        <3> QED
            BY <1>0, <3>4, <3>5, <3>6
    <2> QED
        BY <2>2, <2>3
<1>6. CASE QueueTask \/ QueueUse
    <2>1. UNCHANGED kiVars
        BY <1>6 DEF QueueTask, QueueUse
    <2>2. UNCHANGED <<main_task, sigints, raised>> /\ (ki_pending' <=> ki_pending) /\ ki_pending' \in BOOLEAN
          /\ (installed' <=> installed) /\ installed' \in BOOLEAN
        BY <2>1, Zenon DEF kiVars, KiTypeOK
    <2>3. KiTypeOK'
        BY <1>a, <2>2 DEF KiTypeOK
    <2>4. InterruptKept'
        BY <1>6, <1>a, <2>1, CallbackStays, CallbacksKept, KiAssumption
    <2>5. ShutsDownInOrder'
        <3>1. CASE Stop /\ main_task = "exited"
            <4>1. cancelled' /\ UNCHANGED task /\ (done' <=> done)
                BY <3>1, Zenon DEF Stop, taskVars
            <4> QED
                BY <2>2, <3>1, <4>1 DEF ShutsDownInOrder
        <3>2. CASE Checkpoint \/ Cancelled \/ AcquireLock \/ SetDone
            <4>1. cancelled' <=> cancelled
                <5>1. cancelled' = cancelled
                    BY <3>2 DEF Checkpoint, Cancelled, AcquireLock, SetDone
                <5> QED
                    BY <5>1, Zenon
            <4>2. task # "ended" /\ (task' \in {"stopping", "locked"} => cancelled) /\ (done' => done \/ cancelled)
                BY <3>2 DEF Checkpoint, Cancelled, AcquireLock, SetDone, ShutsDownInOrder
            <4> QED
                BY <2>2, <4>1, <4>2 DEF ShutsDownInOrder
        <3>3. CASE RunAll \/ PopLeft \/ TakeKeys \/ DelKey \/ PassOver \/ CheckEmpty \/ Woken \/ Drain
            <4>1. (cancelled' <=> cancelled) /\ (done' <=> done)
                <5>1. cancelled' = cancelled /\ done' = done
                    BY <3>3 DEF RunAll, PopLeft, TakeKeys, DelKey, PassOver, CheckEmpty,
                       Woken, Drain
                <5> QED
                    BY <5>1, Zenon
            <4>2. task # "ended" /\ task' \notin {"stopping", "locked"}
                BY <3>3 DEF RunAll, PopLeft, TakeKeys, DelKey, PassOver, CheckEmpty, Woken,
                   Drain
            <4> QED
                BY <2>2, <4>1, <4>2 DEF ShutsDownInOrder
        <3>4. ASSUME NEW t \in Thread, ThreadStep(t) \/ \E x \in (Job \ KiJob) \cup Key : Submit(t, x)
              PROVE  ShutsDownInOrder'
            <4>1. (cancelled' <=> cancelled) /\ (done' <=> done) /\ UNCHANGED task
                <5>1. cancelled' = cancelled /\ done' = done /\ task' = task
                    BY <3>4 DEF ThreadStep, Submit, CheckDone, Refuse, Put, Send,
                       SubmitReturns, taskVars
                <5> QED
                    BY <5>1, Zenon
            <4> QED
                BY <2>2, <4>1 DEF ShutsDownInOrder
        <3> QED
            BY <1>6, <3>1, <3>2, <3>3, <3>4 DEF QueueTask, QueueUse
    <2> QED
        BY <1>0, <2>3, <2>4, <2>5
<1>7. CASE Close
    <2>1. (done' <=> done) /\ (cancelled' <=> cancelled) /\ UNCHANGED <<queue, running, task, main_task, sigints>>
          /\ ~installed' /\ installed' \in BOOLEAN /\ ~ki_pending' /\ ki_pending' \in BOOLEAN
          /\ task = "ended"
        BY <1>7, Zenon DEF Close, entryVars, queueVars, taskVars
    <2>2. (ki_pending => raised' = raised + 1) /\ (~ki_pending => raised' = raised)
        BY <1>7 DEF Close
    <2>3. KiTypeOK'
        BY <1>a, <2>1, <2>2 DEF KiTypeOK
    <2>4. ShutsDownInOrder'
        BY <2>1 DEF ShutsDownInOrder
    <2>5. InterruptKept'
        BY <2>1, <2>2 DEF InterruptKept, KiTypeOK
    <2> QED
        BY <1>0, <2>3, <2>4, <2>5
<1>8. CASE Over \/ UNCHANGED allVars
    <2>1. UNCHANGED <<queue, running, task, sigints, raised, main_task>> /\ (done' <=> done) /\ (cancelled' <=> cancelled)
          /\ (installed' <=> installed) /\ installed' \in BOOLEAN
          /\ (ki_pending' <=> ki_pending) /\ ki_pending' \in BOOLEAN
        <3>1. UNCHANGED <<entryVars, kiVars>>
            BY <1>8 DEF Over, allVars
        <3> QED
            BY <3>1, Zenon DEF entryVars, kiVars, queueVars, taskVars, KiTypeOK
    <2>2. KiTypeOK' /\ ShutsDownInOrder' /\ InterruptKept'
        BY <1>a, <2>1 DEF KiTypeOK, ShutsDownInOrder, InterruptKept
    <2> QED
        BY <1>0, <2>2
<1> QED
    BY <1>1, <1>2, <1>3, <1>4, <1>5, <1>6, <1>7, <1>8 DEF KiNext

\* Control-C is never lost, whatever it interrupts.
THEOREM NoInterruptLostThm == KiSpec => []NoInterruptLost
<1>1. ASSUME KiInv PROVE NoInterruptLost
    <2>1. ASSUME NEW j PROVE In(queue, j) <=> j \in ToSet(queue)
        BY <1>1, InToSet DEF KiInv, EntryInv, TypeOK
    <2> QED
        BY <1>1, <2>1 DEF KiInv, InterruptKept, NoInterruptLost
<1> QED
    BY <1>1, KiInvInit, KiInvNext, PTL DEF KiSpec

--------------------------------------------------------------------------------
(***************************************************************************)
(* ThreadCache.                                                            *)
(***************************************************************************)

CacheTypes ==
    /\ idle_workers \in Seq(Worker) /\ IsInjective(idle_workers)
    /\ job \in [Worker -> Caller \cup {Nobody}]
    /\ unlocked \in SUBSET Worker
    /\ worker \in [Worker -> WorkerPC]
    /\ current \in [Worker -> Caller \cup {Nobody}]
    /\ caller \in [Caller -> CallerPC]
    /\ chosen \in [Caller -> Worker \cup {Nobody}]

\* The places where a worker can be given a job, or wait for one.
Available == {"waiting", "timed_out", "delivering"}

\* Between popitem() and the release of its lock a worker is its caller's.
ChosenOnce ==
    /\ \A c \in Caller : caller[c] \in {"popped", "assigned"} <=> chosen[c] # Nobody
    /\ \A c, d \in Caller : chosen[c] # Nobody /\ chosen[c] = chosen[d] => c = d
    /\ \A c \in Caller : chosen[c] # Nobody =>
          /\ worker[chosen[c]] \in Available
          /\ chosen[c] \notin ToSet(idle_workers) /\ chosen[c] \notin unlocked
          /\ job[chosen[c]] = IF caller[c] = "assigned" THEN c ELSE Nobody

IdleIsFree ==
    \A w \in ToSet(idle_workers) :
        worker[w] \in Available /\ w \notin unlocked /\ job[w] = Nobody

UnlockedHasJob ==
    /\ \A w \in unlocked : worker[w] \in Available /\ job[w] # Nobody
    /\ \A w \in Worker : worker[w] = "got_job" => w \notin unlocked /\ job[w] # Nobody

\* A job in _job belongs to a caller that is assigning or has submitted it.
JobHasOwner ==
    \A w \in Worker : job[w] # Nobody =>
        \/ caller[job[w]] = "assigned" /\ chosen[job[w]] = w
        \/ caller[job[w]] = "submitted" /\ (w \in unlocked \/ worker[w] = "got_job")

CurrentHasOwner ==
    \A w \in Worker :
        /\ current[w] # Nobody <=> worker[w] \in {"running", "finished", "delivering"}
        /\ current[w] # Nobody => caller[current[w]] = "submitted"

\* A job is in one place.
JobOnce ==
    /\ \A v, w \in Worker : job[v] # Nobody /\ job[v] = job[w] => v = w
    /\ \A v, w \in Worker : current[v] # Nobody /\ current[v] = current[w] => v = w
    /\ \A v, w \in Worker : current[v] # Nobody => current[v] # job[w]
    /\ \A c \in Caller : caller[c] = "submitted" => \E w \in Worker : job[w] = c \/ current[w] = c

\* A worker that waits is idle, chosen or has a job: none is forgotten.
NoneForgotten ==
    \A w \in Worker : worker[w] \in Available =>
        w \in ToSet(idle_workers) \/ job[w] # Nobody \/ \E c \in Caller : chosen[c] = w

Live == {w \in Worker : worker[w] # "dead"}

NotTooMany == IsFiniteSet(Live) /\ Cardinality(Live) <= Cardinality(Caller)

CacheInv ==
    /\ CacheTypes /\ ChosenOnce /\ IdleIsFree /\ UnlockedHasJob /\ JobHasOwner
    /\ CurrentHasOwner /\ JobOnce /\ NoneForgotten /\ NotTooMany

\* No thread has been started yet.
LEMMA CacheInvInit == CacheInit => CacheInv
<1> SUFFICES ASSUME CacheInit PROVE CacheInv
    OBVIOUS
<1> USE ThreadCacheAssumption DEF CacheInit
<1>1. CacheTypes
    BY EmptyQueue DEF CacheTypes, WorkerPC, CallerPC
<1>2. ToSet(idle_workers) = {}
    BY EmptyQueue
<1>3. ChosenOnce /\ IdleIsFree /\ UnlockedHasJob /\ JobHasOwner
    BY <1>2 DEF ChosenOnce, IdleIsFree, UnlockedHasJob, JobHasOwner
<1>4. CurrentHasOwner /\ JobOnce /\ NoneForgotten
    BY DEF CurrentHasOwner, JobOnce, NoneForgotten, Available
<1>5. Live = {}
    BY DEF Live
<1>6. NotTooMany
    BY <1>5, FS_EmptySet, FS_CardinalityType DEF NotTooMany
<1> QED
    BY <1>1, <1>3, <1>4, <1>6 DEF CacheInv

\* No new thread: no more threads.
LEMMA LiveShrinks ==
    ASSUME NotTooMany, Live' \subseteq Live
    PROVE  NotTooMany'
<1>1. IsFiniteSet(Live') /\ Cardinality(Live') <= Cardinality(Live)
    BY FS_Subset DEF NotTooMany
<1>2. Cardinality(Live') \in Nat /\ Cardinality(Live) \in Nat /\ Cardinality(Caller) \in Nat
    BY <1>1, FS_CardinalityType, ThreadCacheAssumption DEF NotTooMany
<1> QED
    BY <1>1, <1>2 DEF NotTooMany

\* The caller that keeps a worker from being idle.
Owner(w, c) ==
    \/ current[w] = c
    \/ current[w] = Nobody /\ job[w] = c
    \/ current[w] = Nobody /\ job[w] = Nobody /\ chosen[c] = w

\* When no worker is idle, every thread works for a caller, ...
LEMMA OwnersExist ==
    ASSUME CacheInv, idle_workers = <<>>
    PROVE  \E f \in [Live -> Caller] : \A x \in Live : Owner(x, f[x])
<1>1. ASSUME NEW x \in Live
      PROVE  \E c \in Caller : Owner(x, c)
    <2>1. x \in Worker /\ x \notin ToSet(idle_workers) /\ worker[x] \in WorkerPC
        BY <1>1, EmptyQueue DEF Live, CacheInv, CacheTypes
    <2>2. current[x] \in Caller \/ job[x] \in Caller \/ \E c \in Caller : chosen[c] = x
        BY <1>1, <2>1 DEF Live, CacheInv, CacheTypes, WorkerPC, Available, CurrentHasOwner,
           NoneForgotten, UnlockedHasJob
    <2> QED
        BY <2>1, <2>2 DEF Owner, CacheInv, CacheTypes
<1> DEFINE f == [x \in Live |-> CHOOSE c \in Caller : Owner(x, c)]
<1>2. \A x \in Live : f[x] \in Caller /\ Owner(x, f[x])
    BY <1>1
<1>3. f \in [Live -> Caller]
    BY <1>2
<1> HIDE DEF f
<1> QED
    BY <1>2, <1>3

\* ... a caller has at most one, ...
LEMMA OwnsOnce ==
    ASSUME CacheInv, NEW x \in Live, NEW y \in Live, NEW c \in Caller, Owner(x, c), Owner(y, c)
    PROVE  x = y
<1>1. x \in Worker /\ y \in Worker /\ c # Nobody
    BY ThreadCacheAssumption DEF Live
<1>2. ASSUME NEW v \in Worker, NEW u \in Worker, current[v] = c, Owner(u, c)
      PROVE  v = u
    BY <1>1, <1>2, ThreadCacheAssumption DEF Owner, CacheInv, JobOnce, CurrentHasOwner,
       ChosenOnce, CacheTypes
<1>3. ASSUME job[x] = c, job[y] = c PROVE x = y
    BY <1>1, <1>3 DEF CacheInv, JobOnce
<1>4. ASSUME NEW v \in Worker, job[v] = c, NEW u \in Worker, chosen[c] = u PROVE v = u
    BY <1>1, <1>4, ThreadCacheAssumption DEF CacheInv, JobHasOwner, ChosenOnce, CacheTypes
<1> QED
    BY <1>1, <1>2, <1>3, <1>4 DEF Owner

\* ... and one that is about to start a thread has none.
LEMMA OutsideOwnsNothing ==
    ASSUME CacheInv, NEW c \in Caller, caller[c] = "outside", NEW x \in Live
    PROVE  ~Owner(x, c)
<1>1. x \in Worker /\ c # Nobody
    BY ThreadCacheAssumption DEF Live
<1> QED
    BY <1>1, ThreadCacheAssumption DEF Owner, CacheInv, CacheTypes, ChosenOnce, JobHasOwner,
       CurrentHasOwner

\* Every step of a caller and of a worker, the end of its wait included, keeps
\* the invariant.
LEMMA CacheInvNext ==
    ASSUME CacheInv, [CacheNext]_cacheVars
    PROVE  CacheInv'
<1> USE ThreadCacheAssumption DEF CacheInv
<1>1. ASSUME NEW c \in Caller, PopIdle(c)
      PROVE  CacheInv'
    <2> USE <1>1 DEF PopIdle, WorkerAt, CallerAt
    <2>0. PICK x \in Worker : x = idle_workers[Len(idle_workers)]
        BY DEF CacheTypes
    <2>1. /\ idle_workers' \in Seq(Worker) /\ IsInjective(idle_workers')
          /\ ToSet(idle_workers') = ToSet(idle_workers) \ {x} /\ x \in ToSet(idle_workers)
        <3>1. /\ idle_workers \in Seq(Worker) /\ Len(idle_workers) > 0 /\ IsInjective(idle_workers)
              /\ idle_workers' = SubSeq(idle_workers, 1, Len(idle_workers) - 1)
            BY DEF CacheTypes
        <3> QED
            BY ONLY <2>0, <3>1, FrontDistinct
    <2>2. chosen' = [chosen EXCEPT ![c] = x]
        BY <2>0
    <2>3. CacheTypes'
        BY <2>1, <2>2 DEF CacheTypes, WorkerPC, CallerPC
    <2>4. ChosenOnce'
        BY <2>1, <2>2 DEF ChosenOnce, IdleIsFree, UnlockedHasJob, JobHasOwner, CacheTypes,
           Available
    <2>5. IdleIsFree'
        BY <2>1, <2>2 DEF IdleIsFree, ChosenOnce, UnlockedHasJob, JobHasOwner, CacheTypes,
           Available
    <2>6. UnlockedHasJob'
        BY <2>1, <2>2 DEF UnlockedHasJob, ChosenOnce, IdleIsFree, JobHasOwner, CacheTypes,
           Available
    <2>7. JobHasOwner'
        BY <2>1, <2>2 DEF JobHasOwner, ChosenOnce, UnlockedHasJob, IdleIsFree,
           CurrentHasOwner, CacheTypes, Available
    <2>8. CurrentHasOwner'
        BY <2>1, <2>2 DEF CurrentHasOwner, JobHasOwner, JobOnce, UnlockedHasJob, ChosenOnce,
           CacheTypes, Available
    <2>9. JobOnce'
        BY <2>1, <2>2 DEF JobOnce, JobHasOwner, CurrentHasOwner, ChosenOnce, CacheTypes,
           Available
    <2>10. NoneForgotten'
        BY <2>1, <2>2 DEF NoneForgotten, ChosenOnce, UnlockedHasJob, CurrentHasOwner,
           CacheTypes, Available
    <2>11. NotTooMany'
        <3>1. Live' \subseteq Live
            BY DEF Live, CacheTypes
        <3> QED
            BY <3>1, LiveShrinks
    <2> QED
        BY <2>3, <2>4, <2>5, <2>6, <2>7, <2>8, <2>9, <2>10, <2>11
<1>2. ASSUME NEW c \in Caller, NEW w \in Worker, SpawnWorker(c, w)
      PROVE  CacheInv'
    <2> USE <1>2 DEF SpawnWorker, WorkerAt, CallerAt
    <2>1. idle_workers' = idle_workers
        OBVIOUS
    <2>3. CacheTypes'
        BY <2>1 DEF CacheTypes, WorkerPC, CallerPC
    <2>4. ChosenOnce'
        BY <2>1 DEF ChosenOnce, IdleIsFree, UnlockedHasJob, JobHasOwner, CacheTypes, Available
    <2>5. IdleIsFree'
        BY <2>1 DEF IdleIsFree, ChosenOnce, UnlockedHasJob, JobHasOwner, CacheTypes, Available
    <2>6. UnlockedHasJob'
        BY <2>1 DEF UnlockedHasJob, ChosenOnce, IdleIsFree, JobHasOwner, CacheTypes, Available
    <2>7. JobHasOwner'
        BY <2>1 DEF JobHasOwner, ChosenOnce, UnlockedHasJob, IdleIsFree, CurrentHasOwner,
           CacheTypes, Available
    <2>8. CurrentHasOwner'
        BY <2>1 DEF CurrentHasOwner, JobHasOwner, JobOnce, UnlockedHasJob, ChosenOnce,
           CacheTypes, Available
    <2>9. JobOnce'
        BY <2>1 DEF JobOnce, JobHasOwner, CurrentHasOwner, ChosenOnce, CacheTypes, Available
    <2>10. NoneForgotten'
        BY <2>1 DEF NoneForgotten, ChosenOnce, UnlockedHasJob, CurrentHasOwner, CacheTypes,
           Available
    <2>11. NotTooMany'
        <3>1. PICK f \in [Live -> Caller] : \A x \in Live : Owner(x, f[x])
            BY OwnersExist
        <3>2. \A x \in Live : f[x] # c
            BY <3>1, OutsideOwnsNothing
        <3>3. f \in Injection(Live, Caller \ {c})
            <4>1. \A x, y \in Live : f[x] = f[y] => x = y
                BY <3>1, OwnsOnce
            <4> QED
                BY <3>2, <4>1 DEF Injection, IsInjective
        <3>4. IsFiniteSet(Caller \ {c}) /\ Cardinality(Caller \ {c}) = Cardinality(Caller) - 1
            BY FS_RemoveElement
        <3>5. IsFiniteSet(Live) /\ Cardinality(Live) <= Cardinality(Caller \ {c})
            BY <3>3, <3>4, FS_Injection
        <3>6. Live' = Live \cup {w}
            BY DEF Live, CacheTypes
        <3>7. IsFiniteSet(Live') /\ Cardinality(Live') <= Cardinality(Live) + 1
            <4>1. Cardinality(Live) \in Nat
                BY <3>5, FS_CardinalityType
            <4>2. IsFiniteSet(Live \cup {w}) /\ Cardinality(Live \cup {w}) <= Cardinality(Live) + 1
                <5>1. /\ IsFiniteSet(Live \cup {w})
                      /\ Cardinality(Live \cup {w}) = IF w \in Live THEN Cardinality(Live) ELSE Cardinality(Live) + 1
                    BY ONLY <3>5, FS_AddElement, Zenon
                <5> HIDE <1>2
                <5> QED
                    BY <4>1, <5>1
            <4> QED
                BY <3>6, <4>2
        <3>8. Cardinality(Live') \in Nat /\ Cardinality(Live) \in Nat /\ Cardinality(Caller) \in Nat
            BY <3>5, <3>7, FS_CardinalityType
        <3> QED
            BY <3>4, <3>5, <3>7, <3>8 DEF NotTooMany
    <2> QED
        BY <2>3, <2>4, <2>5, <2>6, <2>7, <2>8, <2>9, <2>10, <2>11
<1>3. ASSUME NEW c \in Caller, AssignJob(c)
      PROVE  CacheInv'
    <2> USE <1>3 DEF AssignJob, WorkerAt, CallerAt
    <2>1. idle_workers' = idle_workers
        OBVIOUS
    <2>3. CacheTypes'
        BY <2>1 DEF CacheTypes, WorkerPC, CallerPC
    <2>4. ChosenOnce'
        BY <2>1 DEF ChosenOnce, IdleIsFree, UnlockedHasJob, JobHasOwner, CacheTypes, Available
    <2>5. IdleIsFree'
        BY <2>1 DEF IdleIsFree, ChosenOnce, UnlockedHasJob, JobHasOwner, CacheTypes, Available
    <2>6. UnlockedHasJob'
        BY <2>1 DEF UnlockedHasJob, ChosenOnce, IdleIsFree, JobHasOwner, CacheTypes, Available
    <2>7. JobHasOwner'
        BY <2>1 DEF JobHasOwner, ChosenOnce, UnlockedHasJob, IdleIsFree, CurrentHasOwner,
           CacheTypes, Available
    <2>8. CurrentHasOwner'
        BY <2>1 DEF CurrentHasOwner, JobHasOwner, JobOnce, UnlockedHasJob, ChosenOnce,
           CacheTypes, Available
    <2>9. JobOnce'
        BY <2>1 DEF JobOnce, JobHasOwner, CurrentHasOwner, ChosenOnce, CacheTypes, Available
    <2>10. NoneForgotten'
        BY <2>1 DEF NoneForgotten, ChosenOnce, UnlockedHasJob, CurrentHasOwner, CacheTypes,
           Available
    <2>11. NotTooMany'
        <3>1. Live' \subseteq Live
            BY DEF Live, CacheTypes
        <3> QED
            BY <3>1, LiveShrinks
    <2> QED
        BY <2>3, <2>4, <2>5, <2>6, <2>7, <2>8, <2>9, <2>10, <2>11
<1>4. ASSUME NEW c \in Caller, ReleaseWorkerLock(c)
      PROVE  CacheInv'
    <2> USE <1>4 DEF ReleaseWorkerLock, WorkerAt, CallerAt
    <2>1. idle_workers' = idle_workers
        OBVIOUS
    <2>3. CacheTypes'
        BY <2>1 DEF CacheTypes, WorkerPC, CallerPC, ChosenOnce
    <2>4. ChosenOnce'
        BY <2>1 DEF ChosenOnce, IdleIsFree, UnlockedHasJob, JobHasOwner, CacheTypes, Available
    <2>5. IdleIsFree'
        BY <2>1 DEF IdleIsFree, ChosenOnce, UnlockedHasJob, JobHasOwner, CacheTypes, Available
    <2>6. UnlockedHasJob'
        BY <2>1 DEF UnlockedHasJob, ChosenOnce, IdleIsFree, JobHasOwner, CacheTypes, Available
    <2>7. JobHasOwner'
        BY <2>1 DEF JobHasOwner, ChosenOnce, UnlockedHasJob, IdleIsFree, CurrentHasOwner,
           CacheTypes, Available
    <2>8. CurrentHasOwner'
        BY <2>1 DEF CurrentHasOwner, JobHasOwner, JobOnce, UnlockedHasJob, ChosenOnce,
           CacheTypes, Available
    <2>9. JobOnce'
        BY <2>1 DEF JobOnce, JobHasOwner, CurrentHasOwner, ChosenOnce, CacheTypes, Available
    <2>10. NoneForgotten'
        BY <2>1 DEF NoneForgotten, ChosenOnce, UnlockedHasJob, CurrentHasOwner, CacheTypes,
           Available
    <2>11. NotTooMany'
        <3>1. Live' \subseteq Live
            BY DEF Live, CacheTypes
        <3> QED
            BY <3>1, LiveShrinks
    <2> QED
        BY <2>3, <2>4, <2>5, <2>6, <2>7, <2>8, <2>9, <2>10, <2>11
<1>5. ASSUME NEW w \in Worker, AcquireWorkerLock(w)
      PROVE  CacheInv'
    <2> USE <1>5 DEF AcquireWorkerLock, WorkerAt, CallerAt
    <2>1. idle_workers' = idle_workers
        OBVIOUS
    <2>3. CacheTypes'
        BY <2>1 DEF CacheTypes, WorkerPC, CallerPC
    <2>4. ChosenOnce'
        BY <2>1 DEF ChosenOnce, IdleIsFree, UnlockedHasJob, JobHasOwner, CacheTypes, Available
    <2>5. IdleIsFree'
        BY <2>1 DEF IdleIsFree, ChosenOnce, UnlockedHasJob, JobHasOwner, CacheTypes, Available
    <2>6. UnlockedHasJob'
        BY <2>1 DEF UnlockedHasJob, ChosenOnce, IdleIsFree, JobHasOwner, CacheTypes, Available
    <2>7. JobHasOwner'
        BY <2>1 DEF JobHasOwner, ChosenOnce, UnlockedHasJob, IdleIsFree, CurrentHasOwner,
           CacheTypes, Available
    <2>8. CurrentHasOwner'
        BY <2>1 DEF CurrentHasOwner, JobHasOwner, JobOnce, UnlockedHasJob, ChosenOnce,
           CacheTypes, Available
    <2>9. JobOnce'
        BY <2>1 DEF JobOnce, JobHasOwner, CurrentHasOwner, ChosenOnce, CacheTypes, Available
    <2>10. NoneForgotten'
        BY <2>1 DEF NoneForgotten, ChosenOnce, UnlockedHasJob, CurrentHasOwner, CacheTypes,
           Available
    <2>11. NotTooMany'
        <3>1. Live' \subseteq Live
            BY DEF Live, CacheTypes
        <3> QED
            BY <3>1, LiveShrinks
    <2> QED
        BY <2>3, <2>4, <2>5, <2>6, <2>7, <2>8, <2>9, <2>10, <2>11
<1>6. ASSUME NEW w \in Worker, TimeOut(w)
      PROVE  CacheInv'
    <2> USE <1>6 DEF TimeOut, WorkerAt, CallerAt
    <2>1. idle_workers' = idle_workers
        OBVIOUS
    <2>3. CacheTypes'
        BY <2>1 DEF CacheTypes, WorkerPC, CallerPC
    <2>4. ChosenOnce'
        BY <2>1 DEF ChosenOnce, IdleIsFree, UnlockedHasJob, JobHasOwner, CacheTypes, Available
    <2>5. IdleIsFree'
        BY <2>1 DEF IdleIsFree, ChosenOnce, UnlockedHasJob, JobHasOwner, CacheTypes, Available
    <2>6. UnlockedHasJob'
        BY <2>1 DEF UnlockedHasJob, ChosenOnce, IdleIsFree, JobHasOwner, CacheTypes, Available
    <2>7. JobHasOwner'
        BY <2>1 DEF JobHasOwner, ChosenOnce, UnlockedHasJob, IdleIsFree, CurrentHasOwner,
           CacheTypes, Available
    <2>8. CurrentHasOwner'
        BY <2>1 DEF CurrentHasOwner, JobHasOwner, JobOnce, UnlockedHasJob, ChosenOnce,
           CacheTypes, Available
    <2>9. JobOnce'
        BY <2>1 DEF JobOnce, JobHasOwner, CurrentHasOwner, ChosenOnce, CacheTypes, Available
    <2>10. NoneForgotten'
        BY <2>1 DEF NoneForgotten, ChosenOnce, UnlockedHasJob, CurrentHasOwner, CacheTypes,
           Available
    <2>11. NotTooMany'
        <3>1. Live' \subseteq Live
            BY DEF Live, CacheTypes
        <3> QED
            BY <3>1, LiveShrinks
    <2> QED
        BY <2>3, <2>4, <2>5, <2>6, <2>7, <2>8, <2>9, <2>10, <2>11
<1>7. ASSUME NEW w \in Worker, Exit(w)
      PROVE  CacheInv'
    <2> USE <1>7 DEF Exit, WorkerAt, CallerAt
    <2>1. /\ idle_workers' \in Seq(Worker) /\ IsInjective(idle_workers')
          /\ ToSet(idle_workers') = ToSet(idle_workers) \ {w} /\ w \in ToSet(idle_workers)
        <3>1. PICK i \in 1 .. Len(idle_workers) : idle_workers[i] = w /\ idle_workers' = RemoveAt(idle_workers, i)
            OBVIOUS
        <3>2. idle_workers \in Seq(Worker) /\ IsInjective(idle_workers)
            BY DEF CacheTypes
        <3>3. DOMAIN idle_workers = 1 .. Len(idle_workers)
            BY <3>2
        <3> QED
            BY ONLY <3>1, <3>2, <3>3, RemoveAtQueue, RemoveAtDistinct, ZenonT(30) DEF ToSet
    <2>3. CacheTypes'
        BY <2>1 DEF CacheTypes, WorkerPC, CallerPC
    <2>4. ChosenOnce'
        BY <2>1 DEF ChosenOnce, IdleIsFree, UnlockedHasJob, JobHasOwner, CacheTypes, Available
    <2>5. IdleIsFree'
        BY <2>1 DEF IdleIsFree, ChosenOnce, UnlockedHasJob, JobHasOwner, CacheTypes, Available
    <2>6. UnlockedHasJob'
        BY <2>1 DEF UnlockedHasJob, ChosenOnce, IdleIsFree, JobHasOwner, CacheTypes, Available
    <2>7. JobHasOwner'
        BY <2>1 DEF JobHasOwner, ChosenOnce, UnlockedHasJob, IdleIsFree, CurrentHasOwner,
           CacheTypes, Available
    <2>8. CurrentHasOwner'
        BY <2>1 DEF CurrentHasOwner, JobHasOwner, JobOnce, UnlockedHasJob, ChosenOnce,
           CacheTypes, Available
    <2>9. JobOnce'
        BY <2>1 DEF JobOnce, JobHasOwner, CurrentHasOwner, ChosenOnce, CacheTypes, Available
    <2>10. NoneForgotten'
        BY <2>1 DEF NoneForgotten, ChosenOnce, UnlockedHasJob, CurrentHasOwner, CacheTypes,
           Available
    <2>11. NotTooMany'
        <3>1. Live' \subseteq Live
            BY DEF Live, CacheTypes
        <3> QED
            BY <3>1, LiveShrinks
    <2> QED
        BY <2>3, <2>4, <2>5, <2>6, <2>7, <2>8, <2>9, <2>10, <2>11
<1>8. ASSUME NEW w \in Worker, WaitAfterAll(w)
      PROVE  CacheInv'
    <2> USE <1>8 DEF WaitAfterAll, WorkerAt, CallerAt
    <2>1. idle_workers' = idle_workers
        OBVIOUS
    <2>3. CacheTypes'
        BY <2>1 DEF CacheTypes, WorkerPC, CallerPC
    <2>4. ChosenOnce'
        BY <2>1 DEF ChosenOnce, IdleIsFree, UnlockedHasJob, JobHasOwner, CacheTypes, Available
    <2>5. IdleIsFree'
        BY <2>1 DEF IdleIsFree, ChosenOnce, UnlockedHasJob, JobHasOwner, CacheTypes, Available
    <2>6. UnlockedHasJob'
        BY <2>1 DEF UnlockedHasJob, ChosenOnce, IdleIsFree, JobHasOwner, CacheTypes, Available
    <2>7. JobHasOwner'
        BY <2>1 DEF JobHasOwner, ChosenOnce, UnlockedHasJob, IdleIsFree, CurrentHasOwner,
           CacheTypes, Available
    <2>8. CurrentHasOwner'
        BY <2>1 DEF CurrentHasOwner, JobHasOwner, JobOnce, UnlockedHasJob, ChosenOnce,
           CacheTypes, Available
    <2>9. JobOnce'
        BY <2>1 DEF JobOnce, JobHasOwner, CurrentHasOwner, ChosenOnce, CacheTypes, Available
    <2>10. NoneForgotten'
        BY <2>1 DEF NoneForgotten, ChosenOnce, UnlockedHasJob, CurrentHasOwner, CacheTypes,
           Available
    <2>11. NotTooMany'
        <3>1. Live' \subseteq Live
            BY DEF Live, CacheTypes
        <3> QED
            BY <3>1, LiveShrinks
    <2> QED
        BY <2>3, <2>4, <2>5, <2>6, <2>7, <2>8, <2>9, <2>10, <2>11
<1>9. ASSUME NEW w \in Worker, TakeJob(w)
      PROVE  CacheInv'
    <2> USE <1>9 DEF TakeJob, WorkerAt, CallerAt
    <2>1. idle_workers' = idle_workers
        OBVIOUS
    <2>3. CacheTypes'
        BY <2>1 DEF CacheTypes, WorkerPC, CallerPC
    <2>4. ChosenOnce'
        BY <2>1 DEF ChosenOnce, IdleIsFree, UnlockedHasJob, JobHasOwner, CacheTypes, Available
    <2>5. IdleIsFree'
        BY <2>1 DEF IdleIsFree, ChosenOnce, UnlockedHasJob, JobHasOwner, CacheTypes, Available
    <2>6. UnlockedHasJob'
        BY <2>1 DEF UnlockedHasJob, ChosenOnce, IdleIsFree, JobHasOwner, CacheTypes, Available
    <2>7. JobHasOwner'
        BY <2>1 DEF JobHasOwner, ChosenOnce, UnlockedHasJob, IdleIsFree, CurrentHasOwner,
           CacheTypes, Available
    <2>8. CurrentHasOwner'
        BY <2>1 DEF CurrentHasOwner, JobHasOwner, JobOnce, UnlockedHasJob, ChosenOnce,
           CacheTypes, Available
    <2>9. JobOnce'
        BY <2>1 DEF JobOnce, JobHasOwner, CurrentHasOwner, ChosenOnce, CacheTypes, Available
    <2>10. NoneForgotten'
        BY <2>1 DEF NoneForgotten, ChosenOnce, UnlockedHasJob, CurrentHasOwner, CacheTypes,
           Available
    <2>11. NotTooMany'
        <3>1. Live' \subseteq Live
            BY DEF Live, CacheTypes
        <3> QED
            BY <3>1, LiveShrinks
    <2> QED
        BY <2>3, <2>4, <2>5, <2>6, <2>7, <2>8, <2>9, <2>10, <2>11
<1>10. ASSUME NEW w \in Worker, RunJob(w)
      PROVE  CacheInv'
    <2> USE <1>10 DEF RunJob, WorkerAt, CallerAt
    <2>1. idle_workers' = idle_workers
        OBVIOUS
    <2>3. CacheTypes'
        BY <2>1 DEF CacheTypes, WorkerPC, CallerPC
    <2>4. ChosenOnce'
        BY <2>1 DEF ChosenOnce, IdleIsFree, UnlockedHasJob, JobHasOwner, CacheTypes, Available
    <2>5. IdleIsFree'
        BY <2>1 DEF IdleIsFree, ChosenOnce, UnlockedHasJob, JobHasOwner, CacheTypes, Available
    <2>6. UnlockedHasJob'
        BY <2>1 DEF UnlockedHasJob, ChosenOnce, IdleIsFree, JobHasOwner, CacheTypes, Available
    <2>7. JobHasOwner'
        BY <2>1 DEF JobHasOwner, ChosenOnce, UnlockedHasJob, IdleIsFree, CurrentHasOwner,
           CacheTypes, Available
    <2>8. CurrentHasOwner'
        BY <2>1 DEF CurrentHasOwner, JobHasOwner, JobOnce, UnlockedHasJob, ChosenOnce,
           CacheTypes, Available
    <2>9. JobOnce'
        BY <2>1 DEF JobOnce, JobHasOwner, CurrentHasOwner, ChosenOnce, CacheTypes, Available
    <2>10. NoneForgotten'
        BY <2>1 DEF NoneForgotten, ChosenOnce, UnlockedHasJob, CurrentHasOwner, CacheTypes,
           Available
    <2>11. NotTooMany'
        <3>1. Live' \subseteq Live
            BY DEF Live, CacheTypes
        <3> QED
            BY <3>1, LiveShrinks
    <2> QED
        BY <2>3, <2>4, <2>5, <2>6, <2>7, <2>8, <2>9, <2>10, <2>11
<1>11. ASSUME NEW w \in Worker, MarkIdle(w)
      PROVE  CacheInv'
    <2> USE <1>11 DEF MarkIdle, WorkerAt, CallerAt
    <2>1. /\ idle_workers' \in Seq(Worker) /\ IsInjective(idle_workers')
          /\ ToSet(idle_workers') = ToSet(idle_workers) \cup {w}
        <3>1. idle_workers \in Seq(Worker) /\ IsInjective(idle_workers) /\ w \notin ToSet(idle_workers)
              /\ idle_workers' = Append(idle_workers, w)
            BY DEF CacheTypes, IdleIsFree, Available
        <3> QED
            BY ONLY <3>1, w \in Worker, AppendQueue, AppendDistinct
    <2>3. CacheTypes'
        BY <2>1 DEF CacheTypes, WorkerPC, CallerPC
    <2>4. ChosenOnce'
        BY <2>1 DEF ChosenOnce, IdleIsFree, UnlockedHasJob, JobHasOwner, CacheTypes, Available
    <2>5. IdleIsFree'
        BY <2>1 DEF IdleIsFree, ChosenOnce, UnlockedHasJob, JobHasOwner, CacheTypes, Available
    <2>6. UnlockedHasJob'
        BY <2>1 DEF UnlockedHasJob, ChosenOnce, IdleIsFree, JobHasOwner, CacheTypes, Available
    <2>7. JobHasOwner'
        BY <2>1 DEF JobHasOwner, ChosenOnce, UnlockedHasJob, IdleIsFree, CurrentHasOwner,
           CacheTypes, Available
    <2>8. CurrentHasOwner'
        BY <2>1 DEF CurrentHasOwner, JobHasOwner, JobOnce, UnlockedHasJob, ChosenOnce,
           CacheTypes, Available
    <2>9. JobOnce'
        BY <2>1 DEF JobOnce, JobHasOwner, CurrentHasOwner, ChosenOnce, CacheTypes, Available
    <2>10. NoneForgotten'
        BY <2>1 DEF NoneForgotten, ChosenOnce, UnlockedHasJob, CurrentHasOwner, CacheTypes,
           Available
    <2>11. NotTooMany'
        <3>1. Live' \subseteq Live
            BY DEF Live, CacheTypes
        <3> QED
            BY <3>1, LiveShrinks
    <2> QED
        BY <2>3, <2>4, <2>5, <2>6, <2>7, <2>8, <2>9, <2>10, <2>11
<1>12. ASSUME NEW w \in Worker, Deliver(w)
      PROVE  CacheInv'
    <2> USE <1>12 DEF Deliver, WorkerAt, CallerAt
    <2>1. idle_workers' = idle_workers
        OBVIOUS
    <2>2. PICK c \in Caller : c = current[w] /\ caller[c] = "submitted" /\ chosen[c] = Nobody
        BY DEF CurrentHasOwner, ChosenOnce, CacheTypes
    <2>a. caller' = [caller EXCEPT ![c] = "outside"]
        BY <2>2
    <2>3. CacheTypes'
        BY <2>1, <2>2, <2>a DEF CacheTypes, WorkerPC, CallerPC
    <2>4. ChosenOnce'
        BY <2>1, <2>2, <2>a DEF ChosenOnce, IdleIsFree, UnlockedHasJob, JobHasOwner,
           CurrentHasOwner, JobOnce, CacheTypes, Available
    <2>5. IdleIsFree'
        BY <2>1, <2>2, <2>a DEF IdleIsFree, ChosenOnce, UnlockedHasJob, JobHasOwner,
           CacheTypes, Available
    <2>6. UnlockedHasJob'
        BY <2>1, <2>2, <2>a DEF UnlockedHasJob, ChosenOnce, IdleIsFree, JobHasOwner,
           CacheTypes, Available
    <2>7. JobHasOwner'
        BY <2>1, <2>2, <2>a DEF JobHasOwner, ChosenOnce, UnlockedHasJob, IdleIsFree,
           CurrentHasOwner, JobOnce, CacheTypes, Available
    <2>8. CurrentHasOwner'
        BY <2>1, <2>2, <2>a DEF CurrentHasOwner, JobHasOwner, JobOnce, UnlockedHasJob,
           ChosenOnce, CacheTypes, Available
    <2>9. JobOnce'
        BY <2>1, <2>2, <2>a DEF JobOnce, JobHasOwner, CurrentHasOwner, ChosenOnce,
           CacheTypes, Available
    <2>10. NoneForgotten'
        BY <2>1, <2>2, <2>a DEF NoneForgotten, ChosenOnce, UnlockedHasJob, CurrentHasOwner,
           CacheTypes, Available
    <2>11. NotTooMany'
        <3>1. Live' \subseteq Live
            BY DEF Live, CacheTypes
        <3> QED
            BY <3>1, LiveShrinks
    <2> QED
        BY <2>3, <2>4, <2>5, <2>6, <2>7, <2>8, <2>9, <2>10, <2>11
<1>13. CASE UNCHANGED cacheVars
    <2> USE <1>13 DEF cacheVars
    <2>1. CacheTypes' /\ ChosenOnce' /\ IdleIsFree' /\ UnlockedHasJob' /\ JobHasOwner'
        BY DEF CacheTypes, ChosenOnce, IdleIsFree, UnlockedHasJob, JobHasOwner
    <2>2. CurrentHasOwner' /\ JobOnce' /\ NoneForgotten' /\ NotTooMany'
        BY DEF CurrentHasOwner, JobOnce, NoneForgotten, NotTooMany, Live
    <2> QED
        BY <2>1, <2>2
<1> QED
    BY <1>1, <1>2, <1>3, <1>4, <1>5, <1>6, <1>7, <1>8, <1>9, <1>10, <1>11, <1>12, <1>13
       DEF CacheNext, CallerStep, WorkerStep

\* A worker that was chosen is alive and chosen once, a submitted job is in
\* one place, and there are never more threads than callers: for every number
\* of callers and workers, whatever times out when.
THEOREM WorkersAccountedForThm == CacheSpec => []WorkersAccountedFor
<1>1. ASSUME CacheInv PROVE WorkersAccountedFor
    <2> USE <1>1 DEF CacheInv
    <2>1. CacheTypeOK
        <3>1. Cardinality(Idle) = Len(idle_workers)
            BY LenIsCardinality DEF CacheTypes, Idle
        <3> QED
            BY <3>1 DEF CacheTypeOK, CacheTypes
    <2>2. \A c, d \in Caller : c # d /\ chosen[c] # Nobody => chosen[c] # chosen[d]
        BY DEF ChosenOnce
    <2>3. \A c \in Caller : chosen[c] # Nobody =>
             worker[chosen[c]] # "dead" /\ chosen[c] \notin Idle \cup unlocked
        BY DEF ChosenOnce, Idle, Available
    <2>4. \A w \in Worker : worker[w] = "dead" => w \notin unlocked /\ job[w] = Nobody
        BY ThreadCacheAssumption DEF UnlockedHasJob, JobHasOwner, ChosenOnce, Available,
           CacheTypes
    <2>5. \A w \in unlocked : job[w] # Nobody
        BY DEF UnlockedHasJob
    <2>6. ASSUME NEW c \in Caller, caller[c] = "submitted"
          PROVE  Cardinality({w \in Worker : job[w] = c} \cup {w \in Worker : current[w] = c}) = 1
        <3>1. PICK v \in Worker : job[v] = c \/ current[v] = c
            BY <2>6 DEF JobOnce
        <3>2. \A w \in Worker : job[w] = c \/ current[w] = c => w = v
            BY <3>1, ThreadCacheAssumption DEF JobOnce
        <3>3. {w \in Worker : job[w] = c} \cup {w \in Worker : current[w] = c} = {v}
            BY <3>1, <3>2
        <3> QED
            BY <3>3, FS_Singleton
    <2>7. Cardinality({w \in Worker : worker[w] # "dead"}) <= Cardinality(Caller)
        BY DEF NotTooMany, Live
    <2> QED
        BY <2>1, <2>2, <2>3, <2>4, <2>5, <2>6, <2>7 DEF WorkersAccountedFor
<1> QED
    BY <1>1, CacheInvInit, CacheInvNext, PTL DEF CacheSpec

--------------------------------------------------------------------------------
(***************************************************************************)
(* Threads.                                                                *)
(***************************************************************************)

CallTypes ==
    /\ stage \in [Call -> Stage]
    /\ task_register \in [Call -> Task \cup {Nothing}]
    /\ in_call \in [Task -> Call \cup {Nothing}]
    /\ sent \in [Task -> {"none", "result", "Cancelled"}]
    /\ borrowers \in SUBSET Call
    /\ lot \in Seq(Call) /\ IsInjective(lot)
    /\ entry_queue \in Seq(Message) /\ IsInjective(entry_queue)
    /\ answer \in [Call -> {"none", "result", "Cancelled", "RunFinishedError"}]
    /\ asks \in [Call -> 0 .. MaxAsks]
    /\ system \in SUBSET Call
    /\ phase \in Phase

\* The limiter: who has a token, and who waits for one.
TokensInUse ==
    /\ \A c \in Call : stage[c] \in {"granted", "running", "asking", "reporting"} => c \in borrowers
    /\ phase # "done" =>
          \A c \in borrowers : stage[c] \in {"granted", "running", "asking", "reporting"}
    /\ \A c \in Call : c \in ToSet(lot) <=> stage[c] = "waiting"

TokenCount ==
    /\ IsFiniteSet(borrowers)
    /\ Cardinality(borrowers) <= total_tokens
    /\ lot # <<>> => Cardinality(borrowers) = total_tokens

\* A call that is under way belongs to its task until it is abandoned.
CallHasTask ==
    /\ \A c \in Call : stage[c] \in {"waiting", "granted"} => task_register[c] # Nothing
    /\ \A c \in Call :
          stage[c] \in {"waiting", "granted", "running", "asking", "reporting"}
          /\ task_register[c] # Nothing
          => in_call[task_register[c]] = c /\ sent[task_register[c]] = "none"

TaskHasCall ==
    /\ \A t \in Task : in_call[t] # Nothing =>
          stage[in_call[t]] # "unused" /\ task_register[in_call[t]] \in {t, Nothing}
    /\ \A t \in Task : sent[t] # "none" => in_call[t] # Nothing
    /\ phase # "main" => \A t \in Task : in_call[t] = Nothing

\* A thread has one message, system task or answer under way, and only while
\* it waits for it.
OneMessage ==
    /\ \A c \in Call : <<"report", c>> \in ToSet(entry_queue) => stage[c] = "reporting"
    /\ \A c \in Call : <<"sync", c>> \in ToSet(entry_queue) =>
          stage[c] = "asking" /\ answer[c] = "none" /\ c \notin system
          /\ <<"async", c>> \notin ToSet(entry_queue)
    /\ \A c \in Call : <<"async", c>> \in ToSet(entry_queue) =>
          stage[c] = "asking" /\ answer[c] = "none" /\ c \notin system
    /\ \A c \in system : stage[c] = "asking" /\ answer[c] = "none"
    /\ \A c \in Call : answer[c] # "none" => stage[c] = "asking"

CallInv ==
    CallTypes /\ TokensInUse /\ TokenCount /\ CallHasTask /\ TaskHasCall /\ OneMessage

\* A new limiter: everything is free and nobody is anywhere.
LEMMA CallInvInit == ThreadsInit => CallInv
<1> SUFFICES ASSUME ThreadsInit PROVE CallInv
    OBVIOUS
<1> USE ThreadsAssumption DEF ThreadsInit
<1>1. ToSet(lot) = {} /\ ToSet(entry_queue) = {} /\ IsInjective(lot) /\ IsInjective(entry_queue)
    BY EmptyQueue
<1>2. CallTypes
    BY <1>1 DEF CallTypes, Stage, Phase
<1>3. TokensInUse /\ CallHasTask /\ TaskHasCall /\ OneMessage
    BY <1>1 DEF TokensInUse, CallHasTask, TaskHasCall, OneMessage
<1>4. TokenCount
    BY FS_EmptySet DEF TokenCount
<1> QED
    BY <1>2, <1>3, <1>4 DEF CallInv

\* What giving a token back does to the limiter and to the other calls.
LEMMA ReleaseKeeps ==
    ASSUME CallInv, NEW c \in Call, ReleaseToken(c), phase # "done", phase' = phase,
           stage[c] \in {"granted", "reporting"}
    PROVE  /\ lot' \in Seq(Call) /\ IsInjective(lot') /\ borrowers' \in SUBSET Call
           /\ stage' \in [Call -> Stage] /\ stage'[c] = "over"
           /\ \A d \in Call : d # c => stage'[d] = stage[d] \/ (stage[d] = "waiting" /\ stage'[d] = "granted")
           /\ TokensInUse' /\ TokenCount'
<1> USE ThreadsAssumption DEF CallInv
<1>0. /\ lot \in Seq(Call) /\ IsInjective(lot) /\ c \in borrowers /\ IsFiniteSet(borrowers)
      /\ Cardinality(borrowers) <= total_tokens /\ total_tokens \in Nat /\ Cardinality(borrowers) \in Nat
    BY FS_CardinalityType DEF CallTypes, TokensInUse, TokenCount
<1>1. CASE lot = <<>>
    <2>1. /\ borrowers' = borrowers \ {c} /\ lot' = lot /\ stage' = [stage EXCEPT ![c] = "over"]
        BY <1>1 DEF ReleaseToken
    <2>2. IsFiniteSet(borrowers') /\ Cardinality(borrowers') <= Cardinality(borrowers)
        <3>1. borrowers' \in SUBSET borrowers
            BY <2>1
        <3> QED
            BY ONLY <3>1, <1>0, FS_Subset
    <2>3. TokenCount'
        <3>1. Cardinality(borrowers') \in Nat
            BY ONLY <2>2, FS_CardinalityType
        <3> QED
            BY ONLY <3>1, <2>1, <2>2, <1>0, <1>1 DEF TokenCount
    <2>4. TokensInUse'
        BY <2>1 DEF TokensInUse, CallTypes
    <2> QED
        BY <1>0, <2>1, <2>3, <2>4 DEF CallTypes, Stage
<1>2. CASE lot # <<>>
    <2>1. PICK d \in Call : d = Head(lot)
        BY ONLY <1>0, <1>2, TailQueue
    <2>2. /\ lot' = Tail(lot) /\ lot' \in Seq(Call) /\ IsInjective(lot') /\ d \in ToSet(lot)
          /\ ToSet(lot') = ToSet(lot) \ {d}
        <3>1. lot' = Tail(lot)
            BY <1>2 DEF ReleaseToken
        <3> QED
            BY ONLY <1>0, <1>2, <2>1, <3>1, TailQueue, TailDistinct
    <2>3. stage[d] = "waiting" /\ d # c /\ d \notin borrowers
        BY <2>2 DEF TokensInUse
    <2>4. /\ borrowers' = (borrowers \ {c}) \cup {d}
          /\ stage' = [stage EXCEPT ![c] = "over", ![d] = "granted"]
        BY <1>2, <2>1 DEF ReleaseToken
    <2>5. stage' \in [Call -> Stage] /\ stage'[c] = "over" /\ stage'[d] = "granted"
          /\ \A e \in Call : e # c /\ e # d => stage'[e] = stage[e]
        BY <2>3, <2>4 DEF CallTypes, Stage
    <2>6. IsFiniteSet(borrowers') /\ Cardinality(borrowers') = Cardinality(borrowers)
        <3>1. IsFiniteSet(borrowers \ {c}) /\ Cardinality(borrowers \ {c}) = Cardinality(borrowers) - 1
            BY ONLY <1>0, FS_RemoveElement
        <3>2. d \notin borrowers \ {c}
            BY <2>3
        <3>3. Cardinality((borrowers \ {c}) \cup {d}) = Cardinality(borrowers \ {c}) + 1
              /\ IsFiniteSet((borrowers \ {c}) \cup {d})
            BY ONLY <3>1, <3>2, FS_AddElement
        <3> QED
            BY ONLY <1>0, <3>1, <3>3, <2>4
    <2>7. TokenCount'
        BY <1>0, <1>2, <2>6 DEF TokenCount
    <2>8. TokensInUse'
        BY <2>2, <2>3, <2>4, <2>5 DEF TokensInUse, CallTypes
    <2> QED
        BY <2>2, <2>3, <2>4, <2>5, <2>7, <2>8 DEF CallTypes
<1> QED
    BY <1>1, <1>2

\* Every step of a task, a thread or the run keeps the tokens, the calls and
\* the messages together.
LEMMA CallInvNext ==
    ASSUME CallInv, [ThreadsNext]_threadVars
    PROVE  CallInv'
<1> USE ThreadsAssumption DEF CallInv
<1>1. ASSUME NEW t \in Task, NEW c \in Call, Start(t, c)
      PROVE  CallInv'
    <2> USE <1>1 DEF Start
    <2>0. task_register' = [task_register EXCEPT ![c] = t] /\ in_call' = [in_call EXCEPT ![t] = c]
          /\ sent[t] = "none" /\ phase = "main" /\ UNCHANGED <<sent, entry_queue, answer, asks, system, phase>>
        BY DEF TaskHasCall
    <2>1. CASE Cardinality(borrowers) < total_tokens /\ lot = <<>>
        <3>1. borrowers' = borrowers \cup {c} /\ stage' = [stage EXCEPT ![c] = "granted"] /\ lot' = lot
            BY <2>1
        <3>2. IsFiniteSet(borrowers') /\ Cardinality(borrowers') <= Cardinality(borrowers) + 1
              /\ Cardinality(borrowers) \in Nat /\ Cardinality(borrowers') \in Nat
            <4>0. IsFiniteSet(borrowers)
                BY DEF TokenCount
            <4>1. Cardinality(borrowers) \in Nat
                BY ONLY <4>0, FS_CardinalityType
            <4>2. /\ IsFiniteSet(borrowers \cup {c})
                  /\ Cardinality(borrowers \cup {c}) = IF c \in borrowers THEN Cardinality(borrowers) ELSE Cardinality(borrowers) + 1
                BY ONLY <4>0, FS_AddElement, Zenon
            <4> HIDE <1>1
            <4> QED
                BY ONLY <3>1, <4>1, <4>2
        <3>3. CallTypes'
            BY <2>0, <2>1, <3>1, <3>2 DEF CallTypes, Stage, Phase, Message
        <3>4. TokensInUse'
            BY <2>0, <2>1, <3>1, <3>2 DEF TokensInUse, CallTypes
        <3>5. TokenCount'
            <4>1. total_tokens \in Nat
                OBVIOUS
            <4> QED
                BY ONLY <2>1, <3>1, <3>2, <4>1 DEF TokenCount
        <3>6. CallHasTask'
            BY <2>0, <2>1, <3>1, <3>2 DEF CallHasTask, TaskHasCall, CallTypes
        <3>7. TaskHasCall'
            BY <2>0, <2>1, <3>1, <3>2 DEF TaskHasCall, CallHasTask, CallTypes
        <3>8. OneMessage'
            BY <2>0, <2>1, <3>1, <3>2 DEF OneMessage, CallTypes, TokensInUse
        <3> QED
            BY <3>3, <3>4, <3>5, <3>6, <3>7, <3>8
    <2>2. CASE ~(Cardinality(borrowers) < total_tokens /\ lot = <<>>)
        <3>0. lot' = Append(lot, c) /\ stage' = [stage EXCEPT ![c] = "waiting"] /\ borrowers' = borrowers
            BY <2>2
        <3>1. lot' \in Seq(Call) /\ IsInjective(lot') /\ ToSet(lot') = ToSet(lot) \cup {c}
            <4>1. lot \in Seq(Call) /\ IsInjective(lot) /\ c \notin ToSet(lot)
                BY DEF CallTypes, TokensInUse
            <4> QED
                BY ONLY <3>0, <4>1, c \in Call, AppendQueue, AppendDistinct
        <3>3. CallTypes'
            BY <2>0, <3>0, <3>1 DEF CallTypes, Stage, Phase, Message
        <3>4. TokensInUse'
            BY <2>0, <3>0, <3>1 DEF TokensInUse, CallTypes
        <3>5. TokenCount'
            <4>1. Cardinality(borrowers) \in Nat /\ total_tokens \in Nat
                BY FS_CardinalityType DEF TokenCount
            <4>2. Cardinality(borrowers) = total_tokens
                BY <2>2, <4>1 DEF TokenCount
            <4> QED
                BY <3>0, <4>2 DEF TokenCount
        <3>6. CallHasTask'
            BY <2>0, <3>0, <3>1 DEF CallHasTask, TaskHasCall, CallTypes
        <3>7. TaskHasCall'
            BY <2>0, <3>0, <3>1 DEF TaskHasCall, CallHasTask, CallTypes
        <3>8. OneMessage'
            BY <2>0, <3>0, <3>1 DEF OneMessage, CallTypes, TokensInUse
        <3> QED
            BY <3>3, <3>4, <3>5, <3>6, <3>7, <3>8
    <2> QED
        BY <2>1, <2>2
<1>2. ASSUME NEW t \in Task, StartThread(t)
      PROVE  CallInv'
    <2> USE <1>2 DEF StartThread
    <2>1. lot' = lot /\ entry_queue' = entry_queue
        OBVIOUS
    <2>2. PICK c \in Call : c = in_call[t]
        BY DEF CallTypes
    <2>3. CallTypes'
        BY <2>1, <2>2 DEF CallTypes, Stage, Phase, Message
    <2>4. TokensInUse'
        BY <2>1, <2>2 DEF TokensInUse, CallTypes
    <2>5. TokenCount'
        BY <2>1, <2>2 DEF TokenCount
    <2>6. CallHasTask'
        BY <2>1, <2>2 DEF CallHasTask, TaskHasCall, CallTypes
    <2>7. TaskHasCall'
        BY <2>1, <2>2 DEF TaskHasCall, CallHasTask, CallTypes
    <2>8. OneMessage'
        BY <2>1, <2>2 DEF OneMessage, CallTypes, TokensInUse
    <2> QED
        BY <2>3, <2>4, <2>5, <2>6, <2>7, <2>8
<1>3. ASSUME NEW t \in Task, StartThreadFails(t)
      PROVE  CallInv'
    <2> USE <1>3 DEF StartThreadFails
    <2>2. PICK c \in Call : c = in_call[t]
        BY DEF CallTypes
    <2>0. stage[c] = "granted" /\ task_register[c] = t /\ in_call[t] = c /\ sent[t] = "none" /\ phase = "main"
        BY <2>2 DEF CallHasTask, TaskHasCall, CallTypes
    <2>1. /\ lot' \in Seq(Call) /\ IsInjective(lot') /\ borrowers' \in SUBSET Call
          /\ stage' \in [Call -> Stage] /\ stage'[c] = "over"
          /\ \A d \in Call : d # c => stage'[d] = stage[d] \/ (stage[d] = "waiting" /\ stage'[d] = "granted")
          /\ TokensInUse' /\ TokenCount'
        BY <2>0, <2>2, ReleaseKeeps
    <2>a. in_call' = [in_call EXCEPT ![t] = Nothing] /\ UNCHANGED <<task_register, sent, entry_queue, answer, asks, system, phase>>
        OBVIOUS
    <2> HIDE <1>3
    <2>3. CallTypes'
        BY <2>0, <2>1, <2>2, <2>a DEF CallTypes, Stage, Phase, Message
    <2>4. TokensInUse'
        BY <2>0, <2>1, <2>2, <2>a DEF TokensInUse, CallTypes
    <2>5. TokenCount'
        BY <2>0, <2>1, <2>2, <2>a DEF TokenCount
    <2>6. CallHasTask'
        BY <2>0, <2>1, <2>2, <2>a DEF CallHasTask, TaskHasCall, CallTypes
    <2>7. TaskHasCall'
        <3>1. \A u \in Task : u # t => in_call'[u] = in_call[u]
            BY <2>a DEF CallTypes
        <3>2. in_call'[t] = Nothing /\ \A d \in Call : stage'[d] = "unused" => stage[d] = "unused"
            BY <2>1, <2>a DEF CallTypes
        <3>3. \A d \in Call : stage[d] # "unused" => stage'[d] # "unused"
            BY <2>1, <3>2
        <3>4. in_call \in [Task -> Call \cup {Nothing}] /\ task_register' = task_register
              /\ sent' = sent /\ phase' = phase /\ phase = "main" /\ sent[t] = "none"
            BY <2>0, <2>a DEF CallTypes
        <3> QED
            BY ONLY <3>1, <3>2, <3>3, <3>4, TaskHasCall, t \in Task DEF TaskHasCall
    <2>8. OneMessage'
        BY <2>0, <2>1, <2>2, <2>a, ZenonT(30) DEF OneMessage, CallTypes, TokensInUse
    <2> QED
        BY <2>3, <2>4, <2>5, <2>6, <2>7, <2>8
<1>4. ASSUME NEW t \in Task, CancelWaiting(t)
      PROVE  CallInv'
    <2> USE <1>4 DEF CancelWaiting
    <2>2. PICK c \in Call : c = in_call[t]
        BY DEF CallTypes
    <2>0. stage[c] = "waiting" /\ task_register[c] = t /\ in_call[t] = c /\ sent[t] = "none" /\ phase = "main"
        BY <2>2 DEF CallHasTask, TaskHasCall, CallTypes
    <2>1. lot' \in Seq(Call) /\ IsInjective(lot') /\ ToSet(lot') = ToSet(lot) \ {c} /\ lot # <<>>
        <3>1. PICK i \in 1 .. Len(lot) : lot[i] = c /\ lot' = RemoveAt(lot, i)
            BY <2>2
        <3>2. lot \in Seq(Call) /\ IsInjective(lot)
            BY DEF CallTypes
        <3>3. lot # <<>>
            BY ONLY <3>1, <3>2, EmptyLen
        <3> QED
            BY ONLY <3>1, <3>2, <3>3, RemoveAtQueue, RemoveAtDistinct
    <2>a. /\ stage' = [stage EXCEPT ![c] = "over"] /\ in_call' = [in_call EXCEPT ![t] = Nothing]
          /\ UNCHANGED <<task_register, sent, borrowers, entry_queue, answer, asks, system, phase>>
        BY <2>2
    <2> HIDE <1>4
    <2>3. CallTypes'
        BY <2>0, <2>1, <2>2, <2>a DEF CallTypes, Stage, Phase, Message
    <2>4. TokensInUse'
        BY <2>0, <2>1, <2>2, <2>a DEF TokensInUse, CallTypes
    <2>5. TokenCount'
        BY <2>0, <2>1, <2>2, <2>a DEF TokenCount
    <2>6. CallHasTask'
        BY <2>0, <2>1, <2>2, <2>a DEF CallHasTask, TaskHasCall, CallTypes
    <2>7. TaskHasCall'
        BY <2>0, <2>1, <2>2, <2>a DEF TaskHasCall, CallHasTask, CallTypes
    <2>8. OneMessage'
        BY <2>0, <2>1, <2>2, <2>a DEF OneMessage, CallTypes, TokensInUse
    <2> QED
        BY <2>3, <2>4, <2>5, <2>6, <2>7, <2>8
<1>5. ASSUME NEW t \in Task, Abandon(t)
      PROVE  CallInv'
    <2> USE <1>5 DEF Abandon, Asleep
    <2>1. lot' = lot /\ entry_queue' = entry_queue
        OBVIOUS
    <2>2. PICK c \in Call : c = in_call[t]
        BY DEF CallTypes
    <2>3. CallTypes'
        BY <2>1, <2>2 DEF CallTypes, Stage, Phase, Message
    <2>4. TokensInUse'
        BY <2>1, <2>2 DEF TokensInUse, CallTypes
    <2>5. TokenCount'
        BY <2>1, <2>2 DEF TokenCount
    <2>6. CallHasTask'
        BY <2>1, <2>2 DEF CallHasTask, TaskHasCall, CallTypes
    <2>7. TaskHasCall'
        BY <2>1, <2>2 DEF TaskHasCall, CallHasTask, CallTypes
    <2>8. OneMessage'
        BY <2>1, <2>2 DEF OneMessage, CallTypes, TokensInUse
    <2> QED
        BY <2>3, <2>4, <2>5, <2>6, <2>7, <2>8
<1>6. ASSUME NEW t \in Task, Return(t)
      PROVE  CallInv'
    <2> USE <1>6 DEF Return
    <2>1. lot' = lot /\ entry_queue' = entry_queue
        OBVIOUS
    <2>3. CallTypes'
        BY <2>1 DEF CallTypes, Stage, Phase, Message
    <2>4. TokensInUse'
        BY <2>1 DEF TokensInUse, CallTypes
    <2>5. TokenCount'
        BY <2>1 DEF TokenCount
    <2>6. CallHasTask'
        BY <2>1 DEF CallHasTask, TaskHasCall, CallTypes
    <2>7. TaskHasCall'
        BY <2>1 DEF TaskHasCall, CallHasTask, CallTypes
    <2>8. OneMessage'
        BY <2>1 DEF OneMessage, CallTypes, TokensInUse
    <2> QED
        BY <2>3, <2>4, <2>5, <2>6, <2>7, <2>8
<1>7. ASSUME NEW c \in Call, NEW kind \in {"sync", "async"}, Ask(c, kind)
      PROVE  CallInv'
    <2> USE <1>7 DEF Ask
    <2>0. asks' = [asks EXCEPT ![c] = asks[c] + 1] /\ asks'[c] \in 0 .. MaxAsks /\ asks' \in [Call -> 0 .. MaxAsks]
        BY DEF CallTypes
    <2>a. CASE phase = "done"
        <3>1. UNCHANGED <<stage, task_register, in_call, sent, borrowers, lot, entry_queue, answer, system, phase>>
            BY <2>a
        <3> HIDE <1>7
        <3>3. CallTypes'
            BY <2>0, <3>1 DEF CallTypes, Stage, Phase, Message
        <3>4. TokensInUse'
            BY <2>0, <3>1 DEF TokensInUse, CallTypes
        <3>5. TokenCount'
            BY <2>0, <3>1 DEF TokenCount
        <3>6. CallHasTask'
            BY <2>0, <3>1 DEF CallHasTask, TaskHasCall, CallTypes
        <3>7. TaskHasCall'
            BY <2>0, <3>1 DEF TaskHasCall, CallHasTask, CallTypes
        <3>8. OneMessage'
            BY <2>0, <3>1 DEF OneMessage, CallTypes, TokensInUse
        <3> QED
            BY <3>3, <3>4, <3>5, <3>6, <3>7, <3>8
    <2>b. CASE phase # "done"
        <3>0. entry_queue' = Append(entry_queue, <<kind, c>>) /\ stage' = [stage EXCEPT ![c] = "asking"]
              /\ UNCHANGED <<task_register, in_call, sent, borrowers, lot, answer, system, phase>>
              /\ stage[c] = "running"
            BY <2>b
        <3>1. /\ entry_queue' \in Seq(Message) /\ IsInjective(entry_queue')
              /\ ToSet(entry_queue') = ToSet(entry_queue) \cup {<<kind, c>>}
            <4>1. entry_queue \in Seq(Message) /\ IsInjective(entry_queue)
                BY DEF CallTypes
            <4>2. <<kind, c>> \in Message /\ <<kind, c>> \notin ToSet(entry_queue)
                BY DEF OneMessage, Message
            <4> QED
                BY ONLY <3>0, <4>1, <4>2, AppendQueue, AppendDistinct
        <3> HIDE <1>7
        <3>3. CallTypes'
            BY <2>0, <3>0, <3>1 DEF CallTypes, Stage, Phase, Message
        <3>4. TokensInUse'
            BY <2>0, <3>0, <3>1 DEF TokensInUse, CallTypes
        <3>5. TokenCount'
            BY <2>0, <3>0, <3>1 DEF TokenCount
        <3>6. CallHasTask'
            BY <2>0, <3>0, <3>1 DEF CallHasTask, TaskHasCall, CallTypes
        <3>7. TaskHasCall'
            BY <2>0, <3>0, <3>1 DEF TaskHasCall, CallHasTask, CallTypes
        <3>8. OneMessage'
            <4>1. /\ stage'[c] = "asking" /\ stage[c] = "running" /\ answer' = answer /\ system' = system
                  /\ \A d \in Call : d # c => stage'[d] = stage[d]
                BY <3>0 DEF CallTypes
            <4>2. ASSUME NEW d \in Call, NEW k \in {"report", "sync", "async"}
                  PROVE  <<k, d>> \in ToSet(entry_queue') <=>
                            <<k, d>> \in ToSet(entry_queue) \/ (k = kind /\ d = c)
                BY <3>1
            <4>3. answer[c] = "none" /\ c \notin system
                BY <4>1 DEF OneMessage
            <4>4. kind \in {"sync", "async"} /\ system \subseteq Call
                BY <2>0 DEF CallTypes
            <4>5. OneMessage
                OBVIOUS
            <4> QED
                BY ONLY <4>1, <4>2, <4>3, <4>4, <4>5, c \in Call DEF OneMessage
        <3> QED
            BY <3>3, <3>4, <3>5, <3>6, <3>7, <3>8
    <2> QED
        BY <2>a, <2>b
<1>8. ASSUME NEW c \in Call, GetAnswer(c)
      PROVE  CallInv'
    <2> USE <1>8 DEF GetAnswer
    <2>1. lot' = lot /\ entry_queue' = entry_queue
        OBVIOUS
    <2>3. CallTypes'
        BY <2>1 DEF CallTypes, Stage, Phase, Message
    <2>4. TokensInUse'
        BY <2>1 DEF TokensInUse, CallTypes
    <2>5. TokenCount'
        BY <2>1 DEF TokenCount
    <2>6. CallHasTask'
        BY <2>1 DEF CallHasTask, TaskHasCall, CallTypes
    <2>7. TaskHasCall'
        BY <2>1 DEF TaskHasCall, CallHasTask, CallTypes
    <2>8. OneMessage'
        BY <2>1 DEF OneMessage, CallTypes, TokensInUse
    <2> QED
        BY <2>3, <2>4, <2>5, <2>6, <2>7, <2>8
<1>9. ASSUME NEW c \in Call, Finish(c)
      PROVE  CallInv'
    <2> USE <1>9 DEF Finish
    <2>a. CASE phase = "done"
        <3>1. stage' = [stage EXCEPT ![c] = "over"] /\ stage[c] = "running"
              /\ UNCHANGED <<task_register, in_call, sent, borrowers, lot, entry_queue, answer, asks, system, phase>>
            BY <2>a
        <3> HIDE <1>9
        <3>3. CallTypes'
            BY <2>a, <3>1 DEF CallTypes, Stage, Phase, Message
        <3>4. TokensInUse'
            BY <2>a, <3>1 DEF TokensInUse, CallTypes
        <3>5. TokenCount'
            BY <2>a, <3>1 DEF TokenCount
        <3>6. CallHasTask'
            BY <2>a, <3>1 DEF CallHasTask, TaskHasCall, CallTypes
        <3>7. TaskHasCall'
            BY <2>a, <3>1 DEF TaskHasCall, CallHasTask, CallTypes
        <3>8. OneMessage'
            BY <2>a, <3>1 DEF OneMessage, CallTypes, TokensInUse
        <3> QED
            BY <3>3, <3>4, <3>5, <3>6, <3>7, <3>8
    <2>b. CASE phase # "done"
        <3>0. entry_queue' = Append(entry_queue, <<"report", c>>) /\ stage' = [stage EXCEPT ![c] = "reporting"]
              /\ UNCHANGED <<task_register, in_call, sent, borrowers, lot, answer, asks, system, phase>>
              /\ stage[c] = "running"
            BY <2>b
        <3>1. /\ entry_queue' \in Seq(Message) /\ IsInjective(entry_queue')
              /\ ToSet(entry_queue') = ToSet(entry_queue) \cup {<<"report", c>>}
            <4>1. entry_queue \in Seq(Message) /\ IsInjective(entry_queue)
                BY DEF CallTypes
            <4>2. <<"report", c>> \in Message /\ <<"report", c>> \notin ToSet(entry_queue)
                BY DEF OneMessage, Message
            <4> QED
                BY ONLY <3>0, <4>1, <4>2, AppendQueue, AppendDistinct
        <3> HIDE <1>9
        <3>3. CallTypes'
            BY <3>0, <3>1 DEF CallTypes, Stage, Phase, Message
        <3>4. TokensInUse'
            BY <3>0, <3>1 DEF TokensInUse, CallTypes
        <3>5. TokenCount'
            BY <3>0, <3>1 DEF TokenCount
        <3>6. CallHasTask'
            BY <3>0, <3>1 DEF CallHasTask, TaskHasCall, CallTypes
        <3>7. TaskHasCall'
            BY <3>0, <3>1 DEF TaskHasCall, CallHasTask, CallTypes
        <3>8. OneMessage'
            BY <3>0, <3>1, ZenonT(30) DEF OneMessage, CallTypes, TokensInUse
        <3> QED
            BY <3>3, <3>4, <3>5, <3>6, <3>7, <3>8
    <2> QED
        BY <2>a, <2>b
<1>10. ASSUME NEW c \in Call, ReportBack(c)
      PROVE  CallInv'
    <2> USE <1>10 DEF ReportBack
    <2>1. /\ entry_queue' \in Seq(Message) /\ IsInjective(entry_queue')
          /\ ToSet(entry_queue') = ToSet(entry_queue) \ {<<"report", c>>} /\ <<"report", c>> \in ToSet(entry_queue)
        <3>1. /\ entry_queue \in Seq(Message) /\ IsInjective(entry_queue) /\ entry_queue # <<>>
              /\ Head(entry_queue) = <<"report", c>> /\ entry_queue' = Tail(entry_queue)
            BY DEF CallTypes, NextMessage
        <3> QED
            BY ONLY <3>1, TailQueue, TailDistinct
    <2>2. stage[c] = "reporting" /\ phase # "done" /\ UNCHANGED <<task_register, in_call, answer, asks, system, phase>>
        BY <2>1 DEF OneMessage, NextMessage
    <2>9. /\ lot' \in Seq(Call) /\ IsInjective(lot') /\ borrowers' \in SUBSET Call
          /\ stage' \in [Call -> Stage] /\ stage'[c] = "over"
          /\ \A d \in Call : d # c => stage'[d] = stage[d] \/ (stage[d] = "waiting" /\ stage'[d] = "granted")
          /\ TokensInUse' /\ TokenCount'
        BY <2>2, ReleaseKeeps
    <2>a. \A t \in Task : IF task_register[c] = t THEN sent'[t] = "result" /\ in_call[t] = c ELSE sent'[t] = sent[t]
        BY <2>2 DEF CallHasTask, CallTypes
    <2>b. sent' \in [Task -> {"none", "result", "Cancelled"}]
        BY DEF CallTypes
    <2> HIDE <1>10
    <2>3. CallTypes'
        BY <2>1, <2>2, <2>9, <2>a, <2>b DEF CallTypes, Stage, Phase, Message
    <2>4. TokensInUse'
        BY <2>1, <2>2, <2>9, <2>a, <2>b DEF TokensInUse, CallTypes
    <2>5. TokenCount'
        BY <2>1, <2>2, <2>9, <2>a, <2>b DEF TokenCount
    <2>6. CallHasTask'
        BY <2>1, <2>2, <2>9, <2>a, <2>b DEF CallHasTask, TaskHasCall, CallTypes
    <2>7. TaskHasCall'
        BY <2>1, <2>2, <2>9, <2>a, <2>b DEF TaskHasCall, CallHasTask, CallTypes
    <2>8. OneMessage'
        <3>1. /\ answer' = answer /\ system' = system /\ stage[c] = "reporting" /\ system \subseteq Call
              /\ ToSet(entry_queue') = ToSet(entry_queue) \ {<<"report", c>>} /\ OneMessage
            BY <2>1, <2>2 DEF CallTypes
        <3>2. \A d \in Call : d # c /\ stage[d] \in {"asking", "reporting"} => stage'[d] = stage[d]
            BY <2>9
        <3>3. answer[c] = "none" /\ c \notin system /\ <<"sync", c>> \notin ToSet(entry_queue)
              /\ <<"async", c>> \notin ToSet(entry_queue)
            BY <3>1 DEF OneMessage
        <3>4. \A d \in Call : <<"report", d>> \in ToSet(entry_queue') => d # c
            BY <3>1
        <3> QED
            BY ONLY <3>1, <3>2, <3>3, <3>4, c \in Call DEF OneMessage
    <2> QED
        BY <2>3, <2>4, <2>5, <2>6, <2>7, <2>8
<1>11. ASSUME NEW c \in Call, AnswerSync(c)
      PROVE  CallInv'
    <2> USE <1>11 DEF AnswerSync
    <2>1. /\ entry_queue' \in Seq(Message) /\ IsInjective(entry_queue')
          /\ ToSet(entry_queue') = ToSet(entry_queue) \ {<<"sync", c>>} /\ <<"sync", c>> \in ToSet(entry_queue)
        <3>1. /\ entry_queue \in Seq(Message) /\ IsInjective(entry_queue) /\ entry_queue # <<>>
              /\ Head(entry_queue) = <<"sync", c>> /\ entry_queue' = Tail(entry_queue)
            BY DEF CallTypes, NextMessage
        <3> QED
            BY ONLY <3>1, TailQueue, TailDistinct
    <2>3. CallTypes'
        BY <2>1 DEF CallTypes, Stage, Phase, Message
    <2>4. TokensInUse'
        BY <2>1 DEF TokensInUse, CallTypes
    <2>5. TokenCount'
        BY <2>1 DEF TokenCount
    <2>6. CallHasTask'
        BY <2>1 DEF CallHasTask, TaskHasCall, CallTypes
    <2>7. TaskHasCall'
        BY <2>1 DEF TaskHasCall, CallHasTask, CallTypes
    <2>8. OneMessage'
        BY <2>1, ZenonT(30) DEF OneMessage, CallTypes, TokensInUse
    <2> QED
        BY <2>3, <2>4, <2>5, <2>6, <2>7, <2>8
<1>12. ASSUME NEW c \in Call, AnswerAsync(c)
      PROVE  CallInv'
    <2> USE <1>12 DEF AnswerAsync
    <2>1. /\ entry_queue' \in Seq(Message) /\ IsInjective(entry_queue')
          /\ ToSet(entry_queue') = ToSet(entry_queue) \ {<<"async", c>>} /\ <<"async", c>> \in ToSet(entry_queue)
        <3>1. /\ entry_queue \in Seq(Message) /\ IsInjective(entry_queue) /\ entry_queue # <<>>
              /\ Head(entry_queue) = <<"async", c>> /\ entry_queue' = Tail(entry_queue)
            BY DEF CallTypes, NextMessage
        <3> QED
            BY ONLY <3>1, TailQueue, TailDistinct
    <2>3. CallTypes'
        BY <2>1 DEF CallTypes, Stage, Phase, Message
    <2>4. TokensInUse'
        BY <2>1 DEF TokensInUse, CallTypes
    <2>5. TokenCount'
        BY <2>1 DEF TokenCount
    <2>6. CallHasTask'
        BY <2>1 DEF CallHasTask, TaskHasCall, CallTypes
    <2>7. TaskHasCall'
        BY <2>1 DEF TaskHasCall, CallHasTask, CallTypes
    <2>8. OneMessage'
        BY <2>1 DEF OneMessage, CallTypes, TokensInUse
    <2> QED
        BY <2>3, <2>4, <2>5, <2>6, <2>7, <2>8
<1>13. ASSUME NEW c \in Call, SystemTaskEnds(c)
      PROVE  CallInv'
    <2> USE <1>13 DEF SystemTaskEnds
    <2>1. lot' = lot /\ entry_queue' = entry_queue
        OBVIOUS
    <2>2. PICK a \in {"result", "Cancelled"} : answer' = [answer EXCEPT ![c] = a]
        OBVIOUS
    <2>9. phase' \in Phase /\ (phase' = "done" <=> phase = "done") /\ (phase' = "main" <=> phase = "main")
        BY DEF CallTypes, Phase
    <2>3. CallTypes'
        BY <2>1, <2>2, <2>9 DEF CallTypes, Stage, Phase, Message
    <2>4. TokensInUse'
        BY <2>1, <2>2, <2>9 DEF TokensInUse, CallTypes
    <2>5. TokenCount'
        BY <2>1, <2>2, <2>9 DEF TokenCount
    <2>6. CallHasTask'
        BY <2>1, <2>2, <2>9 DEF CallHasTask, TaskHasCall, CallTypes
    <2>7. TaskHasCall'
        BY <2>1, <2>2, <2>9 DEF TaskHasCall, CallHasTask, CallTypes
    <2>8. OneMessage'
        BY <2>1, <2>2, <2>9 DEF OneMessage, CallTypes, TokensInUse
    <2> QED
        BY <2>3, <2>4, <2>5, <2>6, <2>7, <2>8
<1>14. ASSUME MainTaskEnds
      PROVE  CallInv'
    <2> USE <1>14 DEF MainTaskEnds
    <2>1. lot' = lot /\ entry_queue' = entry_queue
        OBVIOUS
    <2>3. CallTypes'
        BY <2>1 DEF CallTypes, Stage, Phase, Message
    <2>4. TokensInUse'
        BY <2>1 DEF TokensInUse, CallTypes
    <2>5. TokenCount'
        BY <2>1 DEF TokenCount
    <2>6. CallHasTask'
        BY <2>1 DEF CallHasTask, TaskHasCall, CallTypes
    <2>7. TaskHasCall'
        BY <2>1 DEF TaskHasCall, CallHasTask, CallTypes
    <2>8. OneMessage'
        BY <2>1 DEF OneMessage, CallTypes, TokensInUse
    <2> QED
        BY <2>3, <2>4, <2>5, <2>6, <2>7, <2>8
<1>15. ASSUME RunFinishes
      PROVE  CallInv'
    <2> USE <1>15 DEF RunFinishes
    <2>1. lot' = lot /\ entry_queue' = entry_queue
        OBVIOUS
    <2>3. CallTypes'
        BY <2>1 DEF CallTypes, Stage, Phase, Message
    <2>4. TokensInUse'
        BY <2>1 DEF TokensInUse, CallTypes
    <2>5. TokenCount'
        BY <2>1 DEF TokenCount
    <2>6. CallHasTask'
        BY <2>1 DEF CallHasTask, TaskHasCall, CallTypes
    <2>7. TaskHasCall'
        BY <2>1 DEF TaskHasCall, CallHasTask, CallTypes
    <2>8. OneMessage'
        BY <2>1 DEF OneMessage, CallTypes, TokensInUse
    <2> QED
        BY <2>3, <2>4, <2>5, <2>6, <2>7, <2>8
<1>16. ASSUME UNCHANGED threadVars
      PROVE  CallInv'
    <2> USE <1>16 DEF threadVars
    <2>1. lot' = lot /\ entry_queue' = entry_queue
        OBVIOUS
    <2>3. CallTypes'
        BY <2>1 DEF CallTypes, Stage, Phase, Message
    <2>4. TokensInUse'
        BY <2>1 DEF TokensInUse, CallTypes
    <2>5. TokenCount'
        BY <2>1 DEF TokenCount
    <2>6. CallHasTask'
        BY <2>1 DEF CallHasTask, TaskHasCall, CallTypes
    <2>7. TaskHasCall'
        BY <2>1 DEF TaskHasCall, CallHasTask, CallTypes
    <2>8. OneMessage'
        BY <2>1 DEF OneMessage, CallTypes, TokensInUse
    <2> QED
        BY <2>3, <2>4, <2>5, <2>6, <2>7, <2>8
<1> QED
    BY <1>1, <1>2, <1>3, <1>4, <1>5, <1>6, <1>7, <1>8, <1>9, <1>10, <1>11, <1>12, <1>13,
       <1>14, <1>15, <1>16 DEF ThreadsNext, RunStep

\* There are never more threads than tokens, a token is held until its thread
\* has finished, and nobody waits for one that is free.
THEOREM TokenWhileThreadRunsThm == ThreadsSpec => []TokenWhileThreadRuns
<1>1. ASSUME CallInv PROVE TokenWhileThreadRuns
    <2> USE <1>1 DEF CallInv
    <2>1. ThreadsTypeOK
        BY DEF ThreadsTypeOK, CallTypes, TokenCount
    <2> DEFINE using == {c \in Call : stage[c] \in {"granted", "running", "asking", "reporting"}}
    <2>2. using \subseteq borrowers /\ (phase # "done" => borrowers \subseteq using)
        BY DEF TokensInUse, CallTypes
    <2>3. lot # <<>> => Cardinality(borrowers) = total_tokens
        BY DEF TokenCount
    <2> QED
        BY <2>1, <2>2, <2>3 DEF TokenWhileThreadRuns
<1> QED
    BY <1>1, CallInvInit, CallInvNext, PTL DEF ThreadsSpec

\* A thread's result is only ever sent to the task that sleeps in that call.
THEOREM ResultFindsItsTaskThm == ThreadsSpec => []ResultFindsItsTask
<1>1. ASSUME CallInv PROVE ResultFindsItsTask
    BY <1>1, ThreadsAssumption DEF CallInv, CallHasTask, ResultFindsItsTask, Asleep
<1> QED
    BY <1>1, CallInvInit, CallInvNext, PTL DEF ThreadsSpec

================================================================================
