------------------------------- MODULE NetProofs -------------------------------
(***************************************************************************)
(* Proofs about what must not be left behind: asynchronous generators,     *)
(* signals, connection attempts, listeners and subprocesses, for any       *)
(* number of each.  Every part has its inductive invariant, of which the   *)
(* conjuncts are named, and one lemma that every step keeps it.            *)
(***************************************************************************)
EXTENDS MCNet, QueueProofs, FiniteSetTheorems, TLAPS

--------------------------------------------------------------------------------
(***************************************************************************)
(* AsyncGens.                                                              *)
(***************************************************************************)
AgenState == {"new", "suspended", "garbage", "closing", "closed",
              "foreign", "host", "exited", "stuck"}

InitPhase == {"main", "cancelled", "nursery closed", "waits for queue", "rescheduled",
              "finalizing", "over"}

AgenTypeOK ==
    /\ agen \in [Agen -> AgenState] /\ closes \in [Agen -> Nat]
    /\ alive \subseteq Agen /\ trailing_needs_finalize \subseteq Agen /\ system \subseteq Agen
    /\ batch \subseteq Agen /\ current \subseteq Agen
    /\ alive_type \in {"WeakSet", "set"} /\ init \in InitPhase
    /\ callbacks \in Seq(Agen \cup {Init_task})

\* Trio holds what it has to close: a generator that is suspended is in the
\* set of live ones, one that the collector has found is in the queue, set
\* aside, or back among the live ones, and one being closed has its task.
Held ==
    \A a \in Agen :
        /\ agen[a] = "suspended" => a \in alive \cup batch
        /\ agen[a] = "garbage" => a \in ToSet(callbacks) \cup trailing_needs_finalize \cup alive \cup batch
        /\ agen[a] = "closing" <=> a \in system \cup current

\* What is in each place has not been closed yet, or has been by its user.
Places ==
    /\ \A a \in alive \cup batch : agen[a] \in {"suspended", "garbage", "closed"}
    /\ \A a \in trailing_needs_finalize : agen[a] = "garbage"
    /\ IsInjective(callbacks)
    /\ \A a \in Agen : a \in ToSet(callbacks) =>
          agen[a] = "garbage" /\ a \notin trailing_needs_finalize \cup alive \cup batch
    /\ trailing_needs_finalize \cap alive = {} /\ alive \cap batch = {}

\* Trio has closed nothing that it might still have to close, nothing twice, and
\* a generator of the host only for want of a finalizer.
ClosedOnce ==
    \A a \in Agen : /\ agen[a] \in {"new", "suspended", "garbage", "foreign", "host"} => closes[a] = 0
                    /\ agen[a] \in {"exited", "stuck"} => ~host_finalizer
                    /\ closes[a] <= 1

\* The order of the shutdown: nothing is found by the collector once the
\* set is strong, so what is before reschedule(init) in the queue is the rest.
InOrder ==
    /\ alive_type = "set" <=> init \in {"waits for queue", "rescheduled", "finalizing", "over"}
    /\ init \notin {"main", "cancelled"} => system = {}
    /\ init # "finalizing" => batch = {} /\ current = {}
    /\ init \in {"main", "cancelled", "finalizing", "over"} => trailing_needs_finalize = {}
    /\ init \in {"rescheduled", "finalizing", "over"} => callbacks = <<>>
    /\ init = "over" => alive = {}
    /\ Init_task \in ToSet(callbacks) => init = "waits for queue"
    /\ init = "waits for queue" => callbacks # <<>> /\ Last(callbacks) = Init_task

AgenInv == AgenTypeOK /\ Held /\ Places /\ ClosedOnce /\ InOrder

\* No asynchronous generator has been started.
LEMMA AgenInvInit == AgenInit => AgenInv
<1> SUFFICES ASSUME AgenInit PROVE AgenInv
    OBVIOUS
<1> USE DEF AgenInit
<1>1. AgenTypeOK
    BY DEF AgenTypeOK, AgenState, InitPhase
<1>2. Held
    BY DEF Held
<1>3. Places
    BY EmptyQueue DEF Places
<1>4. ClosedOnce
    BY DEF ClosedOnce
<1>5. InOrder
    BY EmptyQueue DEF InOrder
<1> QED
    BY <1>1, <1>2, <1>3, <1>4, <1>5 DEF AgenInv

\* First iteration, the garbage collector's finalizer, the callbacks of the entry
\* queue and every stage of finalize_remaining() keep the invariant.
LEMMA AgenInvNext ==
    ASSUME AgenInv, [AgenNext]_agenVars
    PROVE  AgenInv'
<1>h. host_finalizer' <=> host_finalizer
    <2>1. AgenNext => host_finalizer' = host_finalizer
        BY DEF AgenNext
    <2>2. UNCHANGED agenVars => host_finalizer' = host_finalizer
        BY DEF agenVars
    <2>3. host_finalizer' = host_finalizer
        BY <2>1, <2>2
    <2> QED
        BY <2>3, Zenon
<1> USE AsyncGensAssumption
        DEF AgenInv, AgenTypeOK, AgenState, InitPhase, Held, Places, ClosedOnce, InOrder
<1>0. callbacks \in Seq(Agen \cup {Init_task}) /\ IsInjective(callbacks)
    OBVIOUS
<1> USE <1>h
<1>1. ASSUME NEW a \in Agen, firstiter(a)
      PROVE  AgenInv'
    <2> USE <1>1 DEF firstiter, UserCode
    <2>0. a \notin ToSet(callbacks) \cup trailing_needs_finalize \cup alive \cup batch
        OBVIOUS
    <2>1. AgenTypeOK'
        OBVIOUS
    <2>2. Held'
        OBVIOUS
    <2>3. Places'
        <3>1. /\ agen'[a] = "suspended" /\ \A b \in Agen : b # a => agen'[b] = agen[b]
              /\ alive' = alive \cup {a}
              /\ trailing_needs_finalize' = trailing_needs_finalize /\ callbacks' = callbacks /\ batch' = batch
            OBVIOUS
        <3>2. alive \subseteq Agen /\ batch \subseteq Agen /\ trailing_needs_finalize \subseteq Agen
            OBVIOUS
        <3>3. Places
            OBVIOUS
        <3> QED
            BY ONLY <2>0, <3>1, <3>2, <3>3, a \in Agen DEF Places
    <2>4. ClosedOnce'
        OBVIOUS
    <2>5. InOrder'
        OBVIOUS
    <2> QED
        BY <2>1, <2>2, <2>3, <2>4, <2>5
<1>2. ASSUME NEW a \in Agen, FirstIterForeign(a)
      PROVE  AgenInv'
    <2> USE <1>2 DEF FirstIterForeign
    <2>1. AgenTypeOK'
        OBVIOUS
    <2>2. Held'
        OBVIOUS
    <2>3. Places'
        OBVIOUS
    <2>4. ClosedOnce'
        OBVIOUS
    <2>5. InOrder'
        OBVIOUS
    <2> QED
        BY <2>1, <2>2, <2>3, <2>4, <2>5
<1>3. ASSUME NEW a \in Agen, UserCloses(a)
      PROVE  AgenInv'
    <2> USE <1>3 DEF UserCloses
    <2>1. AgenTypeOK'
        OBVIOUS
    <2>2. Held'
        OBVIOUS
    <2>3. Places'
        OBVIOUS
    <2>4. ClosedOnce'
        OBVIOUS
    <2>5. InOrder'
        OBVIOUS
    <2> QED
        BY <2>1, <2>2, <2>3, <2>4, <2>5
<1>4. ASSUME NEW a \in Agen, finalizer(a)
      PROVE  AgenInv'
    <2> USE <1>4 DEF finalizer, Referenced
    <2>1. CASE agen[a] = "foreign"
        <3>1. PICK end \in {"host", "exited", "stuck"} :
                 /\ agen' = [agen EXCEPT ![a] = end]
                 /\ end # "host" => ~host_finalizer
                 /\ end = "host" => closes' = closes
                 /\ closes' = closes \/ closes' = [closes EXCEPT ![a] = @ + 1]
            BY <2>1, Zenon
        <3>2. UNCHANGED <<alive, callbacks, alive_type, trailing_needs_finalize, system, batch, current, init>>
            BY <2>1
        <3>0. a \in Agen
            BY <1>4
        <3> HIDE <1>4 DEF finalizer, Referenced
        <3>8. closes[a] = 0 /\ closes \in [Agen -> Nat]
            BY <2>1, <3>0
        <3>9. /\ closes' \in [Agen -> Nat] /\ closes'[a] \in {0, 1} /\ (end = "host" => closes'[a] = 0)
              /\ \A x \in Agen \ {a} : closes'[x] = closes[x]
            BY ONLY <3>0, <3>1, <3>8
        <3>3. AgenTypeOK'
            BY <3>0, <3>1, <3>2, <3>9
        <3>4. Held'
            BY <2>1, <3>0, <3>1, <3>2
        <3>5. Places'
            BY <2>1, <3>0, <3>1, <3>2
        <3>6. ClosedOnce'
            <4>1. agen'[a] = end /\ \A x \in Agen \ {a} : agen'[x] = agen[x]
                BY <3>0, <3>1
            <4>2. ClosedOnce /\ (end # "host" => ~host_finalizer)
                BY <3>1
            <4> QED
                BY ONLY <1>h, <3>9, <4>1, <4>2, end \in {"host", "exited", "stuck"} DEF ClosedOnce
        <3>7. InOrder'
            BY <3>2
        <3> QED
            BY <3>3, <3>4, <3>5, <3>6, <3>7
    <2> SUFFICES ASSUME agen[a] = "suspended" PROVE AgenInv'
        BY <2>1
    <2>2. callbacks' = Append(callbacks, a) /\ a \notin ToSet(callbacks) /\ a \in Agen \cup {Init_task}
        OBVIOUS
    <2>9. init \notin {"waits for queue", "over"}
        OBVIOUS
    <2>3. /\ callbacks' \in Seq(Agen \cup {Init_task}) /\ IsInjective(callbacks')
          /\ ToSet(callbacks') = ToSet(callbacks) \cup {a}
        BY ONLY <1>0, <2>2, AppendQueue, AppendDistinct
    <2>4. AgenTypeOK'
        BY <2>3
    <2>5. Held'
        <3>1. /\ agen'[a] = "garbage" /\ \A b \in Agen : b # a => agen'[b] = agen[b]
              /\ alive' = alive \ {a} /\ UNCHANGED <<trailing_needs_finalize, batch, system, current>>
            BY ZenonT(30)
        <3>2. Held /\ agen[a] = "suspended"
            OBVIOUS
        <3> QED
            BY ONLY <2>3, <3>1, <3>2, a \in Agen DEF Held
    <2>6. Places'
        BY <2>2, <2>3, ZenonT(40)
    <2>7. ClosedOnce'
        OBVIOUS
    <2>8. InOrder'
        BY <2>2, <2>3
    <2> QED
        BY <2>4, <2>5, <2>6, <2>7, <2>8
<1>5. ASSUME finalize_in_trio_context
      PROVE  AgenInv'
    <2> USE <1>5 DEF finalize_in_trio_context
    <2>0. Head(callbacks) \in Agen
        BY ONLY <1>0, <1>5, TailQueue DEF finalize_in_trio_context
    <2>9. PICK a \in Agen : a = Head(callbacks)
        BY <2>0
    <2>1. /\ a \in ToSet(callbacks) /\ ToSet(callbacks') = ToSet(callbacks) \ {a}
          /\ callbacks' \in Seq(Agen \cup {Init_task}) /\ IsInjective(callbacks')
        BY <2>9, TailQueue, TailDistinct
    <2>2. agen[a] = "garbage" /\ closes[a] = 0 /\ a \notin trailing_needs_finalize \cup alive \cup batch
        BY <2>1
    <2>3. init = "waits for queue" => callbacks' # <<>> /\ Last(callbacks') = Init_task
        BY LastOfTail
    <2> HIDE <1>5 DEF AgenInv, AgenTypeOK, AgenState, InitPhase, Held, Places, ClosedOnce, InOrder
    <2>4. CASE init \in {"main", "cancelled"}
        <3>1. /\ system' = system \cup {a}
              /\ agen' = [agen EXCEPT ![a] = "closing"]
              /\ closes' = [closes EXCEPT ![a] = @ + 1]
              /\ UNCHANGED <<alive, alive_type, trailing_needs_finalize, batch, current, init>>
            BY <1>5, <2>4, <2>9 DEF finalize_in_trio_context
        <3>7. closes' = [closes EXCEPT ![a] = 1]
            BY ONLY <2>2, <3>1
        <3>8. closes' \in [Agen -> Nat] /\ agen' \in [Agen -> AgenState]
            BY <3>1, <3>7 DEF AgenInv, AgenTypeOK, AgenState
        <3>2. AgenTypeOK'
            BY <2>1, <2>2, <2>9, <3>1, <3>8 DEF AgenInv, AgenTypeOK
        <3>3. Held'
            BY <2>1, <2>2, <2>4, <3>1 DEF AgenInv, AgenTypeOK, Held
        <3>4. Places'
            BY <2>1, <2>2, <2>4, <3>1 DEF AgenInv, AgenTypeOK, Places
        <3>5. ClosedOnce'
            <4>1. closes'[a] = 1 /\ agen'[a] = "closing"
                BY <3>1, <3>7 DEF AgenInv, AgenTypeOK
            <4>2. \A x \in Agen \ {a} : closes'[x] = closes[x] /\ agen'[x] = agen[x]
                BY <3>1
            <4> QED
                BY ONLY AgenInv, <1>h, <4>1, <4>2 DEF AgenInv, ClosedOnce
        <3>6. InOrder'
            BY <2>1, <2>2, <2>4, <3>1 DEF AgenInv, AgenTypeOK, InOrder, InitPhase
        <3> QED
            BY <3>2, <3>3, <3>4, <3>5, <3>6 DEF AgenInv
    <2>5. CASE init \notin {"main", "cancelled"}
        <3>1. /\ trailing_needs_finalize' = trailing_needs_finalize \cup {a}
              /\ init \notin {"rescheduled", "finalizing", "over"}
              /\ UNCHANGED <<system, agen, closes, alive, alive_type, batch, current, init>>
            BY <1>5, <2>5, <2>9 DEF finalize_in_trio_context, AgenInv, InOrder
        <3>2. AgenTypeOK'
            BY <2>1, <2>2, <2>3, <2>5, <3>1 DEF AgenInv, AgenTypeOK, AgenState, InitPhase
        <3>3. Held'
            BY <2>1, <2>2, <2>3, <2>5, <3>1 DEF AgenInv, AgenTypeOK, Held
        <3>4. Places'
            <4>1. \A x \in Agen : x \in ToSet(callbacks') => agen'[x] = "garbage" /\ x \notin trailing_needs_finalize' \cup alive' \cup batch'
                BY <2>1, <3>1 DEF AgenInv, Places
            <4>2. trailing_needs_finalize' \cap alive' = {} /\ alive' \cap batch' = {}
                BY ONLY AgenInv, <2>2, <3>1 DEF AgenInv, Places
            <4> QED
                BY <2>1, <2>2, <3>1, <4>1, <4>2 DEF AgenInv, Places
        <3>5. ClosedOnce'
            BY <2>1, <2>2, <2>3, <2>5, <3>1 DEF AgenInv, ClosedOnce
        <3>6. InOrder'
            BY <2>1, <2>2, <2>3, <2>5, <3>1 DEF AgenInv, AgenTypeOK, InOrder, InitPhase
        <3> QED
            BY <3>2, <3>3, <3>4, <3>5, <3>6 DEF AgenInv
    <2> QED
        BY <2>4, <2>5 DEF InitPhase
<1>6. ASSUME NEW a \in Agen, _finalize_one(a)
      PROVE  AgenInv'
    <2> USE <1>6 DEF _finalize_one
    <2>1. AgenTypeOK'
        OBVIOUS
    <2>2. Held'
        OBVIOUS
    <2>3. Places'
        OBVIOUS
    <2>4. ClosedOnce'
        OBVIOUS
    <2>5. InOrder'
        OBVIOUS
    <2> QED
        BY <2>1, <2>2, <2>3, <2>4, <2>5
<1>7. CASE MainTaskDone \/ SystemNurseryCloses
    BY <1>7 DEF MainTaskDone, SystemNurseryCloses
<1>8. CASE finalize_remaining
    <2> USE <1>8 DEF finalize_remaining
    <2>1. Init_task \notin ToSet(callbacks) /\ Init_task \in Agen \cup {Init_task}
        OBVIOUS
    <2>3. callbacks' = Append(callbacks, Init_task)
        OBVIOUS
    <2>2. /\ callbacks' \in Seq(Agen \cup {Init_task}) /\ IsInjective(callbacks') /\ callbacks' # <<>>
          /\ ToSet(callbacks') = ToSet(callbacks) \cup {Init_task} /\ Last(callbacks') = Init_task
        BY ONLY <1>0, <2>1, <2>3, AppendQueue, AppendDistinct DEF Last
    <2> QED
        BY <2>2
<1>9. CASE Rescheduled
    <2> USE <1>9 DEF Rescheduled
    <2>1. Init_task \in ToSet(callbacks) /\ init = "waits for queue"
        BY TailQueue
    <2>2. callbacks' = <<>>
        BY <2>1, HeadIsLast
    <2>3. ToSet(callbacks') = {} /\ IsInjective(callbacks') /\ ToSet(callbacks) = {Init_task}
        BY ONLY <1>0, <1>9, <2>2, EmptyQueue, TailQueue, ZenonT(30) DEF Rescheduled
    <2>4. callbacks' \in Seq(Agen \cup {Init_task})
        BY ONLY <2>2, EmptySeq
    <2> HIDE <1>9
    <2>5. init' = "rescheduled" /\ UNCHANGED <<agen, alive, alive_type, trailing_needs_finalize, system, batch, current, closes>>
        BY <1>9
    <2> QED
        BY <2>1, <2>2, <2>3, <2>4, <2>5
<1>10. CASE CollectTrailing
    BY <1>10 DEF CollectTrailing
<1>11. CASE NextBatch
    BY <1>11 DEF NextBatch
<1>12. ASSUME NEW a \in Agen, FinalizeNext(a)
       PROVE  AgenInv'
    <2> USE <1>12 DEF FinalizeNext
    <2>1. AgenTypeOK'
        OBVIOUS
    <2>2. Held'
        OBVIOUS
    <2>3. Places'
        OBVIOUS
    <2>4. ClosedOnce'
        OBVIOUS
    <2>5. InOrder'
        OBVIOUS
    <2> QED
        BY <2>1, <2>2, <2>3, <2>4, <2>5
<1>13. CASE RunEnds
    BY <1>13 DEF RunEnds
<1>14. CASE UNCHANGED agenVars
    BY <1>14 DEF agenVars
<1> QED
    BY <1>1, <1>2, <1>3, <1>4, <1>5, <1>6, <1>7, <1>8, <1>9, <1>10, <1>11, <1>12, <1>13, <1>14
    DEF AgenNext

\* Every generator that a Trio task iterates is closed when the run ends,
\* and Trio closes none of them twice, and one of the host's only if the host
\* has no finalizer, for any number of generators.
THEOREM EveryGeneratorIsClosedThm == AgenSpec => []EveryGeneratorIsClosed
<1>1. ASSUME AgenInv PROVE EveryGeneratorIsClosed
    <2>1. ASSUME init = "over", NEW a \in Agen
          PROVE  agen[a] \in {"new", "closed"} \cup Foreign
        <3>1. /\ alive = {} /\ batch = {} /\ system = {} /\ current = {} /\ trailing_needs_finalize = {}
              /\ callbacks = <<>> /\ ToSet(callbacks) = {}
            BY <1>1, <2>1, EmptyQueue DEF AgenInv, InOrder
        <3> QED
            BY <1>1, <3>1 DEF AgenInv, AgenTypeOK, AgenState, Held, Foreign
    <2>2. ASSUME NEW a \in Agen
          PROVE  closes[a] <= IF agen[a] \in Foreign /\ host_finalizer THEN 0 ELSE 1
        BY <1>1 DEF AgenInv, ClosedOnce, Foreign
    <2> QED
        BY <2>1, <2>2 DEF EveryGeneratorIsClosed
<1> QED
    BY <1>1, AgenInvInit, AgenInvNext, PTL DEF AgenSpec

--------------------------------------------------------------------------------
(***************************************************************************)
(* SignalReceiver.                                                         *)
(***************************************************************************)
SignalTypeOK ==
    /\ soon \in Seq(Signal) /\ _pending \in Seq(Signal) /\ owed \subseteq Signal
    /\ block \in {"open", "restoring", "redelivering", "left"}
    /\ anext \in {"no", "parked", "checkpoint", "woken"}

\* The receiver is closed before the first look at what is left.
ClosedFirst == block \in {"redelivering", "left"} => _closed

SignalInv == SignalTypeOK /\ ClosedFirst /\ NoSignalLost

\* _pending is an OrderedDict: adding what is there already changes nothing.
LEMMA OnceQueue ==
    ASSUME NEW S, NEW q \in Seq(S), NEW e \in S
    PROVE  Once(q, e) \in Seq(S) /\ ToSet(Once(q, e)) = ToSet(q) \cup {e}
<1>1. CASE Contains(q, e)
    BY <1>1 DEF Once, Contains, ToSet
<1>2. CASE ~Contains(q, e)
    BY <1>2, AppendQueue DEF Once
<1> QED
    BY <1>1, <1>2

\* open_signal_receiver() starts with nothing pending.
LEMMA SignalInvInit == SignalInit => SignalInv
    BY EmptyQueue DEF SignalInit, SignalInv, SignalTypeOK, ClosedFirst, NoSignalLost

\* The handler, the callbacks it leaves in the entry queue, the reader and the
\* end of the block keep the invariant.
LEMMA SignalInvNext ==
    ASSUME SignalInv, [SignalNext]_signalVars
    PROVE  SignalInv'
<1> USE DEF SignalInv, SignalTypeOK, ClosedFirst, NoSignalLost
<1>0. soon \in Seq(Signal) /\ _pending \in Seq(Signal)
    OBVIOUS
<1>1. ASSUME NEW s \in Signal, handler(s)
      PROVE  SignalInv'
    <2>1. soon' \in Seq(Signal) /\ ToSet(soon') = ToSet(soon) \cup {s}
        BY ONLY <1>0, <1>1, OnceQueue DEF handler
    <2>2. _closed' <=> _closed
        BY <1>1, Zenon DEF handler
    <2> QED
        BY <1>1, <2>1, <2>2 DEF handler
<1>2. ASSUME NEW s \in Signal, Restore(s)
      PROVE  SignalInv'
    <2>1. _closed' <=> _closed
        BY <1>2, Zenon DEF Restore
    <2> QED
        BY <1>2, <2>1 DEF Restore
<1>3. CASE _add
    <2>1. /\ soon' \in Seq(Signal) /\ Head(soon) \in Signal
          /\ ToSet(soon) = ToSet(soon') \cup {Head(soon)}
        BY <1>3, TailQueue DEF _add
    <2>2. _closed' <=> _closed
        BY <1>3, Zenon DEF _add
    <2>3. CASE _closed
        <3>1. owed' = owed \ {Head(soon)} /\ UNCHANGED <<_pending, anext, block>>
            BY <1>3, <2>3 DEF _add
        <3> QED
            BY <2>1, <2>2, <3>1
    <2>4. CASE ~_closed
        <3>1. /\ _pending' = Once(_pending, Head(soon)) /\ UNCHANGED <<owed, block>>
              /\ anext' = IF anext = "parked" THEN "woken" ELSE anext
            BY <1>3, <2>4 DEF _add
        <3>2. _pending' \in Seq(Signal) /\ ToSet(_pending') = ToSet(_pending) \cup {Head(soon)}
            <4>1. Head(soon) \in Signal /\ _pending' = Once(_pending, Head(soon))
                BY <2>1, <3>1
            <4> QED
                BY ONLY <1>0, <4>1, OnceQueue, ZenonT(30)
        <3> QED
            BY <2>1, <2>2, <2>4, <3>1, <3>2
    <2> QED
        BY <2>3, <2>4
<1>4. CASE CallAnext
    <2>1. _closed' <=> _closed
        BY <1>4, Zenon DEF CallAnext
    <2> QED
        BY <1>4, <2>1 DEF CallAnext
<1>5. CASE ResumeAnext
    <2>1. _closed' <=> _closed
        BY <1>5, Zenon DEF ResumeAnext
    <2>2. CASE _pending = <<>>
        BY <1>5, <2>1, <2>2 DEF ResumeAnext
    <2>3. CASE _pending # <<>>
        <3>1. /\ _pending' \in Seq(Signal)
              /\ ToSet(_pending) = ToSet(_pending') \cup {Head(_pending)}
            <4>1. _pending' = Tail(_pending)
                BY <1>5, <2>3 DEF ResumeAnext
            <4> QED
                BY ONLY <1>0, <2>3, <4>1, TailQueue
        <3>2. anext' = "no" /\ owed' = owed \ {Head(_pending)} /\ UNCHANGED <<ours, block, soon>>
            BY <1>5, <2>3 DEF ResumeAnext
        <3> QED
            BY <2>1, <2>3, <3>1, <3>2
    <2> QED
        BY <2>2, <2>3
<1>6. CASE CancelAnext
    <2>1. _closed' <=> _closed
        BY <1>6, Zenon DEF CancelAnext
    <2> QED
        BY <1>6, <2>1 DEF CancelAnext
<1>7. CASE LeaveBlock
    BY <1>7 DEF LeaveBlock
<1>8. CASE Redeliver
    BY <1>8 DEF Redeliver
<1>9. CASE deliver_next
    <2>1. _closed' <=> _closed
        BY <1>9, Zenon DEF deliver_next
    <2>2. CASE _pending = <<>>
        BY <1>9, <2>1, <2>2 DEF deliver_next
    <2>3. CASE _pending # <<>>
        <3>1. /\ _pending' \in Seq(Signal)
              /\ ToSet(_pending) = ToSet(_pending') \cup {Head(_pending)}
            <4>1. _pending' = Tail(_pending)
                BY <1>9, <2>3 DEF deliver_next
            <4> QED
                BY ONLY <1>0, <2>3, <4>1, TailQueue
        <3>2. owed' = owed \ {Head(_pending)} /\ UNCHANGED <<ours, block, soon, anext>>
            BY <1>9, <2>3 DEF deliver_next
        <3> QED
            BY <1>9, <2>1, <2>3, <3>1, <3>2 DEF deliver_next
    <2> QED
        BY <2>2, <2>3
<1>10. CASE UNCHANGED signalVars
    <2>1. _closed' <=> _closed
        BY <1>10, Zenon DEF signalVars
    <2> QED
        BY <1>10, <2>1 DEF signalVars
<1> QED
    BY <1>1, <1>2, <1>3, <1>4, <1>5, <1>6, <1>7, <1>8, <1>9, <1>10 DEF SignalNext

\* No signal that the receiver's handler took is lost, for any signals.
THEOREM NoSignalLostThm == SignalSpec => []NoSignalLost
<1>1. SignalInv => NoSignalLost
    BY DEF SignalInv
<1> QED
    BY <1>1, SignalInvInit, SignalInvNext, PTL DEF SignalSpec

--------------------------------------------------------------------------------
(***************************************************************************)
(* HappyEyeballs.                                                          *)
(***************************************************************************)
AttemptState == {"none", "scheduled", "binding", "connecting", "ok", "error", "won", "failed",
                 "cancelled"}

EyeTypeOK ==
    /\ targets \in Seq([family : {4, 6}, net : Nets])
    /\ parent \in {"next", "wait", "join", "over"} /\ started \in 0 .. Len(targets)
    /\ attempt \in [Target -> AttemptState]
    /\ failed \subseteq Target /\ open_sockets \subseteq Target
    /\ winning_socket \in 0 .. Len(targets)

\* close_all() knows every socket until open_tcp_stream is over, that of a
\* bind() that raised too, and whoever is connecting or connected has one.
SocketsKnown ==
    /\ parent # "over" => sockets \subseteq open_sockets
    /\ parent # "over" => \A i \in Target : attempt[i] \in {"binding", "connecting", "ok", "error", "won"} => i \in sockets

\* What the attempts have left behind for the parent to look at.
AttemptsCount ==
    /\ \A i \in Target : attempt[i] = "none" <=> i > started
    /\ \A i \in Target : attempt[i] = "failed" <=> i \in failed
    /\ winning_socket # 0 => attempt[winning_socket] = "won"
    /\ \A i \in Target : attempt[i] = "won" => winning_socket # 0
    /\ \A i \in Target : attempt[i] = "cancelled" => raised

\* A Cancelled has a reason, and the loop ends early for no other one.
CancelledForAReason ==
    /\ scope \/ raised => outer \/ winning_socket # 0
    /\ parent = "join" => raised \/ started = Len(targets)

\* open_tcp_stream is over when its nursery is empty, with what it promises.
Outcome ==
    /\ result # "none" <=> parent = "over"
    /\ parent = "over" =>
         /\ \A i \in Target : attempt[i] \in {"none", "won", "failed", "cancelled"}
         /\ sockets = IF result = "stream" THEN {winning_socket} ELSE {}
         /\ result = "stream" => attempt[winning_socket] = "won"
         /\ result # "AssertionError"
         /\ result = "OSError" => failed = Target

Interleaved ==
    (\E i \in Target : targets[i].family # targets[1].family) => targets[1].family # targets[2].family

EyeInv == /\ EyeTypeOK /\ SocketsKnown /\ AttemptsCount /\ CancelledForAReason /\ Outcome
          /\ Interleaved

\* reorder_for_rfc_6555_section_5_4 puts two families first if there are two.
LEMMA ReorderInterleaves ==
    ASSUME NEW R, NEW list \in Seq(R)
    PROVE  LET new == reorder_for_rfc_6555_section_5_4(list)
           IN  /\ new \in Seq(R)
               /\ (\E i \in 1 .. Len(new) : new[i].family # new[1].family)
                     => new[1].family # new[2].family
<1> DEFINE other == {i \in 2 .. Len(list) : list[i].family # list[1].family}
           new == reorder_for_rfc_6555_section_5_4(list)
<1>1. CASE other = {}
    <2>1. new = list
        BY <1>1 DEF reorder_for_rfc_6555_section_5_4
    <2>2. ASSUME NEW i \in 1 .. Len(list)
          PROVE  list[i].family = list[1].family
        BY <1>1, <2>2
    <2> QED
        BY <2>1, <2>2
<1>2. CASE other # {}
    <2>1. PICK i \in other : new = InsertAt(RemoveAt(list, i), 2, list[i])
        <3>0. other \in SUBSET Nat
            OBVIOUS
        <3>1. Min(other) \in other
            BY ONLY <1>2, <3>0, MinIsLeast
        <3> QED
            BY <1>2, <3>1 DEF reorder_for_rfc_6555_section_5_4
    <2>2. /\ i \in 1 .. Len(list) /\ i \in 2 .. Len(list) /\ list[i].family # list[1].family
          /\ list[i] \in R /\ Len(list) \in Nat
        OBVIOUS
    <2> DEFINE rest == RemoveAt(list, i)
    <2>3. rest \in Seq(R) /\ Len(rest) \in Nat \ {0} /\ rest[1] = list[1]
        <3>1. /\ rest \in Seq(R) /\ Len(rest) = Len(list) - 1
              /\ \A j \in 1 .. Len(list) - 1 : rest[j] = list[IF j < i THEN j ELSE j + 1]
            BY ONLY <2>2, list \in Seq(R), RemoveAtQueue
        <3> QED
            BY <2>2, <3>1
    <2> HIDE DEF rest
    <2> DEFINE l == SubSeq(rest, 1, 1)
               r == SubSeq(rest, 2, Len(rest))
    <2>4. l \in Seq(R) /\ Len(l) = 1 /\ l[1] = list[1]
        BY <2>3, SubSeqProperties
    <2>5. r \in Seq(R)
        BY <2>3, SubSeqProperties
    <2>6. new = l \o <<list[i]>> \o r
        BY <2>1 DEF InsertAt, rest
    <2> HIDE DEF l, r
    <2>7. /\ l \o <<list[i]>> \in Seq(R) /\ Len(l \o <<list[i]>>) = 2
          /\ (l \o <<list[i]>>)[1] = list[1] /\ (l \o <<list[i]>>)[2] = list[i]
        <3>1. <<list[i]>> \in Seq(R) /\ Len(<<list[i]>>) = 1 /\ <<list[i]>>[1] = list[i]
            BY <2>2
        <3> DEFINE e == <<list[i]>>
        <3>2. /\ l \o e \in Seq(R) /\ Len(l \o e) = Len(l) + Len(e)
              /\ \A j \in 1 .. Len(l) + Len(e) : (l \o e)[j] = IF j <= Len(l) THEN l[j] ELSE e[j - Len(l)]
            <4> HIDE DEF e
            <4>1. l \in Seq(R) /\ e \in Seq(R)
                BY <2>4, <3>1 DEF e
            <4> QED
                BY ONLY <4>1, ConcatProperties
        <3>3. Len(e) = 1 /\ e[1] = list[i]
            BY <3>1
        <3> HIDE DEF e
        <3>4. Len(l \o e) = 2 /\ (l \o e)[1] = l[1] /\ (l \o e)[2] = e[1]
            BY <2>4, <3>2, <3>3
        <3> QED
            BY <2>4, <3>2, <3>3, <3>4 DEF e
    <2>8. new \in Seq(R) /\ new[1] = list[1] /\ new[2] = list[i]
        BY <2>5, <2>6, <2>7
    <2> QED
        BY <2>2, <2>8
<1> QED
    BY <1>1, <1>2

\* No connection attempt has been started.
LEMMA EyeInvInit == EyeballsInit => EyeInv
<1> SUFFICES ASSUME EyeballsInit PROVE EyeInv
    OBVIOUS
<1>1. PICK list \in Lookups : targets = reorder_for_rfc_6555_section_5_4(list)
    BY DEF EyeballsInit
<1>2. list \in Seq([family : {4, 6}, net : Nets])
    BY LookupsAssumption
<1>3. targets \in Seq([family : {4, 6}, net : Nets]) /\ Interleaved
    BY <1>1, <1>2, ReorderInterleaves DEF Interleaved, Target
<1>4. EyeTypeOK
    BY <1>3 DEF EyeballsInit, EyeTypeOK, AttemptState, Target
<1>5. SocketsKnown /\ AttemptsCount /\ Outcome
    BY <1>3 DEF EyeballsInit, SocketsKnown, AttemptsCount, Outcome, Target
<1>6. CancelledForAReason
    BY DEF EyeballsInit, CancelledForAReason
<1> QED
    BY <1>3, <1>4, <1>5, <1>6 DEF EyeInv

\* Every attempt, its failure or success, and the way out keep the invariant.
LEMMA EyeInvNext ==
    ASSUME EyeInv, [EyeballsNext]_eyeVars
    PROVE  EyeInv'
<1> USE DEF EyeInv
<1>1. CASE Loop
    <2>1. UNCHANGED fixedVars /\ Target' = Target
        BY <1>1 DEF Loop, fixedVars, Target
    <2>2. (scope' <=> scope) /\ (outer' <=> outer) /\ (raised' <=> raised)
        BY <1>1, Zenon DEF Loop, Cancelling
    <2>3. EyeTypeOK'
        BY <1>1, <2>1, <2>2 DEF Loop, EyeTypeOK, AttemptState, Target, fixedVars
    <2>4. SocketsKnown'
        BY <1>1, <2>1, <2>2 DEF Loop, SocketsKnown, EyeTypeOK, AttemptState, Target, fixedVars
    <2>5. AttemptsCount'
        BY <1>1, <2>1, <2>2 DEF Loop, AttemptsCount, EyeTypeOK, AttemptState, Target, fixedVars
    <2>6. CancelledForAReason'
        BY <1>1, <2>1, <2>2 DEF Loop, CancelledForAReason, EyeTypeOK, Target, fixedVars
    <2>7. Outcome'
        BY <1>1, <2>1, <2>2 DEF Loop, Outcome, EyeTypeOK, AttemptState, Target, fixedVars
    <2>8. Interleaved'
        BY <1>1, <2>1, <2>2 DEF Loop, Interleaved, Target, fixedVars
    <2> QED
        BY <2>3, <2>4, <2>5, <2>6, <2>7, <2>8
<1>2. CASE MoveOn
    <2>1. UNCHANGED fixedVars /\ Target' = Target
        BY <1>2 DEF MoveOn, fixedVars, Target
    <2>2. (scope' <=> scope) /\ (outer' <=> outer) /\ (raised' <=> raised)
        BY <1>2, Zenon DEF MoveOn, Cancelling
    <2>3. EyeTypeOK'
        BY <1>2, <2>1, <2>2 DEF MoveOn, EyeTypeOK, AttemptState, Target, fixedVars
    <2>4. SocketsKnown'
        BY <1>2, <2>1, <2>2 DEF MoveOn, SocketsKnown, EyeTypeOK, AttemptState, Target, fixedVars
    <2>5. AttemptsCount'
        BY <1>2, <2>1, <2>2 DEF MoveOn, AttemptsCount, EyeTypeOK, AttemptState, Target,
           fixedVars
    <2>6. CancelledForAReason'
        BY <1>2, <2>1, <2>2 DEF MoveOn, CancelledForAReason, EyeTypeOK, Target, fixedVars
    <2>7. Outcome'
        BY <1>2, <2>1, <2>2 DEF MoveOn, Outcome, EyeTypeOK, AttemptState, Target, fixedVars
    <2>8. Interleaved'
        BY <1>2, <2>1, <2>2 DEF MoveOn, Interleaved, Target, fixedVars
    <2> QED
        BY <2>3, <2>4, <2>5, <2>6, <2>7, <2>8
<1>3. CASE ParentCancelled
    <2>1. UNCHANGED fixedVars /\ Target' = Target
        BY <1>3 DEF ParentCancelled, fixedVars, Target
    <2>2. scope' /\ raised' /\ (outer' <=> outer) /\ (scope \/ outer)
        BY <1>3, Zenon DEF ParentCancelled, Cancelling
    <2>3. EyeTypeOK'
        BY <1>3, <2>1, <2>2 DEF ParentCancelled, EyeTypeOK, AttemptState, Target, fixedVars
    <2>4. SocketsKnown'
        BY <1>3, <2>1, <2>2 DEF ParentCancelled, SocketsKnown, EyeTypeOK, AttemptState,
           Target, fixedVars
    <2>5. AttemptsCount'
        BY <1>3, <2>1, <2>2 DEF ParentCancelled, AttemptsCount, EyeTypeOK, AttemptState,
           Target, fixedVars
    <2>6. CancelledForAReason'
        BY <1>3, <2>1, <2>2 DEF ParentCancelled, CancelledForAReason, EyeTypeOK, Target,
           fixedVars
    <2>7. Outcome'
        BY <1>3, <2>1, <2>2 DEF ParentCancelled, Outcome, EyeTypeOK, AttemptState, Target,
           fixedVars
    <2>8. Interleaved'
        BY <1>3, <2>1, <2>2 DEF ParentCancelled, Interleaved, Target, fixedVars
    <2> QED
        BY <2>3, <2>4, <2>5, <2>6, <2>7, <2>8
<1>4. ASSUME NEW i \in Target, StartAttempt(i)
      PROVE  EyeInv'
    <2>1. UNCHANGED fixedVars /\ Target' = Target
        BY <1>4 DEF StartAttempt, fixedVars, Target
    <2>2. (scope' <=> scope) /\ (outer' <=> outer)
        BY <1>4, Zenon DEF StartAttempt, Cancelling
    <2>3. EyeTypeOK'
        BY <1>4, <2>1, <2>2 DEF StartAttempt, EyeTypeOK, AttemptState, Target, fixedVars
    <2>4. SocketsKnown'
        BY <1>4, <2>1, <2>2 DEF StartAttempt, SocketsKnown, EyeTypeOK, AttemptState, Target,
           fixedVars
    <2>5. AttemptsCount'
        BY <1>4, <2>1, <2>2 DEF StartAttempt, AttemptsCount, EyeTypeOK, AttemptState,
           Target, fixedVars
    <2>6. CancelledForAReason'
        <3>1. (raised' <=> raised) \/ scope \/ outer
            BY <1>4, Zenon DEF StartAttempt, Cancelling
        <3>2. UNCHANGED <<targets, parent, started, winning_socket>> /\ (raised => raised')
            BY <1>4 DEF StartAttempt, fixedVars
        <3> QED
            BY <2>2, <3>1, <3>2 DEF CancelledForAReason
    <2>7. Outcome'
        BY <1>4, <2>1, <2>2 DEF StartAttempt, Outcome, EyeTypeOK, AttemptState, Target,
           fixedVars
    <2>8. Interleaved'
        BY <1>4, <2>1, <2>2 DEF StartAttempt, Interleaved, Target, fixedVars
    <2> QED
        BY <2>3, <2>4, <2>5, <2>6, <2>7, <2>8
<1>11. ASSUME NEW i \in Target, Bind(i)
      PROVE  EyeInv'
    <2>1. UNCHANGED fixedVars /\ Target' = Target
        BY <1>11 DEF Bind, fixedVars, Target
    <2>2. (scope' <=> scope) /\ (outer' <=> outer)
        BY <1>11, Zenon DEF Bind, Cancelling
    <2>3. EyeTypeOK'
        BY <1>11, <2>1 DEF Bind, EyeTypeOK, AttemptState, Target, fixedVars
    <2>4. SocketsKnown'
        BY <1>11, <2>1 DEF Bind, SocketsKnown, EyeTypeOK, AttemptState, Target, fixedVars
    <2>5. AttemptsCount'
        BY <1>11, <2>1 DEF Bind, AttemptsCount, EyeTypeOK, AttemptState, Target, fixedVars
    <2>6. CancelledForAReason'
        <3>1. (raised' <=> raised) \/ scope \/ outer
            BY <1>11, Zenon DEF Bind, Cancelling
        <3>2. UNCHANGED <<targets, parent, started, winning_socket>> /\ (raised => raised')
            BY <1>11 DEF Bind, fixedVars
        <3> QED
            BY <2>2, <3>1, <3>2 DEF CancelledForAReason
    <2>7. Outcome'
        BY <1>11, <2>1 DEF Bind, Outcome, EyeTypeOK, AttemptState, Target, fixedVars
    <2>8. Interleaved'
        BY <1>11, <2>1 DEF Bind, Interleaved, Target, fixedVars
    <2> QED
        BY <2>3, <2>4, <2>5, <2>6, <2>7, <2>8
<1>5. ASSUME NEW i \in Target, Answer(i)
      PROVE  EyeInv'
    <2>1. UNCHANGED fixedVars /\ Target' = Target
        BY <1>5 DEF Answer, fixedVars, Target
    <2>2. (scope' <=> scope) /\ (outer' <=> outer) /\ (raised' <=> raised)
        BY <1>5, Zenon DEF Answer, Cancelling
    <2>3. EyeTypeOK'
        BY <1>5, <2>1, <2>2 DEF Answer, EyeTypeOK, AttemptState, Target, fixedVars
    <2>4. SocketsKnown'
        BY <1>5, <2>1, <2>2 DEF Answer, SocketsKnown, EyeTypeOK, AttemptState, Target, fixedVars
    <2>5. AttemptsCount'
        BY <1>5, <2>1, <2>2 DEF Answer, AttemptsCount, EyeTypeOK, AttemptState, Target,
           fixedVars
    <2>6. CancelledForAReason'
        BY <1>5, <2>1, <2>2 DEF Answer, CancelledForAReason, EyeTypeOK, Target, fixedVars
    <2>7. Outcome'
        BY <1>5, <2>1, <2>2 DEF Answer, Outcome, EyeTypeOK, AttemptState, Target, fixedVars
    <2>8. Interleaved'
        BY <1>5, <2>1, <2>2 DEF Answer, Interleaved, Target, fixedVars
    <2> QED
        BY <2>3, <2>4, <2>5, <2>6, <2>7, <2>8
<1>6. ASSUME NEW i \in Target, ConnectCancelled(i)
      PROVE  EyeInv'
    <2>1. UNCHANGED fixedVars /\ Target' = Target
        BY <1>6 DEF ConnectCancelled, fixedVars, Target
    <2>2. (scope' <=> scope) /\ (outer' <=> outer) /\ raised' /\ (scope \/ outer)
        BY <1>6, Zenon DEF ConnectCancelled, Cancelling
    <2>3. EyeTypeOK'
        BY <1>6, <2>1, <2>2 DEF ConnectCancelled, EyeTypeOK, AttemptState, Target, fixedVars
    <2>4. SocketsKnown'
        BY <1>6, <2>1, <2>2 DEF ConnectCancelled, SocketsKnown, EyeTypeOK, AttemptState,
           Target, fixedVars
    <2>5. AttemptsCount'
        BY <1>6, <2>1, <2>2 DEF ConnectCancelled, AttemptsCount, EyeTypeOK, AttemptState,
           Target, fixedVars
    <2>6. CancelledForAReason'
        BY <1>6, <2>1, <2>2 DEF ConnectCancelled, CancelledForAReason, EyeTypeOK, Target,
           fixedVars
    <2>7. Outcome'
        BY <1>6, <2>1, <2>2 DEF ConnectCancelled, Outcome, EyeTypeOK, AttemptState, Target,
           fixedVars
    <2>8. Interleaved'
        BY <1>6, <2>1, <2>2 DEF ConnectCancelled, Interleaved, Target, fixedVars
    <2> QED
        BY <2>3, <2>4, <2>5, <2>6, <2>7, <2>8
<1>7. ASSUME NEW i \in Target, EndAttempt(i)
      PROVE  EyeInv'
    <2>1. UNCHANGED fixedVars /\ Target' = Target
        BY <1>7 DEF EndAttempt, fixedVars, Target
    <2>2. (outer' <=> outer) /\ (raised' <=> raised)
        BY <1>7, Zenon DEF EndAttempt, Cancelling
    <2>3. EyeTypeOK'
        <3>1. UNCHANGED <<targets, parent, started, open_sockets>>
            BY <1>7 DEF EndAttempt, fixedVars
        <3>2. attempt' \in [Target -> AttemptState] /\ failed' \subseteq Target
            BY <1>7 DEF EndAttempt, EyeTypeOK, AttemptState, Target
        <3>3. winning_socket' \in 0 .. Len(targets)
            BY <1>7 DEF EndAttempt, EyeTypeOK, Target
        <3> QED
            BY <2>1, <3>1, <3>2, <3>3 DEF EyeTypeOK
    <2>4. SocketsKnown'
        BY <1>7, <2>1, <2>2 DEF EndAttempt, SocketsKnown, EyeTypeOK, AttemptState, Target,
           fixedVars
    <2>5. AttemptsCount'
        BY <1>7, <2>1, <2>2 DEF EndAttempt, AttemptsCount, EyeTypeOK, AttemptState, Target,
           fixedVars
    <2>6. CancelledForAReason'
        BY <1>7, <2>1, <2>2 DEF EndAttempt, CancelledForAReason, EyeTypeOK, Target, fixedVars
    <2>7. Outcome'
        BY <1>7, <2>1, <2>2 DEF EndAttempt, Outcome, EyeTypeOK, AttemptState, Target, fixedVars
    <2>8. Interleaved'
        BY <1>7, <2>1, <2>2 DEF EndAttempt, Interleaved, Target, fixedVars
    <2> QED
        BY <2>3, <2>4, <2>5, <2>6, <2>7, <2>8
<1>8. CASE CancelOpen
    <2>1. UNCHANGED fixedVars /\ Target' = Target
        BY <1>8 DEF CancelOpen, fixedVars, Target
    <2>2. (scope' <=> scope) /\ outer' /\ (raised' <=> raised)
        BY <1>8, Zenon DEF CancelOpen, Cancelling
    <2>3. EyeTypeOK'
        BY <1>8, <2>1, <2>2 DEF CancelOpen, EyeTypeOK, AttemptState, Target, fixedVars
    <2>4. SocketsKnown'
        BY <1>8, <2>1, <2>2 DEF CancelOpen, SocketsKnown, EyeTypeOK, AttemptState, Target,
           fixedVars
    <2>5. AttemptsCount'
        BY <1>8, <2>1, <2>2 DEF CancelOpen, AttemptsCount, EyeTypeOK, AttemptState, Target,
           fixedVars
    <2>6. CancelledForAReason'
        BY <1>8, <2>1, <2>2 DEF CancelOpen, CancelledForAReason, EyeTypeOK, Target, fixedVars
    <2>7. Outcome'
        BY <1>8, <2>1, <2>2 DEF CancelOpen, Outcome, EyeTypeOK, AttemptState, Target, fixedVars
    <2>8. Interleaved'
        BY <1>8, <2>1, <2>2 DEF CancelOpen, Interleaved, Target, fixedVars
    <2> QED
        BY <2>3, <2>4, <2>5, <2>6, <2>7, <2>8
<1>9. CASE Finish
    <2>1. UNCHANGED fixedVars /\ Target' = Target
        BY <1>9 DEF Finish, fixedVars, Target
    <2>2. (scope' <=> scope) /\ (outer' <=> outer) /\ (raised' <=> raised)
        BY <1>9, Zenon DEF Finish, Cancelling
    <2>3. EyeTypeOK'
        BY <1>9, <2>1, <2>2 DEF Finish, EyeTypeOK, AttemptState, Target, fixedVars
    <2>4. SocketsKnown'
        BY <1>9, <2>1, <2>2 DEF Finish, SocketsKnown, EyeTypeOK, AttemptState, Target, fixedVars
    <2>5. AttemptsCount'
        BY <1>9, <2>1, <2>2 DEF Finish, AttemptsCount, EyeTypeOK, AttemptState, Target,
           fixedVars
    <2>6. CancelledForAReason'
        BY <1>9, <2>1, <2>2 DEF Finish, CancelledForAReason, EyeTypeOK, Target, fixedVars
    <2>7. Outcome'
        <3>1. /\ parent = "join" /\ parent' = "over" /\ UNCHANGED <<attempt, failed, winning_socket>>
              /\ \A i \in Target : attempt[i] \in {"none", "won", "failed", "cancelled"}
              /\ sockets' = sockets \ (open_sockets \ Kept)
            BY <1>9 DEF Finish
        <3>2. sockets' = sockets \cap Kept
            BY <3>1 DEF SocketsKnown
        <3>3. CASE raised /\ outer
            <4>1. Kept = {} /\ result' = "Cancelled"
                BY <1>9, <3>3 DEF Finish, Kept
            <4> QED
                BY <2>1, <3>1, <3>2, <4>1 DEF Outcome
        <3>4. CASE ~(raised /\ outer) /\ winning_socket # 0
            <4>1. Kept = {winning_socket} /\ result' = "stream"
                BY <1>9, <3>4 DEF Finish, Kept
            <4>2. attempt[winning_socket] = "won" /\ winning_socket \in Target /\ winning_socket \in sockets
                BY <3>1, <3>4 DEF AttemptsCount, SocketsKnown, EyeTypeOK, Target
            <4> QED
                BY <2>1, <3>1, <3>2, <4>1, <4>2 DEF Outcome
        <3>5. CASE ~(raised /\ outer) /\ winning_socket = 0
            <4>1. ~raised /\ started = Len(targets)
                BY <3>1, <3>5 DEF CancelledForAReason
            <4>2. \A i \in Target : attempt[i] = "failed"
                BY <3>1, <3>5, <4>1 DEF AttemptsCount, EyeTypeOK, Target
            <4>3. failed = Target
                BY <4>2 DEF AttemptsCount, EyeTypeOK
            <4>4. Len(targets) \in Nat
                BY DEF EyeTypeOK
            <4>5. Cardinality(failed) = Len(targets)
                <5>1. 1 \in Int /\ Len(targets) \in Int
                    BY <4>4
                <5>2. Cardinality(1 .. Len(targets)) = IF 1 > Len(targets) THEN 0 ELSE Len(targets) - 1 + 1
                    BY ONLY <5>1, FS_Interval
                <5>3. Cardinality(1 .. Len(targets)) = Len(targets)
                    BY <4>4, <5>2
                <5> QED
                    BY <4>3, <5>3 DEF Target
            <4>6. result' = "OSError" /\ Kept = {}
                BY <1>9, <3>5, <4>5 DEF Finish, Kept
            <4> QED
                BY <2>1, <3>1, <3>2, <4>3, <4>6 DEF Outcome
        <3> QED
            BY <3>3, <3>4, <3>5
    <2>8. Interleaved'
        BY <1>9, <2>1, <2>2 DEF Finish, Interleaved, Target, fixedVars
    <2> QED
        BY <2>3, <2>4, <2>5, <2>6, <2>7, <2>8
<1>10. CASE UNCHANGED eyeVars
    <2>1. Target' = Target
        BY <1>10 DEF eyeVars, Target
    <2>2. (scope' <=> scope) /\ (outer' <=> outer) /\ (raised' <=> raised)
        BY <1>10, Zenon DEF eyeVars
    <2>3. EyeTypeOK'
        BY <1>10, <2>1, <2>2 DEF eyeVars, EyeTypeOK, AttemptState, Target
    <2>4. SocketsKnown'
        BY <1>10, <2>1, <2>2 DEF eyeVars, SocketsKnown, EyeTypeOK, AttemptState, Target
    <2>5. AttemptsCount'
        BY <1>10, <2>1, <2>2 DEF eyeVars, AttemptsCount, EyeTypeOK, AttemptState, Target
    <2>6. CancelledForAReason'
        BY <1>10, <2>1, <2>2 DEF eyeVars, CancelledForAReason, EyeTypeOK, Target
    <2>7. Outcome'
        BY <1>10, <2>1, <2>2 DEF eyeVars, Outcome, EyeTypeOK, AttemptState, Target
    <2>8. Interleaved'
        BY <1>10, <2>1, <2>2 DEF eyeVars, Interleaved, Target
    <2> QED
        BY <2>3, <2>4, <2>5, <2>6, <2>7, <2>8
<1> QED
    BY <1>1, <1>2, <1>3, <1>4, <1>5, <1>6, <1>7, <1>8, <1>9, <1>10, <1>11 DEF EyeballsNext

\* However attempts, timer, answers and cancellation interleave, open_tcp_stream
\* ends with the one socket it returns or with none, for any list of targets.
THEOREM OneSocketSurvivesThm == EyeballsSpec => []OneSocketSurvives
<1>1. EyeInv => OneSocketSurvives
    BY DEF EyeInv, EyeTypeOK, Outcome, Interleaved, OneSocketSurvives
<1> QED
    BY <1>1, EyeInvInit, EyeInvNext, PTL DEF EyeballsSpec

--------------------------------------------------------------------------------
(***************************************************************************)
(* TcpServer.                                                              *)
(***************************************************************************)
ServerTypeOK ==
    /\ todo \in Seq(Address) /\ sock \in [Address -> {"none", "listening", "closed"}]
    /\ serve \in {"opening", "serving", "raised", "over"}
    /\ loop \in [Address -> {"none", "accept", "sleep", "over"}]
    /\ backlog \in [Address -> Seq(Conn)]
    /\ conn \in [Conn -> {"none", "queued", "scheduled", "handled", "closed"}]

\* A listening socket always has someone who will close it: the parent while
\* it opens them, and the accept loop afterwards.
ListenersOwned ==
    /\ \A a \in Address : loop[a] \in {"accept", "sleep"} => serve = "serving"
    /\ \A a \in Address : sock[a] = "listening" =>
          serve = "opening" \/ (serve = "serving" /\ loop[a] \in {"accept", "sleep"})

\* A connection is in a listener's queue, or its handler is in the nursery.
ConnectionsOwned ==
    /\ \A c \in Conn : conn[c] = "queued" => \E a \in Address : c \in ToSet(backlog[a])
    /\ \A a \in Address : backlog[a] # <<>> => sock[a] = "listening"
    /\ \A c \in Conn : conn[c] \in {"scheduled", "handled"} => serve = "serving"

ServerInv == ServerTypeOK /\ ListenersOwned /\ ConnectionsOwned

\* No listener is open and no connection has arrived.
LEMMA ServerInvInit == ServerInit => ServerInv
<1> SUFFICES ASSUME ServerInit PROVE ServerInv
    OBVIOUS
<1>1. Cardinality(Address) \in Nat
    BY ServerAssumption, FS_CardinalityType
<1>2. todo \in Seq(Address)
    BY <1>1 DEF ServerInit
<1>3. ServerTypeOK
    BY <1>2 DEF ServerInit, ServerTypeOK
<1> QED
    BY <1>3 DEF ServerInit, ServerInv, ListenersOwned, ConnectionsOwned

\* Closing sockets drops what is in their queues and nothing else.
LEMMA CloseSocketsKeeps ==
    ASSUME ServerInv, NEW S \in SUBSET Address, CloseSockets(S)
    PROVE  /\ sock' \in [Address -> {"none", "listening", "closed"}]
           /\ backlog' \in [Address -> Seq(Conn)]
           /\ conn' \in [Conn -> {"none", "queued", "scheduled", "handled", "closed"}]
           /\ \A a \in Address : sock'[a] = IF a \in S THEN "closed" ELSE sock[a]
           /\ \A c \in Conn : conn'[c] = "queued" => \E a \in Address : c \in ToSet(backlog'[a])
           /\ \A a \in Address : backlog'[a] # <<>> => sock'[a] = "listening"
           /\ \A c \in Conn : conn'[c] \in {"scheduled", "handled"} => conn[c] \in {"scheduled", "handled"}
<1>1. sock' = [a \in Address |-> IF a \in S THEN "closed" ELSE sock[a]]
    BY DEF CloseSockets
<1>2. backlog' = [a \in Address |-> IF a \in S THEN <<>> ELSE backlog[a]]
    BY DEF CloseSockets
<1>3. conn' = [c \in Conn |-> IF \E a \in S : c \in ToSet(backlog[a]) THEN "closed" ELSE conn[c]]
    BY DEF CloseSockets
<1>4. sock' \in [Address -> {"none", "listening", "closed"}]
    BY <1>1 DEF ServerInv, ServerTypeOK
<1>5. backlog' \in [Address -> Seq(Conn)]
    BY <1>2 DEF ServerInv, ServerTypeOK
<1>6. conn' \in [Conn -> {"none", "queued", "scheduled", "handled", "closed"}]
    BY <1>3 DEF ServerInv, ServerTypeOK
<1>7. \A a \in Address : sock'[a] = IF a \in S THEN "closed" ELSE sock[a]
    BY <1>1
<1>8. ASSUME NEW c \in Conn, conn'[c] = "queued"
      PROVE  \E a \in Address : c \in ToSet(backlog'[a])
    <2>1. conn[c] = "queued" /\ ~\E a \in S : c \in ToSet(backlog[a])
        BY <1>3, <1>8
    <2>2. PICK a \in Address : c \in ToSet(backlog[a])
        BY <2>1 DEF ServerInv, ConnectionsOwned
    <2>3. backlog'[a] = backlog[a]
        BY <1>2, <2>1, <2>2
    <2> QED
        BY <2>2, <2>3
<1>9. \A a \in Address : backlog'[a] # <<>> => sock'[a] = "listening"
    BY <1>1, <1>2 DEF ServerInv, ConnectionsOwned
<1>10. \A c \in Conn : conn'[c] \in {"scheduled", "handled"} => conn[c] \in {"scheduled", "handled"}
    BY <1>3
<1> QED
    BY <1>4, <1>5, <1>6, <1>7, <1>8, <1>9, <1>10

\* Opening, accepting, the backoff after EMFILE, cancellation and the closing of
\* the listeners keep the invariant.
LEMMA ServerInvNext ==
    ASSUME ServerInv, [ServerNext]_serverVars
    PROVE  ServerInv'
<1> USE DEF ServerInv
<1>1. ASSUME NEW outcome \in {"ok", "EAFNOSUPPORT", "OSError"}, OpenListener(outcome)
      PROVE  ServerInv'
    <2> DEFINE a == Head(todo)
    <2>1. a \in Address /\ Tail(todo) \in Seq(Address)
        BY <1>1, TailQueue DEF OpenListener, ServerTypeOK
    <2>2. CASE outcome = "ok"
        <3>1. /\ sock' = [sock EXCEPT ![a] = "listening"] /\ todo' = Tail(todo)
              /\ UNCHANGED <<serve, backlog, conn, loop>> /\ serve = "opening"
            BY <1>1, <2>2 DEF OpenListener
        <3> HIDE DEF a
        <3> QED
            BY <2>1, <3>1 DEF ServerTypeOK, ListenersOwned, ConnectionsOwned
    <2>3. CASE outcome = "EAFNOSUPPORT"
        <3>1. todo' = Tail(todo) /\ UNCHANGED <<sock, serve, backlog, conn, loop>>
            BY <1>1, <2>3 DEF OpenListener
        <3> QED
            BY <2>1, <3>1 DEF ServerTypeOK, ListenersOwned, ConnectionsOwned
    <2>4. CASE outcome = "OSError"
        <3>1. /\ CloseSockets(Listening \cup {a}) /\ serve = "opening" /\ serve' = "raised"
              /\ UNCHANGED <<todo, loop>>
            BY <1>1, <2>4 DEF OpenListener
        <3>2. Listening \cup {a} \in SUBSET Address
            BY <2>1 DEF Listening
        <3> HIDE DEF a
        <3>3. ServerTypeOK'
            BY <3>1, <3>2, CloseSocketsKeeps DEF ServerTypeOK
        <3>4. ListenersOwned'
            <4>0. \A x \in Address :
                     sock'[x] = IF x \in Listening \cup {a} THEN "closed" ELSE sock[x]
                BY <3>1, <3>2, CloseSocketsKeeps, ZenonT(30)
            <4>1. ASSUME NEW x \in Address PROVE sock'[x] # "listening"
                BY <4>0 DEF Listening
            <4>2. loop' = loop /\ serve = "opening"
                BY <3>1
            <4> QED
                BY <4>1, <4>2 DEF ListenersOwned
        <3>5. ConnectionsOwned'
            BY <3>1, <3>2, CloseSocketsKeeps DEF ConnectionsOwned
        <3> QED
            BY <3>3, <3>4, <3>5
    <2> QED
        BY <1>1, <2>2, <2>3, <2>4
<1>2. CASE serve_listeners
    <2>1. CASE unsupported > 0 /\ Listening = {}
        <3>1. serve' = "raised" /\ serve = "opening" /\ UNCHANGED <<loop, todo, sock, backlog, conn>>
            BY <1>2, <2>1 DEF serve_listeners
        <3> QED
            BY <2>1, <3>1 DEF ServerTypeOK, ListenersOwned, ConnectionsOwned, Listening
    <2>2. CASE ~(unsupported > 0 /\ Listening = {})
        <3>1. /\ serve' = "serving" /\ serve = "opening" /\ UNCHANGED <<todo, sock, backlog, conn>>
              /\ loop' = [a \in Address |-> IF sock[a] = "listening" THEN "accept" ELSE "none"]
            BY <1>2, <2>2 DEF serve_listeners
        <3> QED
            BY <3>1 DEF ServerTypeOK, ListenersOwned, ConnectionsOwned
    <2> QED
        BY <2>1, <2>2
<1>3. ASSUME NEW a \in Address, Connect(a)
      PROVE  ServerInv'
    <2> DEFINE c == CHOOSE x \in Conn : conn[x] = "none"
    <2>1. c \in Conn /\ conn[c] = "none"
        BY <1>3 DEF Connect
    <2>2. /\ sock[a] = "listening" /\ conn' = [conn EXCEPT ![c] = "queued"]
          /\ backlog' = [backlog EXCEPT ![a] = Append(@, c)]
          /\ UNCHANGED <<todo, sock, serve, loop>>
        BY <1>3 DEF Connect
    <2> HIDE DEF c
    <2>3. /\ backlog'[a] = Append(backlog[a], c) /\ backlog'[a] \in Seq(Conn)
          /\ \A b \in Address \ {a} : backlog'[b] = backlog[b]
        BY <2>1, <2>2 DEF ServerTypeOK
    <2>4. ToSet(backlog'[a]) = ToSet(backlog[a]) \cup {c}
        <3>1. backlog[a] \in Seq(Conn)
            BY DEF ServerTypeOK
        <3> QED
            BY ONLY <2>1, <2>3, <3>1, AppendQueue
    <2>5. ServerTypeOK'
        BY <2>1, <2>2, <2>3 DEF ServerTypeOK
    <2>6. ListenersOwned'
        BY <2>2 DEF ListenersOwned
    <2>7. ASSUME NEW d \in Conn, conn'[d] = "queued"
          PROVE  \E b \in Address : d \in ToSet(backlog'[b])
        <3>1. CASE d = c
            BY <2>4, <3>1
        <3>2. CASE d # c
            <4>1. PICK b \in Address : d \in ToSet(backlog[b])
                BY <2>2, <2>7, <3>2 DEF ServerTypeOK, ConnectionsOwned
            <4> QED
                BY <2>3, <2>4, <4>1
        <3> QED
            BY <3>1, <3>2
    <2>8. ConnectionsOwned'
        BY <2>1, <2>2, <2>3, <2>7 DEF ConnectionsOwned, ServerTypeOK
    <2> QED
        BY <2>5, <2>6, <2>8
<1>4. CASE Exhaust
    <2>1. ServerTypeOK'
        BY <1>4 DEF Exhaust, ServerTypeOK
    <2>2. ListenersOwned'
        BY <1>4 DEF Exhaust, ServerTypeOK, ListenersOwned
    <2>3. ConnectionsOwned'
        BY <1>4 DEF Exhaust, ServerTypeOK, ListenersOwned, ConnectionsOwned
    <2> QED
        BY <2>1, <2>2, <2>3
<1>5. CASE Recover
    <2>1. ServerTypeOK'
        BY <1>5 DEF Recover, ServerTypeOK
    <2>2. ListenersOwned'
        BY <1>5 DEF Recover, ServerTypeOK, ListenersOwned
    <2>3. ConnectionsOwned'
        BY <1>5 DEF Recover, ServerTypeOK, ListenersOwned, ConnectionsOwned
    <2> QED
        BY <2>1, <2>2, <2>3
<1>6. ASSUME NEW a \in Address, NEW broken \in BOOLEAN, Accept(a, broken)
      PROVE  ServerInv'
    <2>1. serve = "serving" /\ sock' = sock /\ UNCHANGED <<todo, serve>>
        BY <1>6 DEF Accept, ListenersOwned
    <2>2. CASE exhausted
        <3>1. loop' = [loop EXCEPT ![a] = "sleep"] /\ UNCHANGED <<backlog, conn>> /\ loop[a] = "accept"
            BY <1>6, <2>2 DEF Accept
        <3> QED
            BY <2>1, <3>1 DEF ServerTypeOK, ListenersOwned, ConnectionsOwned
    <2>3. CASE ~exhausted
        <3>1. /\ backlog[a] # <<>> /\ backlog[a] \in Seq(Conn)
              /\ backlog' = [backlog EXCEPT ![a] = Tail(@)] /\ UNCHANGED loop
            BY <1>6, <2>3 DEF Accept, ServerTypeOK
        <3>2. PICK c \in Conn : c = Head(backlog[a])
            BY ONLY <3>1, TailQueue
        <3>3. PICK new \in {"closed", "scheduled"} : conn' = [conn EXCEPT ![c] = new]
            <4>1. conn' = [conn EXCEPT ![c] = IF broken THEN "closed" ELSE "scheduled"]
                BY <1>6, <2>3, <3>2 DEF Accept
            <4> QED
                BY <4>1
        <3>4. Tail(backlog[a]) \in Seq(Conn) /\ ToSet(backlog[a]) = ToSet(Tail(backlog[a])) \cup {c}
            BY ONLY <3>1, <3>2, TailQueue
        <3>5. /\ backlog'[a] = Tail(backlog[a]) /\ backlog' \in [Address -> Seq(Conn)]
              /\ \A b \in Address \ {a} : backlog'[b] = backlog[b]
            BY <3>1, <3>4 DEF ServerTypeOK
        <3>6. ServerTypeOK'
            BY <2>1, <3>1, <3>3, <3>5 DEF ServerTypeOK
        <3>7. ListenersOwned'
            BY <2>1, <3>1 DEF ListenersOwned
        <3>8. ASSUME NEW d \in Conn, conn'[d] = "queued"
              PROVE  \E b \in Address : d \in ToSet(backlog'[b])
            <4>1. d # c /\ conn[d] = "queued"
                BY <3>3, <3>8 DEF ServerTypeOK
            <4>2. PICK b \in Address : d \in ToSet(backlog[b])
                BY <4>1 DEF ConnectionsOwned
            <4> QED
                BY <3>4, <3>5, <4>1, <4>2
        <3>9. ConnectionsOwned'
            BY <2>1, <3>1, <3>3, <3>5, <3>8 DEF ConnectionsOwned, ServerTypeOK
        <3> QED
            BY <3>6, <3>7, <3>9
    <2> QED
        BY <2>2, <2>3
<1>7. ASSUME NEW a \in Address, Retry(a)
      PROVE  ServerInv'
    <2>1. ServerTypeOK'
        BY <1>7 DEF Retry, ServerTypeOK
    <2>2. ListenersOwned'
        BY <1>7 DEF Retry, ServerTypeOK, ListenersOwned
    <2>3. ConnectionsOwned'
        BY <1>7 DEF Retry, ServerTypeOK, ListenersOwned, ConnectionsOwned
    <2> QED
        BY <2>1, <2>2, <2>3
<1>8. ASSUME NEW a \in Address, AcceptFails(a)
      PROVE  ServerInv'
    <2>1. ServerTypeOK'
        BY <1>8 DEF AcceptFails, CloseListener, CloseSockets, ServerTypeOK
    <2>2. ListenersOwned'
        BY <1>8 DEF AcceptFails, CloseListener, CloseSockets, ServerTypeOK, ListenersOwned
    <2>3. ConnectionsOwned'
        BY <1>8 DEF AcceptFails, CloseListener, CloseSockets, ServerTypeOK, ListenersOwned,
           ConnectionsOwned
    <2> QED
        BY <2>1, <2>2, <2>3
<1>9. ASSUME NEW a \in Address, ServeCancelled(a)
      PROVE  ServerInv'
    <2>1. ServerTypeOK'
        BY <1>9 DEF ServeCancelled, CloseListener, CloseSockets, ServerTypeOK
    <2>2. ListenersOwned'
        BY <1>9 DEF ServeCancelled, CloseListener, CloseSockets, ServerTypeOK, ListenersOwned
    <2>3. ConnectionsOwned'
        BY <1>9 DEF ServeCancelled, CloseListener, CloseSockets, ServerTypeOK,
           ListenersOwned, ConnectionsOwned
    <2> QED
        BY <2>1, <2>2, <2>3
<1>10. ASSUME NEW c \in Conn, StartHandler(c)
      PROVE  ServerInv'
    <2>1. ServerTypeOK'
        BY <1>10 DEF StartHandler, ServerTypeOK
    <2>2. ListenersOwned'
        BY <1>10 DEF StartHandler, ServerTypeOK, ListenersOwned
    <2>3. ConnectionsOwned'
        BY <1>10 DEF StartHandler, ServerTypeOK, ListenersOwned, ConnectionsOwned
    <2> QED
        BY <2>1, <2>2, <2>3
<1>11. ASSUME NEW c \in Conn, NEW raises \in BOOLEAN, EndHandler(c, raises)
      PROVE  ServerInv'
    <2>1. ServerTypeOK'
        BY <1>11 DEF EndHandler, ServerTypeOK
    <2>2. ListenersOwned'
        BY <1>11 DEF EndHandler, ServerTypeOK, ListenersOwned
    <2>3. ConnectionsOwned'
        BY <1>11 DEF EndHandler, ServerTypeOK, ListenersOwned, ConnectionsOwned
    <2> QED
        BY <2>1, <2>2, <2>3
<1>12. CASE CancelServer
    <2>1. CASE serve = "opening" /\ todo # <<>>
        <3>1. /\ CloseSockets(Listening \cup {Head(todo)}) /\ serve' = "raised"
              /\ UNCHANGED <<todo, loop>>
            BY <1>12, <2>1 DEF CancelServer
        <3>2. Listening \cup {Head(todo)} \in SUBSET Address
            BY <2>1, TailQueue DEF Listening, ServerTypeOK
        <3>3. ServerTypeOK'
            BY <3>1, <3>2, CloseSocketsKeeps DEF ServerTypeOK
        <3>4. ListenersOwned'
            <4>0. \A x \in Address :
                     sock'[x] = IF x \in Listening \cup {Head(todo)} THEN "closed" ELSE sock[x]
                BY <3>1, <3>2, CloseSocketsKeeps, ZenonT(30)
            <4>1. ASSUME NEW x \in Address PROVE sock'[x] # "listening"
                BY <4>0 DEF Listening
            <4>2. loop' = loop /\ serve = "opening"
                BY <2>1, <3>1
            <4> QED
                BY <4>1, <4>2 DEF ListenersOwned
        <3>5. ConnectionsOwned'
            BY <2>1, <3>1, <3>2, CloseSocketsKeeps DEF ConnectionsOwned
        <3> QED
            BY <3>3, <3>4, <3>5
    <2>2. CASE ~(serve = "opening" /\ todo # <<>>)
        BY <1>12, <2>2 DEF CancelServer, ServerTypeOK, ListenersOwned, ConnectionsOwned
    <2> QED
        BY <2>1, <2>2
<1>13. CASE ServeEnds
    <2>1. ServerTypeOK'
        BY <1>13 DEF ServeEnds, ServerTypeOK
    <2>2. ListenersOwned'
        BY <1>13 DEF ServeEnds, ServerTypeOK, ListenersOwned
    <2>3. ConnectionsOwned'
        BY <1>13 DEF ServeEnds, ServerTypeOK, ListenersOwned, ConnectionsOwned
    <2> QED
        BY <2>1, <2>2, <2>3
<1>14. CASE UNCHANGED serverVars
    BY <1>14 DEF serverVars, ServerTypeOK, ListenersOwned, ConnectionsOwned
<1> QED
    BY <1>1, <1>2, <1>3, <1>4, <1>5, <1>6, <1>7, <1>8, <1>9, <1>10, <1>11, <1>12, <1>13,
       <1>14 DEF ServerNext

\* serve_tcp leaves no socket and no connection open when it is over, for any
\* addresses and any number of connections and shortages of descriptors.
THEOREM ServerLeavesNothingOpenThm == ServerSpec => []ServerLeavesNothingOpen
<1>1. ServerInv => ServerLeavesNothingOpen
    BY EmptyQueue DEF ServerInv, ServerTypeOK, ListenersOwned, ConnectionsOwned,
       ServerLeavesNothingOpen
<1> QED
    BY <1>1, ServerInvInit, ServerInvNext, PTL DEF ServerSpec

--------------------------------------------------------------------------------
(***************************************************************************)
(* Subprocess.                                                             *)
(***************************************************************************)
ProcTypeOK ==
    /\ child \in {"none", "running", "zombie", "reaped"}
    /\ pidfd \in {"none", "open", "closed"}
    /\ pc \in [Task -> {"idle", "lock", "asleep", "done"}]
    /\ exit_event \in {"none", "unset", "set"} /\ threads \in Nat
    /\ rp \in {"open", "wait", "kill", "exit", "raise", "returned", "raised"}
    /\ killer \in {"none", "scheduled", "sleep", "done"}

\* Before open_process there is nothing; it may never be more.
NotYetOpen ==
    /\ rp = "open" => child = "none" /\ helpers = {} /\ killer = "none"
    /\ child = "none" => rp \in {"open", "raised"} /\ \A t \in Task : pc[t] = "idle"

\* Whoever knows the exit status has closed the pidfd, and run_process goes
\* on only when it knows it.
ReapedAndClosed ==
    /\ child = "reaped" => pidfd # "open"
    /\ \A t \in Task : pc[t] = "done" => child = "reaped"
    /\ rp \in {"exit", "raise", "returned"} => child = "reaped"
    /\ rp = "raised" => child \in {"none", "reaped"}

NurseryEmpty == rp \in {"returned", "raised"} => helpers = {} /\ killer \in {"none", "done"}

\* The waitid thread is started by the first wait() and by no other.
OneThread == threads <= 1 /\ (exit_event = "none" => threads = 0)

ProcInv == ProcTypeOK /\ NotYetOpen /\ ReapedAndClosed /\ NurseryEmpty /\ OneThread

\* No process has been started.
LEMMA ProcInvInit == ProcessInit => ProcInv
    BY DEF ProcessInit, ProcInv, ProcTypeOK, NotYetOpen, ReapedAndClosed, NurseryEmpty,
       OneThread

\* Starting the process, its death, the reaping thread and the end of
\* run_process() keep the invariant.
LEMMA ProcInvNext ==
    ASSUME ProcInv, [ProcessNext]_procVars
    PROVE  ProcInv'
<1> USE ProcessAssumption DEF ProcInv, ProcTypeOK, NotYetOpen, ReapedAndClosed, NurseryEmpty, OneThread, ownVars
<1>1. ASSUME NEW withInput \in BOOLEAN, NEW withOutput \in BOOLEAN, open_process(withInput, withOutput)
      PROVE  ProcInv'
    BY <1>1 DEF open_process
<1>2. CASE OpenFails
    BY <1>2 DEF OpenFails
<1>3. ASSUME NEW t \in Task, CallWait(t)
      PROVE  ProcInv'
    BY <1>3 DEF CallWait
<1>4. ASSUME NEW t \in Task, WaitLocked(t)
      PROVE  ProcInv'
    BY <1>4 DEF WaitLocked, Reaped, CloseIfReaped, FirstWait
<1>5. CASE WaitidReturns
    BY <1>5 DEF WaitidReturns
<1>6. ASSUME NEW t \in Task, WaitWoken(t)
      PROVE  ProcInv'
    BY <1>6 DEF WaitWoken, CloseIfReaped
<1>7. ASSUME NEW t \in Task, WaitCancelled(t)
      PROVE  ProcInv'
    BY <1>7 DEF WaitCancelled
<1>8. CASE Poll
    BY <1>8 DEF Poll, CloseIfReaped
<1>9. ASSUME NEW sig \in {"SIGTERM", "SIGKILL"}, send_signal(sig)
      PROVE  ProcInv'
    BY <1>9 DEF send_signal, Signalled, Refused
<1>10. CASE ChildExits
    BY <1>10 DEF ChildExits
<1>11. CASE RunnerWaited
    BY <1>11 DEF RunnerWaited
<1>12. CASE Killer
    BY <1>12 DEF Killer, Signalled, Refused
<1>13. ASSUME NEW h \in helpers, HelperEnds(h)
      PROVE  ProcInv'
    BY <1>13 DEF HelperEnds, PipesEnd
<1>14. ASSUME NEW h \in helpers, HelperFails(h)
      PROVE  ProcInv'
    BY <1>14 DEF HelperFails
<1>15. CASE CancelRunner
    BY <1>15 DEF CancelRunner
<1>16. CASE RunnerEnds
    BY <1>16 DEF RunnerEnds
<1>17. CASE UNCHANGED procVars
    BY <1>17 DEF procVars
<1> QED
    BY <1>1, <1>2, <1>3, <1>4, <1>5, <1>6, <1>7, <1>8, <1>9, <1>10, <1>11, <1>12, <1>13,
       <1>14, <1>15, <1>16, <1>17 DEF ProcessNext, ProcessSteps

\* run_process leaves no child, descriptor or task behind, and wait() starts
\* one thread at most, for any number of tasks that use the Process.
THEOREM NothingLeftBehindThm == ProcessSpec => []NothingLeftBehind
<1>1. ProcInv => NothingLeftBehind
    BY DEF ProcInv, ProcTypeOK, ReapedAndClosed, NurseryEmpty, OneThread, NothingLeftBehind
<1> QED
    BY <1>1, ProcInvInit, ProcInvNext, PTL DEF ProcessSpec

--------------------------------------------------------------------------------
(***************************************************************************)
(* All of them together, as the model-checking instance composes them: a   *)
(* step of one leaves the variables of the others unchanged.               *)
(***************************************************************************)
NetInv == ProcInv /\ EyeInv /\ ServerInv /\ SignalInv /\ AgenInv

\* A step of the one keeps the invariants of both.
LEMMA NetInvNext ==
    ASSUME NetInv, [NetNext]_netVars
    PROVE  NetInv'
<1>1. [ProcessNext]_procVars /\ [EyeballsNext]_eyeVars /\ [ServerNext]_serverVars
      /\ [SignalNext]_signalVars /\ [AgenNext]_agenVars
    BY Zenon DEF NetNext, netVars
<1> QED
    BY <1>1, ProcInvNext, EyeInvNext, ServerInvNext, SignalInvNext, AgenInvNext, Zenon
       DEF NetInv

\* No socket is leaked by open_tcp_stream or by serve_tcp in the composition.
THEOREM NoSocketLeakedThm == NetSpec => []NoSocketLeaked
<1>1. NetInit => NetInv
    BY ProcInvInit, EyeInvInit, ServerInvInit, SignalInvInit, AgenInvInit DEF NetInit, NetInv
<1>2. NetInv => NoSocketLeaked
    <2>1. EyeInv => OneSocketSurvives
        BY DEF EyeInv, EyeTypeOK, Outcome, Interleaved, OneSocketSurvives
    <2>2. ServerInv => ServerLeavesNothingOpen
        BY EmptyQueue
        DEF ServerInv, ServerTypeOK, ListenersOwned, ConnectionsOwned, ServerLeavesNothingOpen
    <2> QED
        BY <2>1, <2>2 DEF NetInv, NoSocketLeaked
<1> QED
    BY <1>1, <1>2, NetInvNext, PTL DEF NetSpec
================================================================================
