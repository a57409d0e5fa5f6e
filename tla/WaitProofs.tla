------------------------------ MODULE WaitProofs -------------------------------
(***************************************************************************)
(* Proofs about what tasks wait for inside the process.                    *)
(*                                                                         *)
(* Deadlines, for every finite set of scopes and range of times, in        *)
(* regular and in guest mode: none is lost, and none is slept past.        *)
(*                                                                         *)
(* Memory channels, for every number of tasks, values and handles and      *)
(* every size of the buffer: nobody sleeps unseen or without need, and a   *)
(* channel implements a bounded first-in first-out queue (BoundedFifo).    *)
(***************************************************************************)
EXTENDS Deadlines, MemoryChannel, QueueProofs, FiniteSetTheorems, TLAPS

--------------------------------------------------------------------------------
(***************************************************************************)
(* The heap of deadlines                                                   *)
(***************************************************************************)

(***************************************************************************)
(* The parts of an entry are numbers.                                      *)
(***************************************************************************)
LEMMA EntryParts ==
    ASSUME NEW e \in Entry
    PROVE  /\ e[1] \in Deadline /\ e[1] \in Nat
           /\ e[2] \in Scope /\ e[2] \in Nat
<1>1. e[1] \in Deadline /\ e[2] \in Scope
    BY DEF Entry
<1>2. Deadline \subseteq Nat /\ Scope \subseteq Nat
    BY DeadlinesAssumption DEF Deadline
<1> QED
    BY <1>1, <1>2

(***************************************************************************)
(* next_deadline() returns the earliest current deadline, or infinity.     *)
(***************************************************************************)
LEMMA NextDeadlineIsEarliest ==
    ASSUME NEW h \in [Entry -> Nat], NEW r \in [Scope -> Deadline \cup {Inf}]
    PROVE  /\ NextDeadline(h, r) \in Deadline \cup {Inf}
           /\ \A e \in Current(h, r) : NextDeadline(h, r) <= e[1]
           /\ NextDeadline(h, r) # Inf =>
                 \E e \in Current(h, r) : NextDeadline(h, r) = e[1]
<1> DEFINE C == Current(h, r)
           D == {e[1] : e \in C}
<1>1. C \subseteq Entry /\ D \subseteq Deadline /\ Deadline \subseteq Nat
    BY DeadlinesAssumption DEF Current, In, Entry, Deadline
<1>2. CASE C = {}
    BY <1>2 DEF NextDeadline
<1>3. CASE C # {}
    <2>1. D # {}
        BY <1>3
    <2>2. Min(D) \in D /\ \A x \in D : Min(D) <= x
        BY <1>1, <2>1, MinIsLeast
    <2>3. NextDeadline(h, r) = Min(D)
        BY <1>3 DEF NextDeadline
    <2> QED
        BY <1>1, <2>2, <2>3
<1> QED
    BY <1>2, <1>3

(***************************************************************************)
(* next_deadline() drops entries, but no current one, and none that comes  *)
(* after a current one.                                                    *)
(***************************************************************************)
LEMMA DropStaleKeepsCurrent ==
    ASSUME NEW h \in [Entry -> Nat], NEW r \in [Scope -> Deadline \cup {Inf}]
    PROVE  /\ DropStale(h, r) \in [Entry -> Nat]
           /\ \A e \in Current(h, r) : DropStale(h, r)[e] = h[e]
           /\ In(DropStale(h, r)) \subseteq In(h)
           /\ \A e \in In(DropStale(h, r)) : NextDeadline(h, r) <= e[1]
<1> DEFINE g == DropStale(h, r)
<1>0. Deadline \subseteq Nat /\ Inf \in Nat /\ Scope \subseteq Nat
    BY DeadlinesAssumption DEF Deadline, Inf
<1>1. g \in [Entry -> Nat]
    BY DEF DropStale
<1>2. ASSUME NEW e \in Current(h, r)
      PROVE  g[e] = h[e]
    <2>1. e \in Entry
        BY DEF Current, In
    <2>2. AtOrBefore(e, e)
        BY <2>1, EntryParts DEF AtOrBefore
    <2> QED
        BY <2>1, <2>2 DEF DropStale
<1>3. ASSUME NEW e \in In(g)
      PROVE  e \in In(h) /\ NextDeadline(h, r) <= e[1]
    <2>1. e \in Entry /\ g[e] > 0
        BY DEF In
    <2>2. PICK f \in Current(h, r) : AtOrBefore(f, e)
        BY <2>1 DEF DropStale
    <2>3. g[e] = h[e]
        BY <2>1, <2>2 DEF DropStale
    <2>4. f \in Entry /\ e[1] \in Nat /\ f[1] \in Nat /\ f[1] <= e[1]
        <3>1. f \in Entry
            BY DEF Current, In
        <3>2. e[1] \in Nat /\ f[1] \in Nat
            BY <2>1, <3>1, EntryParts
        <3> QED
            BY <2>2, <3>1, <3>2 DEF AtOrBefore
    <2>5. NextDeadline(h, r) <= f[1] /\ NextDeadline(h, r) \in Nat
        BY <1>0, NextDeadlineIsEarliest
    <2> QED
        BY <2>1, <2>3, <2>4, <2>5 DEF In
<1> QED
    BY <1>1, <1>2, <1>3

--------------------------------------------------------------------------------
(***************************************************************************)
(* The inductive invariant.  ActiveCounts is the first half of             *)
(* ActiveIsExact.  SleepBound is what NeverSleepsPastDeadline needs: it    *)
(* speaks of all entries, stale ones included, since a stale entry can     *)
(* become current again when its scope goes back to an earlier deadline.   *)
(***************************************************************************)
Registered == {s \in Scope : registered[s] # Inf}

ActiveCounts == active = Cardinality(Registered)

SleepBound ==
    loop = "asleep" /\ ~ tick_scheduled =>
        \A e \in In(heap) : sleeping_until <= e[1]

DeadlinesInv ==
    /\ DeadlinesTypeOK
    /\ ActiveCounts
    /\ NoDeadlineLost
    /\ SleepBound

(***************************************************************************)
(* Counting: a scope that registers or drops a deadline changes the count  *)
(* as add() and remove() do.                                               *)
(***************************************************************************)
LEMMA CountRegistered ==
    ASSUME DeadlinesTypeOK, ActiveCounts, NEW s \in Scope,
           NEW d \in Deadline \cup {Inf},
           registered' = [registered EXCEPT ![s] = d],
           active' = active - (IF registered[s] = Inf THEN 0 ELSE 1)
                            + (IF d = Inf THEN 0 ELSE 1)
    PROVE  active' \in Nat /\ ActiveCounts'
<1>1. IsFiniteSet(Registered)
    BY DeadlinesAssumption, FS_Subset DEF Registered
<1>2. Cardinality(Registered) \in Nat
    BY <1>1, FS_CardinalityType
<1>3. /\ IsFiniteSet(Registered \ {s})
      /\ Cardinality(Registered \ {s}) =
           IF s \in Registered THEN Cardinality(Registered) - 1 ELSE Cardinality(Registered)
    BY <1>1, FS_RemoveElement
<1>4. Cardinality(Registered \ {s}) \in Nat
    BY <1>3, FS_CardinalityType
<1>5. Cardinality((Registered \ {s}) \cup {s}) = Cardinality(Registered \ {s}) + 1
    BY <1>3, FS_AddElement
<1>6. s \in Registered <=> registered[s] # Inf
    BY DEF Registered
<1>7. active = Cardinality(Registered)
    BY DEF ActiveCounts
<1>8. CASE d = Inf
    <2>1. Registered' = Registered \ {s}
        BY <1>8 DEF Registered, DeadlinesTypeOK
    <2>2. active' = Cardinality(Registered \ {s})
        BY <1>2, <1>3, <1>6, <1>7, <1>8
    <2> QED
        BY <1>4, <2>1, <2>2 DEF ActiveCounts
<1>9. CASE d # Inf
    <2>1. Registered' = (Registered \ {s}) \cup {s}
        BY <1>9 DEF Registered, DeadlinesTypeOK
    <2>2. active' = Cardinality(Registered \ {s}) + 1
        BY <1>2, <1>3, <1>6, <1>7, <1>9
    <2> QED
        BY <1>4, <1>5, <2>1, <2>2 DEF ActiveCounts
<1> QED
    BY <1>8, <1>9

(***************************************************************************)
(* _might_change_registered_deadline() keeps every registered deadline in  *)
(* the heap, if the heap it finds lacks at most the one it replaces.       *)
(***************************************************************************)
LEMMA ReregisterKeepsDeadlines ==
    ASSUME DeadlinesTypeOK, ActiveCounts, NEW h \in [Entry -> Nat], NEW s \in Scope,
           NEW d \in Deadline \cup {Inf}, Reregister(h, s, d),
           \A u \in Scope \ {s} : registered[u] # Inf => h[<<registered[u], u>>] > 0
    PROVE  /\ heap' \in [Entry -> Nat] /\ active' \in Nat
           /\ registered' \in [Scope -> Deadline \cup {Inf}]
           /\ tick_scheduled' \in BOOLEAN
           /\ ActiveCounts'
           /\ NoDeadlineLost'
<1> DEFINE r      == [registered EXCEPT ![s] = d]
           before == IF Guest THEN DropStale(h, r) ELSE h
           added  == IF d = Inf THEN before ELSE [before EXCEPT ![<<d, s>>] = @ + 1]
<1>1. r \in [Scope -> Deadline \cup {Inf}] /\ registered' = r
    BY DEF DeadlinesTypeOK, Reregister
<1>2. /\ before \in [Entry -> Nat]
      /\ \A u \in Scope \ {s} : r[u] # Inf => before[<<r[u], u>>] > 0
    <2>1. ASSUME NEW u \in Scope \ {s}, r[u] # Inf
          PROVE  /\ h[<<r[u], u>>] > 0
                 /\ <<r[u], u>> \in Current(h, r)
        BY <1>1, <2>1 DEF Current, In, Entry, DeadlinesTypeOK
    <2> HIDE DEF r
    <2> QED
        BY <1>1, <2>1, DropStaleKeepsCurrent
<1>3. d # Inf => <<d, s>> \in Entry
    BY DEF Entry
<1>4. /\ added \in [Entry -> Nat]
      /\ \A u \in Scope : r[u] # Inf => added[<<r[u], u>>] > 0
    <2>1. added \in [Entry -> Nat]
        <3> HIDE DEF before
        <3>1. d # Inf => before[<<d, s>>] + 1 \in Nat
            BY <1>2, <1>3
        <3> QED
            BY <1>2, <3>1
    <2>2. ASSUME NEW u \in Scope, r[u] # Inf, u # s
          PROVE  added[<<r[u], u>>] > 0
        <3>1. before[<<r[u], u>>] > 0 /\ <<r[u], u>> \in Entry
            BY <1>1, <1>2, <2>2 DEF Entry
        <3>2. <<r[u], u>> # <<d, s>>
            BY <2>2
        <3>3. added[<<r[u], u>>] = before[<<r[u], u>>]
            BY <1>2, <3>1, <3>2
        <3> QED
            BY <3>1, <3>3
    <2>3. ASSUME r[s] # Inf
          PROVE  added[<<r[s], s>>] > 0
        <3>1. r[s] = d
            BY DEF DeadlinesTypeOK
        <3>2. before[<<d, s>>] \in Nat
            BY <1>2, <1>3, <2>3, <3>1
        <3>3. added[<<d, s>>] = before[<<d, s>>] + 1
            BY <1>2, <1>3, <2>3, <3>1
        <3> QED
            BY <3>1, <3>2, <3>3
    <2> QED
        BY <2>1, <2>2, <2>3
<1>5. heap' = IF Guest THEN DropStale(added, r) ELSE added
    BY DEF Reregister
<1> HIDE DEF r, before, added
<1>6. heap' \in [Entry -> Nat] /\ NoDeadlineLost'
    <2>1. ASSUME NEW u \in Scope, r[u] # Inf
          PROVE  <<r[u], u>> \in Current(added, r)
        BY <1>1, <1>4, <2>1 DEF Current, In, Entry
    <2>2. /\ heap' \in [Entry -> Nat]
          /\ \A e \in Current(added, r) : heap'[e] = added[e]
        BY <1>1, <1>4, <1>5, DropStaleKeepsCurrent
    <2> QED
        BY <1>1, <1>4, <2>1, <2>2 DEF NoDeadlineLost
<1>7. active' \in Nat /\ ActiveCounts'
    BY CountRegistered DEF Reregister
<1>8. tick_scheduled' \in BOOLEAN
    BY DEF Reregister, DeadlinesTypeOK
<1> QED
    BY <1>1, <1>6, <1>7, <1>8

(***************************************************************************)
(* The comparison in guest mode: if the loop is left asleep, then the new  *)
(* deadline does not come before the end of its sleep.                     *)
(***************************************************************************)
LEMMA ReregisterKeepsSleepBound ==
    ASSUME DeadlinesTypeOK, SleepBound, NEW s \in Scope,
           NEW d \in Deadline \cup {Inf}, Reregister(heap, s, d),
           Guest, UNCHANGED <<loop, sleeping_until>>
    PROVE  SleepBound'
<1> SUFFICES ASSUME loop = "asleep", ~ tick_scheduled', NEW e \in In(heap')
             PROVE  sleeping_until <= e[1]
    BY DEF SleepBound, In
<1> DEFINE r      == [registered EXCEPT ![s] = d]
           before == DropStale(heap, r)
           added  == IF d = Inf THEN before ELSE [before EXCEPT ![<<d, s>>] = @ + 1]
<1>1. r \in [Scope -> Deadline \cup {Inf}] /\ heap \in [Entry -> Nat]
    BY DEF DeadlinesTypeOK
<1>2. /\ before \in [Entry -> Nat]
      /\ In(before) \subseteq In(heap)
    BY <1>1, DropStaleKeepsCurrent
<1>3. /\ heap' = DropStale(added, r)
      /\ ~ tick_scheduled
      /\ NextDeadline(before, r) = NextDeadline(added, r)
    BY DEF Reregister
<1>4. \A f \in In(heap) : sleeping_until <= f[1]
    BY <1>3 DEF SleepBound
<1>5. sleeping_until \in Nat /\ sleeping_until <= Inf
    BY DeadlinesAssumption DEF DeadlinesTypeOK, Deadline, Inf
<1>6. CASE d = Inf
    <2>1. In(heap') \subseteq In(before)
        BY <1>1, <1>2, <1>3, <1>6, DropStaleKeepsCurrent
    <2> QED
        BY <1>2, <1>4, <2>1
<1>7. CASE d # Inf
    <2>1. <<d, s>> \in Entry
        BY <1>7 DEF Entry
    <2>2. added \in [Entry -> Nat] /\ added[<<d, s>>] > 0
        <3> HIDE DEF before
        <3>1. before[<<d, s>>] \in Nat
            BY <1>2, <2>1
        <3> QED
            BY <1>2, <1>7, <2>1, <3>1
    <2>3. In(added) \subseteq In(before) \cup {<<d, s>>}
        <3> HIDE DEF before
        <3> QED
            BY <1>2, <1>7, <2>1 DEF In
    <2>4. r[s] = d
        BY DEF DeadlinesTypeOK
    <2> HIDE DEF r, before, added
    <2>5. <<d, s>> \in Current(added, r)
        BY <2>1, <2>2, <2>4 DEF Current, In
    <2>6. NextDeadline(added, r) <= d /\ d \in Nat
        <3>1. NextDeadline(added, r) <= <<d, s>>[1]
            BY <1>1, <2>2, <2>5, NextDeadlineIsEarliest
        <3> QED
            BY <2>1, <3>1, EntryParts
    <2>7. sleeping_until <= NextDeadline(before, r) /\ NextDeadline(before, r) \in Nat
        <3>1. NextDeadline(before, r) \in Deadline \cup {Inf}
            BY <1>1, <1>2, NextDeadlineIsEarliest
        <3>2. NextDeadline(before, r) \in Nat
            BY <3>1, DeadlinesAssumption DEF Deadline, Inf
        <3>3. CASE NextDeadline(before, r) = Inf
            BY <1>5, <3>2, <3>3
        <3>4. CASE NextDeadline(before, r) # Inf
            <4>1. PICK f \in Current(before, r) : NextDeadline(before, r) = f[1]
                BY <1>1, <1>2, <3>4, NextDeadlineIsEarliest
            <4>2. f \in In(heap)
                BY <1>2, <4>1 DEF Current
            <4> QED
                BY <1>4, <3>2, <4>1, <4>2
        <3> QED
            BY <3>3, <3>4
    <2>8. sleeping_until <= d
        BY <1>3, <1>5, <2>6, <2>7
    <2>9. e \in In(added)
        BY <1>1, <1>3, <2>2, DropStaleKeepsCurrent
    <2>10. CASE e = <<d, s>>
        BY <2>8, <2>10
    <2>11. CASE e \in In(before)
        BY <1>2, <1>4, <2>11
    <2> QED
        BY <2>3, <2>9, <2>10, <2>11
<1> QED
    BY <1>6, <1>7

(***************************************************************************)
(* Changing a deadline, from a task or from the host, keeps the invariant. *)
(***************************************************************************)
LEMMA ChangeDeadlineStep ==
    ASSUME DeadlinesInv, NEW s \in Scope, NEW d \in Deadline \cup {Inf},
           ChangeDeadline(s, d)
    PROVE  DeadlinesInv'
<1>1. Reregister(heap, s, d) /\ UNCHANGED <<now, loop, sleeping_until>>
    BY DEF ChangeDeadline
<1>2. heap \in [Entry -> Nat] /\ DeadlinesTypeOK /\ ActiveCounts
    BY DEF DeadlinesInv, DeadlinesTypeOK
<1>3. \A u \in Scope \ {s} : registered[u] # Inf => heap[<<registered[u], u>>] > 0
    BY DEF DeadlinesInv, NoDeadlineLost
<1>4. /\ heap' \in [Entry -> Nat] /\ active' \in Nat
      /\ registered' \in [Scope -> Deadline \cup {Inf}]
      /\ tick_scheduled' \in BOOLEAN
      /\ ActiveCounts'
      /\ NoDeadlineLost'
    BY <1>1, <1>2, <1>3, ReregisterKeepsDeadlines
<1>5. SleepBound'
    <2>1. CASE loop = "asleep"
        BY <1>1, <1>2, <2>1, ReregisterKeepsSleepBound DEF ChangeDeadline, DeadlinesInv
    <2>2. CASE loop # "asleep"
        BY <1>1, <2>2 DEF SleepBound
    <2> QED
        BY <2>1, <2>2
<1> QED
    BY <1>1, <1>2, <1>4, <1>5 DEF DeadlinesInv, DeadlinesTypeOK

(***************************************************************************)
(* The loop computes its sleep from the heap that next_deadline() leaves.  *)
(***************************************************************************)
LEMMA FallAsleepStep ==
    ASSUME DeadlinesInv, FallAsleep
    PROVE  DeadlinesInv'
<1>1. /\ heap \in [Entry -> Nat]
      /\ registered \in [Scope -> Deadline \cup {Inf}]
    BY DEF DeadlinesInv, DeadlinesTypeOK
<1>2. /\ heap' \in [Entry -> Nat]
      /\ \A e \in Current(heap, registered) : heap'[e] = heap[e]
      /\ \A e \in In(heap') : sleeping_until' <= e[1]
    BY <1>1, DropStaleKeepsCurrent DEF FallAsleep
<1>3. NoDeadlineLost'
    <2>1. ASSUME NEW s \in Scope, registered[s] # Inf
          PROVE  /\ heap[<<registered[s], s>>] > 0
                 /\ <<registered[s], s>> \in Current(heap, registered)
        BY <1>1, <2>1 DEF DeadlinesInv, NoDeadlineLost, Current, In, Entry
    <2> QED
        BY <1>2, <2>1 DEF NoDeadlineLost, FallAsleep
<1>4. sleeping_until' \in Deadline \cup {Inf}
    BY <1>1, NextDeadlineIsEarliest DEF FallAsleep
<1>5. ActiveCounts'
    BY DEF FallAsleep, DeadlinesInv, ActiveCounts, Registered
<1>6. SleepBound'
    BY <1>2 DEF SleepBound, In
<1> QED
    BY <1>2, <1>3, <1>4, <1>5, <1>6 DEF DeadlinesInv, DeadlinesTypeOK, FallAsleep

(***************************************************************************)
(* A turn of expire(): the entry it pops was stale, or its scope is        *)
(* cancelled and has no deadline any more.                                 *)
(***************************************************************************)
LEMMA ExpireStep ==
    ASSUME DeadlinesInv, Expire
    PROVE  DeadlinesInv'
<1> PICK e \in Overdue :
        /\ loop = "expiring"
        /\ IF registered[e[2]] = e[1]
           THEN Reregister([heap EXCEPT ![e] = @ - 1], e[2], Inf)
           ELSE /\ heap' = [heap EXCEPT ![e] = @ - 1]
                /\ UNCHANGED <<active, registered, tick_scheduled>>
        /\ UNCHANGED <<now, loop, sleeping_until>>
    BY DEF Expire
<1> DEFINE h == [heap EXCEPT ![e] = @ - 1]
<1>1. e \in Entry /\ heap[e] > 0 /\ heap[e] \in Nat
    BY DEF Overdue, Top, In, DeadlinesInv, DeadlinesTypeOK
<1>2. h \in [Entry -> Nat]
    BY <1>1 DEF DeadlinesInv, DeadlinesTypeOK
<1>3. e[1] \in Deadline /\ e[2] \in Scope /\ e = <<e[1], e[2]>>
    BY <1>1 DEF Entry
<1>4. ASSUME NEW u \in Scope, registered[u] # Inf, <<registered[u], u>> # e
      PROVE  h[<<registered[u], u>>] > 0
    <2>1. <<registered[u], u>> \in Entry /\ heap[<<registered[u], u>>] > 0
        BY <1>4 DEF DeadlinesInv, DeadlinesTypeOK, NoDeadlineLost, Entry
    <2> QED
        BY <1>4, <2>1 DEF DeadlinesInv, DeadlinesTypeOK
<1> HIDE DEF h
<1>5. SleepBound'
    BY DEF SleepBound
<1>6. CASE registered[e[2]] = e[1]
    <2>1. \A u \in Scope \ {e[2]} : registered[u] # Inf => h[<<registered[u], u>>] > 0
        BY <1>3, <1>4
    <2>2. Reregister(h, e[2], Inf)
        BY <1>6 DEF h
    <2>3. /\ heap' \in [Entry -> Nat] /\ active' \in Nat
          /\ registered' \in [Scope -> Deadline \cup {Inf}]
          /\ tick_scheduled' \in BOOLEAN
          /\ ActiveCounts'
          /\ NoDeadlineLost'
        BY <1>2, <1>3, <2>1, <2>2, ReregisterKeepsDeadlines DEF DeadlinesInv
    <2> QED
        BY <1>5, <2>3 DEF DeadlinesInv, DeadlinesTypeOK
<1>7. CASE registered[e[2]] # e[1]
    <2>1. heap' = h /\ UNCHANGED <<active, registered, tick_scheduled>>
        BY <1>7 DEF h
    <2>2. \A u \in Scope : registered[u] # Inf => h[<<registered[u], u>>] > 0
        BY <1>3, <1>4, <1>7
    <2>3. NoDeadlineLost' /\ ActiveCounts'
        BY <2>1, <2>2 DEF NoDeadlineLost, DeadlinesInv, ActiveCounts, Registered
    <2> QED
        BY <1>2, <1>5, <2>1, <2>3 DEF DeadlinesInv, DeadlinesTypeOK
<1> QED
    BY <1>6, <1>7

(***************************************************************************)
(* Pruning keeps one entry for each registered deadline.                   *)
(***************************************************************************)
LEMMA EndExpireStep ==
    ASSUME DeadlinesInv, EndExpire
    PROVE  DeadlinesInv'
<1>1. /\ heap \in [Entry -> Nat]
      /\ registered \in [Scope -> Deadline \cup {Inf}]
    BY DEF DeadlinesInv, DeadlinesTypeOK
<1>2. heap' = Prune(heap) \/ heap' = heap
    BY DEF EndExpire
<1>3. heap' \in [Entry -> Nat]
    BY <1>1, <1>2 DEF Prune
<1>4. ASSUME NEW s \in Scope, registered[s] # Inf
      PROVE  heap'[<<registered[s], s>>] > 0
    <2>1. /\ <<registered[s], s>> \in Entry
          /\ heap[<<registered[s], s>>] > 0
        BY <1>1, <1>4 DEF DeadlinesInv, NoDeadlineLost, Entry
    <2>2. <<registered[s], s>> \in Current(heap, registered)
        BY <2>1 DEF Current, In
    <2>3. Prune(heap)[<<registered[s], s>>] = 1
        BY <2>1, <2>2 DEF Prune
    <2> QED
        BY <1>2, <2>1, <2>3
<1>5. NoDeadlineLost' /\ ActiveCounts' /\ SleepBound'
    BY <1>4 DEF NoDeadlineLost, ActiveCounts, Registered, SleepBound, DeadlinesInv,
        EndExpire
<1> QED
    BY <1>3, <1>5 DEF DeadlinesInv, DeadlinesTypeOK, EndExpire

(***************************************************************************)
(* The invariant holds at the start: no scope has a deadline.              *)
(***************************************************************************)
LEMMA DeadlinesInitInv == DeadlinesInit => DeadlinesInv
<1> SUFFICES ASSUME DeadlinesInit
             PROVE  DeadlinesInv
    OBVIOUS
<1>1. DeadlinesTypeOK
    BY DeadlinesAssumption DEF DeadlinesInit, DeadlinesTypeOK, Deadline
<1>2. Registered = {}
    BY DEF Registered, DeadlinesInit
<1>3. ActiveCounts
    BY <1>2, FS_EmptySet DEF ActiveCounts, DeadlinesInit
<1> QED
    BY <1>1, <1>3 DEF DeadlinesInit, DeadlinesInv, NoDeadlineLost, SleepBound

(***************************************************************************)
(* Every step keeps the invariant.                                         *)
(***************************************************************************)
LEMMA DeadlinesNextInv == DeadlinesInv /\ [DeadlinesNext]_deadlineVars => DeadlinesInv'
<1> SUFFICES ASSUME DeadlinesInv, [DeadlinesNext]_deadlineVars
             PROVE  DeadlinesInv'
    OBVIOUS
<1>1. CASE \E s \in Scope, d \in Deadline \cup {Inf} : ChangeDeadline(s, d)
    BY <1>1, ChangeDeadlineStep
<1>2. CASE FallAsleep
    BY <1>2, FallAsleepStep
<1>3. CASE Tick
    BY <1>3, DeadlinesAssumption DEF Tick, DeadlinesInv, DeadlinesTypeOK, ActiveCounts,
        Registered, NoDeadlineLost, SleepBound, In, Deadline
<1>4. CASE WakeUp
    BY <1>4 DEF WakeUp, DeadlinesInv, DeadlinesTypeOK, ActiveCounts, Registered,
        NoDeadlineLost, SleepBound
<1>5. CASE Expire
    BY <1>5, ExpireStep
<1>6. CASE EndExpire
    BY <1>6, EndExpireStep
<1>7. CASE UNCHANGED deadlineVars
    BY <1>7 DEF deadlineVars, DeadlinesInv, DeadlinesTypeOK, ActiveCounts, Registered,
        NoDeadlineLost, SleepBound, In
<1> QED
    BY <1>1, <1>2, <1>3, <1>4, <1>5, <1>6, <1>7 DEF DeadlinesNext

(***************************************************************************)
(* So it is an invariant.                                                  *)
(***************************************************************************)
LEMMA DeadlinesInvariance == DeadlinesSpec => []DeadlinesInv
BY DeadlinesInitInv, DeadlinesNextInv, PTL DEF DeadlinesSpec

--------------------------------------------------------------------------------
(***************************************************************************)
(* Every variable keeps its type; in particular _active and the number of  *)
(* copies of an entry never go below zero.                                 *)
(***************************************************************************)
THEOREM DeadlinesTypeCorrect == DeadlinesSpec => []DeadlinesTypeOK
<1>1. DeadlinesInv => DeadlinesTypeOK
    BY DEF DeadlinesInv
<1> QED
    BY <1>1, DeadlinesInvariance, PTL

(***************************************************************************)
(* However deadlines are set, moved and expired, and whenever the heap is  *)
(* cleaned up in between, it holds every registered deadline.              *)
(***************************************************************************)
THEOREM DeadlineNotLost == DeadlinesSpec => []NoDeadlineLost
<1>1. DeadlinesInv => NoDeadlineLost
    BY DEF DeadlinesInv
<1> QED
    BY <1>1, DeadlinesInvariance, PTL

(***************************************************************************)
(* In guest mode a loop asleep in its thread is woken up for a deadline    *)
(* that the host moves to before the end of its sleep.                     *)
(***************************************************************************)
THEOREM SleepEndsInTime == DeadlinesSpec => []NeverSleepsPastDeadline
<1>1. DeadlinesInv => NeverSleepsPastDeadline
    <2> SUFFICES ASSUME DeadlinesInv, loop = "asleep", ~ tick_scheduled, NEW s \in Scope
                 PROVE  sleeping_until <= registered[s]
        BY DEF NeverSleepsPastDeadline
    <2>1. CASE registered[s] = Inf
        BY <2>1, DeadlinesAssumption DEF DeadlinesInv, DeadlinesTypeOK, Deadline, Inf
    <2>2. CASE registered[s] # Inf
        <3>1. /\ <<registered[s], s>> \in Entry
              /\ heap[<<registered[s], s>>] > 0
            BY <2>2 DEF DeadlinesInv, DeadlinesTypeOK, NoDeadlineLost, Entry
        <3>2. <<registered[s], s>> \in In(heap)
            BY <3>1 DEF In
        <3>3. sleeping_until <= <<registered[s], s>>[1]
            BY <3>2 DEF DeadlinesInv, SleepBound
        <3> QED
            BY <3>3
    <2> QED
        BY <2>1, <2>2
<1> QED
    BY <1>1, DeadlinesInvariance, PTL

(***************************************************************************)
(* The assertion in _prune() never fails: _active is the number of scopes  *)
(* with a deadline and the number of distinct current entries.             *)
(***************************************************************************)
THEOREM ActiveCountExact == DeadlinesSpec => []ActiveIsExact
<1>1. DeadlinesInv => ActiveIsExact
    <2> SUFFICES ASSUME DeadlinesInv
                 PROVE  ActiveIsExact
        OBVIOUS
    <2> DEFINE C == Current(heap, registered)
               f == [s \in Registered |-> <<registered[s], s>>]
    <2>1. IsFiniteSet(Registered)
        BY DeadlinesAssumption, FS_Subset DEF Registered
    <2>2. ASSUME NEW s \in Registered
          PROVE  f[s] \in C
        <3>1. /\ s \in Scope
              /\ <<registered[s], s>> \in Entry
              /\ heap[<<registered[s], s>>] > 0
            BY DEF DeadlinesInv, DeadlinesTypeOK, NoDeadlineLost, Registered, Entry
        <3> QED
            BY <3>1 DEF Current, In
    <2>3. ASSUME NEW e \in C
          PROVE  e[2] \in Registered /\ f[e[2]] = e
        <3>1. e \in Entry /\ e[1] = registered[e[2]]
            BY DEF Current, In
        <3>2. e[1] \in Deadline /\ e[2] \in Scope /\ e = <<e[1], e[2]>>
            BY <3>1 DEF Entry
        <3>3. e[1] # Inf
            BY <3>2, DeadlinesAssumption DEF Deadline, Inf
        <3> QED
            BY <3>1, <3>2, <3>3 DEF Registered
    <2>4. \A s, u \in Registered : f[s] = f[u] => s = u
        OBVIOUS
    <2>5. f \in [Registered -> C]
        BY <2>2
    <2> HIDE DEF C, f
    <2>6. f \in Bijection(Registered, C)
        <3>1. \A e \in C : \E s \in Registered : f[s] = e
            BY <2>3
        <3>2. f \in Surjection(Registered, C)
            BY <2>5, <3>1 DEF Surjection
        <3>3. f \in Injection(Registered, C)
            BY <2>4, <2>5 DEF Injection, IsInjective
        <3> QED
            BY <3>2, <3>3 DEF Bijection
    <2>7. Cardinality(C) = Cardinality(Registered)
        BY <2>1, <2>6, FS_Bijection DEF ExistsBijection
    <2> QED
        BY <2>7 DEF ActiveIsExact, DeadlinesInv, ActiveCounts, Registered, C
<1> QED
    BY <1>1, DeadlinesInvariance, PTL

-----------------------------------------------------------------------------
(* Deleting from an ordered dict                                           *)

\* Induction up to m: a set of numbers that has 0, and n + 1 with n, has them all.
LEMMA UpTo ==
    ASSUME NEW m \in Nat, NEW A, 0 \in A, \A n \in 0 .. m - 1 : n \in A => n + 1 \in A
    PROVE  \A n \in 0 .. m : n \in A
<1> SUFFICES ASSUME NEW k \in 0 .. m, k \notin A
             PROVE  FALSE
    OBVIOUS
<1> DEFINE B == {n \in 0 .. m : n \notin A}
           b == Min(B)
<1>1. b \in B /\ \A x \in B : b <= x
    <2>1. B \in SUBSET Nat /\ B # {}
        OBVIOUS
    <2> QED
        BY <2>1, MinIsLeast
<1>2. b \in 0 .. m /\ b \notin A
    BY <1>1
<1> HIDE DEF b
<1>3. b # 0 /\ b - 1 \in 0 .. m - 1 /\ b - 1 \in 0 .. m
    BY <1>2
<1>4. b - 1 \in A
    BY <1>1, <1>3
<1>5. (b - 1) + 1 \in A
    BY <1>3, <1>4
<1> QED
    BY <1>2, <1>5

\* One step of the loop in Without: what is left of the first n keys, g being
\* what is left of fewer
LeftAfter(q, S, g, n) ==
    IF n = 0 THEN <<>> ELSE IF q[n] \in S THEN g[n - 1] ELSE Append(g[n - 1], q[n])

\* Without goes through the queue one key at a time
LEMMA WithoutSteps ==
    ASSUME NEW q, Len(q) \in Nat, NEW S
    PROVE  \E g : /\ Without(q, S) = g[Len(q)]
                  /\ \A n \in 0 .. Len(q) : g[n] = LeftAfter(q, S, g, n)
<1> DEFINE A == {n \in 0 .. Len(q) : \E g : \A k \in 0 .. n : g[k] = LeftAfter(q, S, g, k)}
<1>1. 0 \in A
    <2> DEFINE g == [k \in Nat |-> <<>>]
    <2>1. \A k \in 0 .. 0 : g[k] = LeftAfter(q, S, g, k)
        BY DEF LeftAfter
    <2> QED
        BY <2>1
<1>2. ASSUME NEW n \in 0 .. Len(q) - 1, n \in A
      PROVE  n + 1 \in A
    <2>1. PICK g : \A k \in 0 .. n : g[k] = LeftAfter(q, S, g, k)
        BY <1>2
    <2> DEFINE new == LeftAfter(q, S, g, n + 1)
               h == [k \in 0 .. n + 1 |-> IF k = n + 1 THEN new ELSE g[k]]
    <2>2. ASSUME NEW k \in 0 .. n + 1
          PROVE  h[k] = LeftAfter(q, S, h, k)
        <3> HIDE DEF new
        <3>1. k # 0 => h[k - 1] = g[k - 1]
            OBVIOUS
        <3>2. h[k] = IF k = n + 1 THEN new ELSE g[k]
            OBVIOUS
        <3> HIDE DEF h
        <3>3. LeftAfter(q, S, h, k) = LeftAfter(q, S, g, k)
            BY <3>1 DEF LeftAfter
        <3>4. CASE k = n + 1
            BY <3>2, <3>3, <3>4 DEF new
        <3>5. CASE k # n + 1
            <4>1. k \in 0 .. n
                BY <3>5
            <4> QED
                BY <2>1, <3>2, <3>3, <3>5, <4>1
        <3> QED
            BY <3>4, <3>5
    <2> HIDE DEF h
    <2> QED
        BY <2>2
<1>3. Len(q) \in A
    <2> HIDE DEF A
    <2>1. \A n \in 0 .. Len(q) - 1 : n \in A => n + 1 \in A
        BY <1>2
    <2>2. \A n \in 0 .. Len(q) : n \in A
        BY ONLY Len(q) \in Nat, <1>1, <2>1, UpTo
    <2> QED
        BY <2>2
<1>4. PICK g : \A k \in 0 .. Len(q) : g[k] = LeftAfter(q, S, g, k)
    BY <1>3
<1> DEFINE f == [k \in 0 .. Len(q) |-> g[k]]
<1>5. f = [n \in 0 .. Len(q) |-> IF n = 0 THEN <<>> ELSE IF q[n] \in S THEN f[n - 1] ELSE Append(f[n - 1], q[n])]
    <2>1. ASSUME NEW n \in 0 .. Len(q)
          PROVE  f[n] = IF n = 0 THEN <<>> ELSE IF q[n] \in S THEN f[n - 1] ELSE Append(f[n - 1], q[n])
        <3>1. f[n] = g[n] /\ (n # 0 => f[n - 1] = g[n - 1])
            OBVIOUS
        <3> HIDE DEF f
        <3> QED
            BY <1>4, <3>1 DEF LeftAfter
    <2> QED
        BY <2>1
<1> HIDE DEF f
<1>6. \E u : /\ Without(q, S) = u[Len(q)]
             /\ u = [n \in 0 .. Len(q) |-> IF n = 0 THEN <<>> ELSE IF q[n] \in S THEN u[n - 1] ELSE Append(u[n - 1], q[n])]
    BY <1>5 DEF Without
<1>7. PICK u : /\ Without(q, S) = u[Len(q)]
               /\ u = [n \in 0 .. Len(q) |-> IF n = 0 THEN <<>> ELSE IF q[n] \in S THEN u[n - 1] ELSE Append(u[n - 1], q[n])]
    BY <1>6
<1>8. ASSUME NEW n \in 0 .. Len(q)
      PROVE  u[n] = LeftAfter(q, S, u, n)
    BY <1>7 DEF LeftAfter
<1> QED
    BY <1>7, <1>8

\* r is what is left of q: the keys at the positions pos, in their order
Picks(q, r, pos) ==
    /\ pos \in [1 .. Len(r) -> 1 .. Len(q)]
    /\ \A i, j \in 1 .. Len(r) : i < j => pos[i] < pos[j]
    /\ \A i \in 1 .. Len(r) : r[i] = q[pos[i]]

\* ... and nothing else than the keys in S has gone
LeavesOut(q, r, S) ==
    /\ r \in Seq(ToSet(q) \ S)
    /\ \E pos : /\ Picks(q, r, pos)
                /\ \A k \in 1 .. Len(q) : q[k] \notin S => \E i \in 1 .. Len(r) : pos[i] = k

\* One more key at the end of the queue, left out or not
LEMMA LeavesOutMore ==
    ASSUME NEW T, NEW q \in Seq(T), NEW S, NEW r, LeavesOut(q, r, S), NEW x \in T
    PROVE  LeavesOut(Append(q, x), IF x \in S THEN r ELSE Append(r, x), S)
<1> DEFINE p == Append(q, x)
<1>1. /\ p \in Seq(T) /\ Len(p) = Len(q) + 1 /\ Len(q) \in Nat /\ ToSet(p) = ToSet(q) \cup {x}
      /\ \A i \in 1 .. Len(q) : p[i] = q[i]
      /\ p[Len(q) + 1] = x
    BY AppendQueue
<1> HIDE DEF p
<1>2. r \in Seq(ToSet(q) \ S) /\ Len(r) \in Nat
    BY DEF LeavesOut
<1>3. PICK pos : /\ Picks(q, r, pos)
                 /\ \A k \in 1 .. Len(q) : q[k] \notin S => \E i \in 1 .. Len(r) : pos[i] = k
    BY DEF LeavesOut
<1>4. CASE x \in S
    <2>1. r \in Seq(ToSet(p) \ S)
        BY <1>1, <1>2
    <2>2. Picks(p, r, pos)
        BY <1>1, <1>2, <1>3 DEF Picks
    <2>3. ASSUME NEW k \in 1 .. Len(p), p[k] \notin S
          PROVE  \E i \in 1 .. Len(r) : pos[i] = k
        BY <1>1, <1>3, <1>4, <2>3
    <2> QED
        BY <1>4, <2>1, <2>2, <2>3 DEF LeavesOut, p
<1>5. CASE x \notin S
    <2> DEFINE y == Append(r, x)
               new == [i \in 1 .. Len(r) + 1 |-> IF i = Len(r) + 1 THEN Len(q) + 1 ELSE pos[i]]
    <2>1. /\ y \in Seq(ToSet(p) \ S) /\ Len(y) = Len(r) + 1
          /\ \A i \in 1 .. Len(r) : y[i] = r[i]
          /\ y[Len(r) + 1] = x
        <3>1. r \in Seq(ToSet(p) \ S) /\ x \in ToSet(p) \ S
            BY <1>1, <1>2, <1>5
        <3> QED
            BY ONLY <3>1, AppendQueue
    <2> HIDE DEF y
    <2>2. Picks(p, y, new)
        <3>1. new \in [1 .. Len(y) -> 1 .. Len(p)]
            BY <1>1, <1>2, <1>3, <2>1 DEF Picks
        <3>2. ASSUME NEW i \in 1 .. Len(y), NEW j \in 1 .. Len(y), i < j
              PROVE  new[i] < new[j]
            <4>1. i \in 1 .. Len(r) /\ new[i] = pos[i] /\ pos[i] \in 1 .. Len(q)
                <5>1. i \in 1 .. Len(r) /\ i # Len(r) + 1 /\ i \in 1 .. Len(r) + 1
                    BY <1>2, <2>1, <3>2
                <5>2. new[i] = pos[i]
                    BY <5>1
                <5>3. pos[i] \in 1 .. Len(q)
                    BY <1>3, <5>1 DEF Picks
                <5> QED
                    BY <5>1, <5>2, <5>3
            <4>2. CASE j = Len(r) + 1
                BY <1>1, <1>2, <2>1, <4>1, <4>2
            <4>3. CASE j # Len(r) + 1
                <5>1. j \in 1 .. Len(r) /\ new[j] = pos[j]
                    BY <1>2, <2>1, <4>3
                <5> QED
                    BY <1>3, <3>2, <4>1, <5>1 DEF Picks
            <4> QED
                BY <4>2, <4>3
        <3>3. ASSUME NEW i \in 1 .. Len(y)
              PROVE  y[i] = p[new[i]]
            <4>1. CASE i = Len(r) + 1
                BY <1>1, <1>2, <2>1, <4>1
            <4>2. CASE i # Len(r) + 1
                <5>1. i \in 1 .. Len(r) /\ new[i] = pos[i] /\ pos[i] \in 1 .. Len(q) /\ r[i] = q[pos[i]]
                    BY <1>2, <1>3, <2>1, <4>2 DEF Picks
                <5>2. y[i] = r[i] /\ p[pos[i]] = q[pos[i]]
                    BY <1>1, <2>1, <5>1
                <5> QED
                    BY <5>1, <5>2
            <4> QED
                BY <4>1, <4>2
        <3> QED
            BY <3>1, <3>2, <3>3 DEF Picks
    <2>3. ASSUME NEW k \in 1 .. Len(p), p[k] \notin S
          PROVE  \E i \in 1 .. Len(y) : new[i] = k
        <3>1. CASE k = Len(q) + 1
            <4>1. Len(r) + 1 \in 1 .. Len(y) /\ new[Len(r) + 1] = k
                BY <1>2, <2>1, <3>1
            <4> QED
                BY <4>1
        <3>2. CASE k # Len(q) + 1
            <4>1. k \in 1 .. Len(q) /\ q[k] \notin S
                BY <1>1, <2>3, <3>2
            <4>2. PICK i \in 1 .. Len(r) : pos[i] = k
                BY <1>3, <4>1
            <4>3. i \in 1 .. Len(y) /\ new[i] = k
                BY <1>2, <2>1, <4>2
            <4> QED
                BY <4>3
        <3> QED
            BY <3>1, <3>2
    <2> HIDE DEF new
    <2>4. LeavesOut(p, y, S)
        BY <2>1, <2>2, <2>3 DEF LeavesOut
    <2> QED
        BY <1>5, <2>4 DEF p, y
<1> QED
    BY <1>4, <1>5

\* del on a dict of sleepers: the others are left, in the order they came in
LEMMA WithoutLeavesOut ==
    ASSUME NEW T, NEW q \in Seq(T), NEW S
    PROVE  LeavesOut(q, Without(q, S), S)
<1>0. Len(q) \in Nat
    OBVIOUS
<1>1. PICK g : /\ Without(q, S) = g[Len(q)]
               /\ \A n \in 0 .. Len(q) : g[n] = LeftAfter(q, S, g, n)
    BY ONLY <1>0, WithoutSteps
<1> DEFINE A == {n \in 0 .. Len(q) : LeavesOut(SubSeq(q, 1, n), g[n], S)}
<1>2. 0 \in A
    <2>1. SubSeq(q, 1, 0) = <<>> /\ g[0] = <<>>
        BY <1>0, <1>1 DEF LeftAfter
    <2>2. Picks(<<>>, <<>>, <<>>)
        BY DEF Picks
    <2>3. LeavesOut(<<>>, <<>>, S)
        BY <2>2, EmptyQueue DEF LeavesOut
    <2>4. LeavesOut(SubSeq(q, 1, 0), g[0], S)
        BY ONLY <2>1, <2>3
    <2> QED
        BY <1>0, <2>4
<1>3. ASSUME NEW n \in 0 .. Len(q) - 1, n \in A
      PROVE  n + 1 \in A
    <2>1. n + 1 \in 0 .. Len(q) /\ n + 1 # 0 /\ (n + 1) - 1 = n /\ n + 1 \in 1 .. Len(q) /\ q[n + 1] \in T
        BY <1>0
    <2>2. SubSeq(q, 1, n + 1) = Append(SubSeq(q, 1, n), q[n + 1]) /\ SubSeq(q, 1, n) \in Seq(T)
        BY <1>0, <2>1
    <2>3. g[n + 1] = IF q[n + 1] \in S THEN g[n] ELSE Append(g[n], q[n + 1])
        BY <1>1, <2>1 DEF LeftAfter
    <2>4. LeavesOut(SubSeq(q, 1, n), g[n], S)
        BY <1>3
    <2>5. LeavesOut(SubSeq(q, 1, n + 1), g[n + 1], S)
        <3> DEFINE l == SubSeq(q, 1, n)
        <3>1. l \in Seq(T) /\ LeavesOut(l, g[n], S) /\ q[n + 1] \in T
            BY <2>1, <2>2, <2>4
        <3> HIDE DEF l
        <3>2. LeavesOut(Append(l, q[n + 1]), IF q[n + 1] \in S THEN g[n] ELSE Append(g[n], q[n + 1]), S)
            BY ONLY <3>1, LeavesOutMore
        <3> QED
            BY ONLY <2>2, <2>3, <3>2 DEF l
    <2> QED
        BY <2>1, <2>5
<1>4. Len(q) \in A
    <2> HIDE DEF A
    <2>1. \A n \in 0 .. Len(q) - 1 : n \in A => n + 1 \in A
        BY <1>3
    <2>2. \A n \in 0 .. Len(q) : n \in A
        BY ONLY <1>0, <1>2, <2>1, UpTo
    <2> QED
        BY <1>0, <2>2
<1>5. SubSeq(q, 1, Len(q)) = q
    BY <1>0
<1> QED
    BY <1>1, <1>4, <1>5

\* ... which are those that were not deleted, none of them twice
LEMMA WithoutQueue ==
    ASSUME NEW T, NEW q \in Seq(T), NEW S, IsInjective(q)
    PROVE  /\ Without(q, S) \in Seq(T) /\ IsInjective(Without(q, S))
           /\ ToSet(Without(q, S)) = ToSet(q) \ S
<1> DEFINE r == Without(q, S)
<1>0. Len(q) \in Nat /\ DOMAIN q = 1 .. Len(q) /\ ToSet(q) \subseteq T
    BY DEF ToSet
<1>1. LeavesOut(q, r, S)
    BY WithoutLeavesOut
<1> HIDE DEF r
<1>2. r \in Seq(ToSet(q) \ S) /\ Len(r) \in Nat /\ DOMAIN r = 1 .. Len(r)
    BY <1>1 DEF LeavesOut
<1>3. PICK pos : /\ Picks(q, r, pos)
                 /\ \A k \in 1 .. Len(q) : q[k] \notin S => \E i \in 1 .. Len(r) : pos[i] = k
    BY <1>1 DEF LeavesOut
<1>4. r \in Seq(T)
    BY <1>0, <1>2
<1>5. ASSUME NEW i \in 1 .. Len(r), NEW j \in 1 .. Len(r), r[i] = r[j]
      PROVE  i = j
    <2>1. pos[i] \in 1 .. Len(q) /\ pos[j] \in 1 .. Len(q) /\ q[pos[i]] = q[pos[j]]
        BY <1>3, <1>5 DEF Picks
    <2>2. pos[i] = pos[j]
        BY <1>0, <2>1 DEF IsInjective
    <2> QED
        BY <1>2, <1>3, <2>1, <2>2 DEF Picks
<1>6. ToSet(r) \subseteq ToSet(q) \ S
    BY <1>2 DEF ToSet
<1>7. ASSUME NEW x \in ToSet(q) \ S
      PROVE  x \in ToSet(r)
    <2>1. PICK k \in 1 .. Len(q) : q[k] = x
        BY <1>0 DEF ToSet
    <2>2. PICK i \in 1 .. Len(r) : pos[i] = k
        BY <1>3, <2>1
    <2>3. r[i] = x
        BY <1>3, <2>1, <2>2 DEF Picks
    <2> QED
        BY <1>2, <2>3 DEF ToSet
<1>8. IsInjective(r)
    BY <1>2, <1>5 DEF IsInjective
<1>9. ToSet(r) = ToSet(q) \ S
    BY <1>6, <1>7
<1> QED
    BY <1>4, <1>8, <1>9 DEF r

-----------------------------------------------------------------------------
(* Memory channels                                                         *)

\* The counters count the open handles, of which there are finitely many
HandlesCounted ==
    /\ IsFiniteSet(created)
    /\ open_send_channels = Cardinality({h \in SendHandle : Usable(h)})
    /\ open_receive_channels = Cardinality({h \in ReceiveHandle : Usable(h)})

\* Who sleeps on which handle
SleepersOnHandles ==
    /\ \A h \in Handle : tasks[h] # {} => Usable(h)
    /\ \A t \in Task, h \in Handle : t \in tasks[h] <=> custom_sleep_data[t] = h

\* The queues have them too, each once
QueueOf(q, H, asleep) ==
    /\ IsInjective(q)
    /\ \A t \in Task : t \in ToSet(q) <=> asleep[t] \in H

ValuesOfSenders == \A t \in Task : send_value[t] # None <=> t \in ToSet(send_tasks)

NeededSleep ==
    /\ receive_tasks # <<>> => data = <<>> /\ send_tasks = <<>> /\ open_send_channels > 0
    /\ send_tasks # <<>> => Len(data) = max_buffer_size /\ open_receive_channels > 0

ChannelInv ==
    /\ ChannelTypeOK /\ HandlesCounted /\ SleepersOnHandles
    /\ QueueOf(send_tasks, SendHandle, custom_sleep_data)
    /\ QueueOf(receive_tasks, ReceiveHandle, custom_sleep_data)
    /\ ValuesOfSenders /\ NeededSleep

\* Members is what a queue holds
LEMMA MembersAreElements ==
    ASSUME NEW q, NEW S, q \in Seq(S)
    PROVE  Members(q) = ToSet(q) /\ ToSet(q) \subseteq S
BY DEF Members, ToSet

\* A channel has just been opened
LEMMA ChannelInvInit == ChannelInit => ChannelInv
<1> SUFFICES ASSUME ChannelInit PROVE ChannelInv
    OBVIOUS
<1>1. PICK s \in SendHandle, r \in ReceiveHandle : created = {s, r}
    BY DEF ChannelInit
<1>2. ChannelTypeOK
    BY <1>1, MemoryChannelAssumption DEF ChannelInit, ChannelTypeOK, Handle, Outcome
<1>3. HandlesCounted
    <2>1. {h \in SendHandle : Usable(h)} = {s} /\ {h \in ReceiveHandle : Usable(h)} = {r}
        BY <1>1, MemoryChannelAssumption DEF ChannelInit, Usable
    <2>2. IsFiniteSet({s} \cup {r}) /\ created = {s} \cup {r}
        BY <1>1, FS_Singleton, FS_Union
    <2>3. Cardinality({s}) = 1 /\ Cardinality({r}) = 1
        BY FS_Singleton
    <2> QED
        BY <2>1, <2>2, <2>3 DEF HandlesCounted, ChannelInit
<1>4. SleepersOnHandles
    BY MemoryChannelAssumption DEF ChannelInit, SleepersOnHandles, Handle
<1>5. QueueOf(send_tasks, SendHandle, custom_sleep_data) /\ QueueOf(receive_tasks, ReceiveHandle, custom_sleep_data)
    BY MemoryChannelAssumption, EmptyQueue DEF ChannelInit, QueueOf
<1>6. ValuesOfSenders /\ NeededSleep
    BY EmptyQueue DEF ChannelInit, ValuesOfSenders, NeededSleep
<1> QED
    BY <1>2, <1>3, <1>4, <1>5, <1>6 DEF ChannelInv

\* The invariant is what it is needed for
LEMMA ChannelInvMeans == ChannelInv => NobodySleepsWithoutNeed
<1> SUFFICES ASSUME ChannelInv PROVE NobodySleepsWithoutNeed
    OBVIOUS
<1>t. ChannelTypeOK /\ send_tasks \in Seq(Task) /\ receive_tasks \in Seq(Task)
      /\ tasks \in [Handle -> SUBSET Task]
    BY DEF ChannelInv, ChannelTypeOK
<1>1. /\ Members(send_tasks) = ToSet(send_tasks) /\ ToSet(send_tasks) \subseteq Task
      /\ Members(receive_tasks) = ToSet(receive_tasks) /\ ToSet(receive_tasks) \subseteq Task
    BY ONLY <1>t, MembersAreElements
<1>2. \A t \in Task, h \in Handle : t \in tasks[h] <=> custom_sleep_data[t] = h
    BY DEF ChannelInv, SleepersOnHandles
<1>3. /\ Members(send_tasks) = UNION {tasks[h] : h \in SendHandle}
      /\ Members(receive_tasks) = UNION {tasks[h] : h \in ReceiveHandle}
    <2>1. \A t \in Task : t \in ToSet(send_tasks) <=> \E h \in SendHandle : t \in tasks[h]
        BY <1>2 DEF ChannelInv, QueueOf, Handle
    <2>2. \A t \in Task : t \in ToSet(receive_tasks) <=> \E h \in ReceiveHandle : t \in tasks[h]
        BY <1>2 DEF ChannelInv, QueueOf, Handle
    <2>3. \A h \in SendHandle \cup ReceiveHandle : tasks[h] \subseteq Task
        BY <1>t DEF Handle
    <2> QED
        BY <1>1, <2>1, <2>2, <2>3
<1>4. /\ Cardinality(Members(send_tasks)) = Len(send_tasks)
      /\ Cardinality(Members(receive_tasks)) = Len(receive_tasks)
    BY <1>t, <1>1, LenIsCardinality DEF ChannelInv, QueueOf
<1>5. /\ open_send_channels > 0 => \E h \in SendHandle : Usable(h)
      /\ open_receive_channels > 0 => \E h \in ReceiveHandle : Usable(h)
    <2>1. Cardinality({}) = 0
        BY FS_EmptySet
    <2>2. {h \in SendHandle : Usable(h)} = {} => open_send_channels = 0
        BY <2>1 DEF ChannelInv, HandlesCounted
    <2>3. {h \in ReceiveHandle : Usable(h)} = {} => open_receive_channels = 0
        BY <2>1 DEF ChannelInv, HandlesCounted
    <2> QED
        BY <2>2, <2>3
<1> QED
    BY <1>t, <1>1, <1>2, <1>3, <1>4, <1>5
    DEF NobodySleepsWithoutNeed, ChannelInv, HandlesCounted, SleepersOnHandles,
    ValuesOfSenders, NeededSleep

\* No handle is opened or closed
LEMMA CountsKept ==
    ASSUME HandlesCounted, UNCHANGED <<created, closed, open_send_channels, open_receive_channels>>
    PROVE  HandlesCounted'
BY DEF HandlesCounted, Usable

\* close() counts down for the handle that it closes
LEMMA CountedDown ==
    ASSUME HandlesCounted, MemoryChannelAssumption, NEW h \in Handle, Usable(h),
           created' = created, closed' = closed \cup {h},
           IF h \in SendHandle
           THEN open_send_channels' = open_send_channels - 1 /\ open_receive_channels' = open_receive_channels
           ELSE open_receive_channels' = open_receive_channels - 1 /\ open_send_channels' = open_send_channels
    PROVE  /\ HandlesCounted'
           /\ open_send_channels' \in Nat /\ open_receive_channels' \in Nat
           /\ open_send_channels \in Nat /\ open_receive_channels \in Nat
<1> DEFINE S == {x \in SendHandle : Usable(x)}
           R == {x \in ReceiveHandle : Usable(x)}
           S2 == {x \in SendHandle : x \in created' \ closed'}
           R2 == {x \in ReceiveHandle : x \in created' \ closed'}
<1>1. S \subseteq created /\ R \subseteq created
    BY DEF Usable
<1>2. IsFiniteSet(S) /\ IsFiniteSet(R) /\ Cardinality(S) \in Nat /\ Cardinality(R) \in Nat
    BY <1>1, FS_Subset, FS_CardinalityType DEF HandlesCounted
<1>3. CASE h \in SendHandle
    <2>1. S2 = S \ {h} /\ R2 = R /\ h \in S
        BY <1>3, MemoryChannelAssumption DEF Usable
    <2>2. Cardinality(S \ {h}) = Cardinality(S) - 1 /\ Cardinality(S \ {h}) \in Nat
        BY <1>2, <2>1, FS_RemoveElement, FS_CardinalityType
    <2> QED
        BY <1>2, <1>3, <2>1, <2>2 DEF HandlesCounted, Usable
<1>4. CASE h \notin SendHandle
    <2>1. R2 = R \ {h} /\ S2 = S /\ h \in R
        BY <1>4, MemoryChannelAssumption DEF Usable, Handle
    <2>2. Cardinality(R \ {h}) = Cardinality(R) - 1 /\ Cardinality(R \ {h}) \in Nat
        BY <1>2, <2>1, FS_RemoveElement, FS_CardinalityType
    <2> QED
        BY <1>2, <1>4, <2>1, <2>2 DEF HandlesCounted, Usable
<1> QED
    BY <1>3, <1>4

\* ... and clone() up for the one that it makes
LEMMA CountedUp ==
    ASSUME ChannelInv, MemoryChannelAssumption, NEW h \in Handle, NEW new \in Handle, Clone(h, new)
    PROVE  HandlesCounted' /\ open_send_channels' \in Nat /\ open_receive_channels' \in Nat
           /\ open_send_channels' >= open_send_channels /\ open_receive_channels' >= open_receive_channels
<1> DEFINE S == {x \in SendHandle : Usable(x)}
           R == {x \in ReceiveHandle : Usable(x)}
           S2 == {x \in SendHandle : x \in created' \ closed'}
           R2 == {x \in ReceiveHandle : x \in created' \ closed'}
<1>c. created' = created \cup {new} /\ new \notin created /\ closed' = closed /\ closed \subseteq created
    BY DEF Clone, ChannelInv, ChannelTypeOK
<1>1. S \subseteq created /\ R \subseteq created /\ IsFiniteSet(created) /\ IsFiniteSet(created')
    BY <1>c, FS_AddElement DEF Usable, HandlesCounted, ChannelInv
<1>2. IsFiniteSet(S) /\ IsFiniteSet(R) /\ Cardinality(S) \in Nat /\ Cardinality(R) \in Nat
    BY <1>1, FS_Subset, FS_CardinalityType
<1>o. open_send_channels = Cardinality(S) /\ open_receive_channels = Cardinality(R)
    BY DEF HandlesCounted, ChannelInv
<1>3. CASE new \in SendHandle
    <2>1. S2 = S \cup {new} /\ R2 = R /\ new \notin S
        BY <1>3, <1>c, MemoryChannelAssumption DEF Usable
    <2>2. Cardinality(S \cup {new}) = Cardinality(S) + 1
        BY <1>2, <2>1, FS_AddElement
    <2>3. open_send_channels' = open_send_channels + 1 /\ open_receive_channels' = open_receive_channels
        BY <1>3, MemoryChannelAssumption DEF Clone
    <2>4. open_send_channels' = Cardinality(S2) /\ open_receive_channels' = Cardinality(R2)
        BY <1>o, <2>1, <2>2, <2>3
    <2>5. HandlesCounted'
        BY <1>1, <2>4 DEF HandlesCounted, Usable
    <2> HIDE DEF S, R
    <2> QED
        BY <1>2, <1>o, <2>3, <2>5
<1>4. CASE new \notin SendHandle
    <2>1. R2 = R \cup {new} /\ S2 = S /\ new \notin R
        BY <1>4, <1>c, MemoryChannelAssumption DEF Usable, Handle
    <2>2. Cardinality(R \cup {new}) = Cardinality(R) + 1
        BY <1>2, <2>1, FS_AddElement
    <2>3. open_receive_channels' = open_receive_channels + 1 /\ open_send_channels' = open_send_channels
        BY <1>4 DEF Clone
    <2>4. open_send_channels' = Cardinality(S2) /\ open_receive_channels' = Cardinality(R2)
        BY <1>o, <2>1, <2>2, <2>3
    <2>5. HandlesCounted'
        BY <1>1, <2>4 DEF HandlesCounted, Usable
    <2> HIDE DEF S, R
    <2> QED
        BY <1>2, <1>o, <2>3, <2>5
<1> QED
    BY <1>3, <1>4

\* The tasks in T wake up: nothing else about the sleepers changes
LEMMA Unslept ==
    ASSUME ChannelInv, NEW T, Unsleep(T), None \notin Handle,
           \A h \in Handle : Usable(h) /\ tasks[h] \ T # {} => Usable(h)'
    PROVE  /\ SleepersOnHandles'
           /\ tasks' \in [Handle -> SUBSET Task] /\ custom_sleep_data' \in [Task -> Handle \cup {None}]
           /\ \A q, r : \A H \in SUBSET Handle :
                 QueueOf(q, H, custom_sleep_data) /\ IsInjective(r) /\ ToSet(r) = ToSet(q) \ T
                 => QueueOf(r, H, custom_sleep_data')
<1>1. /\ \A h \in Handle : tasks'[h] = tasks[h] \ T
      /\ \A t \in Task : custom_sleep_data'[t] = IF t \in T THEN None ELSE custom_sleep_data[t]
    BY DEF Unsleep
<1>2. tasks' \in [Handle -> SUBSET Task] /\ custom_sleep_data' \in [Task -> Handle \cup {None}]
    BY DEF Unsleep, ChannelInv, ChannelTypeOK
<1>3. SleepersOnHandles'
    <2>1. ASSUME NEW h \in Handle, tasks'[h] # {} PROVE Usable(h)'
        BY <1>1, <2>1 DEF ChannelInv, SleepersOnHandles
    <2>2. ASSUME NEW t \in Task, NEW h \in Handle PROVE t \in tasks'[h] <=> custom_sleep_data'[t] = h
        BY <1>1 DEF ChannelInv, SleepersOnHandles
    <2> QED
        BY <2>1, <2>2 DEF SleepersOnHandles
<1>4. ASSUME NEW q, NEW r, NEW H \in SUBSET Handle, QueueOf(q, H, custom_sleep_data), IsInjective(r),
             ToSet(r) = ToSet(q) \ T
      PROVE  QueueOf(r, H, custom_sleep_data')
    BY <1>1, <1>4 DEF QueueOf
<1> QED
    BY <1>2, <1>3, <1>4

\* A task goes to sleep on a handle, at the end of the queue of its kind
LEMMA FallenAsleep ==
    ASSUME ChannelInv, MemoryChannelAssumption, NEW t \in Task, NEW h \in Handle, Free(t), Usable(h),
           tasks' = [tasks EXCEPT ![h] = @ \cup {t}],
           custom_sleep_data' = [custom_sleep_data EXCEPT ![t] = h],
           UNCHANGED <<created, closed>>
    PROVE  /\ SleepersOnHandles'
           /\ tasks' \in [Handle -> SUBSET Task] /\ custom_sleep_data' \in [Task -> Handle \cup {None}]
           /\ t \notin ToSet(send_tasks) /\ t \notin ToSet(receive_tasks)
           /\ \A q \in Seq(Task) : \A H \in SUBSET Handle :
                 QueueOf(q, H, custom_sleep_data) /\ t \notin ToSet(q)
                 => IF h \in H THEN QueueOf(Append(q, t), H, custom_sleep_data') ELSE QueueOf(q, H, custom_sleep_data')
<1>t. /\ tasks \in [Handle -> SUBSET Task] /\ custom_sleep_data \in [Task -> Handle \cup {None}]
      /\ send_tasks \in Seq(Task) /\ receive_tasks \in Seq(Task)
    BY DEF ChannelInv, ChannelTypeOK
<1>1. /\ tasks'[h] = tasks[h] \cup {t} /\ \A x \in Handle : x # h => tasks'[x] = tasks[x]
      /\ custom_sleep_data'[t] = h /\ \A u \in Task : u # t => custom_sleep_data'[u] = custom_sleep_data[u]
      /\ tasks' \in [Handle -> SUBSET Task] /\ custom_sleep_data' \in [Task -> Handle \cup {None}]
    BY <1>t
<1>2. t \notin ToSet(send_tasks) /\ t \notin ToSet(receive_tasks)
    BY <1>t, MembersAreElements DEF Free
<1>3. custom_sleep_data[t] = None
    BY <1>t, <1>2 DEF ChannelInv, QueueOf, Handle
<1>4. SleepersOnHandles'
    <2>1. ASSUME NEW x \in Handle, tasks'[x] # {} PROVE Usable(x)'
        <3>1. x = h \/ tasks[x] # {}
            BY <1>1, <2>1
        <3> QED
            BY <3>1 DEF ChannelInv, SleepersOnHandles, Usable
    <2>2. ASSUME NEW u \in Task, NEW x \in Handle PROVE u \in tasks'[x] <=> custom_sleep_data'[u] = x
        <3>1. u \in tasks[x] <=> custom_sleep_data[u] = x
            BY DEF ChannelInv, SleepersOnHandles
        <3>2. None # x
            BY MemoryChannelAssumption DEF Handle
        <3> QED
            BY <1>1, <1>3, <3>1, <3>2
    <2> QED
        BY <2>1, <2>2 DEF SleepersOnHandles
<1>5. ASSUME NEW q \in Seq(Task), NEW H \in SUBSET Handle, QueueOf(q, H, custom_sleep_data), t \notin ToSet(q)
      PROVE  IF h \in H THEN QueueOf(Append(q, t), H, custom_sleep_data') ELSE QueueOf(q, H, custom_sleep_data')
    <2>1. ToSet(Append(q, t)) = ToSet(q) \cup {t} /\ IsInjective(Append(q, t))
        BY <1>5, AppendQueue, AppendDistinct DEF QueueOf
    <2> QED
        BY <1>1, <1>5, <2>1 DEF QueueOf
<1> QED
    BY <1>1, <1>2, <1>4, <1>5

\* A queue that holds nothing is empty
LEMMA NothingHeld ==
    ASSUME NEW S, NEW q \in Seq(S)
    PROVE  q = <<>> <=> ToSet(q) = {}
<1>1. q # <<>> => Head(q) \in ToSet(q)
    BY TailQueue
<1> QED
    BY <1>1, EmptyQueue

\* What the steps of a channel keep if they keep its parts: NeededSleep is about
\* the queues, the buffer and the counters alone
LEMMA FewerAsleep ==
    ASSUME NeededSleep, NEW S2 \in Seq(Task), NEW R2 \in Seq(Task),
           send_tasks \in Seq(Task), receive_tasks \in Seq(Task),
           ToSet(S2) \subseteq ToSet(send_tasks), ToSet(R2) \subseteq ToSet(receive_tasks)
    PROVE  /\ R2 # <<>> => receive_tasks # <<>> /\ data = <<>> /\ S2 = <<>> /\ open_send_channels > 0
           /\ S2 # <<>> => send_tasks # <<>> /\ Len(data) = max_buffer_size /\ open_receive_channels > 0
<1>1. (R2 # <<>> => receive_tasks # <<>>) /\ (S2 # <<>> => send_tasks # <<>>)
    BY NothingHeld
<1> QED
    BY <1>1 DEF NeededSleep

\* A step of somebody else
LEMMA ChannelUntouched ==
    ASSUME ChannelInv, UNCHANGED channelVars
    PROVE  ChannelInv'
<1>1. HandlesCounted'
    BY CountsKept DEF channelVars, ChannelInv
<1>2. ChannelTypeOK'
    BY DEF channelVars, ChannelInv, ChannelTypeOK
<1>3. ValuesOfSenders' /\ NeededSleep' /\ SleepersOnHandles'
    BY DEF channelVars, ChannelInv, ValuesOfSenders, NeededSleep, SleepersOnHandles, Usable
<1> QED
    BY <1>1, <1>2, <1>3 DEF channelVars, ChannelInv

\* Sending, receiving, waiting, cancelling, cloning and closing: every step of a
\* channel keeps the invariant
LEMMA ChannelStepKeeps ==
    ASSUME ChannelInv, ChannelNext
    PROVE  ChannelInv'
<1>a. /\ None \notin Handle /\ None \notin Value /\ SendHandle \cap ReceiveHandle = {}
      /\ SendHandle \in SUBSET Handle /\ ReceiveHandle \in SUBSET Handle
      /\ MemoryChannelAssumption
    BY MemoryChannelAssumption DEF Handle
<1>t. /\ ChannelTypeOK /\ send_tasks \in Seq(Task) /\ receive_tasks \in Seq(Task) /\ data \in Seq(Value)
      /\ max_buffer_size \in Nat /\ Len(data) \in Nat /\ Len(data) <= max_buffer_size
      /\ send_value \in [Task -> Value \cup {None}] /\ outcome \in [Task -> Outcome]
      /\ tasks \in [Handle -> SUBSET Task] /\ custom_sleep_data \in [Task -> Handle \cup {None}]
      /\ open_send_channels \in Nat /\ open_receive_channels \in Nat
    BY MemoryChannelAssumption DEF ChannelInv, ChannelTypeOK
<1>q. /\ QueueOf(send_tasks, SendHandle, custom_sleep_data)
      /\ QueueOf(receive_tasks, ReceiveHandle, custom_sleep_data)
      /\ IsInjective(send_tasks) /\ IsInjective(receive_tasks)
      /\ HandlesCounted /\ SleepersOnHandles /\ ValuesOfSenders /\ NeededSleep
    BY DEF ChannelInv, QueueOf
<1>s. /\ ToSet(send_tasks) \subseteq Task /\ ToSet(receive_tasks) \subseteq Task
      /\ Members(send_tasks) = ToSet(send_tasks) /\ Members(receive_tasks) = ToSet(receive_tasks)
      /\ ToSet(send_tasks) \cap ToSet(receive_tasks) = {}
    <2>1. /\ ToSet(send_tasks) \subseteq Task /\ ToSet(receive_tasks) \subseteq Task
          /\ Members(send_tasks) = ToSet(send_tasks) /\ Members(receive_tasks) = ToSet(receive_tasks)
        BY ONLY <1>t, MembersAreElements
    <2> QED
        BY <1>a, <1>q, <2>1 DEF QueueOf
<1>m. max_buffer_size' = max_buffer_size
    BY DEF ChannelNext
<1>e. IsInjective(<<>>) /\ ToSet(<<>>) = {} /\ <<>> \in Seq(Task)
    BY EmptyQueue
\* send_nowait()
<1>1. ASSUME NEW t \in Task, NEW h \in Handle, NEW v \in Value, SendNow(t, h, v) PROVE ChannelInv'
    <2>1. /\ UNCHANGED <<send_tasks, send_value, open_send_channels, open_receive_channels, created, closed>>
          /\ fresh' = fresh \ {v} /\ open_receive_channels > 0
        BY <1>1 DEF SendNow
    <2>2. HandlesCounted'
        BY <1>q, <2>1, CountsKept
    <2>3. CASE receive_tasks # <<>>
        <3> DEFINE u == Head(receive_tasks)
        <3>1. /\ receive_tasks' = Tail(receive_tasks) /\ Unsleep({u}) /\ Reschedule({u}, "ok")
              /\ delivered' = Append(delivered, v) /\ data' = data
            BY <1>1, <2>3 DEF SendNow
        <3>2. /\ u \in Task /\ Tail(receive_tasks) \in Seq(Task) /\ IsInjective(Tail(receive_tasks))
              /\ ToSet(Tail(receive_tasks)) = ToSet(receive_tasks) \ {u} /\ u \in ToSet(receive_tasks)
            BY ONLY <1>q, <1>t, <2>3, TailQueue, TailDistinct
        <3> HIDE DEF u
        <3>3. send_tasks = <<>> /\ data = <<>> /\ open_send_channels > 0
            BY <1>q, <2>3 DEF NeededSleep
        <3>4. \A x \in Handle : Usable(x) /\ tasks[x] \ {u} # {} => Usable(x)'
            BY <2>1 DEF Usable
        <3>5. /\ SleepersOnHandles' /\ tasks' \in [Handle -> SUBSET Task]
              /\ custom_sleep_data' \in [Task -> Handle \cup {None}]
              /\ QueueOf(send_tasks, SendHandle, custom_sleep_data')
              /\ QueueOf(Tail(receive_tasks), ReceiveHandle, custom_sleep_data')
            <4>1. ToSet(send_tasks) = ToSet(send_tasks) \ {u}
                BY <1>e, <3>3
            <4> QED
                BY <1>a, <1>q, <3>1, <3>2, <3>4, <4>1, Unslept
        <3>6. ChannelTypeOK'
            BY <1>m, <1>t, <2>1, <3>1, <3>2, <3>5 DEF ChannelTypeOK, Reschedule, Outcome
        <3>7. ValuesOfSenders' /\ NeededSleep'
            BY <1>q, <2>1, <3>1, <3>3, <1>m DEF ValuesOfSenders, NeededSleep
        <3> QED
            BY <2>1, <2>2, <3>1, <3>5, <3>6, <3>7 DEF ChannelInv
    <2>4. CASE receive_tasks = <<>>
        <3>1. /\ data' = Append(data, v) /\ Len(data) < max_buffer_size
              /\ UNCHANGED <<receive_tasks, tasks, custom_sleep_data, outcome, delivered>>
            BY <1>1, <2>4 DEF SendNow
        <3>2. data' \in Seq(Value) /\ Len(data') = Len(data) + 1
            BY <1>t, <3>1
        <3>3. ChannelTypeOK'
            BY <1>m, <1>t, <2>1, <3>1, <3>2 DEF ChannelTypeOK
        <3>4. send_tasks = <<>>
            BY <1>q, <1>t, <3>1 DEF NeededSleep
        <3>5. ValuesOfSenders' /\ NeededSleep' /\ SleepersOnHandles'
            BY <1>q, <2>1, <2>4, <3>1, <3>4 DEF ValuesOfSenders, NeededSleep,
               SleepersOnHandles, Usable
        <3> QED
            BY <1>q, <2>1, <2>2, <3>1, <3>3, <3>5 DEF ChannelInv
    <2> QED
        BY <2>3, <2>4
\* send() that waits
<1>2. ASSUME NEW t \in Task, NEW h \in Handle, NEW v \in Value, SendBlocks(t, h, v) PROVE ChannelInv'
    <2>1. /\ UNCHANGED <<data, receive_tasks, open_send_channels, open_receive_channels, created, closed, outcome, delivered>>
          /\ fresh' = fresh \ {v} /\ open_receive_channels > 0 /\ receive_tasks = <<>> /\ Len(data) >= max_buffer_size
          /\ send_tasks' = Append(send_tasks, t) /\ send_value' = [send_value EXCEPT ![t] = v]
          /\ h \in SendHandle
        BY <1>2 DEF SendBlocks
    <2>2. HandlesCounted'
        BY <1>q, <2>1, CountsKept
    <2>3. /\ SleepersOnHandles' /\ tasks' \in [Handle -> SUBSET Task]
          /\ custom_sleep_data' \in [Task -> Handle \cup {None}]
          /\ t \notin ToSet(send_tasks)
          /\ QueueOf(Append(send_tasks, t), SendHandle, custom_sleep_data')
          /\ QueueOf(receive_tasks, ReceiveHandle, custom_sleep_data')
        <3>1. /\ Free(t) /\ Usable(h) /\ tasks' = [tasks EXCEPT ![h] = @ \cup {t}]
              /\ custom_sleep_data' = [custom_sleep_data EXCEPT ![t] = h] /\ UNCHANGED <<created, closed>>
            BY <1>2 DEF SendBlocks
        <3>2. h \in SendHandle /\ h \notin ReceiveHandle
            BY <1>a, <2>1
        <3>3. /\ SleepersOnHandles'
              /\ tasks' \in [Handle -> SUBSET Task] /\ custom_sleep_data' \in [Task -> Handle \cup {None}]
              /\ t \notin ToSet(send_tasks) /\ t \notin ToSet(receive_tasks)
              /\ \A q \in Seq(Task) : \A H \in SUBSET Handle :
                    QueueOf(q, H, custom_sleep_data) /\ t \notin ToSet(q)
                    => IF h \in H THEN QueueOf(Append(q, t), H, custom_sleep_data') ELSE QueueOf(q, H, custom_sleep_data')
            BY <1>a, <3>1, FallenAsleep
        <3> QED
            BY <1>a, <1>q, <1>t, <3>2, <3>3
    <2>4. send_tasks' \in Seq(Task) /\ ToSet(send_tasks') = ToSet(send_tasks) \cup {t} /\ send_tasks' # <<>>
        BY <1>t, <2>1, AppendQueue
    <2>5. ChannelTypeOK'
        BY <1>m, <1>t, <2>1, <2>3, <2>4 DEF ChannelTypeOK
    <2>6. ValuesOfSenders'
        BY <1>a, <1>q, <1>t, <2>1, <2>4 DEF ValuesOfSenders
    <2>7. NeededSleep'
        BY <1>m, <1>t, <2>1 DEF NeededSleep
    <2> QED
        BY <2>1, <2>2, <2>3, <2>5, <2>6, <2>7 DEF ChannelInv
\* receive_nowait()
<1>3. ASSUME NEW t \in Task, NEW h \in Handle, ReceiveNow(t, h) PROVE ChannelInv'
    <2>1. UNCHANGED <<receive_tasks, open_send_channels, open_receive_channels, created, closed, fresh>>
        BY <1>3 DEF ReceiveNow
    <2>2. HandlesCounted'
        BY <1>q, <2>1, CountsKept
    <2>3. CASE send_tasks = <<>>
        <3>1. /\ data # <<>> /\ data' = Tail(data) /\ delivered' = Append(delivered, Head(data))
              /\ UNCHANGED <<send_tasks, send_value, tasks, custom_sleep_data, outcome>>
            BY <1>3, <2>3 DEF ReceiveNow
        <3>2. Tail(data) \in Seq(Value) /\ Len(Tail(data)) = Len(data) - 1 /\ Head(data) \in Value
            BY ONLY <1>t, <3>1, TailQueue
        <3>3. ChannelTypeOK'
            BY <1>m, <1>t, <2>1, <3>1, <3>2 DEF ChannelTypeOK
        <3>4. ValuesOfSenders' /\ NeededSleep' /\ SleepersOnHandles'
            BY <1>q, <2>1, <2>3, <3>1 DEF ValuesOfSenders, NeededSleep, SleepersOnHandles,
               Usable
        <3> QED
            BY <1>q, <2>1, <2>2, <3>1, <3>3, <3>4 DEF ChannelInv
    <2>4. CASE send_tasks # <<>>
        <3> DEFINE u == Head(send_tasks)
                   buffer == Append(data, send_value[u])
        <3>1. /\ data' = Tail(buffer) /\ delivered' = Append(delivered, Head(buffer))
              /\ send_tasks' = Tail(send_tasks) /\ send_value' = [send_value EXCEPT ![u] = None]
              /\ Unsleep({u}) /\ Reschedule({u}, "ok")
            BY <1>3, <2>4 DEF ReceiveNow
        <3>2. /\ u \in Task /\ Tail(send_tasks) \in Seq(Task) /\ IsInjective(Tail(send_tasks))
              /\ ToSet(Tail(send_tasks)) = ToSet(send_tasks) \ {u} /\ u \in ToSet(send_tasks)
            BY ONLY <1>q, <1>t, <2>4, TailQueue, TailDistinct
        <3>3. send_value[u] \in Value
            BY <1>q, <1>t, <3>2 DEF ValuesOfSenders
        <3> HIDE DEF u
        <3>4. buffer \in Seq(Value) /\ buffer # <<>> /\ Len(buffer) = Len(data) + 1
            BY <1>t, <3>3, AppendQueue
        <3> HIDE DEF buffer
        <3>5. Tail(buffer) \in Seq(Value) /\ Len(Tail(buffer)) = Len(data) /\ Head(buffer) \in Value
            BY <1>t, <3>4, TailQueue
        <3>6. receive_tasks = <<>>
            BY <1>q, <2>4 DEF NeededSleep
        <3>7. \A x \in Handle : Usable(x) /\ tasks[x] \ {u} # {} => Usable(x)'
            BY <2>1 DEF Usable
        <3>8. /\ SleepersOnHandles' /\ tasks' \in [Handle -> SUBSET Task]
              /\ custom_sleep_data' \in [Task -> Handle \cup {None}]
              /\ QueueOf(Tail(send_tasks), SendHandle, custom_sleep_data')
              /\ QueueOf(receive_tasks, ReceiveHandle, custom_sleep_data')
            <4>1. ToSet(receive_tasks) = ToSet(receive_tasks) \ {u}
                BY <1>e, <3>6
            <4> QED
                BY <1>a, <1>q, <3>1, <3>2, <3>7, <4>1, Unslept
        <3>9. ChannelTypeOK'
            <4>1. outcome' \in [Task -> Outcome] /\ send_value' \in [Task -> Value \cup {None}]
                BY <1>t, <3>1 DEF Reschedule, Outcome
            <4>2. delivered' \in Seq(Value)
                BY <1>t, <3>1, <3>5, AppendQueue DEF ChannelTypeOK
            <4> QED
                BY <1>m, <1>t, <2>1, <3>1, <3>2, <3>5, <3>8, <4>1, <4>2 DEF ChannelTypeOK
        <3>10. ValuesOfSenders'
            BY <1>q, <1>t, <3>1, <3>2 DEF ValuesOfSenders
        <3>11. NeededSleep'
            BY <1>m, <1>q, <2>1, <2>4, <3>1, <3>5, <3>6 DEF NeededSleep
        <3> QED
            BY <2>1, <2>2, <3>1, <3>8, <3>9, <3>10, <3>11 DEF ChannelInv
    <2> QED
        BY <2>3, <2>4
\* receive() that waits
<1>4. ASSUME NEW t \in Task, NEW h \in Handle, ReceiveBlocks(t, h) PROVE ChannelInv'
    <2>1. /\ UNCHANGED <<data, send_tasks, send_value, open_send_channels, open_receive_channels, created, closed,
                         outcome, fresh, delivered>>
          /\ send_tasks = <<>> /\ data = <<>> /\ open_send_channels > 0
          /\ receive_tasks' = Append(receive_tasks, t) /\ h \in ReceiveHandle
        BY <1>4 DEF ReceiveBlocks
    <2>2. HandlesCounted'
        BY <1>q, <2>1, CountsKept
    <2>3. /\ SleepersOnHandles' /\ tasks' \in [Handle -> SUBSET Task]
          /\ custom_sleep_data' \in [Task -> Handle \cup {None}]
          /\ QueueOf(send_tasks, SendHandle, custom_sleep_data')
          /\ QueueOf(Append(receive_tasks, t), ReceiveHandle, custom_sleep_data')
        <3>1. /\ Free(t) /\ Usable(h) /\ tasks' = [tasks EXCEPT ![h] = @ \cup {t}]
              /\ custom_sleep_data' = [custom_sleep_data EXCEPT ![t] = h] /\ UNCHANGED <<created, closed>>
            BY <1>4 DEF ReceiveBlocks
        <3>2. h \notin SendHandle /\ h \in ReceiveHandle
            BY <1>a, <2>1
        <3>3. /\ SleepersOnHandles'
              /\ tasks' \in [Handle -> SUBSET Task] /\ custom_sleep_data' \in [Task -> Handle \cup {None}]
              /\ t \notin ToSet(send_tasks) /\ t \notin ToSet(receive_tasks)
              /\ \A q \in Seq(Task) : \A H \in SUBSET Handle :
                    QueueOf(q, H, custom_sleep_data) /\ t \notin ToSet(q)
                    => IF h \in H THEN QueueOf(Append(q, t), H, custom_sleep_data') ELSE QueueOf(q, H, custom_sleep_data')
            BY <1>a, <3>1, FallenAsleep
        <3> QED
            BY <1>a, <1>q, <1>t, <3>2, <3>3
    <2>4. receive_tasks' \in Seq(Task)
        BY <1>t, <2>1, AppendQueue
    <2>5. ChannelTypeOK'
        BY <1>m, <1>t, <2>1, <2>3, <2>4 DEF ChannelTypeOK
    <2>6. ValuesOfSenders' /\ NeededSleep'
        BY <1>q, <2>1 DEF ValuesOfSenders, NeededSleep
    <2> QED
        BY <2>1, <2>2, <2>3, <2>5, <2>6 DEF ChannelInv
\* The abort_fn of send() and receive()
<1>5. ASSUME NEW t \in Task, Abort(t) PROVE ChannelInv'
    <2> DEFINE S2 == Without(send_tasks, {t})
               R2 == Without(receive_tasks, {t})
    <2>1. /\ send_tasks' = S2 /\ receive_tasks' = R2 /\ send_value' = [send_value EXCEPT ![t] = None]
          /\ Unsleep({t}) /\ Reschedule({t}, "Cancelled")
          /\ UNCHANGED <<data, open_send_channels, open_receive_channels, created, closed, fresh, delivered>>
        BY <1>5 DEF Abort
    <2>2. /\ S2 \in Seq(Task) /\ IsInjective(S2) /\ ToSet(S2) = ToSet(send_tasks) \ {t}
          /\ R2 \in Seq(Task) /\ IsInjective(R2) /\ ToSet(R2) = ToSet(receive_tasks) \ {t}
        BY ONLY <1>q, <1>t, WithoutQueue
    <2> HIDE DEF S2, R2
    <2>3. HandlesCounted'
        BY <1>q, <2>1, CountsKept
    <2>4. \A x \in Handle : Usable(x) /\ tasks[x] \ {t} # {} => Usable(x)'
        BY <2>1 DEF Usable
    <2>5. /\ SleepersOnHandles' /\ tasks' \in [Handle -> SUBSET Task]
          /\ custom_sleep_data' \in [Task -> Handle \cup {None}]
          /\ QueueOf(S2, SendHandle, custom_sleep_data') /\ QueueOf(R2, ReceiveHandle, custom_sleep_data')
        BY <1>a, <1>q, <2>1, <2>2, <2>4, Unslept
    <2>6. ChannelTypeOK'
        BY <1>m, <1>t, <2>1, <2>2, <2>5 DEF ChannelTypeOK, Reschedule, Outcome
    <2>7. ValuesOfSenders'
        BY <1>q, <1>t, <2>1, <2>2 DEF ValuesOfSenders
    <2>8. NeededSleep'
        <3>1. ToSet(S2) \subseteq ToSet(send_tasks) /\ ToSet(R2) \subseteq ToSet(receive_tasks)
            BY <2>2
        <3>2. /\ R2 # <<>> => receive_tasks # <<>> /\ data = <<>> /\ S2 = <<>> /\ open_send_channels > 0
              /\ S2 # <<>> => send_tasks # <<>> /\ Len(data) = max_buffer_size /\ open_receive_channels > 0
            BY ONLY <1>q, <1>t, <2>2, <3>1, FewerAsleep
        <3> QED
            BY <1>m, <2>1, <3>2 DEF NeededSleep
    <2> QED
        BY <2>1, <2>3, <2>5, <2>6, <2>7, <2>8 DEF ChannelInv
\* The task runs again
<1>6. ASSUME NEW t \in Task, Resume(t) PROVE ChannelInv'
    <2>1. /\ outcome' = [outcome EXCEPT ![t] = "none"]
          /\ UNCHANGED <<data, send_tasks, send_value, receive_tasks, open_send_channels, open_receive_channels,
                         created, closed, tasks, custom_sleep_data, fresh, delivered>>
        BY <1>6 DEF Resume
    <2>2. HandlesCounted'
        BY <1>q, <2>1, CountsKept
    <2>3. ChannelTypeOK'
        BY <1>m, <1>t, <2>1 DEF ChannelTypeOK, Outcome
    <2>4. ValuesOfSenders' /\ NeededSleep' /\ SleepersOnHandles'
        BY <1>m, <1>q, <2>1 DEF ValuesOfSenders, NeededSleep, SleepersOnHandles, Usable
    <2> QED
        BY <1>q, <2>1, <2>2, <2>3, <2>4 DEF ChannelInv
\* Calls that raise
<1>7. ASSUME UNCHANGED channelVars PROVE ChannelInv'
    BY <1>7, ChannelUntouched
\* close() of a MemorySendChannel
<1>8. ASSUME NEW h \in Handle, CloseSend(h) PROVE ChannelInv'
    <2> DEFINE own == tasks[h]
               last == open_send_channels = 1
               others == IF last THEN ToSet(receive_tasks) ELSE {}
               T == own \cup others
               S2 == Without(send_tasks, own)
               R2 == IF last THEN <<>> ELSE receive_tasks
    <2>1. /\ Usable(h) /\ h \in SendHandle /\ closed' = closed \cup {h}
          /\ send_tasks' = S2 /\ receive_tasks' = R2
          /\ send_value' = [t \in Task |-> IF t \in own THEN None ELSE send_value[t]]
          /\ open_send_channels' = open_send_channels - 1 /\ Unsleep(T)
          /\ outcome' = [t \in Task |-> IF t \in own THEN "ClosedResourceError"
                                        ELSE IF t \in others THEN "EndOfChannel" ELSE outcome[t]]
          /\ UNCHANGED <<data, open_receive_channels, created, fresh, delivered>>
        BY <1>8, <1>s DEF CloseSend
    <2>2. own \subseteq ToSet(send_tasks)
        BY <1>q, <1>t, <2>1 DEF SleepersOnHandles, QueueOf
    <2>3. S2 \in Seq(Task) /\ IsInjective(S2) /\ ToSet(S2) = ToSet(send_tasks) \ own
        BY ONLY <1>q, <1>t, WithoutQueue
    <2>4. ToSet(send_tasks) \ own = ToSet(send_tasks) \ T
        BY <1>s
    <2>5. R2 \in Seq(Task) /\ IsInjective(R2) /\ ToSet(R2) = ToSet(receive_tasks) \ T /\ (last => R2 = <<>>)
        BY <1>e, <1>q, <1>s, <1>t, <2>2
    <2>6. HandlesCounted' /\ open_send_channels' \in Nat
        BY <1>a, <1>q, <2>1, CountedDown
    <2>7. \A x \in Handle : Usable(x) /\ tasks[x] \ T # {} => Usable(x)'
        BY <2>1 DEF Usable
    <2>k. ~last => open_send_channels' > 0
        BY <1>t, <2>1, <2>6
    <2> HIDE DEF own, others, S2, R2, last
    <2>8. /\ SleepersOnHandles' /\ tasks' \in [Handle -> SUBSET Task]
          /\ custom_sleep_data' \in [Task -> Handle \cup {None}]
          /\ QueueOf(S2, SendHandle, custom_sleep_data') /\ QueueOf(R2, ReceiveHandle, custom_sleep_data')
        <3>1. ToSet(S2) = ToSet(send_tasks) \ T
            BY <2>3, <2>4
        <3> HIDE DEF T
        <3> QED
            BY <1>a, <1>q, <2>1, <2>3, <2>5, <2>7, <3>1, Unslept
    <2>9. ChannelTypeOK'
        <3>1. outcome' \in [Task -> Outcome] /\ send_value' \in [Task -> Value \cup {None}]
            BY <1>t, <2>1 DEF Outcome
        <3>2. closed' \subseteq created'
            BY <1>t, <2>1 DEF ChannelTypeOK, Usable
        <3> QED
            BY <1>m, <1>t, <2>1, <2>3, <2>5, <2>6, <2>8, <3>1, <3>2 DEF ChannelTypeOK
    <2>10. ValuesOfSenders'
        BY <1>q, <2>1, <2>3 DEF ValuesOfSenders
    <2>11. NeededSleep'
        <3>1. ToSet(S2) \subseteq ToSet(send_tasks) /\ ToSet(R2) \subseteq ToSet(receive_tasks)
            BY <2>3, <2>5
        <3>2. /\ R2 # <<>> => receive_tasks # <<>> /\ data = <<>> /\ S2 = <<>> /\ open_send_channels > 0
              /\ S2 # <<>> => send_tasks # <<>> /\ Len(data) = max_buffer_size /\ open_receive_channels > 0
            BY ONLY <1>q, <1>t, <2>3, <2>5, <3>1, FewerAsleep
        <3> QED
            BY <1>m, <2>1, <2>5, <2>k, <3>2 DEF NeededSleep
    <2> QED
        BY <2>1, <2>6, <2>8, <2>9, <2>10, <2>11 DEF ChannelInv
\* close() of a MemoryReceiveChannel
<1>9. ASSUME NEW h \in Handle, CloseReceive(h) PROVE ChannelInv'
    <2> DEFINE own == tasks[h]
               last == open_receive_channels = 1
               others == IF last THEN ToSet(send_tasks) ELSE {}
               T == own \cup others
               R2 == Without(receive_tasks, own)
               S2 == IF last THEN <<>> ELSE send_tasks
    <2>1. /\ Usable(h) /\ h \in ReceiveHandle /\ closed' = closed \cup {h}
          /\ send_tasks' = S2 /\ receive_tasks' = R2
          /\ send_value' = [t \in Task |-> IF t \in others THEN None ELSE send_value[t]]
          /\ open_receive_channels' = open_receive_channels - 1 /\ Unsleep(T)
          /\ data' = IF last THEN <<>> ELSE data
          /\ outcome' = [t \in Task |-> IF t \in own THEN "ClosedResourceError"
                                        ELSE IF t \in others THEN "BrokenResourceError" ELSE outcome[t]]
          /\ UNCHANGED <<open_send_channels, created, fresh, delivered>>
        BY <1>9, <1>s DEF CloseReceive
    <2>2. own \subseteq ToSet(receive_tasks)
        BY <1>q, <1>t, <2>1 DEF SleepersOnHandles, QueueOf
    <2>3. R2 \in Seq(Task) /\ IsInjective(R2) /\ ToSet(R2) = ToSet(receive_tasks) \ own
        BY ONLY <1>q, <1>t, WithoutQueue
    <2>4. ToSet(receive_tasks) \ own = ToSet(receive_tasks) \ T
        BY <1>s
    <2>5. /\ S2 \in Seq(Task) /\ IsInjective(S2) /\ ToSet(S2) = ToSet(send_tasks) \ T /\ (last => S2 = <<>>)
          /\ ToSet(S2) = ToSet(send_tasks) \ others
        BY <1>e, <1>q, <1>s, <1>t, <2>2
    <2>6. HandlesCounted' /\ open_receive_channels' \in Nat
        <3>1. h \notin SendHandle
            BY <1>a, <2>1
        <3> QED
            BY <1>a, <1>q, <2>1, <3>1, CountedDown
    <2>7. \A x \in Handle : Usable(x) /\ tasks[x] \ T # {} => Usable(x)'
        BY <2>1 DEF Usable
    <2>k. ~last => open_receive_channels' > 0
        BY <1>t, <2>1, <2>6
    <2>d. /\ data' \in Seq(Value) /\ Len(data') \in Nat /\ Len(data') <= max_buffer_size
          /\ data = <<>> => data' = <<>>
          /\ ~last => data' = data
        BY <1>t, <2>1
    <2> HIDE DEF own, others, S2, R2, last
    <2>8. /\ SleepersOnHandles' /\ tasks' \in [Handle -> SUBSET Task]
          /\ custom_sleep_data' \in [Task -> Handle \cup {None}]
          /\ QueueOf(S2, SendHandle, custom_sleep_data') /\ QueueOf(R2, ReceiveHandle, custom_sleep_data')
        <3>1. ToSet(R2) = ToSet(receive_tasks) \ T
            BY <2>3, <2>4
        <3> HIDE DEF T
        <3> QED
            BY <1>a, <1>q, <2>1, <2>3, <2>5, <2>7, <3>1, Unslept
    <2>9. ChannelTypeOK'
        <3>1. outcome' \in [Task -> Outcome] /\ send_value' \in [Task -> Value \cup {None}]
            BY <1>t, <2>1 DEF Outcome
        <3>2. closed' \subseteq created'
            BY <1>t, <2>1 DEF ChannelTypeOK, Usable
        <3> QED
            BY <1>m, <1>t, <2>1, <2>3, <2>5, <2>6, <2>8, <2>d, <3>1, <3>2 DEF ChannelTypeOK
    <2>10. ValuesOfSenders'
        BY <1>q, <2>1, <2>5 DEF ValuesOfSenders
    <2>11. NeededSleep'
        <3>1. ToSet(S2) \subseteq ToSet(send_tasks) /\ ToSet(R2) \subseteq ToSet(receive_tasks)
            BY <2>3, <2>5
        <3>2. /\ R2 # <<>> => receive_tasks # <<>> /\ data = <<>> /\ S2 = <<>> /\ open_send_channels > 0
              /\ S2 # <<>> => send_tasks # <<>> /\ Len(data) = max_buffer_size /\ open_receive_channels > 0
            BY ONLY <1>q, <1>t, <2>3, <2>5, <3>1, FewerAsleep
        <3> QED
            BY <1>m, <2>1, <2>5, <2>d, <2>k, <3>2 DEF NeededSleep
    <2> QED
        BY <2>1, <2>6, <2>8, <2>9, <2>10, <2>11 DEF ChannelInv
\* clone()
<1>10. ASSUME NEW h \in Handle, NEW new \in Handle, Clone(h, new) PROVE ChannelInv'
    <2>1. /\ created' = created \cup {new}
          /\ UNCHANGED <<data, send_tasks, send_value, receive_tasks, closed, tasks, custom_sleep_data, outcome,
                         fresh, delivered>>
        BY <1>10 DEF Clone
    <2>2. HandlesCounted' /\ open_send_channels' \in Nat /\ open_receive_channels' \in Nat
          /\ open_send_channels' >= open_send_channels /\ open_receive_channels' >= open_receive_channels
        BY <1>10, <1>a, CountedUp
    <2>3. ChannelTypeOK'
        BY <1>m, <1>t, <2>1, <2>2 DEF ChannelTypeOK
    <2>4. ValuesOfSenders' /\ SleepersOnHandles'
        BY <1>q, <2>1 DEF ValuesOfSenders, SleepersOnHandles, Usable
    <2>5. NeededSleep'
        BY <1>m, <1>q, <1>t, <2>1, <2>2 DEF NeededSleep
    <2> QED
        BY <1>q, <2>1, <2>2, <2>3, <2>4, <2>5 DEF ChannelInv
<1> QED
    <2>1. ASSUME NEW t \in Task, NEW h \in Handle, SendRaises(t, h) \/ ReceiveRaises(t, h) PROVE ChannelInv'
        BY <1>7, <2>1 DEF SendRaises, ReceiveRaises
    <2> QED
        BY <1>1, <1>2, <1>3, <1>4, <1>5, <1>6, <1>8, <1>9, <1>10, <2>1 DEF ChannelNext,
           ChannelStep

-----------------------------------------------------------------------------
(* The channel as a bounded queue                                          *)

\* What is offered when the buffer is d and the tasks in st sleep with the values sv
Offers(d, st, sv) == d \o [i \in 1 .. Len(st) |-> sv[st[i]]]

\* The buffer comes first, then the sleepers' values in the order of the sleepers
LEMMA OffersElements ==
    ASSUME NEW d \in Seq(Value), NEW st \in Seq(Task), NEW sv, \A t \in ToSet(st) : sv[t] \in Value
    PROVE  /\ Offers(d, st, sv) \in Seq(Value) /\ Len(Offers(d, st, sv)) = Len(d) + Len(st)
           /\ Len(d) \in Nat /\ Len(st) \in Nat
           /\ \A i \in 1 .. Len(d) : Offers(d, st, sv)[i] = d[i]
           /\ \A i \in 1 .. Len(st) : Offers(d, st, sv)[Len(d) + i] = sv[st[i]]
           /\ st = <<>> => Offers(d, st, sv) = d
<1> DEFINE w == [i \in 1 .. Len(st) |-> sv[st[i]]]
<1>0. Len(st) \in Nat /\ Len(d) \in Nat /\ DOMAIN st = 1 .. Len(st)
    OBVIOUS
<1>1. \A i \in 1 .. Len(st) : sv[st[i]] \in Value
    BY <1>0 DEF ToSet
<1>2. w \in [1 .. Len(st) -> Value] /\ DOMAIN w = 1 .. Len(st)
    BY <1>1
<1>3. \A i \in 1 .. Len(st) : w[i] = sv[st[i]]
    OBVIOUS
<1> HIDE DEF w
<1>4. w \in Seq(Value)
    BY ONLY <1>0, <1>2, SeqDef
<1>5. Len(w) = Len(st)
    <2>1. DOMAIN w = 1 .. Len(w) /\ Len(w) \in Nat
        BY ONLY <1>4, LenProperties
    <2> QED
        BY ONLY <1>0, <1>2, <2>1
<1>6. /\ d \o w \in Seq(Value) /\ Len(d \o w) = Len(d) + Len(st)
      /\ \A i \in 1 .. Len(d) + Len(st) : (d \o w)[i] = IF i <= Len(d) THEN d[i] ELSE w[i - Len(d)]
    <2>1. /\ d \o w \in Seq(Value) /\ Len(d \o w) = Len(d) + Len(w)
          /\ \A i \in 1 .. Len(d) + Len(w) : (d \o w)[i] = IF i <= Len(d) THEN d[i] ELSE w[i - Len(d)]
        BY ONLY d \in Seq(Value), <1>4, ConcatProperties
    <2> QED
        BY ONLY <1>5, <2>1
<1>7. ASSUME NEW i \in 1 .. Len(st)
      PROVE  (d \o w)[Len(d) + i] = sv[st[i]]
    <2>1. Len(d) + i \in 1 .. Len(d) + Len(st) /\ ~(Len(d) + i <= Len(d)) /\ (Len(d) + i) - Len(d) = i
        BY <1>0
    <2> QED
        BY <1>3, <1>6, <2>1
<1>8. st = <<>> => d \o w = d
    <2>1. st = <<>> => w = <<>>
        BY <1>4, <1>5, EmptySeq
    <2> QED
        BY <2>1, ConcatEmptySeq
<1>9. \A i \in 1 .. Len(d) : (d \o w)[i] = d[i]
    BY <1>0, <1>6
<1> QED
    BY <1>0, <1>6, <1>7, <1>8, <1>9 DEF Offers, w

\* A sender goes to sleep: its value is offered behind the others
LEMMA OfferedLast ==
    ASSUME NEW d \in Seq(Value), NEW st \in Seq(Task), NEW sv, NEW t \in Task, t \notin ToSet(st),
           NEW v \in Value, NEW sv2, sv2[t] = v, \A u \in ToSet(st) : sv[u] \in Value /\ sv2[u] = sv[u]
    PROVE  Offers(d, Append(st, t), sv2) = Append(Offers(d, st, sv), v)
<1> DEFINE a == Offers(d, st, sv)
           st2 == Append(st, t)
           b == Offers(d, st2, sv2)
<1>1. /\ a \in Seq(Value) /\ Len(a) = Len(d) + Len(st) /\ Len(d) \in Nat /\ Len(st) \in Nat
      /\ \A i \in 1 .. Len(d) : a[i] = d[i]
      /\ \A i \in 1 .. Len(st) : a[Len(d) + i] = sv[st[i]]
    BY OffersElements
<1>2. /\ st2 \in Seq(Task) /\ Len(st2) = Len(st) + 1 /\ \A i \in 1 .. Len(st) : st2[i] = st[i]
      /\ st2[Len(st) + 1] = t /\ ToSet(st2) = ToSet(st) \cup {t}
    BY AppendQueue
<1> HIDE DEF a, st2
<1>3. /\ b \in Seq(Value) /\ Len(b) = Len(d) + Len(st2)
      /\ \A i \in 1 .. Len(d) : b[i] = d[i]
      /\ \A i \in 1 .. Len(st2) : b[Len(d) + i] = sv2[st2[i]]
    <2>1. \A u \in ToSet(st2) : sv2[u] \in Value
        BY <1>2
    <2> QED
        BY <1>2, <2>1, OffersElements
<1> HIDE DEF b
<1>4. /\ Append(a, v) \in Seq(Value) /\ Len(Append(a, v)) = Len(a) + 1
      /\ \A i \in 1 .. Len(a) : Append(a, v)[i] = a[i]
      /\ Append(a, v)[Len(a) + 1] = v
    BY <1>1, AppendQueue
<1>5. Len(b) = Len(Append(a, v)) /\ Len(b) = Len(d) + Len(st) + 1
    BY <1>1, <1>2, <1>3, <1>4
<1>6. ASSUME NEW i \in 1 .. Len(b)
      PROVE  b[i] = Append(a, v)[i]
    <2>1. CASE i <= Len(d)
        <3>1. i \in 1 .. Len(d) /\ i \in 1 .. Len(a)
            BY <1>1, <1>5, <2>1
        <3> QED
            BY <1>1, <1>3, <1>4, <3>1
    <2>2. CASE i > Len(d) /\ i <= Len(d) + Len(st)
        <3> DEFINE j == i - Len(d)
        <3>1. j \in 1 .. Len(st) /\ i = Len(d) + j /\ i \in 1 .. Len(a) /\ j \in 1 .. Len(st2)
            BY <1>1, <1>2, <1>5, <2>2
        <3> HIDE DEF j
        <3>2. b[i] = sv2[st[j]] /\ Append(a, v)[i] = sv[st[j]]
            BY <1>1, <1>2, <1>3, <1>4, <3>1
        <3>3. st[j] \in ToSet(st)
            BY <3>1 DEF ToSet
        <3> QED
            BY <3>2, <3>3
    <2>3. CASE i = Len(d) + Len(st) + 1
        <3>1. Len(st) + 1 \in 1 .. Len(st2) /\ i = Len(d) + (Len(st) + 1) /\ i = Len(a) + 1
            BY <1>1, <1>2, <2>3
        <3> QED
            BY <1>2, <1>3, <1>4, <3>1
    <2> QED
        BY <1>1, <1>5, <2>1, <2>2, <2>3
<1>7. b = Append(a, v)
    BY ONLY <1>3, <1>4, <1>5, <1>6, SeqEqual
<1> QED
    BY <1>7 DEF a, b, st2

\* receive_nowait() takes the first offer; the first sleeping sender's moves into
\* the buffer
LEMMA OfferTaken ==
    ASSUME NEW d \in Seq(Value), NEW st \in Seq(Task), st # <<>>, IsInjective(st), NEW sv, NEW sv2,
           \A u \in ToSet(st) : sv[u] \in Value, \A u \in ToSet(st) : u # Head(st) => sv2[u] = sv[u]
    PROVE  /\ Offers(d, st, sv) # <<>>
           /\ Head(Offers(d, st, sv)) = Head(Append(d, sv[Head(st)]))
           /\ Tail(Offers(d, st, sv)) = Offers(Tail(Append(d, sv[Head(st)])), Tail(st), sv2)
<1> DEFINE x == sv[Head(st)]
           buffer == Append(d, x)
           a == Offers(d, st, sv)
           p == Tail(st)
           e == Tail(buffer)
           b == Offers(e, p, sv2)
<1>1. /\ a \in Seq(Value) /\ Len(a) = Len(d) + Len(st) /\ Len(d) \in Nat /\ Len(st) \in Nat
      /\ \A i \in 1 .. Len(d) : a[i] = d[i]
      /\ \A i \in 1 .. Len(st) : a[Len(d) + i] = sv[st[i]]
    BY OffersElements
<1>2. /\ Head(st) = st[1] /\ Head(st) \in ToSet(st) /\ p \in Seq(Task) /\ Len(p) = Len(st) - 1 /\ Len(st) > 0
      /\ \A i \in 1 .. Len(st) - 1 : p[i] = st[i + 1]
      /\ ToSet(p) = ToSet(st) \ {Head(st)}
    BY TailQueue, TailDistinct
<1>3. x \in Value
    BY <1>2
<1>x. x = sv[st[1]]
    BY <1>2
<1> HIDE DEF x
<1>4. /\ buffer \in Seq(Value) /\ buffer # <<>> /\ Len(buffer) = Len(d) + 1
      /\ \A i \in 1 .. Len(d) : buffer[i] = d[i]
      /\ buffer[Len(d) + 1] = x
    BY <1>3, AppendQueue
<1> HIDE DEF buffer
<1>5. /\ e \in Seq(Value) /\ Len(e) = Len(d) /\ Head(buffer) = buffer[1]
      /\ \A i \in 1 .. Len(d) : e[i] = buffer[i + 1]
    <2>1. /\ e \in Seq(Value) /\ Len(e) = Len(buffer) - 1 /\ Head(buffer) = buffer[1]
          /\ \A i \in 1 .. Len(buffer) - 1 : e[i] = buffer[i + 1]
        BY ONLY <1>4, TailQueue
    <2> HIDE DEF e
    <2> QED
        BY <1>1, <1>4, <2>1
<1> HIDE DEF e, p, a
<1>6. /\ b \in Seq(Value) /\ Len(b) = Len(d) + Len(p)
      /\ \A i \in 1 .. Len(d) : b[i] = e[i]
      /\ \A i \in 1 .. Len(p) : b[Len(d) + i] = sv2[p[i]]
    <2>1. \A u \in ToSet(p) : sv2[u] \in Value
        BY <1>2
    <2>2. /\ b \in Seq(Value) /\ Len(b) = Len(e) + Len(p)
          /\ \A i \in 1 .. Len(e) : b[i] = e[i]
          /\ \A i \in 1 .. Len(p) : b[Len(e) + i] = sv2[p[i]]
        <3>1. e \in Seq(Value) /\ p \in Seq(Task)
            BY <1>2, <1>5
        <3> QED
            BY ONLY <2>1, <3>1, OffersElements
    <2> HIDE DEF b
    <2> QED
        BY <1>5, <2>2
<1> HIDE DEF b
<1>7. a # <<>> /\ Len(a) > 0
    BY <1>1, <1>2
<1>8. /\ Head(a) = a[1] /\ Tail(a) \in Seq(Value) /\ Len(Tail(a)) = Len(a) - 1
      /\ \A i \in 1 .. Len(a) - 1 : Tail(a)[i] = a[i + 1]
    BY ONLY <1>1, <1>7, TailQueue
<1>b. \A i \in 1 .. Len(d) + 1 : a[i] = buffer[i]
    <2>1. 1 \in 1 .. Len(st)
        BY <1>1, <1>2
    <2>2. a[Len(d) + 1] = x
        BY <1>1, <1>x, <2>1
    <2>3. ASSUME NEW i \in 1 .. Len(d) + 1
          PROVE  a[i] = buffer[i]
        <3>1. CASE i = Len(d) + 1
            BY <1>4, <2>2, <3>1
        <3>2. CASE i # Len(d) + 1
            <4>1. i \in 1 .. Len(d)
                BY <1>1, <3>2
            <4> QED
                BY <1>1, <1>4, <4>1
        <3> QED
            BY <3>1, <3>2
    <2> QED
        BY <2>3
<1>9. Head(a) = Head(buffer)
    BY <1>1, <1>5, <1>8, <1>b
<1>10. ASSUME NEW i \in 1 .. Len(b)
       PROVE  b[i] = Tail(a)[i]
    <2>0. i \in 1 .. Len(a) - 1
        BY <1>1, <1>2, <1>6
    <2>1. CASE i <= Len(d)
        <3>1. i \in 1 .. Len(d) /\ i + 1 \in 1 .. Len(d) + 1
            BY <1>1, <2>0, <2>1
        <3>2. b[i] = e[i] /\ e[i] = buffer[i + 1]
            BY <1>5, <1>6, <3>1
        <3>3. Tail(a)[i] = a[i + 1]
            BY <1>8, <2>0
        <3>4. a[i + 1] = buffer[i + 1]
            BY <1>b, <3>1
        <3> QED
            BY <3>2, <3>3, <3>4
    <2>2. CASE i > Len(d)
        <3> DEFINE j == i - Len(d)
        <3>1. /\ j \in 1 .. Len(p) /\ j \in 1 .. Len(st) - 1 /\ j + 1 \in 1 .. Len(st)
              /\ i = Len(d) + j /\ i + 1 = Len(d) + (j + 1)
            BY <1>1, <1>2, <1>6, <2>2
        <3> HIDE DEF j
        <3>2. b[i] = sv2[st[j + 1]] /\ Tail(a)[i] = sv[st[j + 1]]
            <4>1. b[i] = sv2[p[j]]
                BY <1>6, <3>1
            <4>2. p[j] = st[j + 1]
                BY <1>2, <3>1
            <4>3. Tail(a)[i] = a[i + 1]
                BY <1>8, <2>0
            <4>4. a[i + 1] = sv[st[j + 1]]
                BY <1>1, <3>1
            <4> QED
                BY <4>1, <4>2, <4>3, <4>4
        <3>3. st[j + 1] \in ToSet(st) /\ st[j + 1] # Head(st)
            <4>0. DOMAIN st = 1 .. Len(st)
                OBVIOUS
            <4>1. DOMAIN st = 1 .. Len(st) /\ 1 \in 1 .. Len(st) /\ j + 1 # 1
                <5>1. Len(st) \in Nat /\ Len(st) > 0 /\ j \in 1 .. Len(st) - 1
                    BY <1>1, <1>2, <3>1
                <5> QED
                    BY ONLY <4>0, <5>1
            <4> QED
                BY <1>2, <3>1, <4>1 DEF ToSet, IsInjective
        <3> QED
            BY <3>2, <3>3
    <2> QED
        BY <1>1, <2>0, <2>1, <2>2
<1>11. Len(b) = Len(Tail(a))
    <2>1. Len(b) = Len(d) + (Len(st) - 1) /\ Len(Tail(a)) = (Len(d) + Len(st)) - 1
        BY ONLY <1>1, <1>2, <1>6, <1>8
    <2>2. Len(d) \in Nat /\ Len(st) \in Nat
        BY ONLY d \in Seq(Value), st \in Seq(Task)
    <2> QED
        BY ONLY <2>1, <2>2
<1>12. b = Tail(a)
    BY ONLY <1>6, <1>8, <1>10, <1>11, SeqEqual
<1> QED
    BY <1>7, <1>9, <1>12 DEF a, b, e, p, buffer, x

\* b is what is left of the offers a, the first n all there
OffersLeft(a, b, n) ==
    \E kept \in [1 .. Len(b) -> 1 .. Len(a)] :
        /\ \A i, j \in 1 .. Len(b) : i < j => kept[i] < kept[j]
        /\ \A i \in 1 .. Len(b) : b[i] = a[kept[i]]
        /\ \A k \in 1 .. Len(a) : k <= n => \E i \in 1 .. Len(b) : kept[i] = k

\* Deleting sleepers takes nothing out of the buffer and keeps the others' order;
\* they wait only while the buffer is full, so the first n offers all stay
LEMMA OffersWithdrawn ==
    ASSUME NEW d \in Seq(Value), NEW st \in Seq(Task), NEW sv, NEW sv2, NEW T, NEW n \in Nat,
           \A u \in ToSet(st) : sv[u] \in Value, \A u \in ToSet(st) \ T : sv2[u] = sv[u],
           st # <<>> => Len(d) = n
    PROVE  OffersLeft(Offers(d, st, sv), Offers(d, Without(st, T), sv2), n)
<1> DEFINE r == Without(st, T)
           a == Offers(d, st, sv)
           b == Offers(d, r, sv2)
<1>1. /\ a \in Seq(Value) /\ Len(a) = Len(d) + Len(st) /\ Len(d) \in Nat /\ Len(st) \in Nat
      /\ \A i \in 1 .. Len(d) : a[i] = d[i]
      /\ \A i \in 1 .. Len(st) : a[Len(d) + i] = sv[st[i]]
    BY OffersElements
<1>2. LeavesOut(st, r, T)
    BY WithoutLeavesOut
<1> HIDE DEF r, a
<1>3. PICK pos : Picks(st, r, pos)
    BY <1>2 DEF LeavesOut
<1>4. r \in Seq(ToSet(st) \ T) /\ Len(r) \in Nat /\ ToSet(r) \subseteq ToSet(st) \ T /\ ToSet(st) \subseteq Task
    BY <1>2 DEF LeavesOut, ToSet
<1>5. r \in Seq(Task)
    BY <1>4
<1>6. /\ b \in Seq(Value) /\ Len(b) = Len(d) + Len(r)
      /\ \A i \in 1 .. Len(d) : b[i] = d[i]
      /\ \A i \in 1 .. Len(r) : b[Len(d) + i] = sv2[r[i]]
    <2>1. \A u \in ToSet(r) : sv2[u] \in Value
        BY <1>4
    <2> QED
        BY <1>5, <2>1, OffersElements
<1> HIDE DEF b
<1> DEFINE kept == [i \in 1 .. Len(b) |-> IF i <= Len(d) THEN i ELSE Len(d) + pos[i - Len(d)]]
<1>7. \A i \in 1 .. Len(r) : pos[i] \in 1 .. Len(st)
    BY <1>3 DEF Picks
<1>8. ASSUME NEW i \in 1 .. Len(b)
      PROVE  /\ kept[i] \in 1 .. Len(a)
             /\ i <= Len(d) => i \in 1 .. Len(d) /\ kept[i] = i
             /\ i > Len(d) => i - Len(d) \in 1 .. Len(r) /\ kept[i] = Len(d) + pos[i - Len(d)]
    <2>1. i > Len(d) => i - Len(d) \in 1 .. Len(r)
        BY <1>1, <1>4, <1>6
    <2>2. i > Len(d) => pos[i - Len(d)] \in 1 .. Len(st)
        BY <1>7, <2>1
    <2> QED
        BY <1>1, <2>1, <2>2
<1>9. kept \in [1 .. Len(b) -> 1 .. Len(a)]
    BY <1>8
<1> HIDE DEF kept
<1>10. ASSUME NEW i \in 1 .. Len(b), NEW j \in 1 .. Len(b), i < j
       PROVE  kept[i] < kept[j]
    <2>1. CASE j <= Len(d)
        BY <1>1, <1>8, <1>10, <2>1
    <2>2. CASE i <= Len(d) /\ j > Len(d)
        <3>1. pos[j - Len(d)] \in 1 .. Len(st)
            BY <1>7, <1>8, <2>2
        <3>2. kept[i] = i /\ kept[j] = Len(d) + pos[j - Len(d)]
            BY <1>8, <2>2
        <3> DEFINE y == pos[j - Len(d)]
        <3>3. y \in 1 .. Len(st) /\ kept[j] = Len(d) + y
            BY <3>1, <3>2
        <3> HIDE DEF y
        <3> QED
            BY <1>1, <2>2, <3>2, <3>3
    <2>3. CASE i > Len(d)
        <3> DEFINE x == i - Len(d)
                   y == j - Len(d)
        <3>1. x \in 1 .. Len(r) /\ y \in 1 .. Len(r) /\ x < y /\ kept[i] = Len(d) + pos[x] /\ kept[j] = Len(d) + pos[y]
            BY <1>1, <1>8, <1>10, <2>3
        <3> HIDE DEF x, y
        <3>2. pos[x] < pos[y] /\ pos[x] \in 1 .. Len(st) /\ pos[y] \in 1 .. Len(st)
            BY <1>3, <1>7, <3>1 DEF Picks
        <3> QED
            BY <1>1, <3>1, <3>2
    <2> QED
        BY <1>1, <2>1, <2>2, <2>3
<1>11. ASSUME NEW i \in 1 .. Len(b)
       PROVE  b[i] = a[kept[i]]
    <2>1. CASE i <= Len(d)
        BY <1>1, <1>6, <1>8, <2>1
    <2>2. CASE i > Len(d)
        <3> DEFINE x == i - Len(d)
        <3>0. x \in 1 .. Len(r) /\ kept[i] = Len(d) + pos[x]
            BY <1>8, <2>2
        <3>1. x \in 1 .. Len(r) /\ i = Len(d) + x /\ kept[i] = Len(d) + pos[x]
            BY <1>1, <3>0
        <3> HIDE DEF x
        <3>2. r[x] = st[pos[x]] /\ pos[x] \in 1 .. Len(st)
            BY <1>3, <1>7, <3>1 DEF Picks
        <3>3. r[x] \in ToSet(r)
            BY <1>5, <3>1 DEF ToSet
        <3>4. sv2[r[x]] = sv[r[x]]
            BY <1>4, <3>3
        <3> QED
            BY <1>1, <1>6, <3>1, <3>2, <3>4
    <2> QED
        BY <1>1, <2>1, <2>2
<1>12. ASSUME NEW k \in 1 .. Len(a), k <= n
       PROVE  \E i \in 1 .. Len(b) : kept[i] = k
    <2>1. k \in 1 .. Len(d)
        <3>1. st = <<>> => Len(st) = 0
            OBVIOUS
        <3> QED
            BY <1>1, <1>12, <3>1
    <2>2. k \in 1 .. Len(b) /\ kept[k] = k
        BY <1>1, <1>4, <1>6, <1>8, <2>1
    <2> QED
        BY <2>2
<1>13. OffersLeft(a, b, n)
    BY <1>9, <1>10, <1>11, <1>12 DEF OffersLeft
<1> QED
    BY <1>13 DEF a, b, r

\* What a step of the bounded queue is, in terms of the channel
LEMMA FifoActions ==
    ASSUME NEW a, a = Offers(data, send_tasks, send_value),
           NEW b, b = Offers(data', send_tasks', send_value'),
           max_buffer_size' = max_buffer_size,
           open_receive_channels \in Nat, open_receive_channels' \in Nat
    PROVE  LET same == open_receive_channels' = 0 <=> open_receive_channels = 0 IN
           /\ \A v \in Value :
                 open_receive_channels # 0 /\ b = Append(a, v) /\ delivered' = delivered /\ same
                 => Fifo!FifoNext
           /\ \A v \in Value :
                 open_receive_channels # 0 /\ a = <<>> /\ b = a /\ delivered' = Append(delivered, v) /\ same
                 => Fifo!FifoNext
           /\ a # <<>> /\ delivered' = Append(delivered, Head(a)) /\ b = Tail(a) /\ same => Fifo!FifoNext
           /\ OffersLeft(a, b, max_buffer_size) /\ delivered' = delivered /\ same => Fifo!FifoNext
           /\ b = <<>> /\ delivered' = delivered /\ open_receive_channels' = 0 => Fifo!FifoNext
           /\ b = a /\ delivered' = delivered /\ same => UNCHANGED Fifo!fifoVars
<1> DEFINE same == open_receive_channels' = 0 <=> open_receive_channels = 0
<1>1. ASSUME NEW v \in Value, open_receive_channels # 0, b = Append(a, v), delivered' = delivered, same
      PROVE  Fifo!FifoNext
    <2>1. Fifo!Offer(v)
        BY <1>1 DEF Fifo!Offer, Offers
    <2> QED
        BY <2>1 DEF Fifo!FifoNext
<1>2. ASSUME NEW v \in Value, open_receive_channels # 0, a = <<>>, b = a, delivered' = Append(delivered, v), same
      PROVE  Fifo!FifoNext
    <2>1. Fifo!Handover(v)
        BY <1>2 DEF Fifo!Handover, Offers
    <2> QED
        BY <2>1 DEF Fifo!FifoNext
<1>3. ASSUME a # <<>>, delivered' = Append(delivered, Head(a)), b = Tail(a), same
      PROVE  Fifo!FifoNext
    <2>1. Fifo!Take
        BY <1>3 DEF Fifo!Take, Offers
    <2> QED
        BY <2>1 DEF Fifo!FifoNext
<1>4. ASSUME OffersLeft(a, b, max_buffer_size), delivered' = delivered, same
      PROVE  Fifo!FifoNext
    <2>1. Fifo!Withdraw
        <3>1. /\ OffersLeft(Offers(data, send_tasks, send_value), Offers(data', send_tasks', send_value'), max_buffer_size)
              /\ delivered' = delivered /\ (open_receive_channels = 0)' = (open_receive_channels = 0)
            BY <1>4
        <3> QED
            BY ONLY <3>1 DEF Fifo!Withdraw, Offers, OffersLeft
    <2> QED
        BY <2>1 DEF Fifo!FifoNext
<1>5. ASSUME b = <<>>, delivered' = delivered, open_receive_channels' = 0
      PROVE  Fifo!FifoNext
    <2>1. Fifo!Break
        BY <1>5 DEF Fifo!Break, Offers
    <2> QED
        BY <2>1 DEF Fifo!FifoNext
<1>6. ASSUME b = a, delivered' = delivered, same
      PROVE  UNCHANGED Fifo!fifoVars
    BY <1>6 DEF Fifo!fifoVars, Offers
<1> QED
    BY <1>1, <1>2, <1>3, <1>4, <1>5, <1>6

\* Every step of a channel is a step of the bounded queue, or does not concern it
LEMMA ChannelStepIsFifo ==
    ASSUME ChannelInv, ChannelInv', ChannelNext
    PROVE  Fifo!FifoNext \/ UNCHANGED Fifo!fifoVars
<1> DEFINE a == Offers(data, send_tasks, send_value)
           b == Offers(data', send_tasks', send_value')
           same == open_receive_channels' = 0 <=> open_receive_channels = 0
           Goal == Fifo!FifoNext \/ UNCHANGED Fifo!fifoVars
<1>m. max_buffer_size' = max_buffer_size
    BY DEF ChannelNext
<1>t. /\ send_tasks \in Seq(Task) /\ data \in Seq(Value) /\ send_value \in [Task -> Value \cup {None}]
      /\ max_buffer_size \in Nat /\ Len(data) \in Nat /\ Len(data) <= max_buffer_size
      /\ data' \in Seq(Value) /\ send_tasks' \in Seq(Task)
      /\ open_receive_channels \in Nat /\ open_receive_channels' \in Nat
      /\ tasks \in [Handle -> SUBSET Task]
    BY MemoryChannelAssumption DEF ChannelInv, ChannelTypeOK
<1>q. IsInjective(send_tasks) /\ NeededSleep
    BY DEF ChannelInv, QueueOf
<1>v. ToSet(send_tasks) \subseteq Task /\ \A u \in ToSet(send_tasks) : send_value[u] \in Value
    <2>1. ToSet(send_tasks) \subseteq Task
        BY ONLY <1>t, MembersAreElements
    <2> QED
        BY <1>t, <2>1 DEF ChannelInv, ValuesOfSenders
<1>n. send_tasks = <<>> => a = data
    BY ONLY <1>t, <1>v, OffersElements
<1>p. ASSUME NEW d \in Seq(Value), NEW sv PROVE Offers(d, <<>>, sv) = d
    <2>1. ToSet(<<>>) = {} /\ <<>> \in Seq(Task)
        BY EmptyQueue
    <2>2. \A u \in ToSet(<<>>) : sv[u] \in Value
        BY <2>1
    <2> QED
        BY <2>1, <2>2, OffersElements
<1>f. /\ \A v \in Value :
            open_receive_channels # 0 /\ b = Append(a, v) /\ delivered' = delivered /\ same => Goal
      /\ \A v \in Value :
            open_receive_channels # 0 /\ a = <<>> /\ b = a /\ delivered' = Append(delivered, v) /\ same => Goal
      /\ a # <<>> /\ delivered' = Append(delivered, Head(a)) /\ b = Tail(a) /\ same => Goal
      /\ OffersLeft(a, b, max_buffer_size) /\ delivered' = delivered /\ same => Goal
      /\ b = <<>> /\ delivered' = delivered /\ open_receive_channels' = 0 => Goal
      /\ b = a /\ delivered' = delivered /\ same => Goal
    BY ONLY <1>m, <1>t, FifoActions
<1> HIDE DEF Goal
\* send_nowait()
<1>1. ASSUME NEW t \in Task, NEW h \in Handle, NEW v \in Value, SendNow(t, h, v) PROVE Goal
    <2>1. /\ UNCHANGED <<send_tasks, send_value, open_receive_channels>> /\ open_receive_channels > 0
        BY <1>1 DEF SendNow
    <2>2. CASE receive_tasks # <<>>
        <3>1. send_tasks = <<>> /\ data = <<>>
            BY <1>q, <2>2 DEF NeededSleep
        <3>2. data' = data /\ delivered' = Append(delivered, v)
            BY <1>1, <2>2 DEF SendNow
        <3>3. a = <<>> /\ b = a
            BY <1>n, <2>1, <3>1, <3>2
        <3> HIDE DEF a, b
        <3> QED
            BY <1>f, <1>t, <2>1, <3>2, <3>3
    <2>3. CASE receive_tasks = <<>>
        <3>1. data' = Append(data, v) /\ delivered' = delivered /\ Len(data) < max_buffer_size
            BY <1>1, <2>3 DEF SendNow
        <3>2. send_tasks = <<>>
            BY <1>q, <1>t, <3>1 DEF NeededSleep
        <3>3. a = data /\ b = data'
            BY <1>n, <1>p, <1>t, <2>1, <3>2
        <3> HIDE DEF a, b
        <3> QED
            BY <1>f, <1>t, <2>1, <3>1, <3>3
    <2> QED
        BY <2>2, <2>3
\* send() that waits
<1>2. ASSUME NEW t \in Task, NEW h \in Handle, NEW v \in Value, SendBlocks(t, h, v) PROVE Goal
    <2>1. /\ send_tasks' = Append(send_tasks, t) /\ send_value' = [send_value EXCEPT ![t] = v]
          /\ data' = data /\ delivered' = delivered /\ open_receive_channels' = open_receive_channels
          /\ open_receive_channels > 0 /\ Free(t)
        BY <1>2 DEF SendBlocks
    <2>2. t \notin ToSet(send_tasks)
        BY <1>t, <2>1, MembersAreElements DEF Free
    <2>3. send_value'[t] = v /\ \A u \in ToSet(send_tasks) : send_value[u] \in Value /\ send_value'[u] = send_value[u]
        BY <1>t, <1>v, <2>1, <2>2
    <2>4. Offers(data, Append(send_tasks, t), send_value') = Append(a, v)
        BY ONLY <1>t, <2>2, <2>3, t \in Task, v \in Value, OfferedLast
    <2>5. b = Append(a, v)
        BY <2>1, <2>4
    <2> HIDE DEF a, b
    <2> QED
        BY <1>f, <1>t, <2>1, <2>5
\* receive_nowait()
<1>3. ASSUME NEW t \in Task, NEW h \in Handle, ReceiveNow(t, h) PROVE Goal
    <2>1. open_receive_channels' = open_receive_channels
        BY <1>3 DEF ReceiveNow
    <2>2. CASE send_tasks = <<>>
        <3>1. data # <<>> /\ data' = Tail(data) /\ delivered' = Append(delivered, Head(data)) /\ send_tasks' = <<>>
            BY <1>3, <2>2 DEF ReceiveNow
        <3>2. a = data /\ b = data'
            BY <1>n, <1>p, <1>t, <2>2, <3>1
        <3> HIDE DEF a, b
        <3> QED
            BY <1>f, <2>1, <3>1, <3>2
    <2>3. CASE send_tasks # <<>>
        <3> DEFINE buffer == Append(data, send_value[Head(send_tasks)])
        <3>1. /\ data' = Tail(buffer) /\ delivered' = Append(delivered, Head(buffer))
              /\ send_tasks' = Tail(send_tasks) /\ send_value' = [send_value EXCEPT ![Head(send_tasks)] = None]
            BY <1>3, <2>3 DEF ReceiveNow
        <3>2. \A u \in ToSet(send_tasks) : u # Head(send_tasks) => send_value'[u] = send_value[u]
            BY <1>t, <1>v, <3>1
        <3>3. a # <<>> /\ Head(a) = Head(buffer) /\ Tail(a) = Offers(Tail(buffer), Tail(send_tasks), send_value')
            <4>1. /\ data \in Seq(Value) /\ send_tasks \in Seq(Task) /\ send_tasks # <<>> /\ IsInjective(send_tasks)
                  /\ \A u \in ToSet(send_tasks) : send_value[u] \in Value
                BY <1>q, <1>t, <1>v, <2>3
            <4> QED
                BY ONLY <3>2, <4>1, OfferTaken
        <3>4. b = Tail(a)
            BY <3>1, <3>3
        <3> HIDE DEF a, b, buffer
        <3> QED
            BY <1>f, <2>1, <3>1, <3>3, <3>4
    <2> QED
        BY <2>2, <2>3
\* Some of the senders are woken with an error
<1>w. ASSUME NEW T, send_tasks' = Without(send_tasks, T), data' = data, delivered' = delivered,
             \A u \in ToSet(send_tasks) \ T : send_value'[u] = send_value[u],
             open_receive_channels' = open_receive_channels
      PROVE  Goal
    <2>1. send_tasks # <<>> => Len(data) = max_buffer_size
        BY <1>q DEF NeededSleep
    <2>2. OffersLeft(a, Offers(data, Without(send_tasks, T), send_value'), max_buffer_size)
        BY ONLY <1>t, <1>v, <1>w, <2>1, OffersWithdrawn
    <2>3. OffersLeft(a, b, max_buffer_size)
        BY <1>w, <2>2
    <2> HIDE DEF a, b
    <2> QED
        BY <1>f, <1>w, <2>3
<1>4. ASSUME NEW t \in Task, Abort(t) PROVE Goal
    <2>1. /\ send_tasks' = Without(send_tasks, {t}) /\ data' = data /\ delivered' = delivered
          /\ send_value' = [send_value EXCEPT ![t] = None] /\ open_receive_channels' = open_receive_channels
        BY <1>4 DEF Abort
    <2>2. \A u \in ToSet(send_tasks) \ {t} : send_value'[u] = send_value[u]
        BY <1>t, <1>v, <2>1
    <2> QED
        BY <1>w, <2>1, <2>2
<1>5. ASSUME NEW h \in Handle, CloseSend(h) PROVE Goal
    <2>1. /\ send_tasks' = Without(send_tasks, tasks[h]) /\ data' = data /\ delivered' = delivered
          /\ send_value' = [t \in Task |-> IF t \in tasks[h] THEN None ELSE send_value[t]]
          /\ open_receive_channels' = open_receive_channels
        BY <1>5 DEF CloseSend
    <2>2. \A u \in ToSet(send_tasks) \ tasks[h] : send_value'[u] = send_value[u]
        BY <1>v, <2>1
    <2> QED
        BY <1>w, <2>1, <2>2
\* close() of a MemoryReceiveChannel
<1>6. ASSUME NEW h \in Handle, CloseReceive(h) PROVE Goal
    <2>1. open_receive_channels' = open_receive_channels - 1 /\ delivered' = delivered
        BY <1>6 DEF CloseReceive
    <2>2. CASE open_receive_channels = 1
        <3>1. data' = <<>> /\ send_tasks' = <<>> /\ open_receive_channels' = 0
            BY <1>6, <2>1, <2>2 DEF CloseReceive
        <3>2. b = <<>>
            BY <1>p, <1>t, <3>1
        <3> HIDE DEF a, b
        <3> QED
            BY <1>f, <2>1, <3>1, <3>2
    <2>3. CASE open_receive_channels # 1
        <3>1. /\ data' = data /\ send_tasks' = send_tasks
              /\ send_value' = [t \in Task |-> IF t \in {} THEN None ELSE send_value[t]]
            BY <1>6, <2>3 DEF CloseReceive
        <3>2. send_value' = send_value
            BY <1>t, <3>1
        <3>3. b = a
            BY <3>1, <3>2
        <3>4. same
            BY <1>t, <2>1, <2>3
        <3> HIDE DEF a, b, same
        <3> QED
            BY <1>f, <2>1, <3>3, <3>4
    <2> QED
        BY <2>2, <2>3
\* clone(): there is a receiver before as there is after
<1>7. ASSUME NEW h \in Handle, NEW new \in Handle, Clone(h, new) PROVE Goal
    <2>1. /\ data' = data /\ send_tasks' = send_tasks /\ send_value' = send_value /\ delivered' = delivered
          /\ Usable(h)
        BY <1>7 DEF Clone
    <2>2. same
        <3>1. CASE open_receive_channels' = open_receive_channels
            BY <3>1
        <3>2. CASE h \in ReceiveHandle /\ open_receive_channels' = open_receive_channels + 1
            <4> DEFINE R == {x \in ReceiveHandle : Usable(x)}
            <4>1. R \subseteq created /\ h \in R
                BY <2>1, <3>2 DEF Usable
            <4>2. IsFiniteSet(R) /\ open_receive_channels = Cardinality(R)
                BY <4>1, FS_Subset DEF ChannelInv, HandlesCounted
            <4> HIDE DEF R
            <4>3. open_receive_channels # 0
                BY <4>1, <4>2, FS_EmptySet
            <4> QED
                BY <1>t, <3>2, <4>3
        <3> QED
            BY <1>7, <3>1, <3>2 DEF Clone
    <2>3. b = a
        BY <2>1
    <2> HIDE DEF a, b, same
    <2> QED
        BY <1>f, <2>1, <2>2, <2>3
\* The other steps leave the queue alone
<1>8. ASSUME UNCHANGED <<data, send_tasks, send_value, delivered, open_receive_channels>> PROVE Goal
    <2>1. b = a
        BY <1>8
    <2> HIDE DEF a, b
    <2> QED
        BY <1>8, <1>f, <2>1
<1>9. Goal
    <2>1. ASSUME NEW t \in Task, NEW h \in Handle, SendRaises(t, h) \/ ReceiveRaises(t, h) PROVE Goal
        BY <1>8, <2>1 DEF SendRaises, ReceiveRaises, channelVars
    <2>2. ASSUME NEW t \in Task, NEW h \in Handle, ReceiveBlocks(t, h) PROVE Goal
        BY <1>8, <2>2 DEF ReceiveBlocks
    <2>3. ASSUME NEW t \in Task, Resume(t) PROVE Goal
        BY <1>8, <2>3 DEF Resume
    <2> QED
        BY <1>1, <1>2, <1>3, <1>4, <1>5, <1>6, <1>7, <2>1, <2>2, <2>3 DEF ChannelNext,
           ChannelStep
<1> QED
    BY <1>9 DEF Goal

\* A channel that has just been opened has been offered nothing
LEMMA ChannelInitIsFifo == ChannelInit => Fifo!FifoInit
<1> SUFFICES ASSUME ChannelInit PROVE Fifo!FifoInit
    OBVIOUS
<1>1. data = <<>> /\ send_tasks = <<>> /\ delivered = <<>> /\ open_receive_channels = 1 /\ max_buffer_size \in Nat
    BY MemoryChannelAssumption DEF ChannelInit
<1>2. Offers(data, send_tasks, send_value) = <<>>
    <2>1. ToSet(<<>>) = {} /\ <<>> \in Seq(Task) /\ <<>> \in Seq(Value)
        BY EmptyQueue
    <2>2. \A u \in ToSet(<<>>) : send_value[u] \in Value
        BY <2>1
    <2>3. Offers(<<>>, <<>>, send_value) = <<>>
        BY <2>1, <2>2, OffersElements
    <2> QED
        BY <1>1, <2>3
<1> QED
    BY <1>1, <1>2 DEF Fifo!FifoInit, Offers

-----------------------------------------------------------------------------
(* What holds of every run of a channel                                    *)

\* The invariant holds in every state of a channel
LEMMA ChannelAlways == ChannelSpec => []ChannelInv
<1>1. ChannelInv /\ [ChannelNext]_channelVars => ChannelInv'
    BY ChannelStepKeeps, ChannelUntouched
<1> QED
    BY <1>1, ChannelInvInit, PTL DEF ChannelSpec

\* No task sleeps on a channel unseen or without need: the queues, the handles'
\* sets and custom_sleep_data agree, the counters count the open handles, and
\* whoever sleeps has nothing to receive, or no room to send, and a partner that
\* could still come, whatever is sent, received, cloned, closed and cancelled
THEOREM NobodySleepsWithoutNeedThm == ChannelSpec => []NobodySleepsWithoutNeed
<1> QED
    BY ChannelAlways, ChannelInvMeans, PTL

\* A memory channel is a bounded first-in first-out queue: values come out in the
\* order they were offered in, each at most once, and what the buffer has taken
\* on is lost only when the last receiver goes away
THEOREM ImplementsFifoThm == ChannelSpec => ImplementsFifo
<1>1. ChannelInv /\ ChannelInv' /\ [ChannelNext]_channelVars => [Fifo!FifoNext]_(Fifo!fifoVars)
    <2>1. ASSUME ChannelInv, ChannelInv', ChannelNext PROVE [Fifo!FifoNext]_(Fifo!fifoVars)
        BY <2>1, ChannelStepIsFifo
    <2>2. ASSUME UNCHANGED channelVars PROVE [Fifo!FifoNext]_(Fifo!fifoVars)
        BY <2>2 DEF channelVars, Fifo!fifoVars
    <2> QED
        BY <2>1, <2>2
<1> QED
    BY <1>1, ChannelAlways, ChannelInitIsFifo, PTL DEF ChannelSpec, ImplementsFifo,
       Fifo!FifoSpec
================================================================================
