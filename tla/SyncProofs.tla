------------------------------ MODULE SyncProofs ------------------------------
(***************************************************************************)
(* What is proved about the tasks of one run: whatever the synchronization *)
(* primitives release reaches exactly one of those who wait for it, and    *)
(* the run loop does not wait while a task can run.                        *)
(*                                                                         *)
(* The lots come first.  LotOK relates the three pieces of state that a    *)
(* lot operation changes together, and there is one lemma per operation,   *)
(* about values and not about steps, because a method of a primitive may   *)
(* perform several before it yields.  Each primitive then has an inductive *)
(* invariant of its own, and MCSync's step is one of theirs.  The run loop *)
(* (RunLoop) comes last, for every set of tasks, any clock, in regular and *)
(* in guest mode.                                                          *)
(***************************************************************************)
EXTENDS MCSync, RunLoop, QueueProofs

--------------------------------------------------------------------------------
(***************************************************************************)
(* Parking lots                                                            *)
(***************************************************************************)
LotOK(p, c, o) ==
    /\ p \in [Lot -> Seq(Task)]
    /\ c \in [Task -> Lot \cup {None}]
    /\ o \in [Task -> Outcome]
    /\ \A l \in Lot : IsInjective(p[l])
    /\ \A l \in Lot, t \in Task : t \in ToSet(p[l]) <=> c[t] = l
    /\ \A t \in Task : c[t] # None => o[t] = "none"

LotInv == LotOK(parked, custom_sleep_data, outcome)

\* The number popped is a number of tasks that are there.
LEMMA PopCountInRange ==
    ASSUME NEW q \in Seq(Task), NEW n \in Int
    PROVE  /\ PopCount(q, n) \in 0 .. Len(q)
           /\ PopCount(q, n) < Len(q) => PopCount(q, n) >= n
           /\ n = 1 /\ q # <<>> => PopCount(q, n) = 1
           /\ q = <<>> => PopCount(q, n) = 0
<1>1. Len(q) \in Nat /\ (q = <<>> <=> Len(q) = 0)
    BY EmptyLen
<1>2. n < 0 => PopCount(q, n) = 0
    BY DEF PopCount
<1>3. n >= 0 /\ n < Len(q) => PopCount(q, n) = n
    BY DEF PopCount
<1>4. n >= 0 /\ ~ (n < Len(q)) => PopCount(q, n) = Len(q)
    BY DEF PopCount
<1> QED
    BY ONLY n \in Int, <1>1, <1>2, <1>3, <1>4

\* reschedule() with nothing parked disturbed.
LEMMA OutcomeOK ==
    ASSUME NEW p, NEW c, NEW o, LotOK(p, c, o),
           NEW o2 \in [Task -> Outcome], \A t \in Task : c[t] # None => o2[t] = "none"
    PROVE  LotOK(p, c, o2)
    BY DEF LotOK

\* park() by a task that is not parked.
LEMMA ParkOK ==
    ASSUME NEW p, NEW c, NEW o, LotOK(p, c, o),
           NEW t \in Task, NEW l \in Lot, c[t] = None,
           NEW c2 \in [Task -> Lot \cup {None}], NEW o2 \in [Task -> Outcome],
           c2[t] = l, o2[t] = "none",
           \A s \in Task \ {t} : c2[s] = c[s] /\ o2[s] = o[s]
    PROVE  LotOK(Park(p, t, l), c2, o2) /\ Park(p, t, l)[l] # <<>>
           /\ \A m \in Lot \ {l} : Park(p, t, l)[m] = p[m]
<1>0. None \notin Lot
    BY ParkingLotAssumption
<1>1. p \in [Lot -> Seq(Task)] /\ p[l] \in Seq(Task) /\ IsInjective(p[l])
    BY DEF LotOK
<1>2. t \notin ToSet(p[l])
    BY <1>0 DEF LotOK
<1> DEFINE q == Append(p[l], t)
<1>3. q \in Seq(Task) /\ q # <<>> /\ ToSet(q) = ToSet(p[l]) \cup {t}
    BY ONLY <1>1, t \in Task, AppendQueue
<1>4. IsInjective(q)
    BY ONLY <1>1, <1>2, t \in Task, AppendDistinct
<1> HIDE DEF q
<1>5. Park(p, t, l) = [p EXCEPT ![l] = q]
    BY DEF Park, q
<1>6. Park(p, t, l) \in [Lot -> Seq(Task)] /\ Park(p, t, l)[l] = q
      /\ \A m \in Lot \ {l} : Park(p, t, l)[m] = p[m]
    BY <1>1, <1>3, <1>5
<1>7. \A m \in Lot : IsInjective(Park(p, t, l)[m])
    BY <1>4, <1>6 DEF LotOK
<1>8. ASSUME NEW m \in Lot, NEW s \in Task
      PROVE  s \in ToSet(Park(p, t, l)[m]) <=> c2[s] = m
    <2>1. s \in ToSet(p[m]) <=> c[s] = m
        BY DEF LotOK
    <2>2. CASE m = l
        <3>1. s \in ToSet(q) <=> s \in ToSet(p[l]) \/ s = t
            BY <1>3
        <3> QED
            BY <1>6, <2>1, <2>2, <3>1
    <2>3. CASE m # l
        BY <1>0, <1>6, <2>1, <2>3
    <2> QED
        BY <2>2, <2>3
<1>9. \A s \in Task : c2[s] # None => o2[s] = "none"
    BY DEF LotOK
<1> QED
    BY <1>3, <1>6, <1>7, <1>8, <1>9 DEF LotOK

\* _pop_several(), with what the caller does to the tasks it yields.
LEMMA PopOK ==
    ASSUME NEW p, NEW c, NEW o, LotOK(p, c, o), NEW l \in Lot, NEW n \in Int,
           NEW c2 \in [Task -> Lot \cup {None}], NEW o2 \in [Task -> Outcome],
           \A s \in Task : IF s \in ToSet(Popped(p[l], n))
                           THEN c2[s] = None ELSE c2[s] = c[s] /\ o2[s] = o[s]
    PROVE  /\ LotOK(Pop(p, l, n), c2, o2)
           /\ \A m \in Lot \ {l} : Pop(p, l, n)[m] = p[m]
           /\ Pop(p, l, n)[l] = Left(p[l], n)
<1>0. None \notin Lot
    BY ParkingLotAssumption
<1>1. p \in [Lot -> Seq(Task)] /\ p[l] \in Seq(Task) /\ IsInjective(p[l])
    BY DEF LotOK
<1>2. PopCount(p[l], n) \in 0 .. Len(p[l])
    BY <1>1, PopCountInRange
<1>3. /\ Left(p[l], n) \in Seq(Task) /\ IsInjective(Left(p[l], n))
      /\ ToSet(Left(p[l], n)) = ToSet(p[l]) \ ToSet(Popped(p[l], n))
      /\ ToSet(Popped(p[l], n)) \subseteq ToSet(p[l])
    BY ONLY <1>1, <1>2, CutQueue DEF Left, Popped
<1> DEFINE r == Left(p[l], n)
           w == ToSet(Popped(p[l], n))
<1>5. Pop(p, l, n) = [p EXCEPT ![l] = r]
    BY DEF Pop
<1> HIDE DEF r, w
<1>6. Pop(p, l, n) \in [Lot -> Seq(Task)] /\ Pop(p, l, n)[l] = r
      /\ \A m \in Lot \ {l} : Pop(p, l, n)[m] = p[m]
    BY <1>1, <1>3, <1>5 DEF r
<1>7. \A m \in Lot : IsInjective(Pop(p, l, n)[m])
    BY <1>3, <1>6 DEF LotOK, r
<1>8. ASSUME NEW m \in Lot, NEW s \in Task
      PROVE  s \in ToSet(Pop(p, l, n)[m]) <=> c2[s] = m
    <2>1. /\ s \in ToSet(p[m]) <=> c[s] = m
          /\ s \in ToSet(p[l]) <=> c[s] = l
        BY DEF LotOK
    <2>2. s \in w => c[s] = l /\ c2[s] = None
        BY <1>3, <2>1 DEF w
    <2>3. s \notin w => c2[s] = c[s]
        BY DEF w
    <2>4. CASE m = l
        <3>1. s \in ToSet(r) <=> s \in ToSet(p[l]) /\ s \notin w
            BY <1>3 DEF r, w
        <3> QED
            BY <1>0, <1>6, <2>1, <2>2, <2>3, <2>4, <3>1
    <2>5. CASE m # l
        BY <1>0, <1>6, <2>1, <2>2, <2>3, <2>5
    <2> QED
        BY <2>4, <2>5
<1>9. \A s \in Task : c2[s] # None => o2[s] = "none"
    BY DEF LotOK
<1> QED
    BY <1>6, <1>7, <1>8, <1>9 DEF LotOK, r

\* repark() from l to m.
LEMMA ReparkOK ==
    ASSUME NEW p, NEW c, NEW o, LotOK(p, c, o), NEW l \in Lot, NEW m \in Lot, l # m,
           NEW n \in Int, NEW c2 \in [Task -> Lot \cup {None}],
           \A s \in Task :
              c2[s] = IF s \in ToSet(Popped(p[l], n)) THEN m ELSE c[s]
    PROVE  LotOK(Repark(p, l, m, n), c2, o)
<1>0. None \notin Lot
    BY ParkingLotAssumption
<1>1. p \in [Lot -> Seq(Task)] /\ p[l] \in Seq(Task) /\ IsInjective(p[l])
      /\ p[m] \in Seq(Task) /\ IsInjective(p[m])
    BY DEF LotOK
<1>2. PopCount(p[l], n) \in 0 .. Len(p[l])
    BY <1>1, PopCountInRange
<1>3. /\ Left(p[l], n) \in Seq(Task) /\ IsInjective(Left(p[l], n))
      /\ Popped(p[l], n) \in Seq(Task) /\ IsInjective(Popped(p[l], n))
      /\ ToSet(Left(p[l], n)) = ToSet(p[l]) \ ToSet(Popped(p[l], n))
      /\ ToSet(Popped(p[l], n)) \subseteq ToSet(p[l])
    BY ONLY <1>1, <1>2, CutQueue DEF Left, Popped
<1> DEFINE r == Left(p[l], n)
           v == Popped(p[l], n)
           q == p[m] \o v
<1>4. Repark(p, l, m, n) = [[p EXCEPT ![l] = r] EXCEPT ![m] = @ \o v]
    BY DEF Repark, Pop
<1> HIDE DEF r, v
<1>5. ToSet(v) \subseteq Task
    BY <1>3 DEF v, ToSet
<1>6. ToSet(p[m]) \cap ToSet(v) = {}
    BY <1>3, <1>5 DEF LotOK, v
<1>7. q \in Seq(Task) /\ IsInjective(q) /\ ToSet(q) = ToSet(p[m]) \cup ToSet(v)
    <2>1. v \in Seq(Task) /\ IsInjective(v)
        BY <1>3 DEF v
    <2> QED
        BY ONLY <1>1, <1>6, <2>1, ConcatDistinct
<1> HIDE DEF q
<1> DEFINE p2 == Repark(p, l, m, n)
<1>8. p2 = [[p EXCEPT ![l] = r] EXCEPT ![m] = q]
    BY <1>1, <1>4 DEF q
<1> HIDE DEF p2
<1>9. p2 \in [Lot -> Seq(Task)] /\ p2[l] = r /\ p2[m] = q
      /\ \A k \in Lot \ {l, m} : p2[k] = p[k]
    BY <1>1, <1>3, <1>7, <1>8 DEF r
<1>10. \A k \in Lot : IsInjective(p2[k])
    BY <1>3, <1>7, <1>9 DEF LotOK, r
<1>11. ASSUME NEW k \in Lot, NEW s \in Task
       PROVE  s \in ToSet(p2[k]) <=> c2[s] = k
    <2>1. /\ s \in ToSet(p[k]) <=> c[s] = k
          /\ s \in ToSet(p[l]) <=> c[s] = l
          /\ s \in ToSet(p[m]) <=> c[s] = m
        BY DEF LotOK
    <2>2. s \in ToSet(v) => c[s] = l /\ c2[s] = m
        BY <1>3, <2>1 DEF v
    <2>3. s \notin ToSet(v) => c2[s] = c[s]
        BY DEF v
    <2>4. CASE k = l
        <3>1. s \in ToSet(r) <=> s \in ToSet(p[l]) /\ s \notin ToSet(v)
            BY <1>3 DEF r, v
        <3> QED
            BY <1>9, <2>1, <2>2, <2>3, <2>4, <3>1
    <2>5. CASE k = m
        <3>1. s \in ToSet(q) <=> s \in ToSet(p[m]) \/ s \in ToSet(v)
            BY <1>7
        <3> QED
            BY <1>9, <2>1, <2>2, <2>3, <2>5, <3>1
    <2>6. CASE k \notin {l, m}
        BY <1>9, <2>1, <2>2, <2>3, <2>6
    <2> QED
        BY <2>4, <2>5, <2>6
<1>12. \A s \in Task : c2[s] # None => o[s] = "none"
    <2> SUFFICES ASSUME NEW s \in Task, c2[s] # None PROVE o[s] = "none"
        OBVIOUS
    <2>1. CASE s \in ToSet(v)
        <3>1. c[s] = l
            BY <1>3, <2>1 DEF LotOK, v
        <3> QED
            BY <1>0, <3>1 DEF LotOK
    <2>2. CASE s \notin ToSet(v)
        BY <2>2 DEF LotOK, v
    <2> QED
        BY <2>1, <2>2
<1> QED
    BY <1>9, <1>10, <1>11, <1>12 DEF LotOK, p2

\* abort_fn and the reschedule() that follows.
LEMMA AbortOK ==
    ASSUME LotInv, NEW t \in Task, NEW x \in Outcome, Abort(t, x)
    PROVE  /\ LotInv'
           /\ custom_sleep_data[t] \in Lot
           /\ custom_sleep_data'[t] = None /\ outcome'[t] = x
           /\ \A s \in Task \ {t} : /\ custom_sleep_data'[s] = custom_sleep_data[s]
                                    /\ outcome'[s] = outcome[s]
           /\ \A l \in Lot : ToSet(parked'[l]) = ToSet(parked[l]) \ {t}
<1> DEFINE l == custom_sleep_data[t]
<1>0. None \notin Lot
    BY ParkingLotAssumption
<1>1. l \in Lot
    BY DEF LotInv, LotOK, Abort
<1>2. PICK i \in 1 .. Len(parked[l]) :
          parked[l][i] = t /\ parked' = [parked EXCEPT ![l] = RemoveAt(@, i)]
    BY DEF Abort
<1>3. /\ custom_sleep_data' \in [Task -> Lot \cup {None}]
      /\ outcome' \in [Task -> Outcome]
      /\ custom_sleep_data'[t] = None /\ outcome'[t] = x
      /\ \A s \in Task \ {t} : /\ custom_sleep_data'[s] = custom_sleep_data[s]
                               /\ outcome'[s] = outcome[s]
    BY DEF Abort, SleepOn, Rescheduled, LotInv, LotOK
<1> HIDE DEF l
<1>4. parked \in [Lot -> Seq(Task)] /\ parked[l] \in Seq(Task) /\ IsInjective(parked[l])
    BY <1>1 DEF LotInv, LotOK
<1> DEFINE q == RemoveAt(parked[l], i)
<1>5. q \in Seq(Task)
    BY ONLY <1>4, i \in 1 .. Len(parked[l]), RemoveAtQueue
<1>6. IsInjective(q) /\ ToSet(q) = ToSet(parked[l]) \ {t}
    BY ONLY <1>2, <1>4, i \in 1 .. Len(parked[l]), RemoveAtDistinct
<1> HIDE DEF q
<1>7. parked' \in [Lot -> Seq(Task)] /\ parked'[l] = q
      /\ \A m \in Lot \ {l} : parked'[m] = parked[m]
    <2>1. parked' = [parked EXCEPT ![l] = q]
        BY <1>1, <1>2, <1>4 DEF q
    <2> QED
        BY <1>1, <1>4, <1>5, <2>1
<1>8. \A m \in Lot, s \in Task : s \in ToSet(parked[m]) <=> custom_sleep_data[s] = m
    BY DEF LotInv, LotOK
<1>9. \A m \in Lot : ToSet(parked'[m]) = ToSet(parked[m]) \ {t}
    <2>1. \A m \in Lot \ {l} : t \notin ToSet(parked[m])
        BY <1>8 DEF l
    <2> QED
        BY <1>6, <1>7, <2>1
<1>10. \A m \in Lot : IsInjective(parked'[m])
    BY <1>6, <1>7 DEF LotInv, LotOK
<1>11. \A m \in Lot, s \in Task : s \in ToSet(parked'[m]) <=> custom_sleep_data'[s] = m
    BY <1>0, <1>3, <1>8, <1>9
<1>12. \A s \in Task : custom_sleep_data'[s] # None => outcome'[s] = "none"
    BY <1>3 DEF LotInv, LotOK
<1> QED
    BY <1>1, <1>3, <1>7, <1>9, <1>10, <1>11, <1>12 DEF LotInv, LotOK, l

--------------------------------------------------------------------------------
(***************************************************************************)
(* The inductive invariants                                                *)
(***************************************************************************)
LockTypes ==
    /\ owner \in Task \cup {None}
    /\ lock_pc \in [Task -> Place]
    /\ kis \in 0 .. MaxKI
LockFlag == ki_pending \in BOOLEAN
SleepsOnLock == \A t \in Task : custom_sleep_data[t] \in {None, lock_lot, cond_lot}
HolderOwns ==
    \A t \in Task : lock_pc[t] = "holding" => owner = t \/ (t = MainTask /\ kis > 0)
WaitersHaveOwner == parked[lock_lot] # <<>> => owner # None
OwnerKnows ==
    owner # None =>
        \/ lock_pc[owner] = "holding" /\ Awake(owner)
        \/ outcome[owner] = "ok"
OkOwns == \A t \in Task : outcome[t] = "ok" => owner = t
InsideLock ==
    \A t \in Task : ~ Awake(t) => lock_pc[t] \in {"acquiring", "waiting", "reacquiring"}
InterruptIsKnown ==
    /\ ki_pending => kis > 0
    /\ \A t \in Task : outcome[t] = "KeyboardInterrupt" => t = MainTask /\ kis > 0

LocksInv ==
    /\ LotInv /\ LockTypes /\ LockFlag /\ SleepsOnLock /\ HolderOwns /\ WaitersHaveOwner
    /\ OwnerKnows /\ OkOwns /\ InsideLock /\ InterruptIsKnown

\* The tasks that have a permit, or will find that they have one.
Permitted ==
    {t \in Task : \/ semaphore_pc[t] = "holding"
                  \/ semaphore_pc[t] = "acquiring" /\ outcome[t] = "ok"}

SemaphoreTypes ==
    /\ value \in Nat
    /\ max_value # None => value <= max_value
    /\ semaphore_pc \in [Task -> {"idle", "acquiring", "holding"}]
    /\ extra \in 0 .. MaxExtra
SleepsOnSemaphore == \A t \in Task : custom_sleep_data[t] \in {None, semaphore_lot}
NothingToTake == parked[semaphore_lot] # <<>> => value = 0
Conserved == value + Cardinality(Permitted) = initial_value + extra
InsideSemaphore == \A t \in Task : ~ Awake(t) => semaphore_pc[t] = "acquiring"

SemaphoreInv ==
    /\ LotInv /\ SemaphoreTypes /\ SleepsOnSemaphore /\ NothingToTake /\ Conserved
    /\ InsideSemaphore

LimiterTypes ==
    /\ borrowers \in SUBSET Borrower /\ IsFiniteSet(borrowers)
    /\ total_tokens \in 1 .. MaxTokens
    /\ pending_borrowers \in [Task -> Borrower \cup {None}]
    /\ grants \in [Borrower -> Nat]
SleepsOnLimiter == \A t \in Task : custom_sleep_data[t] \in {None, limiter_lot}
NoTokenIdle == parked[limiter_lot] # <<>> => Cardinality(borrowers) >= total_tokens
OneGrant == \A b \in Borrower : grants[b] = IF b \in borrowers THEN 1 ELSE 0
PendingIsFree ==
    \A t \in Task : t \in ToSet(parked[limiter_lot]) =>
        pending_borrowers[t] \in OnBehalfOf[t] \ borrowers

LimiterInv ==
    /\ LotInv /\ LimiterTypes /\ SleepsOnLimiter /\ NoTokenIdle /\ OneGrant /\ PendingIsFree

\* Nobody has used the primitive.
LocksUnused ==
    /\ owner = None /\ lock_pc = [t \in Task |-> "idle"]
    /\ ki_pending = FALSE /\ kis = 0
SemaphoreUnused ==
    /\ value = initial_value /\ semaphore_pc = [t \in Task |-> "idle"] /\ extra = 0
LimiterUnused ==
    /\ borrowers = {} /\ total_tokens \in 1 .. MaxTokens
    /\ pending_borrowers = [t \in Task |-> None] /\ grants = [b \in Borrower |-> 0]

SyncInv ==
    /\ primitive \in {"lock", "semaphore", "limiter"}
    /\ IF primitive = "lock" THEN LocksInv ELSE LocksUnused
    /\ IF primitive = "semaphore" THEN SemaphoreInv ELSE SemaphoreUnused
    /\ IF primitive = "limiter" THEN LimiterInv ELSE LimiterUnused

--------------------------------------------------------------------------------
(***************************************************************************)
(* Lock and Condition                                                      *)
(***************************************************************************)

\* unpark(count=1) of l: the longest waiting task is woken, if there is one.
LEMMA HandOverOK ==
    ASSUME LotInv, NEW l \in Lot, NEW next, next = Popped(parked[l], 1),
           NEW c2, c2 = SleepOn(ToSet(next), None),
           NEW o2, o2 = Rescheduled(ToSet(next), "ok")
    PROVE  /\ LotOK(Pop(parked, l, 1), c2, o2)
           /\ \A m \in Lot \ {l} : Pop(parked, l, 1)[m] = parked[m]
           /\ \A s \in Task : /\ c2[s] = IF s \in ToSet(next) THEN None ELSE custom_sleep_data[s]
                              /\ o2[s] = IF s \in ToSet(next) THEN "ok" ELSE outcome[s]
           /\ \/ /\ next = <<>> /\ parked[l] = <<>> /\ ToSet(next) = {}
                 /\ Pop(parked, l, 1)[l] = <<>>
              \/ /\ next # <<>> /\ parked[l] # <<>> /\ next[1] \in Task
                 /\ ToSet(next) = {next[1]} /\ custom_sleep_data[next[1]] = l
<1> DEFINE q == parked[l]
           n == PopCount(parked[l], 1)
<1>1. q \in Seq(Task) /\ IsInjective(q)
    BY DEF LotInv, LotOK
<1>2. n \in 0 .. Len(q) /\ (q # <<>> => n = 1) /\ (q = <<>> => n = 0)
    BY <1>1, PopCountInRange, SMTT(20)
<1>3. next = SubSeq(q, 1, n) /\ Left(q, 1) = SubSeq(q, n + 1, Len(q))
    BY DEF Popped, Left
<1>4. custom_sleep_data \in [Task -> Lot \cup {None}] /\ outcome \in [Task -> Outcome]
    BY DEF LotInv, LotOK
<1>5. \A s \in Task : /\ c2[s] = IF s \in ToSet(next) THEN None ELSE custom_sleep_data[s]
                      /\ o2[s] = IF s \in ToSet(next) THEN "ok" ELSE outcome[s]
    BY DEF SleepOn, Rescheduled
<1>6. c2 \in [Task -> Lot \cup {None}] /\ o2 \in [Task -> Outcome]
    BY <1>4 DEF SleepOn, Rescheduled, Outcome
<1>7. /\ LotOK(Pop(parked, l, 1), c2, o2)
      /\ \A m \in Lot \ {l} : Pop(parked, l, 1)[m] = parked[m]
      /\ Pop(parked, l, 1)[l] = Left(q, 1)
    <2>1. LotOK(parked, custom_sleep_data, outcome)
        BY DEF LotInv
    <2>2. 1 \in Int
        OBVIOUS
    <2>3. \A s \in Task : IF s \in ToSet(Popped(parked[l], 1))
                          THEN c2[s] = None
                          ELSE c2[s] = custom_sleep_data[s] /\ o2[s] = outcome[s]
        BY <1>5
    <2> QED
        BY ONLY <1>6, <2>1, <2>2, <2>3, l \in Lot, PopOK
<1> HIDE DEF q, n
<1>8. /\ next \in Seq(Task) /\ Left(q, 1) \in Seq(Task)
      /\ Len(next) = n /\ Len(Left(q, 1)) = Len(q) - n
      /\ ToSet(next) \subseteq ToSet(q)
    <2>1. /\ SubSeq(q, 1, n) \in Seq(Task) /\ SubSeq(q, n + 1, Len(q)) \in Seq(Task)
          /\ Len(SubSeq(q, 1, n)) = n /\ Len(SubSeq(q, n + 1, Len(q))) = Len(q) - n
          /\ ToSet(SubSeq(q, 1, n)) \subseteq ToSet(q)
        BY ONLY <1>1, <1>2, CutQueue
    <2> QED
        BY ONLY <1>3, <2>1
<1>9. CASE q = <<>>
    <2>1. n = 0 /\ Len(q) = 0
        BY ONLY <1>1, <1>2, <1>9, EmptyLen
    <2>2. next = <<>> /\ Left(q, 1) = <<>>
        BY ONLY <1>8, <2>1, EmptyLen
    <2> QED
        BY <1>5, <1>7, <1>9, <2>2, EmptyQueue DEF q
<1>10. CASE q # <<>>
    <2>1. n = 1 /\ Len(next) = 1
        BY ONLY <1>2, <1>8, <1>10
    <2>2. next # <<>> /\ next[1] \in Task /\ ToSet(next) = {next[1]}
        <3>0. next \in Seq(Task) /\ Len(next) = 1
            BY ONLY <1>8, <2>1
        <3>1. DOMAIN next = {1} /\ next[1] \in Task
            <4>1. DOMAIN next = 1 .. Len(next) /\ \A i \in 1 .. Len(next) : next[i] \in Task
                BY ONLY <3>0, LenProperties
            <4>2. 1 .. 1 = {1}
                OBVIOUS
            <4> QED
                BY ONLY <3>0, <4>1, <4>2, Zenon
        <3>2. next # <<>>
            BY ONLY <2>1, <3>1
        <3> QED
            BY ONLY <3>1, <3>2 DEF ToSet
    <2>3. next[1] \in ToSet(q)
        BY ONLY <1>8, <2>2
    <2>4. custom_sleep_data[next[1]] = l
        BY <2>2, <2>3 DEF LotInv, LotOK, q
    <2> QED
        BY <1>5, <1>7, <1>10, <2>2, <2>4 DEF q
<1> QED
    BY <1>9, <1>10

\* The body of acquire(): the task has the lock, or is in the lot behind its owner.
LEMMA TakeOrParkOK ==
    ASSUME LotInv, WaitersHaveOwner, NEW t \in Task, custom_sleep_data[t] = None,
           TakeOrPark(t)
    PROVE  /\ LotInv'
           /\ \A s \in Task \ {t} : /\ custom_sleep_data'[s] = custom_sleep_data[s]
                                    /\ outcome'[s] = outcome[s]
           /\ \/ /\ owner = None /\ owner' = t /\ outcome'[t] = "ok"
                 /\ custom_sleep_data'[t] = None /\ parked' = parked
              \/ /\ owner # None /\ owner' = owner /\ outcome'[t] = "none"
                 /\ custom_sleep_data'[t] = lock_lot
<1>0. lock_lot \in Lot
    BY LocksAssumption
<1>1. custom_sleep_data \in [Task -> Lot \cup {None}] /\ outcome \in [Task -> Outcome]
    BY DEF LotInv, LotOK
<1>2. LotOK(parked, custom_sleep_data, outcome)
    BY DEF LotInv
<1>3. CASE CanTake(t)
    <2>1. /\ owner = None /\ owner' = t /\ outcome' = Rescheduled({t}, "ok")
          /\ UNCHANGED <<parked, custom_sleep_data>>
        BY <1>3 DEF TakeOrPark, CanTake
    <2>2. outcome' \in [Task -> Outcome] /\ outcome'[t] = "ok"
          /\ \A s \in Task \ {t} : outcome'[s] = outcome[s]
        BY <1>1, <2>1 DEF Rescheduled, Outcome
    <2>3. \A s \in Task : custom_sleep_data[s] # None => outcome'[s] = "none"
        BY <2>2 DEF LotInv, LotOK
    <2>4. LotOK(parked, custom_sleep_data, outcome')
        BY ONLY <1>2, <2>2, <2>3, OutcomeOK
    <2> QED
        BY <2>1, <2>2, <2>4 DEF LotInv
<1>4. CASE ~ CanTake(t)
    <2>1. /\ owner' = owner /\ parked' = Park(parked, t, lock_lot)
          /\ custom_sleep_data' = SleepOn({t}, lock_lot)
          /\ outcome' = Rescheduled({t}, "none")
        BY <1>4 DEF TakeOrPark
    <2>2. owner # None
        BY <1>4 DEF CanTake, WaitersHaveOwner
    <2>3. /\ custom_sleep_data' \in [Task -> Lot \cup {None}]
          /\ outcome' \in [Task -> Outcome]
          /\ custom_sleep_data'[t] = lock_lot /\ outcome'[t] = "none"
          /\ \A s \in Task \ {t} : /\ custom_sleep_data'[s] = custom_sleep_data[s]
                                   /\ outcome'[s] = outcome[s]
        BY <1>0, <1>1, <2>1 DEF SleepOn, Rescheduled, Outcome
    <2>4. LotOK(Park(parked, t, lock_lot), custom_sleep_data', outcome')
        BY ONLY <1>0, <1>2, <2>3, t \in Task, custom_sleep_data[t] = None, ParkOK
    <2> QED
        BY <2>1, <2>2, <2>3, <2>4 DEF LotInv
<1> QED
    BY <1>3, <1>4

\* Nobody has, waits for or was given the lock.
LEMMA LocksInvInit == LocksInit => LocksInv
<1> SUFFICES ASSUME LocksInit PROVE LocksInv
    OBVIOUS
<1>1. LotInv
    BY EmptyQueue, ParkingLotAssumption DEF LocksInit, LotInit, LotInv, LotOK, Outcome
<1>2. /\ LockTypes /\ SleepsOnLock /\ HolderOwns /\ WaitersHaveOwner /\ OwnerKnows /\ OkOwns
      /\ InsideLock /\ InterruptIsKnown
    BY LocksAssumption DEF LocksInit, LotInit, LockTypes, SleepsOnLock, HolderOwns,
       WaitersHaveOwner, OwnerKnows, OkOwns, InsideLock, InterruptIsKnown, Place, Awake
<1>3. LockFlag
    BY DEF LocksInit, LockFlag
<1> QED
    BY <1>1, <1>2, <1>3 DEF LocksInv

\* Every step of a task, of the run loop and of control-C keeps the invariant.
LEMMA LocksInvNext == LocksInv /\ [LocksNext]_lockVars => LocksInv'
<1> SUFFICES ASSUME LocksInv, [LocksNext]_lockVars
             PROVE  LocksInv'
    OBVIOUS
<1>0. /\ lock_lot \in Lot /\ cond_lot \in Lot /\ lock_lot # cond_lot /\ None \notin Task \cup Lot
      /\ MainTask \in Task /\ MaxKI \in Nat
    BY LocksAssumption, ParkingLotAssumption
<1>t. /\ parked \in [Lot -> Seq(Task)] /\ custom_sleep_data \in [Task -> Lot \cup {None}]
      /\ outcome \in [Task -> Outcome]
      /\ \A s \in Task : custom_sleep_data[s] # None => outcome[s] = "none"
      /\ LotOK(parked, custom_sleep_data, outcome)
    BY DEF LocksInv, LotInv, LotOK
<1>1. ASSUME NEW t \in Task, LockAcquireNowait(t) PROVE LocksInv'
    <2>1. /\ Awake(t) /\ owner = None /\ parked[lock_lot] = <<>> /\ owner' = t
          /\ lock_pc' = [lock_pc EXCEPT ![t] = "holding"] /\ UNCHANGED <<parked, custom_sleep_data, outcome, kis>>
          /\ (ki_pending' <=> ki_pending)
        BY <1>1 DEF LockAcquireNowait, CanTake, Goto
    <2>l. LotInv'
        BY <2>1 DEF LocksInv, LotInv, LotOK
    <2>10. LockTypes'
        BY <1>0, <1>t, <2>1 DEF LocksInv, LockTypes, Place
    <2>11. LockFlag'
        BY <1>1, Zenon DEF LocksInv, LockAcquireNowait, LockFlag
    <2>12. SleepsOnLock'
        BY <1>0, <1>t, <2>1 DEF LocksInv, LockTypes, SleepsOnLock
    <2>13. HolderOwns'
        BY <1>0, <1>t, <2>1 DEF LocksInv, LockTypes, HolderOwns, OwnerKnows, Awake, OkOwns,
           InterruptIsKnown
    <2>14. WaitersHaveOwner'
        BY <1>0, <1>t, <2>1 DEF LocksInv, LockTypes, WaitersHaveOwner
    <2>15. OwnerKnows'
        BY <1>0, <1>t, <2>1 DEF LocksInv, LockTypes, OwnerKnows, Awake, OkOwns, InsideLock
    <2>16. OkOwns'
        BY <1>0, <1>t, <2>1 DEF LocksInv, LockTypes, OkOwns, OwnerKnows, Awake
    <2>17. InsideLock'
        BY <1>0, <1>t, <2>1 DEF LocksInv, LockTypes, InsideLock, Awake, OwnerKnows
    <2>18. InterruptIsKnown'
        BY <1>0, <1>t, <2>1 DEF LocksInv, LockTypes, InterruptIsKnown
    <2> QED
        BY <2>l, <2>10, <2>11, <2>12, <2>13, <2>14, <2>15, <2>16, <2>17, <2>18 DEF LocksInv
<1>2. ASSUME NEW t \in Task, LockAcquire(t) PROVE LocksInv'
    <2>1. /\ Awake(t) /\ custom_sleep_data[t] = None /\ lock_pc' = [lock_pc EXCEPT ![t] = "acquiring"]
          /\ owner # t /\ kis' = kis /\ (ki_pending' <=> ki_pending)
        BY <1>2 DEF LockAcquire, Awake, Goto
    <2>2. /\ LotInv'
          /\ \A s \in Task \ {t} : /\ custom_sleep_data'[s] = custom_sleep_data[s]
                                   /\ outcome'[s] = outcome[s]
          /\ \/ /\ owner = None /\ owner' = t /\ outcome'[t] = "ok"
                /\ custom_sleep_data'[t] = None /\ parked' = parked
             \/ /\ owner # None /\ owner' = owner /\ outcome'[t] = "none"
                /\ custom_sleep_data'[t] = lock_lot
        <3>1. LotInv /\ WaitersHaveOwner /\ TakeOrPark(t)
            BY <1>2 DEF LocksInv, LockAcquire, Reacquire
        <3> QED
            BY ONLY <2>1, <3>1, t \in Task, TakeOrParkOK
    <2>l. LotInv'
        BY <2>2
    <2>10. LockTypes'
        BY <1>0, <1>t, <2>1, <2>2 DEF LocksInv, LockTypes, Place
    <2>11. LockFlag'
        BY <1>2, Zenon DEF LocksInv, LockAcquire, LockFlag
    <2>12. SleepsOnLock'
        BY <1>0, <1>t, <2>1, <2>2 DEF LocksInv, LockTypes, SleepsOnLock
    <2>13. HolderOwns'
        BY <1>0, <1>t, <2>1, <2>2 DEF LocksInv, LockTypes, HolderOwns, OwnerKnows, Awake,
           OkOwns, InterruptIsKnown
    <2>14. WaitersHaveOwner'
        BY <1>0, <1>t, <2>1, <2>2 DEF LocksInv, LockTypes, WaitersHaveOwner
    <2>15. OwnerKnows'
        BY <1>0, <1>t, <2>1, <2>2 DEF LocksInv, LockTypes, OwnerKnows, Awake, OkOwns, InsideLock
    <2>16. OkOwns'
        BY <1>0, <1>t, <2>1, <2>2 DEF LocksInv, LockTypes, OkOwns, OwnerKnows, Awake
    <2>17. InsideLock'
        BY <1>0, <1>t, <2>1, <2>2 DEF LocksInv, LockTypes, InsideLock, Awake, OwnerKnows
    <2>18. InterruptIsKnown'
        BY <1>0, <1>t, <2>1, <2>2 DEF LocksInv, LockTypes, InterruptIsKnown
    <2> QED
        BY <2>l, <2>10, <2>11, <2>12, <2>13, <2>14, <2>15, <2>16, <2>17, <2>18 DEF LocksInv
<1>3. ASSUME NEW t \in Task, LockRelease(t) PROVE LocksInv'
    <2>1. /\ Awake(t) /\ lock_pc[t] = "holding" /\ lock_pc' = [lock_pc EXCEPT ![t] = "idle"]
          /\ kis' = kis /\ (ki_pending' <=> ki_pending)
        BY <1>3 DEF LockRelease, Goto
    <2>a. CASE owner # t
        <3>1. UNCHANGED <<parked, custom_sleep_data, outcome, owner>>
            BY <1>3, <2>a DEF LockRelease
        <3>l. LotInv'
            BY <3>1 DEF LocksInv, LotInv, LotOK
        <3>10. LockTypes'
            BY <1>0, <1>t, <2>1, <2>a, <3>1 DEF LocksInv, LockTypes, Place
        <3>11. LockFlag'
            BY <1>3, Zenon DEF LocksInv, LockRelease, LockFlag
        <3>12. SleepsOnLock'
            BY <1>0, <1>t, <2>1, <2>a, <3>1 DEF LocksInv, LockTypes, SleepsOnLock
        <3>13. HolderOwns'
            BY <1>0, <1>t, <2>1, <2>a, <3>1 DEF LocksInv, LockTypes, HolderOwns, OwnerKnows,
               Awake, OkOwns, InterruptIsKnown
        <3>14. WaitersHaveOwner'
            BY <1>0, <1>t, <2>1, <2>a, <3>1 DEF LocksInv, LockTypes, WaitersHaveOwner
        <3>15. OwnerKnows'
            BY <1>0, <1>t, <2>1, <2>a, <3>1 DEF LocksInv, LockTypes, OwnerKnows, Awake,
               OkOwns, InsideLock
        <3>16. OkOwns'
            BY <1>0, <1>t, <2>1, <2>a, <3>1 DEF LocksInv, LockTypes, OkOwns, OwnerKnows, Awake
        <3>17. InsideLock'
            BY <1>0, <1>t, <2>1, <2>a, <3>1 DEF LocksInv, LockTypes, InsideLock, Awake,
               OwnerKnows
        <3>18. InterruptIsKnown'
            BY <1>0, <1>t, <2>1, <2>a, <3>1 DEF LocksInv, LockTypes, InterruptIsKnown
        <3> QED
            BY <3>l, <3>10, <3>11, <3>12, <3>13, <3>14, <3>15, <3>16, <3>17, <3>18 DEF LocksInv
    <2>b. CASE owner = t
        <3> DEFINE next == Popped(parked[lock_lot], 1)
        <3>1. /\ owner' = IF next = <<>> THEN None ELSE next[1]
              /\ parked' = Pop(parked, lock_lot, 1)
              /\ custom_sleep_data' = SleepOn(ToSet(next), None)
              /\ outcome' = Rescheduled(ToSet(next), "ok")
            BY <1>3, <2>b DEF LockRelease
        <3>2. LotInv
            BY DEF LocksInv
        <3>3. next = Popped(parked[lock_lot], 1)
            OBVIOUS
        <3> HIDE DEF next
        <3>4. /\ LotOK(parked', custom_sleep_data', outcome')
              /\ \A s \in Task :
                    /\ custom_sleep_data'[s] = IF s \in ToSet(next) THEN None ELSE custom_sleep_data[s]
                    /\ outcome'[s] = IF s \in ToSet(next) THEN "ok" ELSE outcome[s]
              /\ \/ next = <<>> /\ ToSet(next) = {} /\ parked'[lock_lot] = <<>>
                 \/ /\ next # <<>> /\ next[1] \in Task
                    /\ ToSet(next) = {next[1]} /\ custom_sleep_data[next[1]] = lock_lot
            BY ONLY <1>0, <3>1, <3>2, <3>3, HandOverOK
        <3>l. LotInv'
            BY <3>4 DEF LotInv
        <3>5. \A s \in Task : outcome[s] # "ok"
            BY <2>1, <2>b DEF LocksInv, OkOwns, Awake
        <3>10. LockTypes'
            BY <1>0, <1>t, <2>1, <2>b, <3>1, <3>4, <3>5 DEF LocksInv, LockTypes, Place
        <3>11. LockFlag'
            BY <1>3, Zenon DEF LocksInv, LockRelease, LockFlag
        <3>12. SleepsOnLock'
            BY <1>0, <1>t, <2>1, <2>b, <3>1, <3>4, <3>5 DEF LocksInv, LockTypes, SleepsOnLock
        <3>13. HolderOwns'
            BY <1>0, <1>t, <2>1, <2>b, <3>1, <3>4, <3>5 DEF LocksInv, LockTypes, HolderOwns,
               OwnerKnows, Awake, OkOwns, InterruptIsKnown
        <3>14. WaitersHaveOwner'
            BY <1>0, <1>t, <2>1, <2>b, <3>1, <3>4, <3>5 DEF LocksInv, LockTypes,
               WaitersHaveOwner
        <3>15. OwnerKnows'
            BY <1>0, <1>t, <2>1, <2>b, <3>1, <3>4, <3>5 DEF LocksInv, LockTypes, OwnerKnows,
               Awake, OkOwns, InsideLock
        <3>16. OkOwns'
            BY <1>0, <1>t, <2>1, <2>b, <3>1, <3>4, <3>5 DEF LocksInv, LockTypes, OkOwns,
               OwnerKnows, Awake
        <3>17. InsideLock'
            BY <1>0, <1>t, <2>1, <2>b, <3>1, <3>4, <3>5 DEF LocksInv, LockTypes, InsideLock,
               Awake, OwnerKnows
        <3>18. InterruptIsKnown'
            BY <1>0, <1>t, <2>1, <2>b, <3>1, <3>4, <3>5 DEF LocksInv, LockTypes,
               InterruptIsKnown
        <3> QED
            BY <3>l, <3>10, <3>11, <3>12, <3>13, <3>14, <3>15, <3>16, <3>17, <3>18 DEF LocksInv
    <2> QED
        BY <2>a, <2>b
<1>4. ASSUME NEW t \in Task, ConditionWait(t) PROVE LocksInv'
    <2> DEFINE next == Popped(parked[lock_lot], 1)
               c1   == SleepOn(ToSet(next), None)
               p1   == Pop(parked, lock_lot, 1)
    <2>1. /\ Awake(t) /\ lock_pc[t] = "holding" /\ owner = t
          /\ lock_pc' = [lock_pc EXCEPT ![t] = "waiting"]
          /\ kis' = kis /\ (ki_pending' <=> ki_pending)
          /\ owner' = IF next = <<>> THEN None ELSE next[1]
        BY <1>4 DEF ConditionWait, Goto
    <2>2. /\ parked' = Park(p1, t, cond_lot)
          /\ custom_sleep_data' = [c1 EXCEPT ![t] = cond_lot]
          /\ outcome' = Rescheduled(ToSet(next), "ok")
        BY <1>4 DEF ConditionWait
    <2>3. LotInv /\ next = Popped(parked[lock_lot], 1) /\ c1 = SleepOn(ToSet(next), None)
        BY DEF LocksInv
    <2>4. p1 = Pop(parked, lock_lot, 1)
        OBVIOUS
    <2>5. c1 \in [Task -> Lot \cup {None}]
        BY <1>t DEF SleepOn
    <2> HIDE DEF next, c1, p1
    <2>6. /\ LotOK(p1, c1, outcome')
          /\ \A s \in Task :
                /\ c1[s] = IF s \in ToSet(next) THEN None ELSE custom_sleep_data[s]
                /\ outcome'[s] = IF s \in ToSet(next) THEN "ok" ELSE outcome[s]
          /\ \/ next = <<>> /\ ToSet(next) = {} /\ p1[lock_lot] = <<>>
             \/ /\ next # <<>> /\ next[1] \in Task
                /\ ToSet(next) = {next[1]} /\ custom_sleep_data[next[1]] = lock_lot
        <3>1. outcome' = Rescheduled(ToSet(next), "ok")
            BY <2>2
        <3> QED
            BY ONLY <1>0, <2>3, <2>4, <3>1, HandOverOK, SMTT(40)
    <2>7. /\ c1[t] = None /\ outcome'[t] = "none" /\ outcome' \in [Task -> Outcome]
          /\ custom_sleep_data' \in [Task -> Lot \cup {None}] /\ custom_sleep_data'[t] = cond_lot
          /\ \A s \in Task \ {t} : custom_sleep_data'[s] = c1[s] /\ outcome'[s] = outcome'[s]
        <3>1. custom_sleep_data[t] = None /\ outcome[t] = "none"
            BY <2>1 DEF Awake
        <3> QED
            BY <1>0, <2>2, <2>5, <2>6, <3>1 DEF LotOK
    <2>8. /\ LotOK(parked', custom_sleep_data', outcome')
          /\ \A m \in Lot \ {cond_lot} : parked'[m] = p1[m]
        <3>1. /\ LotOK(Park(p1, t, cond_lot), custom_sleep_data', outcome')
              /\ \A m \in Lot \ {cond_lot} : Park(p1, t, cond_lot)[m] = p1[m]
            BY ONLY <1>0, <2>6, <2>7, t \in Task, ParkOK
        <3> QED
            BY ONLY <2>2, <3>1
    <2>l. LotInv'
        BY <2>8 DEF LotInv
    <2>9. \A s \in Task : outcome[s] # "ok"
        BY <2>1 DEF LocksInv, OkOwns, Awake
    <2>91. \A s \in Task \ {t} : custom_sleep_data'[s] \in {None, custom_sleep_data[s]}
        BY <2>6, <2>7
    <2>10. LockTypes'
        BY <1>0, <1>t, <2>1, <2>6, <2>7, <2>8, <2>9, <2>91 DEF LocksInv, LockTypes, Place
    <2>11. LockFlag'
        BY <1>4, Zenon DEF LocksInv, ConditionWait, LockFlag
    <2>12. SleepsOnLock'
        BY <1>0, <1>t, <2>1, <2>6, <2>7, <2>8, <2>9, <2>91 DEF LocksInv, LockTypes, SleepsOnLock
    <2>13. HolderOwns'
        BY <1>0, <1>t, <2>1, <2>6, <2>7, <2>8, <2>9, <2>91 DEF LocksInv, LockTypes,
           HolderOwns, OwnerKnows, Awake, OkOwns, InterruptIsKnown
    <2>14. WaitersHaveOwner'
        BY <1>0, <1>t, <2>1, <2>6, <2>7, <2>8, <2>9, <2>91 DEF LocksInv, LockTypes,
           WaitersHaveOwner
    <2>15. OwnerKnows'
        BY <1>0, <1>t, <2>1, <2>6, <2>7, <2>8, <2>9, <2>91 DEF LocksInv, LockTypes,
           OwnerKnows, Awake, OkOwns, InsideLock
    <2>16. OkOwns'
        BY <1>0, <1>t, <2>1, <2>6, <2>7, <2>8, <2>9, <2>91 DEF LocksInv, LockTypes, OkOwns,
           OwnerKnows, Awake
    <2>17. InsideLock'
        BY <1>0, <1>t, <2>1, <2>6, <2>7, <2>8, <2>9, <2>91 DEF LocksInv, LockTypes,
           InsideLock, Awake, OwnerKnows
    <2>18. InterruptIsKnown'
        BY <1>0, <1>t, <2>1, <2>6, <2>7, <2>8, <2>9, <2>91 DEF LocksInv, LockTypes,
           InterruptIsKnown
    <2> QED
        BY <2>l, <2>10, <2>11, <2>12, <2>13, <2>14, <2>15, <2>16, <2>17, <2>18 DEF LocksInv
<1>5. ASSUME NEW t \in Task, NEW n \in 1 .. Cardinality(Task), ConditionNotify(t, n) PROVE LocksInv'
    <2>1. /\ Awake(t) /\ lock_pc[t] = "holding" /\ owner = t
          /\ UNCHANGED <<outcome, owner, lock_pc, kis>> /\ (ki_pending' <=> ki_pending)
          /\ parked' = Repark(parked, cond_lot, lock_lot, n)
          /\ custom_sleep_data' = SleepOn(ToSet(Popped(parked[cond_lot], n)), lock_lot)
        BY <1>5 DEF ConditionNotify
    <2>2. n \in Int /\ cond_lot # lock_lot
        BY <1>0
    <2>3. /\ \A s \in Task : custom_sleep_data'[s] =
                IF s \in ToSet(Popped(parked[cond_lot], n)) THEN lock_lot ELSE custom_sleep_data[s]
          /\ custom_sleep_data' \in [Task -> Lot \cup {None}]
        BY <1>0, <1>t, <2>1 DEF SleepOn
    <2>4. LotOK(Repark(parked, cond_lot, lock_lot, n), custom_sleep_data', outcome)
        BY ONLY <1>0, <1>t, <2>2, <2>3, ReparkOK
    <2>l. LotInv'
        BY <2>1, <2>4 DEF LotInv
    <2>5. \A s \in Task : s \in ToSet(Popped(parked[cond_lot], n)) => custom_sleep_data[s] = cond_lot
        <3>1. parked[cond_lot] \in Seq(Task) /\ IsInjective(parked[cond_lot])
            BY <1>0, <1>t DEF LotOK
        <3>2. PopCount(parked[cond_lot], n) \in 0 .. Len(parked[cond_lot])
            BY ONLY <2>2, <3>1, PopCountInRange
        <3>3. ToSet(Popped(parked[cond_lot], n)) \subseteq ToSet(parked[cond_lot])
            BY ONLY <3>1, <3>2, CutQueue DEF Popped
        <3> QED
            BY <1>0, <1>t, <3>3 DEF LotOK
    <2>6. owner' = owner /\ lock_pc' = lock_pc /\ owner # None
          /\ \A s \in Task : outcome'[s] = outcome[s] /\ (Awake(s)' <=> Awake(s))
        BY <1>0, <2>1, <2>3, <2>5 DEF Awake
    <2>10. LockTypes'
        BY <1>0, <1>t, <2>1, <2>3, <2>6 DEF LocksInv, LockTypes, Place
    <2>11. LockFlag'
        BY <1>5, Zenon DEF LocksInv, ConditionNotify, LockFlag
    <2>12. SleepsOnLock'
        BY <1>0, <1>t, <2>1, <2>3, <2>6 DEF LocksInv, LockTypes, SleepsOnLock
    <2>13. HolderOwns'
        BY <1>0, <1>t, <2>1, <2>3, <2>6 DEF LocksInv, LockTypes, HolderOwns, OwnerKnows,
           Awake, OkOwns, InterruptIsKnown
    <2>14. WaitersHaveOwner'
        BY <1>0, <1>t, <2>1, <2>3, <2>6 DEF LocksInv, LockTypes, WaitersHaveOwner
    <2>15. OwnerKnows'
        BY <1>0, <1>t, <2>1, <2>3, <2>6 DEF LocksInv, LockTypes, OwnerKnows, Awake, OkOwns,
           InsideLock
    <2>16. OkOwns'
        BY <1>0, <1>t, <2>1, <2>3, <2>6 DEF LocksInv, LockTypes, OkOwns, OwnerKnows, Awake
    <2>17. InsideLock'
        BY <1>0, <1>t, <2>1, <2>3, <2>6 DEF LocksInv, LockTypes, InsideLock, Awake, OwnerKnows
    <2>18. InterruptIsKnown'
        BY <1>0, <1>t, <2>1, <2>3, <2>6 DEF LocksInv, LockTypes, InterruptIsKnown
    <2> QED
        BY <2>l, <2>10, <2>11, <2>12, <2>13, <2>14, <2>15, <2>16, <2>17, <2>18 DEF LocksInv
<1>6. ASSUME NEW t \in Task, LockCancel(t) PROVE LocksInv'
    <2>1. /\ Abort(t, "Cancelled") /\ UNCHANGED <<owner, lock_pc, kis>>
          /\ (ki_pending' <=> ki_pending)
        BY <1>6 DEF LockCancel
    <2>2. /\ LotInv'
          /\ custom_sleep_data[t] \in Lot
          /\ custom_sleep_data'[t] = None /\ outcome'[t] = "Cancelled"
          /\ \A s \in Task \ {t} : /\ custom_sleep_data'[s] = custom_sleep_data[s]
                                   /\ outcome'[s] = outcome[s]
          /\ \A l \in Lot : ToSet(parked'[l]) = ToSet(parked[l]) \ {t}
        <3>1. LotInv /\ "Cancelled" \in Outcome
            BY DEF LocksInv, Outcome
        <3> QED
            BY ONLY <1>0, <2>1, <3>1, t \in Task, AbortOK
    <2>l. LotInv'
        BY <2>2
    <2>3. parked'[lock_lot] # <<>> => parked[lock_lot] # <<>>
        <3>1. parked'[lock_lot] \in Seq(Task) /\ parked[lock_lot] \in Seq(Task)
            BY <1>0, <1>t, <2>l DEF LotInv, LotOK
        <3>2. parked'[lock_lot] # <<>> => ToSet(parked'[lock_lot]) # {}
            BY ONLY <3>1, TailQueue
        <3>3. parked[lock_lot] = <<>> => ToSet(parked[lock_lot]) = {}
            BY ONLY EmptyQueue
        <3> QED
            BY <1>0, <2>2, <3>2, <3>3
    <2>10. LockTypes'
        BY <1>0, <1>t, <2>1, <2>2, <2>3 DEF LocksInv, LockTypes, Place
    <2>11. LockFlag'
        BY <1>6, Zenon DEF LocksInv, LockCancel, LockFlag
    <2>12. SleepsOnLock'
        BY <1>0, <1>t, <2>1, <2>2, <2>3 DEF LocksInv, LockTypes, SleepsOnLock
    <2>13. HolderOwns'
        BY <1>0, <1>t, <2>1, <2>2, <2>3 DEF LocksInv, LockTypes, HolderOwns, OwnerKnows,
           Awake, OkOwns, InterruptIsKnown
    <2>14. WaitersHaveOwner'
        BY <1>0, <1>t, <2>1, <2>2, <2>3 DEF LocksInv, LockTypes, WaitersHaveOwner
    <2>15. OwnerKnows'
        BY <1>0, <1>t, <2>1, <2>2, <2>3 DEF LocksInv, LockTypes, OwnerKnows, Awake, OkOwns,
           InsideLock
    <2>16. OkOwns'
        BY <1>0, <1>t, <2>1, <2>2, <2>3 DEF LocksInv, LockTypes, OkOwns, OwnerKnows, Awake
    <2>17. InsideLock'
        BY <1>0, <1>t, <2>1, <2>2, <2>3 DEF LocksInv, LockTypes, InsideLock, Awake, OwnerKnows
    <2>18. InterruptIsKnown'
        BY <1>0, <1>t, <2>1, <2>2, <2>3 DEF LocksInv, LockTypes, InterruptIsKnown
    <2> QED
        BY <2>l, <2>10, <2>11, <2>12, <2>13, <2>14, <2>15, <2>16, <2>17, <2>18 DEF LocksInv
<1>7. ASSUME LockDeliverKi PROVE LocksInv'
    <2>1. /\ Abort(MainTask, "KeyboardInterrupt") /\ UNCHANGED <<owner, lock_pc, kis>>
          /\ ~ ki_pending' /\ kis > 0
        BY <1>7 DEF LockDeliverKi, LocksInv, InterruptIsKnown
    <2>2. /\ LotInv'
          /\ custom_sleep_data[MainTask] \in Lot
          /\ custom_sleep_data'[MainTask] = None /\ outcome'[MainTask] = "KeyboardInterrupt"
          /\ \A s \in Task \ {MainTask} : /\ custom_sleep_data'[s] = custom_sleep_data[s]
                                   /\ outcome'[s] = outcome[s]
          /\ \A l \in Lot : ToSet(parked'[l]) = ToSet(parked[l]) \ {MainTask}
        <3>1. LotInv /\ "KeyboardInterrupt" \in Outcome
            BY DEF LocksInv, Outcome
        <3> QED
            BY ONLY <1>0, <2>1, <3>1, AbortOK
    <2>l. LotInv'
        BY <2>2
    <2>3. parked'[lock_lot] # <<>> => parked[lock_lot] # <<>>
        <3>1. parked'[lock_lot] \in Seq(Task) /\ parked[lock_lot] \in Seq(Task)
            BY <1>0, <1>t, <2>l DEF LotInv, LotOK
        <3>2. parked'[lock_lot] # <<>> => ToSet(parked'[lock_lot]) # {}
            BY ONLY <3>1, TailQueue
        <3>3. parked[lock_lot] = <<>> => ToSet(parked[lock_lot]) = {}
            BY ONLY EmptyQueue
        <3> QED
            BY <1>0, <2>2, <3>2, <3>3
    <2>10. LockTypes'
        BY <1>0, <1>t, <2>1, <2>2, <2>3 DEF LocksInv, LockTypes, Place
    <2>11. LockFlag'
        BY <1>7, Zenon DEF LocksInv, LockDeliverKi, LockFlag
    <2>12. SleepsOnLock'
        BY <1>0, <1>t, <2>1, <2>2, <2>3 DEF LocksInv, LockTypes, SleepsOnLock
    <2>13. HolderOwns'
        BY <1>0, <1>t, <2>1, <2>2, <2>3 DEF LocksInv, LockTypes, HolderOwns, OwnerKnows,
           Awake, OkOwns, InterruptIsKnown
    <2>14. WaitersHaveOwner'
        BY <1>0, <1>t, <2>1, <2>2, <2>3 DEF LocksInv, LockTypes, WaitersHaveOwner
    <2>15. OwnerKnows'
        BY <1>0, <1>t, <2>1, <2>2, <2>3 DEF LocksInv, LockTypes, OwnerKnows, Awake, OkOwns,
           InsideLock
    <2>16. OkOwns'
        BY <1>0, <1>t, <2>1, <2>2, <2>3 DEF LocksInv, LockTypes, OkOwns, OwnerKnows, Awake
    <2>17. InsideLock'
        BY <1>0, <1>t, <2>1, <2>2, <2>3 DEF LocksInv, LockTypes, InsideLock, Awake, OwnerKnows
    <2>18. InterruptIsKnown'
        BY <1>0, <1>t, <2>1, <2>2, <2>3 DEF LocksInv, LockTypes, InterruptIsKnown
    <2> QED
        BY <2>l, <2>10, <2>11, <2>12, <2>13, <2>14, <2>15, <2>16, <2>17, <2>18 DEF LocksInv
<1>8. ASSUME Interrupt PROVE LocksInv'
    <2>1. /\ kis < MaxKI /\ kis' = kis + 1 /\ ki_pending'
          /\ UNCHANGED <<parked, custom_sleep_data, outcome, owner, lock_pc>>
        BY <1>8 DEF Interrupt
    <2>l. LotInv'
        BY <2>1 DEF LocksInv, LotInv, LotOK
    <2>10. LockTypes'
        BY <1>0, <1>t, <2>1 DEF LocksInv, LockTypes, Place
    <2>11. LockFlag'
        BY <1>8, Zenon DEF LocksInv, Interrupt, LockFlag
    <2>12. SleepsOnLock'
        BY <1>0, <1>t, <2>1 DEF LocksInv, LockTypes, SleepsOnLock
    <2>13. HolderOwns'
        BY <1>0, <1>t, <2>1 DEF LocksInv, LockTypes, HolderOwns, OwnerKnows, Awake, OkOwns,
           InterruptIsKnown
    <2>14. WaitersHaveOwner'
        BY <1>0, <1>t, <2>1 DEF LocksInv, LockTypes, WaitersHaveOwner
    <2>15. OwnerKnows'
        BY <1>0, <1>t, <2>1 DEF LocksInv, LockTypes, OwnerKnows, Awake, OkOwns, InsideLock
    <2>16. OkOwns'
        BY <1>0, <1>t, <2>1 DEF LocksInv, LockTypes, OkOwns, OwnerKnows, Awake
    <2>17. InsideLock'
        BY <1>0, <1>t, <2>1 DEF LocksInv, LockTypes, InsideLock, Awake, OwnerKnows
    <2>18. InterruptIsKnown'
        BY <1>0, <1>t, <2>1 DEF LocksInv, LockTypes, InterruptIsKnown
    <2> QED
        BY <2>l, <2>10, <2>11, <2>12, <2>13, <2>14, <2>15, <2>16, <2>17, <2>18 DEF LocksInv
<1>9. ASSUME KiElsewhere PROVE LocksInv'
    <2>1. /\ ~ ki_pending'
          /\ UNCHANGED <<parked, custom_sleep_data, outcome, owner, lock_pc, kis>>
        BY <1>9 DEF KiElsewhere
    <2>l. LotInv'
        BY <2>1 DEF LocksInv, LotInv, LotOK
    <2>10. LockTypes'
        BY <1>0, <1>t, <2>1 DEF LocksInv, LockTypes, Place
    <2>11. LockFlag'
        BY <1>9, Zenon DEF LocksInv, KiElsewhere, LockFlag
    <2>12. SleepsOnLock'
        BY <1>0, <1>t, <2>1 DEF LocksInv, LockTypes, SleepsOnLock
    <2>13. HolderOwns'
        BY <1>0, <1>t, <2>1 DEF LocksInv, LockTypes, HolderOwns, OwnerKnows, Awake, OkOwns,
           InterruptIsKnown
    <2>14. WaitersHaveOwner'
        BY <1>0, <1>t, <2>1 DEF LocksInv, LockTypes, WaitersHaveOwner
    <2>15. OwnerKnows'
        BY <1>0, <1>t, <2>1 DEF LocksInv, LockTypes, OwnerKnows, Awake, OkOwns, InsideLock
    <2>16. OkOwns'
        BY <1>0, <1>t, <2>1 DEF LocksInv, LockTypes, OkOwns, OwnerKnows, Awake
    <2>17. InsideLock'
        BY <1>0, <1>t, <2>1 DEF LocksInv, LockTypes, InsideLock, Awake, OwnerKnows
    <2>18. InterruptIsKnown'
        BY <1>0, <1>t, <2>1 DEF LocksInv, LockTypes, InterruptIsKnown
    <2> QED
        BY <2>l, <2>10, <2>11, <2>12, <2>13, <2>14, <2>15, <2>16, <2>17, <2>18 DEF LocksInv
<1>10. ASSUME NEW t \in Task, ResumeHolding(t) PROVE LocksInv'
    <2>1. /\ outcome[t] = "ok" /\ outcome' = Rescheduled({t}, "none") /\ lock_pc' = [lock_pc EXCEPT ![t] = "holding"]
          /\ UNCHANGED <<parked, custom_sleep_data, owner, kis>> /\ (ki_pending' <=> ki_pending)
        BY <1>10 DEF ResumeHolding, Goto
    <2>2. /\ outcome' \in [Task -> Outcome] /\ outcome'[t] = "none"
          /\ \A s \in Task \ {t} : outcome'[s] = outcome[s]
          /\ \A s \in Task : custom_sleep_data[s] # None => outcome'[s] = "none"
        BY <1>t, <2>1 DEF Rescheduled, Outcome
    <2>3. LotOK(parked, custom_sleep_data, outcome')
        BY ONLY <1>t, <2>2, OutcomeOK
    <2>l. LotInv'
        BY <2>1, <2>3 DEF LotInv
    <2>10. LockTypes'
        BY <1>0, <1>t, <2>1, <2>2 DEF LocksInv, LockTypes, Place
    <2>11. LockFlag'
        BY <1>10, Zenon DEF LocksInv, ResumeHolding, LockFlag
    <2>12. SleepsOnLock'
        BY <1>0, <1>t, <2>1, <2>2 DEF LocksInv, LockTypes, SleepsOnLock
    <2>13. HolderOwns'
        BY <1>0, <1>t, <2>1, <2>2 DEF LocksInv, LockTypes, HolderOwns, OwnerKnows, Awake,
           OkOwns, InterruptIsKnown
    <2>14. WaitersHaveOwner'
        BY <1>0, <1>t, <2>1, <2>2 DEF LocksInv, LockTypes, WaitersHaveOwner
    <2>15. OwnerKnows'
        BY <1>0, <1>t, <2>1, <2>2 DEF LocksInv, LockTypes, OwnerKnows, Awake, OkOwns, InsideLock
    <2>16. OkOwns'
        BY <1>0, <1>t, <2>1, <2>2 DEF LocksInv, LockTypes, OkOwns, OwnerKnows, Awake
    <2>17. InsideLock'
        BY <1>0, <1>t, <2>1, <2>2 DEF LocksInv, LockTypes, InsideLock, Awake, OwnerKnows
    <2>18. InterruptIsKnown'
        BY <1>0, <1>t, <2>1, <2>2 DEF LocksInv, LockTypes, InterruptIsKnown
    <2> QED
        BY <2>l, <2>10, <2>11, <2>12, <2>13, <2>14, <2>15, <2>16, <2>17, <2>18 DEF LocksInv
<1>11. ASSUME NEW t \in Task, ResumeAcquireRaises(t) PROVE LocksInv'
    <2>1. /\ outcome[t] \in {"Cancelled", "KeyboardInterrupt"}
          /\ outcome' = Rescheduled({t}, "none") /\ lock_pc' = [lock_pc EXCEPT ![t] = "idle"]
          /\ UNCHANGED <<parked, custom_sleep_data, owner, kis>> /\ (ki_pending' <=> ki_pending)
        BY <1>11 DEF ResumeAcquireRaises, Goto
    <2>2. /\ outcome' \in [Task -> Outcome] /\ outcome'[t] = "none"
          /\ \A s \in Task \ {t} : outcome'[s] = outcome[s]
          /\ \A s \in Task : custom_sleep_data[s] # None => outcome'[s] = "none"
        BY <1>t, <2>1 DEF Rescheduled, Outcome
    <2>3. LotOK(parked, custom_sleep_data, outcome')
        BY ONLY <1>t, <2>2, OutcomeOK
    <2>l. LotInv'
        BY <2>1, <2>3 DEF LotInv
    <2>10. LockTypes'
        BY <1>0, <1>t, <2>1, <2>2 DEF LocksInv, LockTypes, Place
    <2>11. LockFlag'
        BY <1>11, Zenon DEF LocksInv, ResumeAcquireRaises, LockFlag
    <2>12. SleepsOnLock'
        BY <1>0, <1>t, <2>1, <2>2 DEF LocksInv, LockTypes, SleepsOnLock
    <2>13. HolderOwns'
        BY <1>0, <1>t, <2>1, <2>2 DEF LocksInv, LockTypes, HolderOwns, OwnerKnows, Awake,
           OkOwns, InterruptIsKnown
    <2>14. WaitersHaveOwner'
        BY <1>0, <1>t, <2>1, <2>2 DEF LocksInv, LockTypes, WaitersHaveOwner
    <2>15. OwnerKnows'
        BY <1>0, <1>t, <2>1, <2>2 DEF LocksInv, LockTypes, OwnerKnows, Awake, OkOwns, InsideLock
    <2>16. OkOwns'
        BY <1>0, <1>t, <2>1, <2>2 DEF LocksInv, LockTypes, OkOwns, OwnerKnows, Awake
    <2>17. InsideLock'
        BY <1>0, <1>t, <2>1, <2>2 DEF LocksInv, LockTypes, InsideLock, Awake, OwnerKnows
    <2>18. InterruptIsKnown'
        BY <1>0, <1>t, <2>1, <2>2 DEF LocksInv, LockTypes, InterruptIsKnown
    <2> QED
        BY <2>l, <2>10, <2>11, <2>12, <2>13, <2>14, <2>15, <2>16, <2>17, <2>18 DEF LocksInv
<1>12. ASSUME NEW t \in Task, Reacquire(t) PROVE LocksInv'
    <2>1. /\ outcome[t] \in {"Cancelled", "KeyboardInterrupt"} /\ custom_sleep_data[t] = None
          /\ lock_pc' = [lock_pc EXCEPT ![t] = "reacquiring"] /\ kis' = kis /\ (ki_pending' <=> ki_pending)
        BY <1>t, <1>12 DEF Reacquire, Goto
    <2>2. /\ LotInv'
          /\ \A s \in Task \ {t} : /\ custom_sleep_data'[s] = custom_sleep_data[s]
                                   /\ outcome'[s] = outcome[s]
          /\ \/ /\ owner = None /\ owner' = t /\ outcome'[t] = "ok"
                /\ custom_sleep_data'[t] = None /\ parked' = parked
             \/ /\ owner # None /\ owner' = owner /\ outcome'[t] = "none"
                /\ custom_sleep_data'[t] = lock_lot
        <3>1. LotInv /\ WaitersHaveOwner /\ TakeOrPark(t)
            BY <1>12 DEF LocksInv, LockAcquire, Reacquire
        <3> QED
            BY ONLY <2>1, <3>1, t \in Task, TakeOrParkOK
    <2>l. LotInv'
        BY <2>2
    <2>10. LockTypes'
        BY <1>0, <1>t, <2>1, <2>2 DEF LocksInv, LockTypes, Place
    <2>11. LockFlag'
        BY <1>12, Zenon DEF LocksInv, Reacquire, LockFlag
    <2>12. SleepsOnLock'
        BY <1>0, <1>t, <2>1, <2>2 DEF LocksInv, LockTypes, SleepsOnLock
    <2>13. HolderOwns'
        BY <1>0, <1>t, <2>1, <2>2 DEF LocksInv, LockTypes, HolderOwns, OwnerKnows, Awake,
           OkOwns, InterruptIsKnown
    <2>14. WaitersHaveOwner'
        BY <1>0, <1>t, <2>1, <2>2 DEF LocksInv, LockTypes, WaitersHaveOwner
    <2>15. OwnerKnows'
        BY <1>0, <1>t, <2>1, <2>2 DEF LocksInv, LockTypes, OwnerKnows, Awake, OkOwns, InsideLock
    <2>16. OkOwns'
        BY <1>0, <1>t, <2>1, <2>2 DEF LocksInv, LockTypes, OkOwns, OwnerKnows, Awake
    <2>17. InsideLock'
        BY <1>0, <1>t, <2>1, <2>2 DEF LocksInv, LockTypes, InsideLock, Awake, OwnerKnows
    <2>18. InterruptIsKnown'
        BY <1>0, <1>t, <2>1, <2>2 DEF LocksInv, LockTypes, InterruptIsKnown
    <2> QED
        BY <2>l, <2>10, <2>11, <2>12, <2>13, <2>14, <2>15, <2>16, <2>17, <2>18 DEF LocksInv
<1>13. ASSUME NEW t \in Task, ReacquireRaises(t) PROVE LocksInv'
    <2>1. /\ outcome[t] \in {"Cancelled", "KeyboardInterrupt"} /\ t = MainTask /\ kis > 0
          /\ outcome' = Rescheduled({t}, "none") /\ lock_pc' = [lock_pc EXCEPT ![t] = "holding"]
          /\ UNCHANGED <<parked, custom_sleep_data, owner, kis>> /\ (ki_pending' => ki_pending)
        BY <1>13 DEF ReacquireRaises, Goto, LocksInv, InterruptIsKnown
    <2>2. /\ outcome' \in [Task -> Outcome] /\ outcome'[t] = "none"
          /\ \A s \in Task \ {t} : outcome'[s] = outcome[s]
          /\ \A s \in Task : custom_sleep_data[s] # None => outcome'[s] = "none"
        BY <1>t, <2>1 DEF Rescheduled, Outcome
    <2>3. LotOK(parked, custom_sleep_data, outcome')
        BY ONLY <1>t, <2>2, OutcomeOK
    <2>l. LotInv'
        BY <2>1, <2>3 DEF LotInv
    <2>10. LockTypes'
        BY <1>0, <1>t, <2>1, <2>2 DEF LocksInv, LockTypes, Place
    <2>11. LockFlag'
        BY <1>13, Zenon DEF LocksInv, ReacquireRaises, LockFlag
    <2>12. SleepsOnLock'
        BY <1>0, <1>t, <2>1, <2>2 DEF LocksInv, LockTypes, SleepsOnLock
    <2>13. HolderOwns'
        BY <1>0, <1>t, <2>1, <2>2 DEF LocksInv, LockTypes, HolderOwns, OwnerKnows, Awake,
           OkOwns, InterruptIsKnown
    <2>14. WaitersHaveOwner'
        BY <1>0, <1>t, <2>1, <2>2 DEF LocksInv, LockTypes, WaitersHaveOwner
    <2>15. OwnerKnows'
        BY <1>0, <1>t, <2>1, <2>2 DEF LocksInv, LockTypes, OwnerKnows, Awake, OkOwns, InsideLock
    <2>16. OkOwns'
        BY <1>0, <1>t, <2>1, <2>2 DEF LocksInv, LockTypes, OkOwns, OwnerKnows, Awake
    <2>17. InsideLock'
        BY <1>0, <1>t, <2>1, <2>2 DEF LocksInv, LockTypes, InsideLock, Awake, OwnerKnows
    <2>18. InterruptIsKnown'
        BY <1>0, <1>t, <2>1, <2>2 DEF LocksInv, LockTypes, InterruptIsKnown
    <2> QED
        BY <2>l, <2>10, <2>11, <2>12, <2>13, <2>14, <2>15, <2>16, <2>17, <2>18 DEF LocksInv
<1>14. ASSUME UNCHANGED lockVars PROVE LocksInv'
    <2>1. UNCHANGED <<parked, custom_sleep_data, outcome, owner, lock_pc, ki_pending, kis>>
        BY <1>14 DEF lockVars
    <2>l. LotInv'
        BY <2>1 DEF LocksInv, LotInv, LotOK
    <2>10. LockTypes'
        BY <1>0, <1>t, <2>1 DEF LocksInv, LockTypes, Place
    <2>11. LockFlag'
        BY <1>14, Zenon DEF LocksInv, lockVars, LockFlag
    <2>12. SleepsOnLock'
        BY <1>0, <1>t, <2>1 DEF LocksInv, LockTypes, SleepsOnLock
    <2>13. HolderOwns'
        BY <1>0, <1>t, <2>1 DEF LocksInv, LockTypes, HolderOwns, OwnerKnows, Awake, OkOwns,
           InterruptIsKnown
    <2>14. WaitersHaveOwner'
        BY <1>0, <1>t, <2>1 DEF LocksInv, LockTypes, WaitersHaveOwner
    <2>15. OwnerKnows'
        BY <1>0, <1>t, <2>1 DEF LocksInv, LockTypes, OwnerKnows, Awake, OkOwns, InsideLock
    <2>16. OkOwns'
        BY <1>0, <1>t, <2>1 DEF LocksInv, LockTypes, OkOwns, OwnerKnows, Awake
    <2>17. InsideLock'
        BY <1>0, <1>t, <2>1 DEF LocksInv, LockTypes, InsideLock, Awake, OwnerKnows
    <2>18. InterruptIsKnown'
        BY <1>0, <1>t, <2>1 DEF LocksInv, LockTypes, InterruptIsKnown
    <2> QED
        BY <2>l, <2>10, <2>11, <2>12, <2>13, <2>14, <2>15, <2>16, <2>17, <2>18 DEF LocksInv
<1> QED
    BY <1>1, <1>2, <1>3, <1>4, <1>5, <1>6, <1>7, <1>8, <1>9, <1>10, <1>11, <1>12, <1>13,
       <1>14 DEF LocksNext, LockResume

--------------------------------------------------------------------------------
(***************************************************************************)
(* Semaphore                                                               *)
(***************************************************************************)

\* Counting one more or one less.
LEMMA CountOne ==
    ASSUME NEW S, IsFiniteSet(S), NEW e
    PROVE  /\ Cardinality(S) \in Nat
           /\ IsFiniteSet(S \cup {e}) /\ IsFiniteSet(S \ {e})
           /\ e \notin S => Cardinality(S \cup {e}) = Cardinality(S) + 1
           /\ e \in S => Cardinality(S \ {e}) = Cardinality(S) - 1
<1>1. Cardinality(S) \in Nat
    BY FS_CardinalityType
<1>2. /\ IsFiniteSet(S \cup {e})
      /\ Cardinality(S \cup {e}) = IF e \in S THEN Cardinality(S) ELSE Cardinality(S) + 1
    BY ONLY IsFiniteSet(S), FS_AddElement, Zenon
<1>3. /\ IsFiniteSet(S \ {e})
      /\ Cardinality(S \ {e}) = IF e \in S THEN Cardinality(S) - 1 ELSE Cardinality(S)
    BY ONLY IsFiniteSet(S), FS_RemoveElement, Zenon
<1> QED
    BY <1>1, <1>2, <1>3

\* An emptied lot stays empty when tasks only leave.
LEMMA LeavingLeavesEmpty ==
    ASSUME LotInv, LotInv', NEW l \in Lot, ToSet(parked'[l]) \subseteq ToSet(parked[l])
    PROVE  parked'[l] # <<>> => parked[l] # <<>>
<1>1. parked'[l] \in Seq(Task) /\ parked[l] \in Seq(Task)
    BY DEF LotInv, LotOK
<1>2. parked'[l] # <<>> => ToSet(parked'[l]) # {}
    BY ONLY <1>1, TailQueue
<1>3. parked[l] = <<>> => ToSet(parked[l]) = {}
    BY ONLY EmptyQueue
<1> QED
    BY <1>2, <1>3

\* All permits are there to be taken.
LEMMA SemaphoreInvInit == SemaphoreInit => SemaphoreInv
<1> SUFFICES ASSUME SemaphoreInit PROVE SemaphoreInv
    OBVIOUS
<1>1. LotInv
    BY EmptyQueue, ParkingLotAssumption DEF SemaphoreInit, LotInit, LotInv, LotOK, Outcome
<1>2. SemaphoreTypes /\ SleepsOnSemaphore /\ NothingToTake /\ InsideSemaphore
    BY SemaphoreAssumption DEF SemaphoreInit, LotInit, SemaphoreTypes, SleepsOnSemaphore,
       NothingToTake, InsideSemaphore, Awake
<1>3. Permitted = {}
    BY DEF Permitted, SemaphoreInit
<1>4. Conserved
    BY <1>3, FS_EmptySet, SemaphoreAssumption DEF Conserved, SemaphoreInit
<1> QED
    BY <1>1, <1>2, <1>4 DEF SemaphoreInv

\* The body of release(): one task more has a permit, or one permit more is there.
LEMMA PutBackOK ==
    ASSUME SemaphoreInv, PutBack
    PROVE  /\ LotInv'
           /\ \/ \E h \in Task :
                    /\ custom_sleep_data[h] = semaphore_lot
                    /\ custom_sleep_data'[h] = None /\ outcome'[h] = "ok"
                    /\ \A s \in Task \ {h} : /\ custom_sleep_data'[s] = custom_sleep_data[s]
                                             /\ outcome'[s] = outcome[s]
                    /\ value' = value /\ value = 0
              \/ /\ parked[semaphore_lot] = <<>> /\ value # max_value /\ value' = value + 1
                 /\ UNCHANGED <<parked, custom_sleep_data, outcome>>
<1>0. semaphore_lot \in Lot
    BY SemaphoreAssumption
<1>1. CASE parked[semaphore_lot] # <<>>
    <2> DEFINE next == Popped(parked[semaphore_lot], 1)
    <2>1. /\ parked' = Pop(parked, semaphore_lot, 1)
          /\ custom_sleep_data' = SleepOn(ToSet(next), None)
          /\ outcome' = Rescheduled(ToSet(next), "ok")
          /\ value' = value
        BY <1>1 DEF PutBack
    <2>2. LotInv /\ value = 0
        BY <1>1 DEF SemaphoreInv, NothingToTake
    <2>3. next = Popped(parked[semaphore_lot], 1)
        OBVIOUS
    <2> HIDE DEF next
    <2>4. /\ LotOK(parked', custom_sleep_data', outcome')
          /\ \A s \in Task :
                /\ custom_sleep_data'[s] = IF s \in ToSet(next) THEN None ELSE custom_sleep_data[s]
                /\ outcome'[s] = IF s \in ToSet(next) THEN "ok" ELSE outcome[s]
          /\ next[1] \in Task /\ ToSet(next) = {next[1]}
          /\ custom_sleep_data[next[1]] = semaphore_lot
        BY ONLY <1>0, <1>1, <2>1, <2>2, <2>3, HandOverOK
    <2>5. \A s \in Task \ {next[1]} : /\ custom_sleep_data'[s] = custom_sleep_data[s]
                                      /\ outcome'[s] = outcome[s]
        BY <2>4
    <2>6. custom_sleep_data'[next[1]] = None /\ outcome'[next[1]] = "ok"
        BY <2>4
    <2> QED
        BY <2>1, <2>2, <2>4, <2>5, <2>6 DEF LotInv
<1>2. CASE parked[semaphore_lot] = <<>>
    <2>1. /\ value # max_value /\ value' = value + 1
          /\ UNCHANGED <<parked, custom_sleep_data, outcome>>
        BY <1>2 DEF PutBack
    <2> QED
        BY <1>2, <2>1 DEF SemaphoreInv, LotInv, LotOK
<1> QED
    BY <1>1, <1>2

\* Every step of a task, and every release out of the blue, keeps the invariant.
LEMMA SemaphoreInvNext == SemaphoreInv /\ [SemaphoreNext]_semaphoreVars => SemaphoreInv'
<1> SUFFICES ASSUME SemaphoreInv, [SemaphoreNext]_semaphoreVars
             PROVE  SemaphoreInv'
    OBVIOUS
<1>0. /\ semaphore_lot \in Lot /\ None \notin Task \cup Lot
      /\ initial_value \in Nat /\ MaxExtra \in Nat
      /\ max_value # None => max_value \in Nat
    BY SemaphoreAssumption, ParkingLotAssumption
<1>t. /\ parked \in [Lot -> Seq(Task)] /\ custom_sleep_data \in [Task -> Lot \cup {None}]
      /\ outcome \in [Task -> Outcome]
      /\ \A s \in Task : custom_sleep_data[s] # None => outcome[s] = "none"
      /\ LotOK(parked, custom_sleep_data, outcome)
    BY DEF SemaphoreInv, LotInv, LotOK
<1>f. IsFiniteSet(Permitted) /\ Cardinality(Permitted) \in Nat
    BY SyncAssumption, FS_Subset, FS_CardinalityType DEF Permitted
<1>c. value + Cardinality(Permitted) = initial_value + extra
    BY DEF SemaphoreInv, Conserved
<1>1. ASSUME NEW t \in Task, SemaphoreAcquireNowait(t) PROVE SemaphoreInv'
    <2>1. /\ Awake(t) /\ semaphore_pc[t] = "idle" /\ value > 0 /\ value' = value - 1
          /\ semaphore_pc' = [semaphore_pc EXCEPT ![t] = "holding"]
          /\ UNCHANGED <<parked, custom_sleep_data, outcome, extra>>
        BY <1>1 DEF SemaphoreAcquireNowait
    <2>l. LotInv'
        BY <2>1 DEF SemaphoreInv, LotInv, LotOK
    <2>2. Permitted' = Permitted \cup {t} /\ t \notin Permitted
        BY <2>1 DEF Permitted, SemaphoreInv, SemaphoreTypes
    <2>3. Cardinality(Permitted') = Cardinality(Permitted) + 1
        BY ONLY <1>f, <2>2, CountOne
    <2>20. SemaphoreTypes'
        BY <1>0, <1>t, <2>1 DEF SemaphoreInv, SemaphoreTypes
    <2>21. SleepsOnSemaphore'
        BY <1>0, <1>t, <2>1 DEF SemaphoreInv, SemaphoreTypes, SleepsOnSemaphore
    <2>22. NothingToTake'
        BY <1>0, <1>t, <2>1 DEF SemaphoreInv, SemaphoreTypes, NothingToTake
    <2>23. Conserved'
        BY <1>0, <1>c, <1>f, <2>1, <2>3 DEF Conserved, SemaphoreInv, SemaphoreTypes
    <2>24. InsideSemaphore'
        BY <1>0, <1>t, <2>1 DEF SemaphoreInv, SemaphoreTypes, InsideSemaphore, Awake
    <2> QED
        BY <2>l, <2>20, <2>21, <2>22, <2>23, <2>24 DEF SemaphoreInv
<1>2. ASSUME NEW t \in Task, SemaphoreAcquire(t) PROVE SemaphoreInv'
    <2>1. /\ Awake(t) /\ semaphore_pc[t] = "idle"
          /\ custom_sleep_data[t] = None /\ outcome[t] = "none"
          /\ semaphore_pc' = [semaphore_pc EXCEPT ![t] = "acquiring"] /\ extra' = extra
        BY <1>2 DEF SemaphoreAcquire, Awake
    <2>2. CASE value > 0
        <3>1. /\ value' = value - 1 /\ outcome' = Rescheduled({t}, "ok")
              /\ UNCHANGED <<parked, custom_sleep_data>>
            BY <1>2, <2>2 DEF SemaphoreAcquire
        <3>2. /\ outcome' \in [Task -> Outcome] /\ outcome'[t] = "ok"
              /\ \A s \in Task \ {t} : outcome'[s] = outcome[s]
              /\ \A s \in Task : custom_sleep_data[s] # None => outcome'[s] = "none"
            BY <1>t, <2>1, <3>1 DEF Rescheduled, Outcome
        <3>3. LotOK(parked, custom_sleep_data, outcome')
            BY ONLY <1>t, <3>2, OutcomeOK
        <3>l. LotInv'
            BY <3>1, <3>3 DEF LotInv
        <3>4. Permitted' = Permitted \cup {t} /\ t \notin Permitted
            BY <2>1, <3>1, <3>2 DEF Permitted, SemaphoreInv, SemaphoreTypes
        <3>5. Cardinality(Permitted') = Cardinality(Permitted) + 1
            BY ONLY <1>f, <3>4, CountOne
        <3>20. SemaphoreTypes'
            BY <1>0, <1>t, <2>1, <2>2, <3>1, <3>2 DEF SemaphoreInv, SemaphoreTypes
        <3>21. SleepsOnSemaphore'
            BY <1>0, <1>t, <2>1, <2>2, <3>1, <3>2 DEF SemaphoreInv, SemaphoreTypes,
               SleepsOnSemaphore
        <3>22. NothingToTake'
            BY <1>0, <1>t, <2>1, <2>2, <3>1, <3>2 DEF SemaphoreInv, SemaphoreTypes,
               NothingToTake
        <3>23. Conserved'
            BY <1>0, <1>c, <1>f, <2>1, <2>2, <3>1, <3>5 DEF Conserved, SemaphoreInv,
               SemaphoreTypes
        <3>24. InsideSemaphore'
            BY <1>0, <1>t, <2>1, <2>2, <3>1, <3>2 DEF SemaphoreInv, SemaphoreTypes,
               InsideSemaphore, Awake
        <3> QED
            BY <3>l, <3>20, <3>21, <3>22, <3>23, <3>24 DEF SemaphoreInv
    <2>3. CASE ~ (value > 0)
        <3>1. /\ parked' = Park(parked, t, semaphore_lot)
              /\ custom_sleep_data' = SleepOn({t}, semaphore_lot)
              /\ UNCHANGED <<value, outcome>>
            BY <1>2, <2>3 DEF SemaphoreAcquire
        <3>2. /\ custom_sleep_data' \in [Task -> Lot \cup {None}]
              /\ outcome' \in [Task -> Outcome]
              /\ custom_sleep_data'[t] = semaphore_lot /\ outcome'[t] = "none"
              /\ \A s \in Task \ {t} : /\ custom_sleep_data'[s] = custom_sleep_data[s]
                                       /\ outcome'[s] = outcome[s]
            BY <1>0, <1>t, <2>1, <3>1 DEF SleepOn
        <3>3. LotOK(Park(parked, t, semaphore_lot), custom_sleep_data', outcome')
            BY ONLY <1>0, <1>t, <2>1, <3>2, t \in Task, ParkOK, SMTT(20)
        <3>l. LotInv'
            BY <3>1, <3>3 DEF LotInv
        <3>4. Permitted' = Permitted
            BY <2>1, <3>1, <3>2 DEF Permitted, SemaphoreInv, SemaphoreTypes
        <3>20. SemaphoreTypes'
            BY <1>0, <1>t, <2>1, <2>3, <3>1, <3>2 DEF SemaphoreInv, SemaphoreTypes
        <3>21. SleepsOnSemaphore'
            BY <1>0, <1>t, <2>1, <2>3, <3>1, <3>2 DEF SemaphoreInv, SemaphoreTypes,
               SleepsOnSemaphore
        <3>22. NothingToTake'
            BY <1>0, <1>t, <2>1, <2>3, <3>1, <3>2 DEF SemaphoreInv, SemaphoreTypes,
               NothingToTake
        <3>23. Conserved'
            BY <1>0, <1>c, <1>f, <2>1, <3>1, <3>4 DEF Conserved, SemaphoreInv, SemaphoreTypes
        <3>24. InsideSemaphore'
            BY <1>0, <1>t, <2>1, <2>3, <3>1, <3>2 DEF SemaphoreInv, SemaphoreTypes,
               InsideSemaphore, Awake
        <3> QED
            BY <3>l, <3>20, <3>21, <3>22, <3>23, <3>24 DEF SemaphoreInv
    <2> QED
        BY <2>2, <2>3
<1>3. ASSUME NEW t \in Task, SemaphoreRelease(t) PROVE SemaphoreInv'
    <2>1. /\ Awake(t) /\ semaphore_pc[t] = "holding"
          /\ semaphore_pc' = [semaphore_pc EXCEPT ![t] = "idle"] /\ extra' = extra
        BY <1>3 DEF SemaphoreRelease
    <2>2. /\ LotInv'
          /\ \/ \E h \in Task :
                   /\ custom_sleep_data[h] = semaphore_lot
                   /\ custom_sleep_data'[h] = None /\ outcome'[h] = "ok"
                   /\ \A s \in Task \ {h} : /\ custom_sleep_data'[s] = custom_sleep_data[s]
                                            /\ outcome'[s] = outcome[s]
                   /\ value' = value /\ value = 0
             \/ /\ parked[semaphore_lot] = <<>> /\ value # max_value /\ value' = value + 1
                /\ UNCHANGED <<parked, custom_sleep_data, outcome>>
        <3>1. SemaphoreInv /\ PutBack
            BY <1>3 DEF SemaphoreRelease, SemaphoreReleaseExtra
        <3> QED
            BY ONLY <3>1, PutBackOK
    <2>p. t \in Permitted
        BY <2>1 DEF Permitted
    <2>q. IsFiniteSet(Permitted \ {t}) /\ Cardinality(Permitted \ {t}) = Cardinality(Permitted) - 1
        BY ONLY <1>f, <2>p, CountOne
    <2>3. CASE value' = value /\ value = 0 /\ \E h \in Task :
                  /\ custom_sleep_data[h] = semaphore_lot
                  /\ custom_sleep_data'[h] = None /\ outcome'[h] = "ok"
                  /\ \A s \in Task \ {h} : /\ custom_sleep_data'[s] = custom_sleep_data[s]
                                           /\ outcome'[s] = outcome[s]
        <3>1. PICK h \in Task :
                  /\ custom_sleep_data[h] = semaphore_lot
                  /\ custom_sleep_data'[h] = None /\ outcome'[h] = "ok"
                  /\ \A s \in Task \ {h} : /\ custom_sleep_data'[s] = custom_sleep_data[s]
                                           /\ outcome'[s] = outcome[s]
            BY <2>3
        <3>2. semaphore_pc[h] = "acquiring" /\ outcome[h] = "none" /\ h # t
            BY <1>0, <1>t, <2>1, <3>1 DEF SemaphoreInv, InsideSemaphore, Awake
        <3>l. LotInv'
            BY <2>2
        <3>3. Permitted' = (Permitted \ {t}) \cup {h} /\ h \notin Permitted \ {t}
            BY <2>1, <3>1, <3>2 DEF Permitted, SemaphoreInv, SemaphoreTypes
        <3>4. Cardinality(Permitted') = Cardinality(Permitted \ {t}) + 1
            BY ONLY <1>f, <2>q, <3>3, CountOne
        <3>5. value' = 0
            BY <2>3
        <3>20. SemaphoreTypes'
            BY <1>0, <1>t, <2>1, <2>3, <3>1, <3>2, <3>5 DEF SemaphoreInv, SemaphoreTypes
        <3>21. SleepsOnSemaphore'
            BY <1>0, <1>t, <2>1, <2>3, <3>1, <3>2, <3>5 DEF SemaphoreInv, SemaphoreTypes,
               SleepsOnSemaphore
        <3>22. NothingToTake'
            BY <1>0, <1>t, <2>1, <2>3, <3>1, <3>2, <3>5 DEF SemaphoreInv, SemaphoreTypes,
               NothingToTake
        <3>23. Conserved'
            BY <1>0, <1>c, <1>f, <2>1, <2>3, <3>4, <2>q DEF Conserved, SemaphoreInv,
               SemaphoreTypes
        <3>24. InsideSemaphore'
            BY <1>0, <1>t, <2>1, <2>3, <3>1, <3>2, <3>5 DEF SemaphoreInv, SemaphoreTypes,
               InsideSemaphore, Awake
        <3> QED
            BY <3>l, <3>20, <3>21, <3>22, <3>23, <3>24 DEF SemaphoreInv
    <2>4. CASE /\ parked[semaphore_lot] = <<>> /\ value # max_value /\ value' = value + 1
               /\ UNCHANGED <<parked, custom_sleep_data, outcome>>
        <3>l. LotInv'
            BY <2>2
        <3>3. Permitted' = Permitted \ {t}
            BY <2>1, <2>4 DEF Permitted, SemaphoreInv, SemaphoreTypes
        <3>20. SemaphoreTypes'
            BY <1>0, <1>t, <2>1, <2>4 DEF SemaphoreInv, SemaphoreTypes
        <3>21. SleepsOnSemaphore'
            BY <1>0, <1>t, <2>1, <2>4 DEF SemaphoreInv, SemaphoreTypes, SleepsOnSemaphore
        <3>22. NothingToTake'
            BY <1>0, <1>t, <2>1, <2>4 DEF SemaphoreInv, SemaphoreTypes, NothingToTake
        <3>23. Conserved'
            BY <1>0, <1>c, <1>f, <2>1, <2>4, <3>3, <2>q DEF Conserved, SemaphoreInv,
               SemaphoreTypes
        <3>24. InsideSemaphore'
            BY <1>0, <1>t, <2>1, <2>4 DEF SemaphoreInv, SemaphoreTypes, InsideSemaphore, Awake
        <3> QED
            BY <3>l, <3>20, <3>21, <3>22, <3>23, <3>24 DEF SemaphoreInv
    <2> QED
        BY <2>2, <2>3, <2>4
<1>4. ASSUME SemaphoreReleaseExtra PROVE SemaphoreInv'
    <2>1. extra < MaxExtra /\ extra' = extra + 1 /\ semaphore_pc' = semaphore_pc
        BY <1>4 DEF SemaphoreReleaseExtra
    <2>2. /\ LotInv'
          /\ \/ \E h \in Task :
                   /\ custom_sleep_data[h] = semaphore_lot
                   /\ custom_sleep_data'[h] = None /\ outcome'[h] = "ok"
                   /\ \A s \in Task \ {h} : /\ custom_sleep_data'[s] = custom_sleep_data[s]
                                            /\ outcome'[s] = outcome[s]
                   /\ value' = value /\ value = 0
             \/ /\ parked[semaphore_lot] = <<>> /\ value # max_value /\ value' = value + 1
                /\ UNCHANGED <<parked, custom_sleep_data, outcome>>
        <3>1. SemaphoreInv /\ PutBack
            BY <1>4 DEF SemaphoreRelease, SemaphoreReleaseExtra
        <3> QED
            BY ONLY <3>1, PutBackOK
    <2>3. CASE value' = value /\ value = 0 /\ \E h \in Task :
                  /\ custom_sleep_data[h] = semaphore_lot
                  /\ custom_sleep_data'[h] = None /\ outcome'[h] = "ok"
                  /\ \A s \in Task \ {h} : /\ custom_sleep_data'[s] = custom_sleep_data[s]
                                           /\ outcome'[s] = outcome[s]
        <3>1. PICK h \in Task :
                  /\ custom_sleep_data[h] = semaphore_lot
                  /\ custom_sleep_data'[h] = None /\ outcome'[h] = "ok"
                  /\ \A s \in Task \ {h} : /\ custom_sleep_data'[s] = custom_sleep_data[s]
                                           /\ outcome'[s] = outcome[s]
            BY <2>3
        <3>2. semaphore_pc[h] = "acquiring" /\ outcome[h] = "none"
            BY <1>0, <1>t, <2>1, <3>1 DEF SemaphoreInv, InsideSemaphore, Awake
        <3>l. LotInv'
            BY <2>2
        <3>3. Permitted' = (Permitted) \cup {h} /\ h \notin Permitted
            BY <2>1, <3>1, <3>2 DEF Permitted, SemaphoreInv, SemaphoreTypes
        <3>4. Cardinality(Permitted') = Cardinality(Permitted) + 1
            BY ONLY <1>f, <3>3, CountOne
        <3>5. value' = 0
            BY <2>3
        <3>20. SemaphoreTypes'
            BY <1>0, <1>t, <2>1, <2>3, <3>1, <3>2, <3>5 DEF SemaphoreInv, SemaphoreTypes
        <3>21. SleepsOnSemaphore'
            BY <1>0, <1>t, <2>1, <2>3, <3>1, <3>2, <3>5 DEF SemaphoreInv, SemaphoreTypes,
               SleepsOnSemaphore
        <3>22. NothingToTake'
            BY <1>0, <1>t, <2>1, <2>3, <3>1, <3>2, <3>5 DEF SemaphoreInv, SemaphoreTypes,
               NothingToTake
        <3>23. Conserved'
            BY <1>0, <1>c, <1>f, <2>1, <2>3, <3>4 DEF Conserved, SemaphoreInv, SemaphoreTypes
        <3>24. InsideSemaphore'
            BY <1>0, <1>t, <2>1, <2>3, <3>1, <3>2, <3>5 DEF SemaphoreInv, SemaphoreTypes,
               InsideSemaphore, Awake
        <3> QED
            BY <3>l, <3>20, <3>21, <3>22, <3>23, <3>24 DEF SemaphoreInv
    <2>4. CASE /\ parked[semaphore_lot] = <<>> /\ value # max_value /\ value' = value + 1
               /\ UNCHANGED <<parked, custom_sleep_data, outcome>>
        <3>l. LotInv'
            BY <2>2
        <3>3. Permitted' = Permitted
            BY <2>1, <2>4 DEF Permitted, SemaphoreInv, SemaphoreTypes
        <3>20. SemaphoreTypes'
            BY <1>0, <1>t, <2>1, <2>4 DEF SemaphoreInv, SemaphoreTypes
        <3>21. SleepsOnSemaphore'
            BY <1>0, <1>t, <2>1, <2>4 DEF SemaphoreInv, SemaphoreTypes, SleepsOnSemaphore
        <3>22. NothingToTake'
            BY <1>0, <1>t, <2>1, <2>4 DEF SemaphoreInv, SemaphoreTypes, NothingToTake
        <3>23. Conserved'
            BY <1>0, <1>c, <1>f, <2>1, <2>4, <3>3 DEF Conserved, SemaphoreInv, SemaphoreTypes
        <3>24. InsideSemaphore'
            BY <1>0, <1>t, <2>1, <2>4 DEF SemaphoreInv, SemaphoreTypes, InsideSemaphore, Awake
        <3> QED
            BY <3>l, <3>20, <3>21, <3>22, <3>23, <3>24 DEF SemaphoreInv
    <2> QED
        BY <2>2, <2>3, <2>4
<1>5. ASSUME NEW t \in Task, SemaphoreCancel(t) PROVE SemaphoreInv'
    <2>1. Abort(t, "Cancelled") /\ UNCHANGED <<value, semaphore_pc, extra>>
        BY <1>5 DEF SemaphoreCancel
    <2>2. /\ LotInv'
          /\ custom_sleep_data[t] \in Lot
          /\ custom_sleep_data'[t] = None /\ outcome'[t] = "Cancelled"
          /\ \A s \in Task \ {t} : /\ custom_sleep_data'[s] = custom_sleep_data[s]
                                   /\ outcome'[s] = outcome[s]
          /\ \A l \in Lot : ToSet(parked'[l]) = ToSet(parked[l]) \ {t}
        <3>1. LotInv /\ "Cancelled" \in Outcome
            BY DEF SemaphoreInv, Outcome
        <3> QED
            BY ONLY <2>1, <3>1, t \in Task, AbortOK
    <2>l. LotInv'
        BY <2>2
    <2>3. parked'[semaphore_lot] # <<>> => parked[semaphore_lot] # <<>>
        <3>1. LotInv /\ ToSet(parked'[semaphore_lot]) \subseteq ToSet(parked[semaphore_lot])
            BY <1>0, <2>2 DEF SemaphoreInv
        <3> QED
            BY ONLY <1>0, <2>l, <3>1, LeavingLeavesEmpty
    <2>4. outcome[t] = "none"
        BY <1>0, <1>t, <2>2
    <2>5. Permitted' = Permitted
        BY <2>1, <2>2, <2>4 DEF Permitted, SemaphoreInv, SemaphoreTypes
    <2>20. SemaphoreTypes'
        BY <1>0, <1>t, <2>1, <2>2, <2>3 DEF SemaphoreInv, SemaphoreTypes
    <2>21. SleepsOnSemaphore'
        BY <1>0, <1>t, <2>1, <2>2, <2>3 DEF SemaphoreInv, SemaphoreTypes, SleepsOnSemaphore
    <2>22. NothingToTake'
        BY <1>0, <1>t, <2>1, <2>2, <2>3 DEF SemaphoreInv, SemaphoreTypes, NothingToTake
    <2>23. Conserved'
        BY <1>0, <1>c, <1>f, <2>1, <2>5 DEF Conserved, SemaphoreInv, SemaphoreTypes
    <2>24. InsideSemaphore'
        BY <1>0, <1>t, <2>1, <2>2, <2>3 DEF SemaphoreInv, SemaphoreTypes, InsideSemaphore, Awake
    <2> QED
        BY <2>l, <2>20, <2>21, <2>22, <2>23, <2>24 DEF SemaphoreInv
<1>6. ASSUME NEW t \in Task, SemaphoreResume(t) PROVE SemaphoreInv'
    <2>1. /\ outcome[t] # "none" /\ outcome' = Rescheduled({t}, "none")
          /\ semaphore_pc' = [semaphore_pc EXCEPT
                ![t] = IF outcome[t] = "ok" THEN "holding" ELSE "idle"]
          /\ UNCHANGED <<parked, custom_sleep_data, value, extra>>
        BY <1>6 DEF SemaphoreResume
    <2>2. /\ outcome' \in [Task -> Outcome] /\ outcome'[t] = "none"
          /\ \A s \in Task \ {t} : outcome'[s] = outcome[s]
          /\ \A s \in Task : custom_sleep_data[s] # None => outcome'[s] = "none"
        BY <1>t, <2>1 DEF Rescheduled, Outcome
    <2>3. LotOK(parked, custom_sleep_data, outcome')
        BY ONLY <1>t, <2>2, OutcomeOK
    <2>l. LotInv'
        BY <2>1, <2>3 DEF LotInv
    <2>4. semaphore_pc[t] = "acquiring"
        BY <2>1 DEF SemaphoreInv, InsideSemaphore, Awake
    <2>5. Permitted' = Permitted
        BY <2>1, <2>2, <2>4 DEF Permitted, SemaphoreInv, SemaphoreTypes
    <2>20. SemaphoreTypes'
        BY <1>0, <1>t, <1>t, <2>1, <2>2 DEF SemaphoreInv, SemaphoreTypes
    <2>21. SleepsOnSemaphore'
        BY <1>0, <1>t, <1>t, <2>1, <2>2 DEF SemaphoreInv, SemaphoreTypes, SleepsOnSemaphore
    <2>22. NothingToTake'
        BY <1>0, <1>t, <1>t, <2>1, <2>2 DEF SemaphoreInv, SemaphoreTypes, NothingToTake
    <2>23. Conserved'
        BY <1>0, <1>c, <1>f, <2>1, <2>5 DEF Conserved, SemaphoreInv, SemaphoreTypes
    <2>24. InsideSemaphore'
        BY <1>0, <1>t, <1>t, <2>1, <2>2 DEF SemaphoreInv, SemaphoreTypes, InsideSemaphore, Awake
    <2> QED
        BY <2>l, <2>20, <2>21, <2>22, <2>23, <2>24 DEF SemaphoreInv
<1>7. ASSUME UNCHANGED semaphoreVars PROVE SemaphoreInv'
    <2>1. UNCHANGED <<parked, custom_sleep_data, outcome, value, semaphore_pc, extra>>
        BY <1>7 DEF semaphoreVars
    <2>l. LotInv'
        BY <2>1 DEF SemaphoreInv, LotInv, LotOK
    <2>2. Permitted' = Permitted
        BY <2>1 DEF Permitted
    <2>20. SemaphoreTypes'
        BY <1>0, <1>t, <2>1 DEF SemaphoreInv, SemaphoreTypes
    <2>21. SleepsOnSemaphore'
        BY <1>0, <1>t, <2>1 DEF SemaphoreInv, SemaphoreTypes, SleepsOnSemaphore
    <2>22. NothingToTake'
        BY <1>0, <1>t, <2>1 DEF SemaphoreInv, SemaphoreTypes, NothingToTake
    <2>23. Conserved'
        BY <1>0, <1>c, <1>f, <2>1, <2>2 DEF Conserved, SemaphoreInv, SemaphoreTypes
    <2>24. InsideSemaphore'
        BY <1>0, <1>t, <2>1 DEF SemaphoreInv, SemaphoreTypes, InsideSemaphore, Awake
    <2> QED
        BY <2>l, <2>20, <2>21, <2>22, <2>23, <2>24 DEF SemaphoreInv
<1> QED
    BY <1>1, <1>2, <1>3, <1>4, <1>5, <1>6, <1>7 DEF SemaphoreNext

--------------------------------------------------------------------------------
(***************************************************************************)
(* CapacityLimiter                                                         *)
(***************************************************************************)

\* No object is borrowed for by two tasks: each borrows for itself, or for
\* objects of its own.  Without it a borrower can be granted two tokens.
OwnObjects == \A s, t \in Task : s # t => OnBehalfOf[s] \cap OnBehalfOf[t] = {}

\* As many values as arguments.
LEMMA ImageCount ==
    ASSUME NEW f, NEW W, IsFiniteSet(W),
           \A s, t \in W : f[s] = f[t] => s = t,
           NEW X, \A t \in W : f[t] \in X, \A y \in X : \E t \in W : y = f[t]
    PROVE  IsFiniteSet(X) /\ Cardinality(X) = Cardinality(W)
<1> DEFINE g == [t \in W |-> f[t]]
<1>1. g \in [W -> X] /\ \A t \in W : g[t] = f[t]
    OBVIOUS
<1> HIDE DEF g
<1>2. g \in Injection(W, X)
    BY <1>1 DEF Injection, IsInjective
<1>3. g \in Surjection(W, X)
    BY <1>1 DEF Surjection
<1>4. ExistsBijection(W, X)
    BY <1>2, <1>3 DEF ExistsBijection, Bijection
<1> QED
    BY <1>4, FS_Bijection

\* No token is out.
LEMMA LimiterInvInit == LimiterInit => LimiterInv
<1> SUFFICES ASSUME LimiterInit PROVE LimiterInv
    OBVIOUS
<1>1. LotInv
    BY EmptyQueue, ParkingLotAssumption DEF LimiterInit, LotInit, LotInv, LotOK, Outcome
<1>2. LimiterTypes
    BY FS_EmptySet DEF LimiterInit, LimiterTypes
<1>3. parked[limiter_lot] = <<>>
    BY LimiterAssumption DEF LimiterInit, LotInit
<1>4. SleepsOnLimiter /\ NoTokenIdle /\ OneGrant /\ PendingIsFree
    BY <1>3, EmptyQueue DEF LimiterInit, LotInit, SleepsOnLimiter, NoTokenIdle, OneGrant,
       PendingIsFree
<1> QED
    BY <1>1, <1>2, <1>4 DEF LimiterInv

\* _wake_waiters(): it stops only when the sack is empty or nobody waits.
LEMMA WakeWaitersOK ==
    ASSUME OwnObjects, LimiterInv, NEW B \in SUBSET borrowers, NEW total \in 1 .. MaxTokens,
           total_tokens' = total, WakeWaiters(B, total)
    PROVE  LimiterInv'
<1>0. limiter_lot \in Lot /\ None \notin Lot /\ None \notin Borrower /\ MaxTokens \in Nat
      /\ OnBehalfOf \in [Task -> SUBSET Borrower]
    BY LimiterAssumption, ParkingLotAssumption
<1>t. /\ custom_sleep_data \in [Task -> Lot \cup {None}] /\ outcome \in [Task -> Outcome]
      /\ LotOK(parked, custom_sleep_data, outcome)
      /\ borrowers \in SUBSET Borrower /\ IsFiniteSet(borrowers)
      /\ pending_borrowers \in [Task -> Borrower \cup {None}] /\ grants \in [Borrower -> Nat]
    BY DEF LimiterInv, LimiterTypes, LotInv, LotOK
<1> DEFINE q == parked[limiter_lot]
           available == total - Cardinality(B)
           n == PopCount(q, available)
           w == ToSet(Popped(q, available))
           X == {pending_borrowers[t] : t \in w}
<1>1. /\ parked' = Pop(parked, limiter_lot, available)
      /\ custom_sleep_data' = SleepOn(w, None)
      /\ outcome' = Rescheduled(w, "ok")
      /\ borrowers' = B \cup X
      /\ pending_borrowers' = [t \in Task |-> IF t \in w THEN None ELSE pending_borrowers[t]]
      /\ grants' = [b \in Borrower |->
            (IF b \in borrowers \ B THEN grants[b] - 1 ELSE grants[b])
            + Cardinality({t \in w : pending_borrowers[t] = b})]
    BY DEF WakeWaiters
<1>2. IsFiniteSet(B) /\ Cardinality(B) \in Nat
    BY <1>t, FS_Subset, FS_CardinalityType
<1>3. available \in Int
    BY <1>2
<1>4. q \in Seq(Task) /\ IsInjective(q)
    BY <1>0 DEF LimiterInv, LotInv, LotOK
<1> HIDE DEF available, q
<1>5. n \in 0 .. Len(q) /\ (n < Len(q) => n >= available)
    BY ONLY <1>3, <1>4, PopCountInRange
<1>6. /\ Popped(q, available) \in Seq(Task) /\ IsInjective(Popped(q, available))
      /\ Len(Popped(q, available)) = n
      /\ Left(q, available) \in Seq(Task) /\ Len(Left(q, available)) = Len(q) - n
      /\ ToSet(Left(q, available)) = ToSet(q) \ w
      /\ w \subseteq ToSet(q)
    <2>1. Popped(q, available) = SubSeq(q, 1, n) /\ Left(q, available) = SubSeq(q, n + 1, Len(q))
        BY DEF Popped, Left
    <2> HIDE DEF n
    <2>2. /\ SubSeq(q, 1, n) \in Seq(Task) /\ SubSeq(q, n + 1, Len(q)) \in Seq(Task)
          /\ Len(SubSeq(q, 1, n)) = n /\ Len(SubSeq(q, n + 1, Len(q))) = Len(q) - n
          /\ IsInjective(SubSeq(q, 1, n))
          /\ ToSet(SubSeq(q, n + 1, Len(q))) = ToSet(q) \ ToSet(SubSeq(q, 1, n))
          /\ ToSet(SubSeq(q, 1, n)) \subseteq ToSet(q)
        BY ONLY <1>4, <1>5, CutQueue
    <2> QED
        BY ONLY <2>1, <2>2
<1> HIDE DEF n
<1>7. IsFiniteSet(w) /\ Cardinality(w) = n /\ w \subseteq Task
    <2>1. w \subseteq Task
        BY <1>6 DEF ToSet
    <2> QED
        BY ONLY <1>6, <2>1, LenIsCardinality
<1>8. \A s \in Task : /\ custom_sleep_data'[s] = IF s \in w THEN None ELSE custom_sleep_data[s]
                      /\ outcome'[s] = IF s \in w THEN "ok" ELSE outcome[s]
                      /\ pending_borrowers'[s] = IF s \in w THEN None ELSE pending_borrowers[s]
    BY <1>1 DEF SleepOn, Rescheduled
<1>9. /\ custom_sleep_data' \in [Task -> Lot \cup {None}] /\ outcome' \in [Task -> Outcome]
      /\ pending_borrowers' \in [Task -> Borrower \cup {None}]
    BY <1>1, <1>t DEF SleepOn, Rescheduled, Outcome
<1>l. LotInv' /\ parked'[limiter_lot] = Left(q, available)
    <2>1. \A s \in Task : IF s \in ToSet(Popped(parked[limiter_lot], available))
                          THEN custom_sleep_data'[s] = None
                          ELSE /\ custom_sleep_data'[s] = custom_sleep_data[s]
                               /\ outcome'[s] = outcome[s]
        BY <1>8 DEF q
    <2>2. /\ LotOK(Pop(parked, limiter_lot, available), custom_sleep_data', outcome')
          /\ Pop(parked, limiter_lot, available)[limiter_lot] = Left(parked[limiter_lot], available)
        <3>1. LotOK(parked, custom_sleep_data, outcome) /\ limiter_lot \in Lot
            BY <1>0, <1>t
        <3>2. custom_sleep_data' \in [Task -> Lot \cup {None}] /\ outcome' \in [Task -> Outcome]
            BY <1>9
        <3> QED
            BY ONLY <1>3, <2>1, <3>1, <3>2, PopOK
    <2> QED
        BY ONLY <1>1, <2>2 DEF LotInv, q
<1> HIDE DEF w
<1>10. \A t \in Task : t \in ToSet(q) => pending_borrowers[t] \in OnBehalfOf[t] \ borrowers
    BY DEF LimiterInv, PendingIsFree, q
<1>11. \A s, t \in Task : s \in ToSet(q) /\ t \in ToSet(q) /\ pending_borrowers[s] = pending_borrowers[t]
                          => s = t
    BY <1>10 DEF OwnObjects
<1>12. \A s, t \in w : pending_borrowers[s] = pending_borrowers[t] => s = t
    BY <1>6, <1>7, <1>11
<1>13. \A b \in X : \E t \in w : b = pending_borrowers[t]
    OBVIOUS
<1>14. \A t \in w : pending_borrowers[t] \in X
    OBVIOUS
<1>15. X \in SUBSET Borrower /\ X \cap borrowers = {}
    BY <1>0, <1>6, <1>7, <1>10
<1> HIDE DEF X
<1>16. IsFiniteSet(X) /\ Cardinality(X) = n
    <2>1. w \in SUBSET Task /\ IsFiniteSet(w)
        BY <1>7
    <2>2. pending_borrowers \in [Task -> Borrower \cup {None}]
        BY <1>t
    <2>3. IsFiniteSet(X) /\ Cardinality(X) = Cardinality(w)
        BY ONLY <1>12, <1>13, <1>14, <2>1, <2>2, ImageCount
    <2> QED
        BY ONLY <1>7, <2>3
<1>17. IsFiniteSet(B \cup X) /\ Cardinality(B \cup X) = Cardinality(B) + n
    <2>1. B \cap X = {}
        BY <1>15
    <2>2. Cardinality(B \cup X) = Cardinality(B) + Cardinality(X) - Cardinality(B \cap X)
          /\ IsFiniteSet(B \cup X)
        BY ONLY <1>2, <1>16, FS_Union
    <2>3. Cardinality(B \cap X) = 0
        BY <2>1, FS_EmptySet
    <2>4. n \in Nat
        BY ONLY <1>4, <1>5
    <2> QED
        BY ONLY <1>2, <1>16, <2>2, <2>3, <2>4
<1>18. ASSUME NEW b \in Borrower
       PROVE  Cardinality({t \in w : pending_borrowers[t] = b}) = IF b \in X THEN 1 ELSE 0
    <2>1. CASE b \in X
        <3>1. PICK t \in w : b = pending_borrowers[t]
            BY <1>13, <2>1
        <3>2. {s \in w : pending_borrowers[s] = b} = {t}
            BY <1>12, <3>1
        <3> QED
            BY <2>1, <3>2, FS_Singleton
    <2>2. CASE b \notin X
        <3>1. {s \in w : pending_borrowers[s] = b} = {}
            BY <1>14, <2>2
        <3> QED
            BY <2>2, <3>1, FS_EmptySet
    <2> QED
        BY <2>1, <2>2
<1>19. \A b \in Borrower : grants'[b] = IF b \in B \cup X THEN 1 ELSE 0
    <2> SUFFICES ASSUME NEW b \in Borrower PROVE grants'[b] = IF b \in B \cup X THEN 1 ELSE 0
        OBVIOUS
    <2>1. grants'[b] = (IF b \in borrowers \ B THEN grants[b] - 1 ELSE grants[b])
                       + (IF b \in X THEN 1 ELSE 0)
        BY <1>1, <1>18
    <2>2. grants[b] = IF b \in borrowers THEN 1 ELSE 0
        BY DEF LimiterInv, OneGrant
    <2>3. b \in X => b \notin borrowers
        BY <1>15
    <2> QED
        BY ONLY <2>1, <2>2, <2>3, B \in SUBSET borrowers
<1>20. LimiterTypes'
    <2>1. grants' \in [Borrower -> Nat]
        <3>1. grants' = [b \in Borrower |-> grants'[b]]
            BY <1>1
        <3> QED
            BY ONLY <1>19, <3>1
    <2>2. borrowers' \in SUBSET Borrower /\ IsFiniteSet(borrowers')
        BY <1>1, <1>15, <1>17, <1>t
    <2> QED
        BY <1>9, <2>1, <2>2 DEF LimiterTypes
<1>21. SleepsOnLimiter'
    BY <1>8 DEF LimiterInv, SleepsOnLimiter
<1>22. NoTokenIdle'
    <2> SUFFICES ASSUME Left(q, available) # <<>> PROVE Cardinality(B) + n >= total
        BY <1>l, <1>1, <1>17 DEF NoTokenIdle
    <2>1. Len(Left(q, available)) # 0 /\ Len(q) \in Nat
        BY <1>4, <1>6, EmptyLen
    <2>2. n < Len(q)
        BY ONLY <1>5, <1>6, <2>1
    <2> QED
        BY <1>2, <1>5, <2>2 DEF available
<1>23. OneGrant'
    BY <1>1, <1>19 DEF OneGrant
<1>24. PendingIsFree'
    <2> SUFFICES ASSUME NEW t \in Task, t \in ToSet(Left(q, available))
                 PROVE  pending_borrowers'[t] \in OnBehalfOf[t] \ (B \cup X)
        BY <1>1, <1>l DEF PendingIsFree
    <2>1. t \in ToSet(q) /\ t \notin w
        BY <1>6 DEF w
    <2>2. pending_borrowers'[t] = pending_borrowers[t]
        BY <1>8, <2>1
    <2>3. pending_borrowers[t] \in OnBehalfOf[t] \ borrowers
        BY <1>10, <2>1
    <2>4. pending_borrowers[t] \notin X
        BY <1>6, <1>7, <1>11, <1>13, <2>1 DEF w
    <2> QED
        BY <2>2, <2>3, <2>4
<1> QED
    BY <1>l, <1>20, <1>21, <1>22, <1>23, <1>24 DEF LimiterInv

\* Every step of a task or a borrower, and every change of size, keeps the invariant.
LEMMA LimiterInvNext ==
    ASSUME OwnObjects
    PROVE  LimiterInv /\ [LimiterNext]_limiterVars => LimiterInv'
<1> SUFFICES ASSUME LimiterInv, [LimiterNext]_limiterVars
             PROVE  LimiterInv'
    OBVIOUS
<1>0. /\ limiter_lot \in Lot /\ None \notin Lot /\ None \notin Borrower /\ MaxTokens \in Nat
      /\ OnBehalfOf \in [Task -> SUBSET Borrower] /\ MainTask \in Task
    BY LimiterAssumption, ParkingLotAssumption
<1>t. /\ parked \in [Lot -> Seq(Task)] /\ custom_sleep_data \in [Task -> Lot \cup {None}]
      /\ outcome \in [Task -> Outcome]
      /\ \A s \in Task : custom_sleep_data[s] # None => outcome[s] = "none"
      /\ LotOK(parked, custom_sleep_data, outcome)
    BY DEF LimiterInv, LotInv, LotOK
<1>u. /\ borrowers \in SUBSET Borrower /\ IsFiniteSet(borrowers)
      /\ Cardinality(borrowers) \in Nat /\ total_tokens \in 1 .. MaxTokens
      /\ pending_borrowers \in [Task -> Borrower \cup {None}] /\ grants \in [Borrower -> Nat]
    BY FS_CardinalityType DEF LimiterInv, LimiterTypes
<1>1. ASSUME NEW t \in Task, NEW b \in Borrower, LimiterAcquireNowait(t, b) PROVE LimiterInv'
    <2>1. /\ b \notin borrowers /\ parked[limiter_lot] = <<>> /\ borrowers' = borrowers \cup {b}
          /\ grants' = [grants EXCEPT ![b] = @ + 1]
          /\ UNCHANGED <<parked, custom_sleep_data, outcome, total_tokens, pending_borrowers>>
        BY <1>1 DEF LimiterAcquireNowait, CanBorrow
    <2>l. LotInv'
        BY <2>1 DEF LimiterInv, LotInv, LotOK
    <2>g. /\ borrowers' = borrowers \cup {b} /\ IsFiniteSet(borrowers')
          /\ Cardinality(borrowers') \in Nat /\ parked'[limiter_lot] = <<>>
          /\ ToSet(parked'[limiter_lot]) = {}
          /\ \A c \in Borrower : grants'[c] = IF c = b THEN grants[c] + 1 ELSE grants[c]
          /\ grants' \in [Borrower -> Nat] /\ grants[b] = 0
        BY <1>0, <1>u, <2>1, EmptyQueue, FS_AddElement, FS_CardinalityType
           DEF LimiterInv, OneGrant
    <2>20. LimiterTypes'
        BY <1>0, <1>t, <1>u, <2>1, <2>g DEF LimiterInv, LimiterTypes
    <2>21. SleepsOnLimiter'
        BY <1>0, <1>t, <1>u, <2>1, <2>g DEF LimiterInv, SleepsOnLimiter
    <2>22. NoTokenIdle'
        BY <1>0, <1>t, <1>u, <2>1, <2>g DEF LimiterInv, NoTokenIdle
    <2>23. OneGrant'
        BY <1>0, <1>t, <1>u, <2>1, <2>g DEF LimiterInv, OneGrant
    <2>24. PendingIsFree'
        BY <1>0, <1>t, <1>u, <2>1, <2>g DEF LimiterInv, PendingIsFree
    <2> QED
        BY <2>l, <2>20, <2>21, <2>22, <2>23, <2>24 DEF LimiterInv
<1>2. ASSUME NEW t \in Task, NEW b \in Borrower, LimiterAcquire(t, b) PROVE LimiterInv'
    <2>1. /\ custom_sleep_data[t] = None /\ outcome[t] = "none"
          /\ b \in OnBehalfOf[t] \ borrowers /\ total_tokens' = total_tokens
        BY <1>2 DEF LimiterAcquire, Awake
    <2>2. CASE CanBorrow(b)
        <3>1. /\ parked[limiter_lot] = <<>> /\ borrowers' = borrowers \cup {b}
              /\ grants' = [grants EXCEPT ![b] = @ + 1]
              /\ outcome' = Rescheduled({t}, "ok")
              /\ UNCHANGED <<parked, custom_sleep_data, pending_borrowers>>
            BY <1>2, <2>2 DEF LimiterAcquire, CanBorrow
        <3>2. /\ outcome' \in [Task -> Outcome]
              /\ \A s \in Task : custom_sleep_data[s] # None => outcome'[s] = "none"
            BY <1>t, <2>1, <3>1 DEF Rescheduled, Outcome
        <3>3. LotOK(parked, custom_sleep_data, outcome')
            BY ONLY <1>t, <3>2, OutcomeOK
        <3>l. LotInv'
            BY <3>1, <3>3 DEF LotInv
        <3>g. /\ borrowers' = borrowers \cup {b} /\ IsFiniteSet(borrowers')
              /\ Cardinality(borrowers') \in Nat /\ parked'[limiter_lot] = <<>>
              /\ ToSet(parked'[limiter_lot]) = {}
              /\ \A c \in Borrower : grants'[c] = IF c = b THEN grants[c] + 1 ELSE grants[c]
              /\ grants' \in [Borrower -> Nat] /\ grants[b] = 0
            BY <1>0, <1>u, <2>1, <3>1, EmptyQueue, FS_AddElement, FS_CardinalityType
               DEF LimiterInv, OneGrant
        <3>20. LimiterTypes'
            BY <1>0, <1>t, <1>u, <2>1, <3>1, <3>g DEF LimiterInv, LimiterTypes
        <3>21. SleepsOnLimiter'
            BY <1>0, <1>t, <1>u, <2>1, <3>1, <3>g DEF LimiterInv, SleepsOnLimiter
        <3>22. NoTokenIdle'
            BY <1>0, <1>t, <1>u, <2>1, <3>1, <3>g DEF LimiterInv, NoTokenIdle
        <3>23. OneGrant'
            BY <1>0, <1>t, <1>u, <2>1, <3>1, <3>g DEF LimiterInv, OneGrant
        <3>24. PendingIsFree'
            BY <1>0, <1>t, <1>u, <2>1, <3>1, <3>g DEF LimiterInv, PendingIsFree
        <3> QED
            BY <3>l, <3>20, <3>21, <3>22, <3>23, <3>24 DEF LimiterInv
    <2>3. CASE ~ CanBorrow(b)
        <3>1. /\ pending_borrowers' = [pending_borrowers EXCEPT ![t] = b]
              /\ parked' = Park(parked, t, limiter_lot)
              /\ custom_sleep_data' = SleepOn({t}, limiter_lot)
              /\ UNCHANGED <<borrowers, grants, outcome>>
            BY <1>2, <2>3 DEF LimiterAcquire
        <3>2. /\ custom_sleep_data' \in [Task -> Lot \cup {None}]
              /\ outcome' \in [Task -> Outcome]
              /\ custom_sleep_data'[t] = limiter_lot /\ outcome'[t] = "none"
              /\ \A s \in Task \ {t} : /\ custom_sleep_data'[s] = custom_sleep_data[s]
                                       /\ outcome'[s] = outcome[s]
            BY <1>0, <1>t, <2>1, <3>1 DEF SleepOn
        <3>3. LotOK(Park(parked, t, limiter_lot), custom_sleep_data', outcome')
            <4>1. LotOK(parked, custom_sleep_data, outcome) /\ limiter_lot \in Lot
                BY <1>0, <1>t
            <4>2. custom_sleep_data[t] = None
                BY <2>1
            <4> QED
                BY ONLY <3>2, <4>1, <4>2, t \in Task, ParkOK
        <3>l. LotInv'
            BY <3>1, <3>3 DEF LotInv
        <3>4. Cardinality(borrowers) >= total_tokens
            BY <1>u, <2>1, <2>3 DEF CanBorrow, LimiterInv, NoTokenIdle
        <3>5. \A s \in Task : s \in ToSet(parked'[limiter_lot]) <=>
                                s = t \/ s \in ToSet(parked[limiter_lot])
            <4>1. \A s \in Task : s \in ToSet(parked'[limiter_lot]) <=> custom_sleep_data'[s] = limiter_lot
                BY <1>0, <3>l DEF LotInv, LotOK
            <4>2. \A s \in Task : s \in ToSet(parked[limiter_lot]) <=> custom_sleep_data[s] = limiter_lot
                BY <1>0, <1>t DEF LotOK
            <4> QED
                BY <3>2, <4>1, <4>2
        <3>20. LimiterTypes'
            BY <1>0, <1>t, <1>u, <2>1, <3>1, <3>2, <3>4, <3>5 DEF LimiterInv, LimiterTypes
        <3>21. SleepsOnLimiter'
            BY <1>0, <1>t, <1>u, <2>1, <3>1, <3>2, <3>4, <3>5 DEF LimiterInv, SleepsOnLimiter
        <3>22. NoTokenIdle'
            BY <1>0, <1>t, <1>u, <2>1, <3>1, <3>2, <3>4, <3>5 DEF LimiterInv, NoTokenIdle
        <3>23. OneGrant'
            BY <1>0, <1>t, <1>u, <2>1, <3>1, <3>2, <3>4, <3>5 DEF LimiterInv, OneGrant
        <3>24. PendingIsFree'
            BY <1>0, <1>t, <1>u, <2>1, <3>1, <3>2, <3>4, <3>5 DEF LimiterInv, PendingIsFree
        <3> QED
            BY <3>l, <3>20, <3>21, <3>22, <3>23, <3>24 DEF LimiterInv
    <2> QED
        BY <2>2, <2>3
<1>3. ASSUME NEW b \in Borrower, LimiterRelease(b) PROVE LimiterInv'
    <2>1. /\ WakeWaiters(borrowers \ {b}, total_tokens) /\ total_tokens' = total_tokens
          /\ borrowers \ {b} \in SUBSET borrowers /\ total_tokens \in 1 .. MaxTokens
        BY <1>u, <1>3 DEF LimiterRelease
    <2> QED
        BY ONLY <2>1, OwnObjects, LimiterInv, WakeWaitersOK
<1>4. ASSUME NEW n \in 1 .. MaxTokens, SetTotalTokens(n) PROVE LimiterInv'
    <2>1. /\ WakeWaiters(borrowers, n) /\ total_tokens' = n
          /\ borrowers \in SUBSET borrowers /\ n \in 1 .. MaxTokens
        BY <1>4 DEF SetTotalTokens
    <2> QED
        BY ONLY <2>1, OwnObjects, LimiterInv, WakeWaitersOK
<1>5. ASSUME NEW t \in Task, LimiterCancel(t) PROVE LimiterInv'
    <2>1. Abort(t, "Cancelled") /\ UNCHANGED <<borrowers, total_tokens, pending_borrowers, grants>>
        BY <1>5 DEF LimiterCancel
    <2>2. /\ LotInv'
          /\ custom_sleep_data'[t] = None
          /\ \A s \in Task \ {t} : custom_sleep_data'[s] = custom_sleep_data[s]
          /\ \A l \in Lot : ToSet(parked'[l]) = ToSet(parked[l]) \ {t}
        <3>1. LotInv /\ "Cancelled" \in Outcome
            BY DEF LimiterInv, Outcome
        <3> QED
            BY ONLY <1>0, <2>1, <3>1, t \in Task, AbortOK
    <2>l. LotInv'
        BY <2>2
    <2>3. parked'[limiter_lot] # <<>> => parked[limiter_lot] # <<>>
        <3>1. LotInv /\ ToSet(parked'[limiter_lot]) \subseteq ToSet(parked[limiter_lot])
            BY <1>0, <2>2 DEF LimiterInv
        <3> QED
            BY ONLY <1>0, <2>l, <3>1, LeavingLeavesEmpty
    <2>4. ToSet(parked'[limiter_lot]) \subseteq ToSet(parked[limiter_lot])
        BY <1>0, <2>2
    <2>20. LimiterTypes'
        BY <1>0, <1>t, <1>u, <2>1, <2>2, <2>3, <2>4 DEF LimiterInv, LimiterTypes
    <2>21. SleepsOnLimiter'
        BY <1>0, <1>t, <1>u, <2>1, <2>2, <2>3, <2>4 DEF LimiterInv, SleepsOnLimiter
    <2>22. NoTokenIdle'
        BY <1>0, <1>t, <1>u, <2>1, <2>2, <2>3, <2>4 DEF LimiterInv, NoTokenIdle
    <2>23. OneGrant'
        BY <1>0, <1>t, <1>u, <2>1, <2>2, <2>3, <2>4 DEF LimiterInv, OneGrant
    <2>24. PendingIsFree'
        BY <1>0, <1>t, <1>u, <2>1, <2>2, <2>3, <2>4 DEF LimiterInv, PendingIsFree
    <2> QED
        BY <2>l, <2>20, <2>21, <2>22, <2>23, <2>24 DEF LimiterInv
<1>6. ASSUME LimiterDeliverKi PROVE LimiterInv'
    <2>1. Abort(MainTask, "KeyboardInterrupt") /\ UNCHANGED <<borrowers, total_tokens, pending_borrowers, grants>>
        BY <1>6 DEF LimiterDeliverKi
    <2>2. /\ LotInv'
          /\ custom_sleep_data'[MainTask] = None
          /\ \A s \in Task \ {MainTask} : custom_sleep_data'[s] = custom_sleep_data[s]
          /\ \A l \in Lot : ToSet(parked'[l]) = ToSet(parked[l]) \ {MainTask}
        <3>1. LotInv /\ "KeyboardInterrupt" \in Outcome
            BY DEF LimiterInv, Outcome
        <3> QED
            BY ONLY <1>0, <2>1, <3>1, AbortOK
    <2>l. LotInv'
        BY <2>2
    <2>3. parked'[limiter_lot] # <<>> => parked[limiter_lot] # <<>>
        <3>1. LotInv /\ ToSet(parked'[limiter_lot]) \subseteq ToSet(parked[limiter_lot])
            BY <1>0, <2>2 DEF LimiterInv
        <3> QED
            BY ONLY <1>0, <2>l, <3>1, LeavingLeavesEmpty
    <2>4. ToSet(parked'[limiter_lot]) \subseteq ToSet(parked[limiter_lot])
        BY <1>0, <2>2
    <2>20. LimiterTypes'
        BY <1>0, <1>t, <1>u, <2>1, <2>2, <2>3, <2>4 DEF LimiterInv, LimiterTypes
    <2>21. SleepsOnLimiter'
        BY <1>0, <1>t, <1>u, <2>1, <2>2, <2>3, <2>4 DEF LimiterInv, SleepsOnLimiter
    <2>22. NoTokenIdle'
        BY <1>0, <1>t, <1>u, <2>1, <2>2, <2>3, <2>4 DEF LimiterInv, NoTokenIdle
    <2>23. OneGrant'
        BY <1>0, <1>t, <1>u, <2>1, <2>2, <2>3, <2>4 DEF LimiterInv, OneGrant
    <2>24. PendingIsFree'
        BY <1>0, <1>t, <1>u, <2>1, <2>2, <2>3, <2>4 DEF LimiterInv, PendingIsFree
    <2> QED
        BY <2>l, <2>20, <2>21, <2>22, <2>23, <2>24 DEF LimiterInv
<1>7. ASSUME NEW t \in Task, LimiterResume(t) PROVE LimiterInv'
    <2>1. /\ outcome[t] # "none" /\ outcome' = Rescheduled({t}, "none")
          /\ pending_borrowers' = [pending_borrowers EXCEPT
                ![t] = IF outcome[t] = "Cancelled" THEN None ELSE @]
          /\ UNCHANGED <<parked, custom_sleep_data, borrowers, total_tokens, grants>>
        BY <1>7 DEF LimiterResume
    <2>2. /\ outcome' \in [Task -> Outcome]
          /\ \A s \in Task : custom_sleep_data[s] # None => outcome'[s] = "none"
        BY <1>t, <2>1 DEF Rescheduled, Outcome
    <2>3. LotOK(parked, custom_sleep_data, outcome')
        BY ONLY <1>t, <2>2, OutcomeOK
    <2>l. LotInv'
        BY <2>1, <2>3 DEF LotInv
    <2>4. t \notin ToSet(parked[limiter_lot])
        BY <1>0, <1>t, <2>1 DEF LotOK
    <2>20. LimiterTypes'
        BY <1>0, <1>t, <1>u, <2>1, <2>4 DEF LimiterInv, LimiterTypes
    <2>21. SleepsOnLimiter'
        BY <1>0, <1>t, <1>u, <2>1, <2>4 DEF LimiterInv, SleepsOnLimiter
    <2>22. NoTokenIdle'
        BY <1>0, <1>t, <1>u, <2>1, <2>4 DEF LimiterInv, NoTokenIdle
    <2>23. OneGrant'
        BY <1>0, <1>t, <1>u, <2>1, <2>4 DEF LimiterInv, OneGrant
    <2>24. PendingIsFree'
        BY <1>0, <1>t, <1>u, <2>1, <2>4 DEF LimiterInv, PendingIsFree
    <2> QED
        BY <2>l, <2>20, <2>21, <2>22, <2>23, <2>24 DEF LimiterInv
<1>8. ASSUME UNCHANGED limiterVars PROVE LimiterInv'
    <2>1. UNCHANGED <<parked, custom_sleep_data, outcome, borrowers, total_tokens, pending_borrowers,
                       grants>>
        BY <1>8 DEF limiterVars
    <2>l. LotInv'
        BY <2>1 DEF LimiterInv, LotInv, LotOK
    <2>20. LimiterTypes'
        BY <1>0, <1>t, <1>u, <2>1 DEF LimiterInv, LimiterTypes
    <2>21. SleepsOnLimiter'
        BY <1>0, <1>t, <1>u, <2>1 DEF LimiterInv, SleepsOnLimiter
    <2>22. NoTokenIdle'
        BY <1>0, <1>t, <1>u, <2>1 DEF LimiterInv, NoTokenIdle
    <2>23. OneGrant'
        BY <1>0, <1>t, <1>u, <2>1 DEF LimiterInv, OneGrant
    <2>24. PendingIsFree'
        BY <1>0, <1>t, <1>u, <2>1 DEF LimiterInv, PendingIsFree
    <2> QED
        BY <2>l, <2>20, <2>21, <2>22, <2>23, <2>24 DEF LimiterInv
<1> QED
    BY <1>1, <1>2, <1>3, <1>4, <1>5, <1>6, <1>7, <1>8 DEF LimiterNext

--------------------------------------------------------------------------------
(***************************************************************************)
(* All of them                                                             *)
(***************************************************************************)

\* A lot nobody sleeps in is empty.
LEMMA NobodyParked ==
    ASSUME LotInv, NEW l \in Lot, \A t \in Task : custom_sleep_data[t] # l
    PROVE  parked[l] = <<>>
<1>1. parked[l] \in Seq(Task) /\ \A t \in Task : t \notin ToSet(parked[l])
    BY DEF LotInv, LotOK
<1>2. parked[l] # <<>> => Head(parked[l]) \in Task /\ Head(parked[l]) \in ToSet(parked[l])
    BY ONLY <1>1, TailQueue
<1> QED
    BY <1>1, <1>2

\* The invariant says what HandedOver says, of the primitive in use and of the others.
LEMMA SyncInvMeans == SyncInv => HandedOver
<1> SUFFICES ASSUME SyncInv PROVE HandedOver
    OBVIOUS
<1>0. /\ {lock_lot, cond_lot, semaphore_lot, limiter_lot} \subseteq Lot
      /\ None \notin Task \cup Lot /\ semaphore_lot \notin {lock_lot, cond_lot}
      /\ limiter_lot \notin {lock_lot, cond_lot, semaphore_lot}
    BY ParkingLotAssumption, LocksAssumption, SemaphoreAssumption, LimiterAssumption,
       SyncAssumption
<1>1. LotInv
    BY DEF SyncInv, LocksInv, SemaphoreInv, LimiterInv
<1>2. ParkedAgrees /\ LotTypeOK
    <2>1. \A l \in Lot : \A t \in ToSet(parked[l]) : t \in Task
        BY <1>1 DEF LotInv, LotOK, ToSet
    <2> QED
        BY <1>0, <1>1, <2>1 DEF LotInv, LotOK, ParkedAgrees, LotTypeOK
<1>3. LockIsHandedOver
    <2>1. CASE primitive = "lock"
        <3>1. ki_pending \in BOOLEAN
            BY <2>1, Zenon DEF SyncInv, LocksInv, LockFlag
        <3> QED
            BY <1>2, <2>1, <3>1 DEF SyncInv, LocksInv, LockTypes, HolderOwns, WaitersHaveOwner,
               OwnerKnows, LockIsHandedOver, LocksTypeOK
    <2>2. CASE primitive # "lock"
        <3>1. LocksUnused
            BY <2>2 DEF SyncInv
        <3>2. \A t \in Task : custom_sleep_data[t] # lock_lot
            BY <1>0, <2>2 DEF SyncInv, SemaphoreInv, LimiterInv, SleepsOnSemaphore,
               SleepsOnLimiter
        <3>3. parked[lock_lot] = <<>>
            BY <1>0, <1>1, <3>2, NobodyParked
        <3>4. ki_pending \in BOOLEAN
            BY <3>1 DEF LocksUnused
        <3> QED
            BY <1>2, <3>1, <3>3, <3>4, LocksAssumption
               DEF LocksUnused, LockIsHandedOver, LocksTypeOK, Place
    <2> QED
        BY <2>1, <2>2
<1>4. PermitsConserved
    <2>1. CASE primitive = "semaphore"
        BY <1>2, <2>1 DEF SyncInv, SemaphoreInv, SemaphoreTypes, NothingToTake, Conserved,
           Permitted,
           PermitsConserved, SemaphoreTypeOK
    <2>2. CASE primitive # "semaphore"
        <3>1. SemaphoreUnused
            BY <2>2 DEF SyncInv
        <3>2. \A t \in Task : custom_sleep_data[t] # semaphore_lot
            BY <1>0, <2>2 DEF SyncInv, LocksInv, LimiterInv, SleepsOnLock, SleepsOnLimiter
        <3>3. parked[semaphore_lot] = <<>>
            BY <1>0, <1>1, <3>2, NobodyParked
        <3>4. {t \in Task : \/ semaphore_pc[t] = "holding"
                            \/ semaphore_pc[t] = "acquiring" /\ outcome[t] = "ok"} = {}
            BY <3>1 DEF SemaphoreUnused
        <3>5. SemaphoreTypeOK
            BY <1>2, <3>1, SemaphoreAssumption DEF SemaphoreUnused, SemaphoreTypeOK
        <3>6. value + Cardinality({}) = initial_value + extra
            BY <3>1, FS_EmptySet, SemaphoreAssumption DEF SemaphoreUnused
        <3> QED
            BY <3>3, <3>4, <3>5, <3>6 DEF PermitsConserved
    <2> QED
        BY <2>1, <2>2
<1>5. NoTokenLeftIdle /\ GrantsOnRecord
    <2>1. CASE primitive = "limiter"
        <3>1. LimiterInv
            BY <2>1 DEF SyncInv
        <3>2. \A t \in ToSet(parked[limiter_lot]) : t \in Task
            BY <1>0, <1>1 DEF LotInv, LotOK, ToSet
        <3>3. NoTokenLeftIdle
            BY <1>2, <3>1 DEF LimiterInv, LimiterTypes, NoTokenIdle, NoTokenLeftIdle,
               LimiterTypeOK
        <3>4. \A b \in Borrower : grants[b] > 0 <=> b \in borrowers
            BY <3>1 DEF LimiterInv, OneGrant
        <3> QED
            BY <3>1, <3>2, <3>3, <3>4 DEF LimiterInv, PendingIsFree, GrantsOnRecord
    <2>2. CASE primitive # "limiter"
        <3>1. LimiterUnused
            BY <2>2 DEF SyncInv
        <3>2. \A t \in Task : custom_sleep_data[t] # limiter_lot
            BY <1>0, <2>2 DEF SyncInv, LocksInv, SemaphoreInv, SleepsOnLock, SleepsOnSemaphore
        <3>3. parked[limiter_lot] = <<>>
            BY <1>0, <1>1, <3>2, NobodyParked
        <3> QED
            BY <1>2, <3>1, <3>3, EmptyQueue
               DEF LimiterUnused, NoTokenLeftIdle, GrantsOnRecord, LimiterTypeOK
    <2> QED
        BY <2>1, <2>2
<1> QED
    BY <1>2, <1>3, <1>4, <1>5 DEF HandedOver

\* A step of one primitive keeps its invariant and leaves the others alone.
LEMMA SyncInvNext ==
    ASSUME OwnObjects
    PROVE  SyncInv /\ [SyncNext]_syncVars => SyncInv'
<1> SUFFICES ASSUME SyncInv, [SyncNext]_syncVars
             PROVE  SyncInv'
    OBVIOUS
<1>1. ASSUME primitive = "lock", primitive' = primitive, [LocksNext]_lockVars,
             UNCHANGED <<semaphoreOnly, limiterOnly>>
      PROVE  SyncInv'
    <2>1. LocksInv /\ SemaphoreUnused /\ LimiterUnused
        BY <1>1 DEF SyncInv
    <2>2. LocksInv'
        BY ONLY <1>1, <2>1, LocksInvNext
    <2>3. SemaphoreUnused' /\ LimiterUnused'
        BY <1>1, <2>1 DEF semaphoreOnly, limiterOnly, SemaphoreUnused, LimiterUnused
    <2> QED
        BY <1>1, <2>2, <2>3 DEF SyncInv
<1>2. ASSUME primitive = "semaphore", primitive' = primitive, [SemaphoreNext]_semaphoreVars,
             UNCHANGED <<lockOnly, limiterOnly>>
      PROVE  SyncInv'
    <2>1. SemaphoreInv /\ LocksUnused /\ LimiterUnused
        BY <1>2 DEF SyncInv
    <2>2. SemaphoreInv'
        BY ONLY <1>2, <2>1, SemaphoreInvNext
    <2>3. LocksUnused' /\ LimiterUnused'
        BY <1>2, <2>1 DEF lockOnly, limiterOnly, LocksUnused, LimiterUnused
    <2> QED
        BY <1>2, <2>2, <2>3 DEF SyncInv
<1>3. ASSUME primitive = "limiter", primitive' = primitive, [LimiterNext]_limiterVars,
             UNCHANGED <<lockOnly, semaphoreOnly>>
      PROVE  SyncInv'
    <2>1. LimiterInv /\ LocksUnused /\ SemaphoreUnused
        BY <1>3 DEF SyncInv
    <2>2. LimiterInv'
        BY ONLY <1>3, <2>1, OwnObjects, LimiterInvNext
    <2>3. LocksUnused' /\ SemaphoreUnused'
        BY <1>3, <2>1 DEF lockOnly, semaphoreOnly, LocksUnused, SemaphoreUnused
    <2> QED
        BY <1>3, <2>2, <2>3 DEF SyncInv
<1>4. CASE SyncNext
    BY <1>1, <1>2, <1>3, <1>4 DEF SyncNext
<1>5. CASE UNCHANGED syncVars
    <2>1. /\ UNCHANGED lockVars /\ UNCHANGED semaphoreVars /\ UNCHANGED limiterVars
          /\ UNCHANGED <<lockOnly, semaphoreOnly, limiterOnly, primitive>>
        BY <1>5 DEF syncVars, lotVars, lockVars, semaphoreVars, limiterVars, lockOnly,
           semaphoreOnly, limiterOnly
    <2>2. primitive \in {"lock", "semaphore", "limiter"}
        BY DEF SyncInv
    <2> QED
        BY <1>1, <1>2, <1>3, <2>1, <2>2
<1> QED
    BY <1>4, <1>5

\* No primitive has been used.
LEMMA SyncInvInit == SyncInit => SyncInv
<1> SUFFICES ASSUME SyncInit PROVE SyncInv
    OBVIOUS
<1>1. LocksInv /\ SemaphoreInv /\ LimiterInv
    BY LocksInvInit, SemaphoreInvInit, LimiterInvInit DEF SyncInit
<1>2. LocksUnused /\ SemaphoreUnused /\ LimiterUnused
    BY DEF SyncInit, LocksInit, SemaphoreInit, LimiterInit, LocksUnused, SemaphoreUnused,
       LimiterUnused
<1> QED
    BY <1>1, <1>2 DEF SyncInit, SyncInv

(***************************************************************************)
(* HandedOver: for any number of tasks, lots, tokens, permits and          *)
(* control-Cs, what Lock.release(), Condition.wait() and notify(),         *)
(* Semaphore.release() and CapacityLimiter._wake_waiters() let go of       *)
(* reaches exactly one of those who wait, whatever cancellations and       *)
(* interrupts fall between.  For the limiter no two tasks borrow on behalf *)
(* of the same object: run sync_shared shows what happens when they do.    *)
(***************************************************************************)
THEOREM HandedOverThm ==
    ASSUME OwnObjects
    PROVE  SyncSpec => []HandedOver
<1>1. SyncInit => SyncInv
    BY SyncInvInit
<1>2. SyncInv /\ [SyncNext]_syncVars => SyncInv'
    BY SyncInvNext
<1>3. SyncInv => HandedOver
    BY SyncInvMeans
<1> QED
    BY <1>1, <1>2, <1>3, PTL DEF SyncSpec

--------------------------------------------------------------------------------
(***************************************************************************)
(* The run loop                                                            *)
(***************************************************************************)

\* Between the top of the loop and process_events()
InWait == pc \in {"io", "thread", "scheduled", "delivered", "events"}

\* A task that is ready waits in the run queue or in the batch, which is there
\* only while it is run
ReadyIsQueued ==
    /\ \A t \in Tasks : state[t] = "ready" => t \in runq \cup batch
    /\ pc # "batch" => batch = {}

\* The cushions of those in wait_all_tasks_blocked()
CushionsLeft == \A t \in Tasks : state[t] = "idle" => left[t] \in Cushion

\* Without host code the loop waits by itself; a tick is forced only once, and
\* only work that was there before the tick was forced goes unmentioned
WakesForWork ==
    /\ pc = "io" => ~Guest /\ (runq # {} => timeout = 0)
    /\ pc \in {"thread", "scheduled", "delivered"} => Guest
    /\ pc = "thread" /\ runq # {} => wakeup
    /\ pc = "thread" /\ runq = {} => ~tick_scheduled

\* While nothing becomes runnable, what the loop has primed stays right
StaysPrimed ==
    InWait /\ runq = {} =>
        /\ idle_primed = "WAITING_FOR_IDLE" => In("idle") # {} /\ timeout = cushion
        /\ idle_primed = "AUTOJUMP_CLOCK" =>
              /\ In("idle") = {}
              /\ timeout = clock_autojump_threshold /\ clock_autojump_threshold < MAX_TIMEOUT

\* A wait that was for nothing has taken its time
WaitedLongEnough ==
    pc \in {"scheduled", "delivered", "events"} /\ runq = {} /\ events = {} /\ ~woken /\ idle_primed # "none"
        => quiet >= timeout

RunLoopInv ==
    RunLoopTypeOK /\ ReadyIsQueued /\ CushionsLeft /\ WakesForWork /\ StaysPrimed /\ WaitedLongEnough

--------------------------------------------------------------------------------
(* The invariant                                                               *)

\* cushion is the shortest of those in wait_all_tasks_blocked()
LEMMA CushionIsShortest ==
    ASSUME RunLoopTypeOK, CushionsLeft, In("idle") # {}
    PROVE  /\ cushion \in Cushion /\ cushion \in Nat /\ cushion <= MaxQuiet
           /\ \A t \in In("idle") : cushion <= left[t]
<1> DEFINE S == {left[t] : t \in In("idle")}
<1>1. S \subseteq Cushion /\ Cushion \subseteq Nat /\ S # {}
    BY RunLoopAssumption DEF CushionsLeft, In
<1>2. Min(S) \in S /\ \A x \in S : Min(S) <= x
    BY <1>1, MinIsLeast
<1> QED
    BY <1>1, <1>2, RunLoopAssumption DEF cushion

\* ... and depends on them alone
LEMMA CushionKept ==
    ASSUME \A t \in Tasks : state'[t] = "idle" <=> state[t] = "idle",
           \A t \in Tasks : state[t] = "idle" => left'[t] = left[t]
    PROVE  In("idle")' = In("idle") /\ cushion' = cushion
<1>1. {t \in Tasks : state'[t] = "idle"} = {t \in Tasks : state[t] = "idle"}
    OBVIOUS
<1>2. {left'[t] : t \in {u \in Tasks : state'[u] = "idle"}} = {left[t] : t \in {u \in Tasks : state[u] = "idle"}}
    BY <1>1
<1> QED
    BY <1>1, <1>2 DEF In, cushion

\* The loop never sleeps with work to do
LEMMA SleepTimeoutRange ==
    ASSUME RunLoopTypeOK
    PROVE  SleepTimeout \in 0 .. MAX_TIMEOUT /\ (runq # {} => SleepTimeout = 0)
<1>1. CASE runq # {} \/ In("sleeping") = {}
    BY <1>1, RunLoopAssumption DEF SleepTimeout
<1>2. CASE runq = {} /\ In("sleeping") # {}
    <2> DEFINE S == {left[t] : t \in In("sleeping")}
               next == Min(S)
    <2>1. S \subseteq Nat /\ S # {}
        BY <1>2 DEF RunLoopTypeOK, In
    <2>2. next \in Nat
        BY <2>1, MinIsLeast
    <2>3. SleepTimeout = IF next = 0 THEN 0 ELSE IF Rate = 0 \/ next > MAX_TIMEOUT THEN MAX_TIMEOUT ELSE next
        BY <1>2 DEF SleepTimeout
    <2> HIDE DEF next
    <2> QED
        BY <1>2, <2>2, <2>3, RunLoopAssumption
<1> QED
    BY <1>1, <1>2

\* What is primed is shorter than the wait would be
LEMMA PrimedWait ==
    ASSUME RunLoopTypeOK, CushionsLeft, StartWait
    PROVE  /\ timeout' \in 0 .. MAX_TIMEOUT /\ idle_primed' \in {"none", "WAITING_FOR_IDLE", "AUTOJUMP_CLOCK"}
           /\ runq # {} => timeout' = 0
           /\ idle_primed' = "WAITING_FOR_IDLE" => In("idle") # {} /\ timeout' = cushion
           /\ idle_primed' = "AUTOJUMP_CLOCK" =>
                 /\ In("idle") = {}
                 /\ timeout' = clock_autojump_threshold /\ clock_autojump_threshold < MAX_TIMEOUT
<1> DEFINE st == SleepTimeout
<1>1. st \in 0 .. MAX_TIMEOUT /\ (runq # {} => st = 0) /\ MAX_TIMEOUT \in Nat /\ clock_autojump_threshold \in Nat
    BY SleepTimeoutRange, RunLoopAssumption
<1>2. /\ idle_primed' = Primed(st)
      /\ timeout' = IF idle_primed' = "WAITING_FOR_IDLE" THEN cushion
                    ELSE IF idle_primed' = "AUTOJUMP_CLOCK" THEN clock_autojump_threshold
                    ELSE st
    BY DEF StartWait
<1> HIDE DEF st
<1>3. CASE In("idle") # {}
    <2>1. cushion \in Nat
        BY <1>3, CushionIsShortest
    <2>2. idle_primed' = IF cushion < st THEN "WAITING_FOR_IDLE" ELSE "none"
        BY <1>2, <1>3 DEF Primed
    <2> QED
        BY <1>1, <1>2, <1>3, <2>1, <2>2
<1>4. CASE In("idle") = {}
    <2>1. idle_primed' = IF clock_autojump_threshold < st THEN "AUTOJUMP_CLOCK" ELSE "none"
        BY <1>2, <1>4 DEF Primed
    <2> QED
        BY <1>1, <1>2, <1>4, <2>1
<1> QED
    BY <1>3, <1>4

\* At the start nobody has run
LEMMA RunLoopInvInit == RunLoopInit => RunLoopInv
<1> SUFFICES ASSUME RunLoopInit PROVE RunLoopInv
    OBVIOUS
<1>1. RunLoopTypeOK
    <2>1. 0 \in 0 .. MAX_TIMEOUT /\ 0 \in 0 .. MaxQuiet
        BY RunLoopAssumption
    <2>2. /\ state \in [Tasks -> {"ready", "parked", "io", "sleeping", "idle", "ended"}] /\ left \in [Tasks -> Nat]
          /\ runq \subseteq {t \in Tasks : state[t] = "ready"}
        BY DEF RunLoopInit
    <2> QED
        BY <2>1, <2>2 DEF RunLoopInit, RunLoopTypeOK
<1>2. ReadyIsQueued /\ CushionsLeft /\ WakesForWork /\ StaysPrimed /\ WaitedLongEnough
    BY DEF RunLoopInit, ReadyIsQueued, CushionsLeft, WakesForWork, StaysPrimed,
       WaitedLongEnough, InWait
<1> QED
    BY <1>1, <1>2 DEF RunLoopInv

\* The top of the loop
LEMMA StartWaitKeeps ==
    ASSUME RunLoopInv, StartWait
    PROVE  RunLoopInv'
<1>1. /\ timeout' \in 0 .. MAX_TIMEOUT /\ idle_primed' \in {"none", "WAITING_FOR_IDLE", "AUTOJUMP_CLOCK"}
      /\ runq # {} => timeout' = 0
      /\ idle_primed' = "WAITING_FOR_IDLE" => In("idle") # {} /\ timeout' = cushion
      /\ idle_primed' = "AUTOJUMP_CLOCK" =>
            /\ In("idle") = {}
            /\ timeout' = clock_autojump_threshold /\ clock_autojump_threshold < MAX_TIMEOUT
    BY PrimedWait DEF RunLoopInv
<1>2. /\ pc = "top" /\ UNCHANGED <<state, left, runq, batch, ready_io, wakeup, quiet>>
      /\ IF ~Guest
         THEN pc' = "io" /\ UNCHANGED <<events, woken, tick_scheduled>>
         ELSE LET here == timeout' = 0 \/ ready_io # {} \/ wakeup
              IN  /\ pc' = IF here THEN "scheduled" ELSE "thread"
                  /\ events' = ready_io /\ woken' = wakeup /\ tick_scheduled' = here
    BY DEF StartWait
<1>3. In("idle")' = In("idle") /\ cushion' = cushion
    BY <1>2, CushionKept
<1>4. RunLoopTypeOK'
    BY <1>1, <1>2 DEF RunLoopInv, RunLoopTypeOK
<1>5. ReadyIsQueued' /\ CushionsLeft'
    BY <1>2 DEF RunLoopInv, ReadyIsQueued, CushionsLeft
<1>6. WakesForWork'
    BY <1>1, <1>2, RunLoopAssumption DEF WakesForWork
<1>7. StaysPrimed'
    BY <1>1, <1>2, <1>3 DEF StaysPrimed
<1>8. WaitedLongEnough'
    BY <1>1, <1>2 DEF WaitedLongEnough, RunLoopInv, RunLoopTypeOK
<1> QED
    BY <1>4, <1>5, <1>6, <1>7, <1>8 DEF RunLoopInv

\* Time passes for those who sleep
LEMMA ElapseKeeps ==
    ASSUME RunLoopTypeOK, NEW k \in Nat, Elapse(k), UNCHANGED state
    PROVE  /\ left' \in [Tasks -> Nat] /\ quiet' \in 0 .. MaxQuiet
           /\ k <= MaxQuiet => quiet' >= k
           /\ In("idle")' = In("idle") /\ cushion' = cushion
           /\ \A t \in Tasks : state[t] = "idle" => left'[t] = left[t]
<1>1. quiet \in 0 .. MaxQuiet /\ MaxQuiet \in Nat /\ left \in [Tasks -> Nat] /\ Rate \in {0, 1}
    BY RunLoopAssumption DEF RunLoopTypeOK
<1>2. quiet' = IF quiet + k > MaxQuiet THEN MaxQuiet ELSE quiet + k
    BY DEF Elapse
<1>3. quiet' \in 0 .. MaxQuiet /\ (k <= MaxQuiet => quiet' >= k)
    BY <1>1, <1>2
<1>4. Rate * k \in Nat
    BY <1>1
<1>5. left' \in [Tasks -> Nat] /\ \A t \in Tasks : state[t] = "idle" => left'[t] = left[t]
    <2> DEFINE d == Rate * k
    <2>1. left' = [t \in Tasks |-> IF state[t] # "sleeping" THEN left[t] ELSE IF left[t] > d THEN left[t] - d ELSE 0]
        BY DEF Elapse
    <2>2. d \in Nat
        BY <1>4
    <2> HIDE DEF d
    <2> QED
        BY <1>1, <2>1, <2>2
<1>6. In("idle")' = In("idle") /\ cushion' = cushion
    BY <1>5, CushionKept
<1> QED
    BY <1>3, <1>5, <1>6

\* get_events() returns
LEMMA WaitReturnsKeeps ==
    ASSUME RunLoopInv, WaitReturns
    PROVE  RunLoopInv'
<1>1. /\ pc \in {"io", "thread"} /\ events' = ready_io /\ woken' = wakeup
      /\ pc' = IF pc = "io" THEN "events" ELSE "delivered"
      /\ UNCHANGED <<state, runq, batch, ready_io, wakeup, timeout, idle_primed, tick_scheduled>>
    BY DEF WaitReturns
<1>t. RunLoopTypeOK /\ timeout \in 0 .. MAX_TIMEOUT /\ MAX_TIMEOUT \in Nat /\ MaxQuiet \in Nat
    BY RunLoopAssumption DEF RunLoopInv, RunLoopTypeOK
<1>2. \E k \in Nat : Elapse(k) /\ (k = timeout \/ ready_io # {} \/ wakeup)
    BY <1>t DEF WaitReturns
<1>3. PICK k \in Nat : Elapse(k) /\ (k = timeout \/ ready_io # {} \/ wakeup)
    BY <1>2
<1>4. /\ left' \in [Tasks -> Nat] /\ quiet' \in 0 .. MaxQuiet
      /\ k <= MaxQuiet => quiet' >= k
      /\ In("idle")' = In("idle") /\ cushion' = cushion
      /\ \A t \in Tasks : state[t] = "idle" => left'[t] = left[t]
    BY <1>1, <1>3, <1>t, ElapseKeeps
<1>5. RunLoopTypeOK'
    BY <1>1, <1>4 DEF RunLoopInv, RunLoopTypeOK
<1>6. ReadyIsQueued' /\ CushionsLeft'
    BY <1>1, <1>4 DEF RunLoopInv, ReadyIsQueued, CushionsLeft
<1>7. WakesForWork'
    BY <1>1 DEF RunLoopInv, WakesForWork
<1>8. StaysPrimed'
    BY <1>1, <1>4 DEF RunLoopInv, StaysPrimed, InWait
<1>9. WaitedLongEnough'
    <2> SUFFICES ASSUME runq = {}, ready_io = {}, ~wakeup, idle_primed # "none"
                 PROVE  quiet' >= timeout
        BY <1>1 DEF WaitedLongEnough
    <2>1. k = timeout
        BY <1>3
    <2>2. timeout <= MaxQuiet
        <3>1. /\ idle_primed = "WAITING_FOR_IDLE" => In("idle") # {} /\ timeout = cushion
              /\ idle_primed = "AUTOJUMP_CLOCK" =>
                    timeout = clock_autojump_threshold /\ clock_autojump_threshold < MAX_TIMEOUT
            BY <1>1 DEF RunLoopInv, StaysPrimed, InWait
        <3>2. idle_primed \in {"WAITING_FOR_IDLE", "AUTOJUMP_CLOCK"}
            BY <1>t DEF RunLoopTypeOK
        <3>3. CASE idle_primed = "WAITING_FOR_IDLE"
            BY <1>t, <3>1, <3>3, CushionIsShortest DEF RunLoopInv
        <3>4. CASE idle_primed = "AUTOJUMP_CLOCK"
            BY <3>1, <3>4, RunLoopAssumption
        <3> QED
            BY <3>2, <3>3, <3>4
    <2> QED
        BY <1>4, <2>1, <2>2
<1> QED
    BY <1>5, <1>6, <1>7, <1>8, <1>9 DEF RunLoopInv

\* Host code wakes a task
LEMMA HostWakesKeeps ==
    ASSUME RunLoopInv, NEW t \in Tasks, HostWakes(t)
    PROVE  RunLoopInv'
<1> DEFINE force == runq = {} /\ ~tick_scheduled
<1>1. /\ pc \in {"scheduled", "thread", "delivered"} /\ t \in Blocked
      /\ state' = [state EXCEPT ![t] = "ready"] /\ left' = [left EXCEPT ![t] = 0]
      /\ runq' = runq \cup {t} /\ ready_io' = ready_io \ {t}
      /\ wakeup' = (wakeup \/ force) /\ tick_scheduled' = (tick_scheduled \/ force) /\ quiet' = 0
      /\ UNCHANGED <<batch, pc, timeout, idle_primed, events, woken>>
    BY DEF HostWakes
<1>t. /\ state \in [Tasks -> {"ready", "parked", "io", "sleeping", "idle", "ended"}] /\ left \in [Tasks -> Nat]
      /\ state[t] # "ready" /\ MaxQuiet \in Nat
    BY <1>1, RunLoopAssumption DEF RunLoopInv, RunLoopTypeOK, Blocked
<1>2. /\ state'[t] = "ready" /\ left'[t] = 0
      /\ \A u \in Tasks : u # t => state'[u] = state[u] /\ left'[u] = left[u]
      /\ state' \in [Tasks -> {"ready", "parked", "io", "sleeping", "idle", "ended"}] /\ left' \in [Tasks -> Nat]
    BY <1>1, <1>t
<1>3. RunLoopTypeOK'
    <2>1. /\ runq' \subseteq {u \in Tasks : state'[u] = "ready"}
          /\ batch' \subseteq {u \in Tasks : state'[u] = "ready"} \ runq'
          /\ ready_io' \subseteq {u \in Tasks : state'[u] = "io"}
        BY <1>1, <1>2, <1>t DEF RunLoopInv, RunLoopTypeOK
    <2>2. wakeup' \in BOOLEAN /\ tick_scheduled' \in BOOLEAN
        BY <1>1
    <2> QED
        BY <1>1, <1>2, <1>t, <2>1, <2>2 DEF RunLoopInv, RunLoopTypeOK
<1>4. ReadyIsQueued' /\ CushionsLeft'
    BY <1>1, <1>2 DEF RunLoopInv, ReadyIsQueued, CushionsLeft
<1>5. WakesForWork'
    BY <1>1 DEF RunLoopInv, WakesForWork
<1>6. StaysPrimed' /\ WaitedLongEnough'
    BY <1>1 DEF StaysPrimed, WaitedLongEnough
<1> QED
    BY <1>3, <1>4, <1>5, <1>6 DEF RunLoopInv

\* process_events(), expire() and the idle check, all in one go
LEMMA ProcessEventsKeeps ==
    ASSUME RunLoopInv, ProcessEvents
    PROVE  RunLoopInv'
<1> DEFINE awake == (events \cap In("io")) \cup Expired
           idle  == IF idle_primed = "WAITING_FOR_IDLE" /\ StillIdle(awake) THEN FirstIdle ELSE {}
           jump  == IF idle_primed = "AUTOJUMP_CLOCK" /\ StillIdle(awake) /\ In("sleeping") # {}
                    THEN Min({left[t] : t \in In("sleeping")}) ELSE 0
<1>1. /\ pc = "events" /\ pc' = "batch" /\ batch' = runq \cup awake \cup idle /\ runq' = {}
      /\ state' = [t \in Tasks |-> IF t \in awake \cup idle THEN "ready" ELSE state[t]]
      /\ left' = [t \in Tasks |-> IF state'[t] = "ready" THEN 0
                                 ELSE IF state[t] = "sleeping" THEN left[t] - jump ELSE left[t]]
      /\ ready_io' = ready_io \ events /\ wakeup' = (wakeup /\ ~woken) /\ events' = {} /\ woken' = FALSE
      /\ quiet' = IF batch' = {} THEN quiet ELSE 0
      /\ UNCHANGED <<timeout, idle_primed, tick_scheduled>>
    BY DEF ProcessEvents
<1>t. /\ state \in [Tasks -> {"ready", "parked", "io", "sleeping", "idle", "ended"}] /\ left \in [Tasks -> Nat]
      /\ runq \subseteq {t \in Tasks : state[t] = "ready"} /\ ready_io \subseteq {t \in Tasks : state[t] = "io"}
      /\ quiet \in 0 .. MaxQuiet /\ MaxQuiet \in Nat
    BY RunLoopAssumption DEF RunLoopInv, RunLoopTypeOK
<1>2. /\ awake \subseteq {t \in Tasks : state[t] \in {"io", "sleeping"}} /\ idle \subseteq {t \in Tasks : state[t] = "idle"}
      /\ \A t \in awake : state[t] = "io" => t \in events
    BY DEF In, Expired, FirstIdle
<1>3. jump \in Nat /\ \A t \in Tasks : state[t] = "sleeping" => left[t] - jump \in Nat
    <2> DEFINE S == {left[t] : t \in In("sleeping")}
    <2>1. CASE jump = 0
        <3> HIDE DEF jump
        <3> QED
            BY <1>t, <2>1
    <2>2. CASE jump # 0
        <3>1. jump = Min(S) /\ In("sleeping") # {}
            BY <2>2
        <3>2. S \subseteq Nat /\ S # {}
            BY <1>t, <3>1 DEF In
        <3>3. Min(S) \in S /\ \A x \in S : Min(S) <= x
            BY <3>2, MinIsLeast
        <3>4. \A t \in Tasks : state[t] = "sleeping" => left[t] \in S
            BY DEF In
        <3> HIDE DEF S, jump
        <3>5. jump \in Nat
            BY <3>1, <3>2, <3>3
        <3>6. \A t \in Tasks : state[t] = "sleeping" => left[t] \in Nat /\ jump <= left[t]
            BY <1>t, <3>1, <3>3, <3>4
        <3> QED
            BY <3>5, <3>6
    <2> QED
        BY <2>1, <2>2
<1> HIDE DEF awake, idle, jump
<1>4. /\ \A t \in Tasks : state'[t] = IF t \in awake \cup idle THEN "ready" ELSE state[t]
      /\ state' \in [Tasks -> {"ready", "parked", "io", "sleeping", "idle", "ended"}]
    BY <1>1, <1>t
<1>5. left' \in [Tasks -> Nat]
    BY <1>1, <1>3, <1>t
<1>6. RunLoopTypeOK'
    <2>1. batch' \subseteq {t \in Tasks : state'[t] = "ready"} \ runq' /\ runq' \subseteq {t \in Tasks : state'[t] = "ready"}
        BY <1>1, <1>2, <1>4, <1>t
    <2>2. ready_io' \subseteq {t \in Tasks : state'[t] = "io"}
        BY <1>1, <1>2, <1>4, <1>t
    <2>3. quiet' \in 0 .. MaxQuiet /\ wakeup' \in BOOLEAN
        BY <1>1, <1>t
    <2> QED
        BY <1>1, <1>4, <1>5, <2>1, <2>2, <2>3 DEF RunLoopInv, RunLoopTypeOK
<1>7. ReadyIsQueued'
    BY <1>1, <1>4 DEF RunLoopInv, ReadyIsQueued
<1>8. CushionsLeft'
    BY <1>1, <1>4 DEF RunLoopInv, CushionsLeft
<1>9. WakesForWork' /\ StaysPrimed' /\ WaitedLongEnough'
    BY <1>1 DEF WakesForWork, StaysPrimed, WaitedLongEnough, InWait
<1> QED
    BY <1>6, <1>7, <1>8, <1>9 DEF RunLoopInv

\* A task runs to its next checkpoint
LEMMA RunTaskKeeps ==
    ASSUME RunLoopInv, NEW t \in Tasks, NEW s, NEW n, NEW W \in SUBSET Tasks, RunTask(t, s, n, W)
    PROVE  RunLoopInv'
<1>1. /\ pc = "batch" /\ t \in batch /\ Blocks(s, n) /\ W \subseteq Blocked \ {t} /\ batch' = batch \ {t}
      /\ state' = [u \in Tasks |-> IF u = t THEN s ELSE IF u \in W THEN "ready" ELSE state[u]]
      /\ left' = [u \in Tasks |-> IF u = t THEN n ELSE IF u \in W THEN 0 ELSE left[u]]
      /\ runq' = runq \cup W \cup (IF s = "ready" THEN {t} ELSE {})
      /\ ready_io' = ready_io \ W /\ quiet' = 0
      /\ UNCHANGED <<wakeup, pc, timeout, idle_primed, events, woken, tick_scheduled>>
    BY DEF RunTask
<1>2. /\ s \in {"ready", "parked", "io", "sleeping", "idle", "ended"} /\ n \in Nat
      /\ s = "idle" => n \in Cushion
    <2>1. Blocks(s, n)
        BY <1>1
    <2>2. Cushion \subseteq Nat /\ SleepTime \subseteq Nat
        BY RunLoopAssumption
    <2>3. \/ s \in {"ready", "parked", "io", "ended"} /\ n = 0
          \/ s = "sleeping" /\ n \in SleepTime
          \/ s = "idle" /\ n \in Cushion
        BY ONLY <2>1 DEF Blocks
    <2>4. s \in {"ready", "parked", "io", "sleeping", "idle", "ended"}
        BY ONLY <2>3
    <2>5. n \in Nat
        <3>1. {0} \cup SleepTime \cup Cushion \subseteq Nat
            BY ONLY <2>2
        <3>2. n \in {0} \cup SleepTime \cup Cushion
            BY ONLY <2>3
        <3> QED
            BY ONLY <3>1, <3>2
    <2>6. s = "idle" => n \in Cushion
        BY ONLY <2>3
    <2> QED
        BY ONLY <2>4, <2>5, <2>6
<1>t. /\ state \in [Tasks -> {"ready", "parked", "io", "sleeping", "idle", "ended"}] /\ left \in [Tasks -> Nat]
      /\ runq \subseteq {u \in Tasks : state[u] = "ready"} /\ ready_io \subseteq {u \in Tasks : state[u] = "io"}
      /\ batch \subseteq {u \in Tasks : state[u] = "ready"} \ runq /\ MaxQuiet \in Nat
    BY RunLoopAssumption DEF RunLoopInv, RunLoopTypeOK
<1>3. \A u \in Tasks : /\ state'[u] = IF u = t THEN s ELSE IF u \in W THEN "ready" ELSE state[u]
                      /\ left'[u] = IF u = t THEN n ELSE IF u \in W THEN 0 ELSE left[u]
    BY <1>1
<1>4. state' \in [Tasks -> {"ready", "parked", "io", "sleeping", "idle", "ended"}] /\ left' \in [Tasks -> Nat]
    BY <1>1, <1>2, <1>t
<1>5. W \cap batch = {} /\ W \cap runq = {}
    BY <1>1, <1>t DEF Blocked
<1>6. RunLoopTypeOK'
    <2>1. runq' \subseteq {u \in Tasks : state'[u] = "ready"}
        BY <1>1, <1>3, <1>t
    <2>2. batch' \subseteq {u \in Tasks : state'[u] = "ready"} \ runq'
        BY <1>1, <1>3, <1>5, <1>t
    <2>3. ready_io' \subseteq {u \in Tasks : state'[u] = "io"}
        BY <1>1, <1>3, <1>t
    <2> QED
        BY <1>1, <1>4, <1>t, <2>1, <2>2, <2>3 DEF RunLoopInv, RunLoopTypeOK
<1>7. ReadyIsQueued'
    BY <1>1, <1>3 DEF RunLoopInv, ReadyIsQueued
<1>8. CushionsLeft'
    BY <1>2, <1>3 DEF RunLoopInv, CushionsLeft
<1>9. WakesForWork' /\ StaysPrimed' /\ WaitedLongEnough'
    BY <1>1 DEF WakesForWork, StaysPrimed, WaitedLongEnough, InWait
<1> QED
    BY <1>6, <1>7, <1>8, <1>9 DEF RunLoopInv

\* The steps between the others, in which no task changes
LEMMA MovingOnKeeps ==
    ASSUME RunLoopInv, UNCHANGED <<state, left, runq, batch, wakeup, timeout, idle_primed, events, woken, quiet>>,
           \/ RunEnds \/ HostTicks \/ EndBatch
           \/ \E t \in Tasks : IoReady(t)
           \/ UNCHANGED loopVars
    PROVE  RunLoopInv'
<1>1. /\ In("idle")' = In("idle") /\ cushion' = cushion
    BY CushionKept
<1>2. /\ ready_io' \subseteq {t \in Tasks : state[t] = "io"} /\ tick_scheduled' \in BOOLEAN
      /\ \/ pc' = pc /\ tick_scheduled' = tick_scheduled
         \/ pc' \in {"top", "done"} /\ batch = {}
         \/ pc \in {"scheduled", "delivered"} /\ pc' = "events"
    BY DEF RunLoopInv, RunLoopTypeOK, ReadyIsQueued, RunEnds, HostTicks, EndBatch, IoReady,
       loopVars
<1>3. RunLoopTypeOK'
    BY <1>2 DEF RunLoopInv, RunLoopTypeOK
<1>4. ReadyIsQueued' /\ CushionsLeft'
    BY <1>2 DEF RunLoopInv, ReadyIsQueued, CushionsLeft
<1>5. WakesForWork'
    BY <1>2 DEF RunLoopInv, WakesForWork
<1>6. StaysPrimed' /\ WaitedLongEnough'
    BY <1>1, <1>2 DEF RunLoopInv, StaysPrimed, WaitedLongEnough, InWait
<1> QED
    BY <1>3, <1>4, <1>5, <1>6 DEF RunLoopInv

\* Every step of the loop, of the kernel and of the host keeps the invariant
LEMMA RunLoopInvNext == RunLoopInv /\ [RunLoopNext]_loopVars => RunLoopInv'
<1> SUFFICES ASSUME RunLoopInv, [RunLoopNext]_loopVars PROVE RunLoopInv'
    OBVIOUS
<1>1. ASSUME RunEnds \/ HostTicks \/ EndBatch \/ (\E t \in Tasks : IoReady(t)) \/ UNCHANGED loopVars
      PROVE  RunLoopInv'
    <2>1. UNCHANGED <<state, left, runq, batch, wakeup, timeout, idle_primed, events, woken, quiet>>
        BY <1>1 DEF RunEnds, HostTicks, EndBatch, IoReady, loopVars
    <2> QED
        BY <1>1, <2>1, MovingOnKeeps
<1>2. ASSUME NEW t \in Tasks, RunSomeTask(t) PROVE RunLoopInv'
    BY <1>2, RunTaskKeeps DEF RunSomeTask
<1> QED
    BY <1>1, <1>2, StartWaitKeeps, WaitReturnsKeeps, HostWakesKeeps, ProcessEventsKeeps
       DEF RunLoopNext, LoopStep

\* The invariant holds in every state
LEMMA RunLoopAlways == RunLoopSpec => []RunLoopInv
<1> QED
    BY RunLoopInvInit, RunLoopInvNext, PTL DEF RunLoopSpec

--------------------------------------------------------------------------------
(* What follows from it                                                        *)

\* The loop never waits, in the thread or by itself, with a task runnable and
\* nothing on its way to wake it up: neither deadlines nor the host's
\* reschedule() at any moment between the look at the run queue and the tick
THEOREM NoWaitWithWorkThm == RunLoopSpec => []NoWaitWithWork
<1>1. RunLoopInv => NoWaitWithWork
    BY DEF RunLoopInv, WakesForWork, NoWaitWithWork
<1> QED
    BY <1>1, RunLoopAlways, PTL

\* A step of process_events() wakes tasks in wait_all_tasks_blocked(), or lets the
\* clock jump, only when all tasks have been blocked long enough
LEMMA IdleStep ==
    ASSUME RunLoopInv, ProcessEvents
    PROVE  /\ \A t \in In("idle") : state'[t] # "idle" =>
                 /\ quiet >= left[t]
                 /\ \A u \in Tasks : state[u] # "ready" /\ (state'[u] = "ready" => state[u] = "idle")
           /\ (\E t \in In("sleeping") : left'[t] < left[t] /\ state'[t] = "sleeping") =>
                 /\ In("ready") = {} /\ In("idle") = {}
                 /\ quiet >= clock_autojump_threshold
                 /\ \E t \in In("sleeping") : left'[t] = 0
<1> DEFINE awake == (events \cap In("io")) \cup Expired
           idle  == IF idle_primed = "WAITING_FOR_IDLE" /\ StillIdle(awake) THEN FirstIdle ELSE {}
           jump  == IF idle_primed = "AUTOJUMP_CLOCK" /\ StillIdle(awake) /\ In("sleeping") # {}
                    THEN Min({left[t] : t \in In("sleeping")}) ELSE 0
<1>1. /\ pc = "events"
      /\ state' = [t \in Tasks |-> IF t \in awake \cup idle THEN "ready" ELSE state[t]]
      /\ left' = [t \in Tasks |-> IF state'[t] = "ready" THEN 0
                                 ELSE IF state[t] = "sleeping" THEN left[t] - jump ELSE left[t]]
    BY DEF ProcessEvents
<1>2. awake \subseteq {t \in Tasks : state[t] \in {"io", "sleeping"}} /\ idle \subseteq {t \in Tasks : state[t] = "idle"}
    BY DEF In, Expired, FirstIdle
<1>3. ASSUME StillIdle(awake)
      PROVE  /\ In("ready") = {} /\ awake = {} /\ quiet >= timeout
             /\ idle_primed = "WAITING_FOR_IDLE" => In("idle") # {} /\ timeout = cushion
             /\ idle_primed = "AUTOJUMP_CLOCK" => In("idle") = {} /\ timeout = clock_autojump_threshold
    <2>1. runq = {} /\ awake = {} /\ events = {} /\ ~woken /\ idle_primed # "none"
        BY <1>3 DEF StillIdle
    <2> HIDE DEF awake
    <2>2. In("ready") = {}
        BY <1>1, <2>1 DEF RunLoopInv, ReadyIsQueued, In
    <2>3. quiet >= timeout
        BY <1>1, <2>1 DEF RunLoopInv, WaitedLongEnough
    <2>4. /\ idle_primed = "WAITING_FOR_IDLE" => In("idle") # {} /\ timeout = cushion
          /\ idle_primed = "AUTOJUMP_CLOCK" => In("idle") = {} /\ timeout = clock_autojump_threshold
        BY <1>1, <2>1 DEF RunLoopInv, StaysPrimed, InWait
    <2> QED
        BY <2>1, <2>2, <2>3, <2>4
<1>4. idle # {} => idle_primed = "WAITING_FOR_IDLE" /\ StillIdle(awake) /\ idle = FirstIdle
    OBVIOUS
<1>5. jump # 0 => /\ idle_primed = "AUTOJUMP_CLOCK" /\ StillIdle(awake) /\ In("sleeping") # {}
                  /\ jump = Min({left[t] : t \in In("sleeping")})
    OBVIOUS
<1> HIDE DEF awake, idle, jump
<1>s. \A u \in Tasks : state'[u] = IF u \in awake \cup idle THEN "ready" ELSE state[u]
    BY <1>1
<1>6. ASSUME NEW t \in In("idle"), state'[t] # "idle"
      PROVE  /\ quiet >= left[t]
             /\ \A u \in Tasks : state[u] # "ready" /\ (state'[u] = "ready" => state[u] = "idle")
    <2>1. t \in idle
        BY <1>2, <1>6, <1>s DEF In
    <2>2. idle_primed = "WAITING_FOR_IDLE" /\ StillIdle(awake) /\ left[t] = cushion
        BY <1>4, <2>1 DEF FirstIdle
    <2>3. In("ready") = {} /\ awake = {} /\ quiet >= timeout /\ timeout = cushion
        BY <1>3, <2>2
    <2>4. \A u \in Tasks : state[u] # "ready"
        BY <2>3 DEF In
    <2>5. \A u \in Tasks : state'[u] = "ready" => state[u] = "idle"
        BY <1>2, <1>s, <2>3, <2>4
    <2> QED
        BY <2>2, <2>3, <2>4, <2>5
<1>7. ASSUME NEW t \in In("sleeping"), left'[t] < left[t], state'[t] = "sleeping"
      PROVE  /\ In("ready") = {} /\ In("idle") = {} /\ quiet >= clock_autojump_threshold
             /\ \E u \in In("sleeping") : left'[u] = 0
    <2>1. left[t] \in Nat /\ left'[t] = left[t] - jump /\ t \in Tasks
        BY <1>1, <1>7 DEF In, RunLoopInv, RunLoopTypeOK
    <2>2. jump # 0
        BY <1>7, <2>1
    <2>3. In("ready") = {} /\ In("idle") = {} /\ quiet >= clock_autojump_threshold
        BY <1>3, <1>5, <2>2
    <2>4. \E u \in In("sleeping") : left'[u] = 0
        <3> DEFINE S == {left[u] : u \in In("sleeping")}
        <3>1. S \subseteq Nat /\ S # {}
            BY <1>7 DEF In, RunLoopInv, RunLoopTypeOK
        <3>2. Min(S) \in S
            BY <3>1, MinIsLeast
        <3>3. PICK u \in In("sleeping") : left[u] = Min(S)
            BY <3>2
        <3>4. jump = left[u] /\ left[u] \in Nat /\ u \in Tasks /\ state[u] = "sleeping"
            BY <1>5, <2>2, <3>3 DEF In, RunLoopInv, RunLoopTypeOK
        <3>5. left'[u] = 0
            BY <1>1, <3>4
        <3> QED
            BY <3>5
    <2> QED
        BY <2>3, <2>4
<1> QED
    BY <1>6, <1>7

\* wait_all_tasks_blocked() returns, and a MockClock jumps, only when all tasks
\* have been blocked for the cushion or the threshold, whatever the host does
\* meanwhile; it jumps with nobody in wait_all_tasks_blocked() and just to the
\* next timeout
THEOREM IdleMeansIdleThm == RunLoopSpec => IdleMeansIdle
<1> DEFINE A == pc = "events" =>
                  /\ \A t \in In("idle") : state'[t] # "idle" =>
                        /\ quiet >= left[t]
                        /\ \A u \in Tasks : state[u] # "ready" /\ (state'[u] = "ready" => state[u] = "idle")
                  /\ (\E t \in In("sleeping") : left'[t] < left[t] /\ state'[t] = "sleeping") =>
                        /\ In("ready") = {} /\ In("idle") = {}
                        /\ quiet >= clock_autojump_threshold
                        /\ \E t \in In("sleeping") : left'[t] = 0
<1>1. RunLoopInv /\ [RunLoopNext]_loopVars => [A]_loopVars
    <2> SUFFICES ASSUME RunLoopInv, RunLoopNext, pc = "events" PROVE A
        OBVIOUS
    <2>1. CASE ProcessEvents
        BY <2>1, IdleStep
    <2>2. CASE \E t \in Tasks : IoReady(t)
        <3>1. state' = state /\ left' = left
            BY <2>2 DEF IoReady
        <3>2. \A t \in Tasks : left[t] \in Nat
            BY DEF RunLoopInv, RunLoopTypeOK
        <3> QED
            BY <3>1, <3>2 DEF In
    <2> QED
        BY <2>1, <2>2 DEF RunLoopNext, LoopStep, StartWait, RunEnds, WaitReturns, HostTicks,
           RunSomeTask,
                          RunTask, EndBatch, HostWakes
<1>2. RunLoopSpec => [][A]_loopVars
    BY <1>1, RunLoopAlways, PTL DEF RunLoopSpec
<1> QED
    BY <1>2 DEF IdleMeansIdle
================================================================================
