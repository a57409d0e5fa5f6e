-------------------------------- MODULE Locks --------------------------------
(***************************************************************************)
(* trio.Lock and trio.Condition (trio/_sync.py): one condition and its     *)
(* lock, used the way the documentation asks for:                          *)
(*                                                                         *)
(*     async with condition: ... await condition.wait() ...                *)
(*                                                                         *)
(* Releasing a contended lock hands it to the longest waiting task, and    *)
(* notify() only moves waiters from the condition's lot to the lock's.  A  *)
(* method runs to its next checkpoint without interruption, so it is one   *)
(* step.  The main task can also be interrupted by control-C, which no     *)
(* cancel scope shields it from.                                           *)
(***************************************************************************)
EXTENDS ParkingLot, FiniteSets

CONSTANTS
    lock_lot,    \* Lock._lot
    cond_lot,    \* Condition._lot
    MaxKI        \* bound: the number of control-Cs

ASSUME LocksAssumption ==
    /\ {lock_lot, cond_lot} \subseteq Lot /\ lock_lot # cond_lot
    /\ MaxKI \in Nat

VARIABLES
    owner,        \* Lock._owner
    lock_pc,      \* where a task is
    ki_pending,
    kis           \* control-Cs so far

lockVars == <<parked, custom_sleep_data, outcome, owner, lock_pc, ki_pending, kis>>

(***************************************************************************)
(* "acquiring" is inside acquire(), "waiting" in the park() of wait(),     *)
(* "reacquiring" in the shielded acquire() of wait(), and "holding" in the *)
(* body of the async with block.                                           *)
(***************************************************************************)
Place == {"idle", "acquiring", "holding", "waiting", "reacquiring"}

LocksTypeOK ==
    /\ LotTypeOK
    /\ owner \in Task \cup {None}
    /\ lock_pc \in [Task -> Place]
    /\ ki_pending \in BOOLEAN
    /\ kis \in 0 .. MaxKI

LocksInit ==
    /\ LotInit
    /\ owner = None
    /\ lock_pc = [t \in Task |-> "idle"]
    /\ ki_pending = FALSE
    /\ kis = 0

Goto(t, place) == lock_pc' = [lock_pc EXCEPT ![t] = place]

--------------------------------------------------------------------------------
(***************************************************************************)
(* Lock                                                                    *)
(***************************************************************************)
\* acquire_nowait() succeeds; otherwise it raises and changes nothing.
CanTake(t) == owner = None /\ parked[lock_lot] = <<>>

LockAcquireNowait(t) ==
    /\ Awake(t) /\ lock_pc[t] = "idle"
    /\ CanTake(t)
    /\ owner' = t
    /\ Goto(t, "holding")
    /\ UNCHANGED <<parked, custom_sleep_data, outcome, ki_pending, kis>>

(***************************************************************************)
(* The body of acquire(): take the lock and pass through a checkpoint that *)
(* cannot be cancelled, or park.                                           *)
(***************************************************************************)
TakeOrPark(t) ==
    IF CanTake(t)
    THEN /\ owner' = t
         /\ outcome' = Rescheduled({t}, "ok")
         /\ UNCHANGED <<parked, custom_sleep_data>>
    ELSE /\ parked' = Park(parked, t, lock_lot)
         /\ custom_sleep_data' = SleepOn({t}, lock_lot)
         /\ outcome' = Rescheduled({t}, "none")
         /\ UNCHANGED owner

\* acquire() by a task that does not own the lock and is not cancelled.
LockAcquire(t) ==
    /\ Awake(t) /\ lock_pc[t] = "idle"
    /\ owner # t
    /\ ~ (t = MainTask /\ ki_pending)
    /\ TakeOrPark(t)
    /\ Goto(t, "acquiring")
    /\ UNCHANGED <<ki_pending, kis>>

\* release() at the end of the block; RuntimeError when t is not the owner.
LockRelease(t) ==
    /\ Awake(t) /\ lock_pc[t] = "holding"
    /\ IF owner # t
       THEN UNCHANGED <<parked, custom_sleep_data, outcome, owner>>
       ELSE LET next == Popped(parked[lock_lot], 1)
            IN  /\ owner' = IF next = <<>> THEN None ELSE next[1]
                /\ parked' = Pop(parked, lock_lot, 1)
                /\ custom_sleep_data' = SleepOn(ToSet(next), None)
                /\ outcome' = Rescheduled(ToSet(next), "ok")
    /\ Goto(t, "idle")
    /\ UNCHANGED <<ki_pending, kis>>

--------------------------------------------------------------------------------
(***************************************************************************)
(* Condition                                                               *)
(***************************************************************************)
\* wait(): release the lock, which may hand it to a waiter, and park.
ConditionWait(t) ==
    LET next == Popped(parked[lock_lot], 1)
    IN  /\ Awake(t) /\ lock_pc[t] = "holding"
        /\ owner = t
        /\ owner' = IF next = <<>> THEN None ELSE next[1]
        /\ parked' = Park(Pop(parked, lock_lot, 1), t, cond_lot)
        /\ custom_sleep_data' =
              [SleepOn(ToSet(next), None) EXCEPT ![t] = cond_lot]
        /\ outcome' = Rescheduled(ToSet(next), "ok")
        /\ Goto(t, "waiting")
        /\ UNCHANGED <<ki_pending, kis>>

ConditionNotifyForgetsSleepData(t, n) ==
    /\ Awake(t) /\ lock_pc[t] = "holding"
    /\ owner = t
    /\ parked' = Repark(parked, cond_lot, lock_lot, n)
    /\ UNCHANGED <<custom_sleep_data, outcome, owner, lock_pc, ki_pending, kis>>

\* notify(n), and notify_all() with n the number of waiters.
ConditionNotify(t, n) ==
    /\ Awake(t) /\ lock_pc[t] = "holding"
    /\ owner = t
    /\ parked' = Repark(parked, cond_lot, lock_lot, n)
    /\ custom_sleep_data' =
          SleepOn(ToSet(Popped(parked[cond_lot], n)), lock_lot)
    /\ UNCHANGED <<outcome, owner, lock_pc, ki_pending, kis>>

--------------------------------------------------------------------------------
(***************************************************************************)
(* What the run loop does to a task                                        *)
(***************************************************************************)

(***************************************************************************)
(* A surrounding scope is cancelled.  The acquire() of wait()'s exception  *)
(* path is in a shielded scope of its own.                                 *)
(***************************************************************************)
LockCancel(t) ==
    /\ lock_pc[t] # "reacquiring"
    /\ Abort(t, "Cancelled")
    /\ UNCHANGED <<owner, lock_pc, ki_pending, kis>>

\* Runner.deliver_ki(): the main task is to be interrupted.
Interrupt ==
    /\ kis < MaxKI
    /\ kis' = kis + 1
    /\ ki_pending' = TRUE
    /\ UNCHANGED <<parked, custom_sleep_data, outcome, owner, lock_pc>>

\* The main task is parked: whatever it is parked for, it is aborted.
LockDeliverKi ==
    /\ ki_pending
    /\ Abort(MainTask, "KeyboardInterrupt")
    /\ ki_pending' = FALSE
    /\ UNCHANGED <<owner, lock_pc, kis>>

\* Or it comes to another checkpoint, that of acquire() included.
KiElsewhere ==
    /\ ki_pending
    /\ Awake(MainTask)
    /\ ki_pending' = FALSE
    /\ UNCHANGED <<parked, custom_sleep_data, outcome, owner, lock_pc, kis>>

\* A task that was rescheduled with a value holds the lock.
ResumeHolding(t) ==
    /\ outcome[t] = "ok"
    /\ outcome' = Rescheduled({t}, "none")
    /\ Goto(t, "holding")
    /\ UNCHANGED <<parked, custom_sleep_data, owner, ki_pending, kis>>

\* acquire() raises.
ResumeAcquireRaises(t) ==
    /\ outcome[t] \in {"Cancelled", "KeyboardInterrupt"}
    /\ lock_pc[t] = "acquiring"
    /\ outcome' = Rescheduled({t}, "none")
    /\ Goto(t, "idle")
    /\ UNCHANGED <<parked, custom_sleep_data, owner, ki_pending, kis>>

WaitRaisesAtOnce(t) ==
    /\ outcome[t] \in {"Cancelled", "KeyboardInterrupt"}
    /\ lock_pc[t] = "waiting"
    /\ outcome' = Rescheduled({t}, "none")
    /\ Goto(t, "holding")
    /\ UNCHANGED <<parked, custom_sleep_data, owner, ki_pending, kis>>

\* The park() of wait() raises: acquire the lock again, behind a shield.
Reacquire(t) ==
    /\ outcome[t] \in {"Cancelled", "KeyboardInterrupt"}
    /\ lock_pc[t] = "waiting"
    /\ ~ (t = MainTask /\ ki_pending)
    /\ TakeOrPark(t)
    /\ Goto(t, "reacquiring")
    /\ UNCHANGED <<ki_pending, kis>>

(***************************************************************************)
(* A control-C ends the shielded acquire() as well, whether it was pending *)
(* at its checkpoint_if_cancelled() or arrived while the task was parked.  *)
(* wait() raises, and the caller is back in the block.                     *)
(***************************************************************************)
ReacquireRaises(t) ==
    /\ \/ /\ outcome[t] \in {"Cancelled", "KeyboardInterrupt"}
          /\ lock_pc[t] = "waiting"
          /\ t = MainTask /\ ki_pending
          /\ ki_pending' = FALSE
       \/ /\ outcome[t] = "KeyboardInterrupt"
          /\ lock_pc[t] = "reacquiring"
          /\ UNCHANGED ki_pending
    /\ outcome' = Rescheduled({t}, "none")
    /\ Goto(t, "holding")
    /\ UNCHANGED <<parked, custom_sleep_data, owner, kis>>

LockResume(t) ==
    \/ ResumeHolding(t)
    \/ ResumeAcquireRaises(t)
    \/ Reacquire(t)
    \/ ReacquireRaises(t)

LocksNext ==
    \/ \E t \in Task :
          \/ LockAcquireNowait(t)
          \/ LockAcquire(t)
          \/ LockRelease(t)
          \/ ConditionWait(t)
          \/ \E n \in 1 .. Cardinality(Task) : ConditionNotify(t, n)
          \/ LockCancel(t)
          \/ LockResume(t)
    \/ Interrupt
    \/ LockDeliverKi
    \/ KiElsewhere

LocksSpec == LocksInit /\ [][LocksNext]_lockVars

\* The run loop runs every task it has rescheduled.
LocksFairness == \A t \in Task : WF_lockVars(LockResume(t))

--------------------------------------------------------------------------------
(***************************************************************************)
(* Properties                                                              *)
(***************************************************************************)

(***************************************************************************)
(* Mutual exclusion and hand-off.  The lock is never free while somebody   *)
(* waits for it, and never belongs to a task that does not know: release() *)
(* races with the cancellation of the task it hands the lock to.  A task   *)
(* in the block owns the lock, the main task at least as long as no        *)
(* control-C was delivered.                                                *)
(***************************************************************************)
LockIsHandedOver ==
    /\ LocksTypeOK
    /\ \A t \in Task :
          lock_pc[t] = "holding" => owner = t \/ (t = MainTask /\ kis > 0)
    /\ parked[lock_lot] # <<>> => owner # None
    /\ owner # None =>
          \/ lock_pc[owner] = "holding" /\ Awake(owner)
          \/ outcome[owner] = "ok"

(***************************************************************************)
(* The documentation of wait(): it re-acquires the lock before waking up,  *)
(* so that the async with block around it can release it.                  *)
(***************************************************************************)
WaitLeavesHoldingLock ==
    \A t \in Task : lock_pc[t] = "holding" => owner = t

(***************************************************************************)
(* If no task owns the lock for ever, none waits for it for ever: nothing  *)
(* overtakes a parked task, a notified waiter included.                    *)
(***************************************************************************)
NoStarvation ==
    (\A t \in Task : []<>(owner # t))
    => \A t \in Task : []<>(custom_sleep_data[t] # lock_lot)
================================================================================
