------------------------------ MODULE Semaphore ------------------------------
(***************************************************************************)
(* trio.Semaphore (trio/_sync.py).  A task acquires at most once at a time *)
(* and releases what it has; somebody may also release what was never      *)
(* acquired, which is legal up to max_value.                               *)
(***************************************************************************)
EXTENDS ParkingLot, FiniteSets

CONSTANTS
    semaphore_lot,   \* Semaphore._lot
    initial_value,
    max_value,       \* None for an unbounded semaphore
    MaxExtra         \* bound: releases of what was never acquired

ASSUME SemaphoreAssumption ==
    /\ semaphore_lot \in Lot
    /\ initial_value \in Nat /\ MaxExtra \in Nat
    /\ max_value # None => max_value \in Nat /\ initial_value <= max_value

VARIABLES
    value,         \* Semaphore._value
    semaphore_pc,  \* where a task is
    extra          \* history: releases of what was never acquired

semaphoreVars == <<parked, custom_sleep_data, outcome, value, semaphore_pc, extra>>

SemaphoreTypeOK ==
    /\ LotTypeOK
    /\ value \in Nat
    /\ max_value # None => value <= max_value
    /\ semaphore_pc \in [Task -> {"idle", "acquiring", "holding"}]
    /\ extra \in 0 .. MaxExtra

SemaphoreInit ==
    /\ LotInit
    /\ value = initial_value
    /\ semaphore_pc = [t \in Task |-> "idle"]
    /\ extra = 0

--------------------------------------------------------------------------------
\* acquire_nowait(); WouldBlock changes nothing.
SemaphoreAcquireNowait(t) ==
    /\ Awake(t) /\ semaphore_pc[t] = "idle"
    /\ value > 0
    /\ value' = value - 1
    /\ semaphore_pc' = [semaphore_pc EXCEPT ![t] = "holding"]
    /\ UNCHANGED <<parked, custom_sleep_data, outcome, extra>>

\* acquire(), not cancelled on entry: take one, or park.
SemaphoreAcquire(t) ==
    /\ Awake(t) /\ semaphore_pc[t] = "idle"
    /\ IF value > 0
       THEN /\ value' = value - 1
            /\ outcome' = Rescheduled({t}, "ok")
            /\ UNCHANGED <<parked, custom_sleep_data>>
       ELSE /\ parked' = Park(parked, t, semaphore_lot)
            /\ custom_sleep_data' = SleepOn({t}, semaphore_lot)
            /\ UNCHANGED <<value, outcome>>
    /\ semaphore_pc' = [semaphore_pc EXCEPT ![t] = "acquiring"]
    /\ UNCHANGED extra

PutBackAndCount ==
    LET woken == ToSet(Popped(parked[semaphore_lot], 1))
    IN  /\ parked' = Pop(parked, semaphore_lot, 1)
        /\ custom_sleep_data' = SleepOn(woken, None)
        /\ outcome' = Rescheduled(woken, "ok")
        /\ value' = value + 1

(***************************************************************************)
(* The body of release(): hand over to a waiter, or count up; ValueError   *)
(* at max_value changes nothing.                                           *)
(***************************************************************************)
PutBack ==
    IF parked[semaphore_lot] # <<>>
    THEN LET woken == ToSet(Popped(parked[semaphore_lot], 1))
         IN  /\ parked' = Pop(parked, semaphore_lot, 1)
             /\ custom_sleep_data' = SleepOn(woken, None)
             /\ outcome' = Rescheduled(woken, "ok")
             /\ UNCHANGED value
    ELSE /\ value # max_value
         /\ value' = value + 1
         /\ UNCHANGED <<parked, custom_sleep_data, outcome>>

\* release() by a task that has acquired.
SemaphoreRelease(t) ==
    /\ Awake(t) /\ semaphore_pc[t] = "holding"
    /\ PutBack
    /\ semaphore_pc' = [semaphore_pc EXCEPT ![t] = "idle"]
    /\ UNCHANGED extra

\* release() out of the blue.
SemaphoreReleaseExtra ==
    /\ extra < MaxExtra
    /\ PutBack
    /\ extra' = extra + 1
    /\ UNCHANGED semaphore_pc

SemaphoreCancel(t) ==
    /\ Abort(t, "Cancelled")
    /\ UNCHANGED <<value, semaphore_pc, extra>>

\* acquire() returns or raises.
SemaphoreResume(t) ==
    /\ outcome[t] # "none"
    /\ semaphore_pc' = [semaphore_pc EXCEPT
          ![t] = IF outcome[t] = "ok" THEN "holding" ELSE "idle"]
    /\ outcome' = Rescheduled({t}, "none")
    /\ UNCHANGED <<parked, custom_sleep_data, value, extra>>

SemaphoreNext ==
    \/ \E t \in Task :
          \/ SemaphoreAcquireNowait(t)
          \/ SemaphoreAcquire(t)
          \/ SemaphoreRelease(t)
          \/ SemaphoreCancel(t)
          \/ SemaphoreResume(t)
    \/ SemaphoreReleaseExtra

SemaphoreSpec == SemaphoreInit /\ [][SemaphoreNext]_semaphoreVars

--------------------------------------------------------------------------------
(***************************************************************************)
(* Properties                                                              *)
(***************************************************************************)

(***************************************************************************)
(* Nothing is lost or made up: what can be taken, what tasks have and what *)
(* has been handed to tasks still on their way, cancelled or not, is the   *)
(* initial value and the extra releases.  And nobody waits while there is  *)
(* something to take: the invariant written down in __init__ and asserted  *)
(* by acquire_nowait() and release().                                      *)
(***************************************************************************)
PermitsConserved ==
    /\ SemaphoreTypeOK
    /\ parked[semaphore_lot] # <<>> => value = 0
    /\ value + Cardinality({t \in Task :
                  \/ semaphore_pc[t] = "holding"
                  \/ semaphore_pc[t] = "acquiring" /\ outcome[t] = "ok"})
        = initial_value + extra

================================================================================
