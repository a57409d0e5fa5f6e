------------------------------ MODULE ParkingLot ------------------------------
(***************************************************************************)
(* Parking lots (trio/_core/_parking_lot.py), the wait queues under Lock,  *)
(* Condition, Semaphore and CapacityLimiter.  A method of a primitive      *)
(* changes several lots before it yields, so the lot operations are        *)
(* functions on the whole set of lots that the primitives put together.    *)
(***************************************************************************)
EXTENDS Integers, Sequences, SequencesExt

CONSTANTS
    Task,
    MainTask,   \* the task that control-C interrupts
    Lot,
    None

ASSUME ParkingLotAssumption == MainTask \in Task /\ None \notin Task \cup Lot

VARIABLES
    parked,             \* the keys of ParkingLot._parked, in order
    custom_sleep_data,  \* the lot a task is parked in
    outcome             \* what a rescheduled task will be sent

lotVars == <<parked, custom_sleep_data, outcome>>

Outcome == {"none", "ok", "Cancelled", "KeyboardInterrupt"}

LotTypeOK ==
    /\ parked \in [Lot -> Seq(Task)]
    /\ custom_sleep_data \in [Task -> Lot \cup {None}]
    /\ outcome \in [Task -> Outcome]

LotInit ==
    /\ parked = [l \in Lot |-> <<>>]
    /\ custom_sleep_data = [t \in Task |-> None]
    /\ outcome = [t \in Task |-> "none"]

--------------------------------------------------------------------------------
\* The task is running its own code.
Awake(t) == custom_sleep_data[t] = None /\ outcome[t] = "none"

\* How many tasks _pop_several(count) yields; a negative count yields none.
PopCount(q, count) == IF count < 0 THEN 0 ELSE IF count < Len(q) THEN count ELSE Len(q)

\* The tasks _pop_several(count) yields: the longest parked first.
Popped(q, count) == SubSeq(q, 1, PopCount(q, count))

\* And the ones it leaves.
Left(q, count) == SubSeq(q, PopCount(q, count) + 1, Len(q))

ParkFirst(p, t, l) == [p EXCEPT ![l] = <<t>> \o @]

\* The lots p with t parked in l, or with tasks popped from l.
Park(p, t, l) == [p EXCEPT ![l] = Append(@, t)]
Pop(p, l, count) == [p EXCEPT ![l] = Left(@, count)]

\* repark(): from one lot to the end of another, keeping the order.
Repark(p, l, new_lot, count) ==
    [Pop(p, l, count) EXCEPT ![new_lot] = @ \o Popped(p[l], count)]

\* reschedule() of the tasks in T with outcome x.
Rescheduled(T, x) == [t \in Task |-> IF t \in T THEN x ELSE outcome[t]]

\* custom_sleep_data once the tasks in T sleep on x (None: no longer asleep).
SleepOn(T, x) == [t \in Task |-> IF t \in T THEN x ELSE custom_sleep_data[t]]

\* abort_fn of park(), and the reschedule() that follows its success.
Abort(t, x) ==
    LET l == custom_sleep_data[t]
    IN  /\ l # None
        /\ \E i \in 1 .. Len(parked[l]) :
              parked[l][i] = t /\ parked' = [parked EXCEPT ![l] = RemoveAt(@, i)]
        /\ custom_sleep_data' = SleepOn({t}, None)
        /\ outcome' = Rescheduled({t}, x)

--------------------------------------------------------------------------------
(***************************************************************************)
(* The lots and custom_sleep_data agree whatever mix of parking, waking,   *)
(* moving and aborting led here: otherwise abort_fn deletes a task from a  *)
(* lot it is not in, and unpark() reschedules one that was rescheduled.    *)
(***************************************************************************)
ParkedAgrees ==
    \A l \in Lot :
        /\ \A t \in Task : t \in ToSet(parked[l]) <=> custom_sleep_data[t] = l
        /\ IsInjective(parked[l])
        /\ \A t \in ToSet(parked[l]) : outcome[t] = "none"
================================================================================
