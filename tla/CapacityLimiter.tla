--------------------------- MODULE CapacityLimiter ---------------------------
(***************************************************************************)
(* trio.CapacityLimiter (trio/_sync.py): a sack of tokens borrowed by      *)
(* tasks or on behalf of any object, whose size can be changed at any      *)
(* time.  A task that waits notes in _pending_borrowers for whom.          *)
(***************************************************************************)
EXTENDS ParkingLot, FiniteSets

CONSTANTS
    limiter_lot,  \* CapacityLimiter._lot
    Borrower,
    OnBehalfOf,   \* the borrowers a task acquires for: itself, with acquire()
    MaxTokens     \* bound: the sizes total_tokens is set to

ASSUME LimiterAssumption ==
    /\ limiter_lot \in Lot
    /\ None \notin Borrower
    /\ OnBehalfOf \in [Task -> SUBSET Borrower]
    /\ MaxTokens \in Nat \ {0}

VARIABLES
    borrowers,          \* CapacityLimiter._borrowers
    total_tokens,
    pending_borrowers,  \* CapacityLimiter._pending_borrowers; None: no entry
    grants              \* history: acquisitions not released, by borrower

limiterVars == <<parked, custom_sleep_data, outcome, borrowers, total_tokens,
                 pending_borrowers, grants>>

LimiterTypeOK ==
    /\ LotTypeOK
    /\ borrowers \subseteq Borrower
    /\ total_tokens \in 1 .. MaxTokens
    /\ pending_borrowers \in [Task -> Borrower \cup {None}]
    /\ grants \in [Borrower -> Nat]

LimiterInit ==
    /\ LotInit
    /\ borrowers = {}
    /\ total_tokens \in 1 .. MaxTokens
    /\ pending_borrowers = [t \in Task |-> None]
    /\ grants = [b \in Borrower |-> 0]

--------------------------------------------------------------------------------
\* acquire_on_behalf_of_nowait() succeeds; otherwise it changes nothing.
CanBorrow(b) ==
    /\ b \notin borrowers
    /\ Cardinality(borrowers) < total_tokens
    /\ parked[limiter_lot] = <<>>

LimiterAcquireNowait(t, b) ==
    /\ Awake(t)
    /\ b \in OnBehalfOf[t]
    /\ CanBorrow(b)
    /\ borrowers' = borrowers \cup {b}
    /\ grants' = [grants EXCEPT ![b] = @ + 1]
    /\ UNCHANGED <<parked, custom_sleep_data, outcome, total_tokens,
                   pending_borrowers>>

(***************************************************************************)
(* acquire_on_behalf_of(), not cancelled on entry: RuntimeError when b is  *)
(* a borrower, a token and a checkpoint, or a place in the lot.            *)
(***************************************************************************)
LimiterAcquire(t, b) ==
    /\ Awake(t)
    /\ b \in OnBehalfOf[t] \ borrowers
    /\ IF CanBorrow(b)
       THEN /\ borrowers' = borrowers \cup {b}
            /\ grants' = [grants EXCEPT ![b] = @ + 1]
            /\ outcome' = Rescheduled({t}, "ok")
            /\ UNCHANGED <<parked, custom_sleep_data, pending_borrowers>>
       ELSE /\ pending_borrowers' = [pending_borrowers EXCEPT ![t] = b]
            /\ parked' = Park(parked, t, limiter_lot)
            /\ custom_sleep_data' = SleepOn({t}, limiter_lot)
            /\ UNCHANGED <<borrowers, grants, outcome>>
    /\ UNCHANGED total_tokens

WakeNobody(B, total) ==
    /\ borrowers' = B
    /\ grants' = [b \in Borrower |->
          IF b \in borrowers \ B THEN grants[b] - 1 ELSE grants[b]]
    /\ UNCHANGED <<parked, custom_sleep_data, outcome, pending_borrowers>>

WakeWithoutRecord(B, total) ==
    LET woken == ToSet(Popped(parked[limiter_lot], total - Cardinality(B)))
    IN  /\ parked' = Pop(parked, limiter_lot, total - Cardinality(B))
        /\ custom_sleep_data' = SleepOn(woken, None)
        /\ outcome' = Rescheduled(woken, "ok")
        /\ borrowers' = B
        /\ pending_borrowers' = [t \in Task |->
              IF t \in woken THEN None ELSE pending_borrowers[t]]
        /\ grants' = [b \in Borrower |->
              (IF b \in borrowers \ B THEN grants[b] - 1 ELSE grants[b])
              + Cardinality({t \in woken : pending_borrowers[t] = b})]

(***************************************************************************)
(* _wake_waiters(), with B the borrowers left and total the new size.      *)
(***************************************************************************)
WakeWaiters(B, total) ==
    LET available == total - Cardinality(B)
        woken     == ToSet(Popped(parked[limiter_lot], available))
    IN  /\ parked' = Pop(parked, limiter_lot, available)
        /\ custom_sleep_data' = SleepOn(woken, None)
        /\ outcome' = Rescheduled(woken, "ok")
        /\ borrowers' = B \cup {pending_borrowers[t] : t \in woken}
        /\ pending_borrowers' = [t \in Task |->
              IF t \in woken THEN None ELSE pending_borrowers[t]]
        /\ grants' = [b \in Borrower |->
              (IF b \in borrowers \ B THEN grants[b] - 1 ELSE grants[b])
              + Cardinality({t \in woken : pending_borrowers[t] = b})]

\* release_on_behalf_of(); RuntimeError for anybody else.
LimiterRelease(b) ==
    /\ b \in borrowers
    /\ WakeWaiters(borrowers \ {b}, total_tokens)
    /\ UNCHANGED total_tokens

\* The setter of total_tokens.
SetTotalTokens(n) ==
    /\ n # total_tokens
    /\ total_tokens' = n
    /\ WakeWaiters(borrowers, n)

--------------------------------------------------------------------------------
LimiterCancel(t) ==
    /\ Abort(t, "Cancelled")
    /\ UNCHANGED <<borrowers, total_tokens, pending_borrowers, grants>>

\* Control-C aborts the main task wherever it is parked.
LimiterDeliverKi ==
    /\ Abort(MainTask, "KeyboardInterrupt")
    /\ UNCHANGED <<borrowers, total_tokens, pending_borrowers, grants>>

(***************************************************************************)
(* The task runs again.  A cancelled acquire forgets for whom it waited;   *)
(* an interrupted one does not.                                            *)
(***************************************************************************)
LimiterResume(t) ==
    /\ outcome[t] # "none"
    /\ outcome' = Rescheduled({t}, "none")
    /\ pending_borrowers' = [pending_borrowers EXCEPT
          ![t] = IF outcome[t] = "Cancelled" THEN None ELSE @]
    /\ UNCHANGED <<parked, custom_sleep_data, borrowers, total_tokens, grants>>

LimiterNext ==
    \/ \E t \in Task :
          \/ \E b \in Borrower : LimiterAcquireNowait(t, b) \/ LimiterAcquire(t, b)
          \/ LimiterCancel(t)
          \/ LimiterResume(t)
    \/ \E b \in Borrower : LimiterRelease(b)
    \/ \E n \in 1 .. MaxTokens : SetTotalTokens(n)
    \/ LimiterDeliverKi

LimiterSpec == LimiterInit /\ [][LimiterNext]_limiterVars

--------------------------------------------------------------------------------
(***************************************************************************)
(* Properties                                                              *)
(***************************************************************************)

(***************************************************************************)
(* Nobody waits while there is a token in the sack, after any sequence of  *)
(* releases, cancellations and changes of size.                            *)
(***************************************************************************)
NoTokenLeftIdle ==
    /\ LimiterTypeOK
    /\ parked[limiter_lot] # <<>> => Cardinality(borrowers) >= total_tokens

(***************************************************************************)
(* The documentation of acquire_on_behalf_of(): RuntimeError if the        *)
(* borrower already holds a token.  So no borrower is granted two.         *)
(***************************************************************************)
OneTokenPerBorrower == \A b \in Borrower : grants[b] <= 1

(***************************************************************************)
(* Every grant is on record, and for every parked task there is a borrower *)
(* that _wake_waiters() finds.                                             *)
(***************************************************************************)
GrantsOnRecord ==
    /\ \A b \in Borrower : grants[b] > 0 <=> b \in borrowers
    /\ \A t \in ToSet(parked[limiter_lot]) :
          pending_borrowers[t] \in OnBehalfOf[t] \ borrowers
================================================================================
