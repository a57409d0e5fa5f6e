--------------------------------- MODULE MCSync --------------------------------
(***************************************************************************)
(* Model-checking instance of the synchronization primitives.  They share  *)
(* nothing but the parking lot code, so the tasks use one of them: a lock  *)
(* with its condition, a semaphore or a capacity limiter.                  *)
(***************************************************************************)
EXTENDS Locks, Semaphore, CapacityLimiter, TLC

CONSTANTS t1, t2, t3, b1, b2, b3

\* Each primitive has made lots of its own.
ASSUME SyncAssumption ==
    /\ IsFiniteSet(Task)
    /\ semaphore_lot \notin {lock_lot, cond_lot}
    /\ limiter_lot \notin {lock_lot, cond_lot, semaphore_lot}

VARIABLE primitive    \* the one in use

\* Each task borrows for itself, or for an object nobody else knows of.
OwnBorrowers == t1 :> {b1} @@ t2 :> {b2} @@ t3 :> {b3}

\* Two tasks borrow on behalf of the same object.
SharedBorrower == t1 :> {b1} @@ t2 :> {b2} @@ t3 :> {b2}

lockOnly      == <<owner, lock_pc, ki_pending, kis>>
semaphoreOnly == <<value, semaphore_pc, extra>>
limiterOnly   == <<borrowers, total_tokens, pending_borrowers, grants>>
syncVars      == <<lotVars, lockOnly, semaphoreOnly, limiterOnly, primitive>>

SyncNext ==
    /\ \/ /\ primitive = "lock"
          /\ LocksNext
          /\ UNCHANGED <<semaphoreOnly, limiterOnly>>
       \/ /\ primitive = "semaphore"
          /\ SemaphoreNext
          /\ UNCHANGED <<lockOnly, limiterOnly>>
       \/ /\ primitive = "limiter"
          /\ LimiterNext
          /\ UNCHANGED <<lockOnly, semaphoreOnly>>
    /\ UNCHANGED primitive

SyncInit ==
    /\ LocksInit /\ SemaphoreInit /\ LimiterInit
    /\ primitive \in {"lock", "semaphore", "limiter"}
    /\ primitive # "limiter" => total_tokens = 1

SyncSpec ==
    /\ SyncInit
    /\ [][SyncNext]_syncVars
    /\ primitive = "lock" => LocksFairness

\* What is released reaches exactly one of those who wait, whatever mix of
\* releases, cancellations, interrupts, moves between lots and changes of
\* size led here: the lots and their sleepers agree, and neither a lock, nor
\* a permit, nor a token is lost, made up or left idle while a task waits.
HandedOver ==
    /\ ParkedAgrees /\ LockIsHandedOver /\ PermitsConserved
    /\ NoTokenLeftIdle /\ GrantsOnRecord
================================================================================
