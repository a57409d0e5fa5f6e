------------------------------- MODULE MCThreads -------------------------------
(***************************************************************************)
(* Model-checking instances of what crosses threads.  The entry queue:     *)
(* with control-C and calls that are made once; and on its own, with       *)
(* idempotent calls, which can be repeated for ever (so that no thread's   *)
(* wait for the lock is bounded, and no fairness is assumed).  The worker  *)
(* thread cache, with one worker name more than there are callers, for the *)
(* thread that should not be.  And the calls into and out of threads,      *)
(* whose jobs the cache runs without knowing them.                         *)
(***************************************************************************)
EXTENDS KeyboardInterrupt, Threads, ThreadCache

VARIABLE part    \* "interrupts", "idempotent", "cache" or "calls"

Interrupts == INSTANCE KeyboardInterrupt WITH Key <- {}

MCVars == <<allVars, threadVars, cacheVars, part>>

MCNext ==
    /\ \/ /\ part = "interrupts" /\ Interrupts!KiNext
          /\ UNCHANGED <<threadVars, cacheVars>>
       \/ /\ part = "idempotent" /\ Next /\ KiJob \subseteq fresh' /\ UNCHANGED kiVars
          /\ UNCHANGED <<threadVars, cacheVars>>
       \/ part = "cache" /\ CacheNext /\ UNCHANGED <<allVars, threadVars>>
       \/ part = "calls" /\ ThreadsNext /\ UNCHANGED <<allVars, cacheVars>>
    /\ UNCHANGED part

MCInit ==
    /\ part \in {"interrupts", "idempotent", "cache", "calls"}
    /\ KiInit /\ ThreadsInit /\ CacheInit

\* KiFairness, for the part that assumes it.  The other two stand as they are:
\* a component that is not explored stays in its initial state, in which
\* nothing is enabled that they are about.
InterruptsFairness ==
    /\ WF_allVars(part = "interrupts" /\ (Interrupts!DeliverKiCb \/ Interrupts!QueueTask))
    /\ \A t \in Thread :
          WF_allVars(part = "interrupts" /\ Interrupts!ThreadStep(t) /\ UNCHANGED kiVars)

MCSpec ==
    /\ MCInit
    /\ [][MCNext]_MCVars
    /\ InterruptsFairness /\ CacheFairness /\ ThreadsFairness

(***************************************************************************)
(* Whatever is handed over is answered: a callback that run_sync_soon()    *)
(* accepted is run although the run is shutting down, a job given to the   *)
(* thread cache is run and delivered, and no call of to_thread or          *)
(* from_thread is left waiting.                                            *)
(***************************************************************************)
EveryCallIsAnswered ==
    /\ part = "interrupts" => EveryJobRuns
    /\ EveryJobDelivered
    /\ NoCallHangs
================================================================================
