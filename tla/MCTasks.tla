-------------------------------- MODULE MCTasks --------------------------------
(***************************************************************************)
(* Model-checking instances of the tasks of one run.  RunLoop decides when *)
(* they run: guest mode on an autojumping MockClock and on a clock that    *)
(* runs, and a regular run on a MockClock.  The synchronization primitives *)
(* of MCSync decide who waits for whom, whatever the loop does.  The two   *)
(* share no state, and an instance explores one of them.                   *)
(***************************************************************************)
EXTENDS MCSync, RunLoop

VARIABLE mode    \* "guest", "running", "regular" or "primitives"

Running ==
    INSTANCE RunLoop
    WITH Rate <- 1, SleepTime <- {2}, clock_autojump_threshold <- MAX_TIMEOUT
Regular == INSTANCE RunLoop WITH Guest <- FALSE

MCLoopStep ==
    /\ \/ mode = "guest" /\ LoopStep
       \/ mode = "running" /\ Running!LoopStep
       \/ mode = "regular" /\ Regular!LoopStep
    /\ UNCHANGED mode

MCNext ==
    /\ \/ mode = "guest" /\ RunLoopNext /\ UNCHANGED syncVars
       \/ mode = "running" /\ Running!RunLoopNext /\ UNCHANGED syncVars
       \/ mode = "regular" /\ Regular!RunLoopNext /\ UNCHANGED syncVars
       \/ mode = "primitives" /\ SyncNext /\ UNCHANGED loopVars
    /\ UNCHANGED mode

MCInit ==
    /\ mode \in {"guest", "running", "regular", "primitives"}
    /\ RunLoopInit /\ SyncInit
    /\ mode # "primitives" => primitive = "lock"

\* The loop, its thread and the host go on; nothing is assumed of I/O.  A
\* task that was woken in one of the lock's lots is resumed.
MCSpec ==
    /\ MCInit
    /\ [][MCNext]_<<loopVars, syncVars, mode>>
    /\ WF_<<loopVars, mode>>(MCLoopStep)
    /\ \A t \in Task : WF_lockVars(primitive = "lock" /\ LockResume(t))

\* Starvation freedom of the run loop, in the runs that explore it: a runnable
\* task runs, however busy the others, the host and the I/O are.
RunnableTasksRun == mode # "primitives" => RunnableRuns
================================================================================
