----------------------------- MODULE Subprocess -----------------------------
(***************************************************************************)
(* trio/_subprocess.py and _subprocess_platform: one child process, the    *)
(* tasks that wait() for it, poll it and signal it, and run_process, which *)
(* owns it: its helpers, its killer and its clean up.  `platform` says how *)
(* the exit is noticed: a pidfd, a thread in waitid, or kqueue.            *)
(***************************************************************************)
EXTENDS Naturals, Sequences, FiniteSets, SequencesExt

CONSTANTS Task, Runner  \* the tasks that use the Process; the one in run_process

ASSUME ProcessAssumption == Runner \in Task

VARIABLES
    platform,   \* "pidfd", "waitid" or "kqueue"
    obeys,      \* the child ends when it gets a SIGTERM
    permitted,  \* the kernel lets Trio signal the child: it is not setuid, ...
    inherited,  \* a process that the child has started holds its pipes too
    child,      \* "none", "running", "zombie" or "reaped" (Popen.returncode is known)
    pidfd,      \* _pidfd: "none", "open" or "closed"
    wait_lock,  \* _wait_lock: the holder and those in line
    pc,         \* where each task is in wait(): "idle", "lock", "asleep" or "done"
    exit_event, \* _wait_for_exit_data: "none", "unset" or "set"
    threads,    \* threads in sync_wait_reapable
    rp,         \* run_process: "open", "wait", "kill", "exit", "raise", "returned", "raised"
    cancelled,  \* the cancel status around run_process, or its nursery's
    killer,     \* "none", "scheduled", "sleep" or "done"
    killer_cscope,  \* killer_cscope.cancel_called
    helpers     \* feed_input and read_output tasks of run_process's nursery

procVars == <<platform, obeys, permitted, inherited, child, pidfd, wait_lock, pc, exit_event, threads,
              rp, cancelled, killer, killer_cscope, helpers>>
ownVars == <<rp, cancelled, killer, killer_cscope, helpers>>
fixed == <<platform, obeys, permitted, inherited>>

ProcessInit ==
    /\ platform \in {"pidfd", "waitid", "kqueue"}
    /\ obeys \in BOOLEAN /\ permitted \in BOOLEAN /\ inherited \in BOOLEAN
    /\ child = "none" /\ pidfd = "none" /\ wait_lock = <<>>
    /\ pc = [t \in Task |-> "idle"] /\ exit_event = "none" /\ threads = 0
    /\ rp = "open" /\ cancelled = FALSE
    /\ killer = "none" /\ killer_cscope = FALSE /\ helpers = {}

\* open_process in a thread that cannot be cancelled, then Process.__init__,
\* the helpers of run_process and task_status.started()
open_process(withInput, withOutput) ==
    /\ rp = "open"
    /\ child' = "running" /\ rp' = "wait"
    /\ pidfd' = IF platform = "pidfd" THEN "open" ELSE "none"
    /\ helpers' = {h \in {"feed_input", "read_output"} :
                     IF h = "feed_input" THEN withInput ELSE withOutput}
    /\ UNCHANGED <<fixed, wait_lock, pc, exit_event, threads, cancelled, killer, killer_cscope>>

\* Popen raised: the pipes are closed again and the error goes on
OpenFails ==
    /\ rp = "open" /\ rp' = "raised"
    /\ UNCHANGED <<fixed, child, pidfd, wait_lock, pc, exit_event, threads, cancelled, killer,
                   killer_cscope, helpers>>

\* returncode: what poll() finds out, and _close_pidfd
Reaped == child # "running"
CloseIfReaped(known) == pidfd' = IF known /\ pidfd = "open" THEN "closed" ELSE pidfd

\* wait() is called: by run_process, before and after its own cancellation,
\* and by users of the Process that nursery.start gave them
CallWait(t) ==
    /\ child # "none" /\ pc[t] = "idle"
    /\ t = Runner => rp \in {"wait", "kill"}
    /\ wait_lock' = Append(wait_lock, t)
    /\ pc' = [pc EXCEPT ![t] = "lock"]
    /\ UNCHANGED <<fixed, child, pidfd, exit_event, threads, ownVars>>

\* A plausible bug: a new waitid thread for every call of wait().
ThreadForEach == platform = "waitid" /\ exit_event # "set"

\* wait_child_exiting has not been called before (waitid)
FirstWait == platform = "waitid" /\ exit_event = "none"

\* wait() with the lock: poll(), and for a living child the wait for its
\* exit; wait_child_exiting starts one waitid thread however often it is called
WaitLocked(t) ==
    /\ pc[t] = "lock" /\ Head(wait_lock) = t
    /\ CloseIfReaped(Reaped)
    /\ IF Reaped
       THEN /\ child' = "reaped" /\ wait_lock' = Tail(wait_lock)
            /\ pc' = [pc EXCEPT ![t] = "done"]
            /\ UNCHANGED <<exit_event, threads>>
       ELSE /\ pc' = [pc EXCEPT ![t] = "asleep"]
            /\ UNCHANGED <<child, wait_lock>>
            /\ IF FirstWait
               THEN exit_event' = "unset" /\ threads' = threads + 1
               ELSE UNCHANGED <<exit_event, threads>>
    /\ UNCHANGED <<fixed, ownVars>>

\* sync_wait_reapable returns, or fails because the child was reaped, and
\* _waitid_system_task sets the event
WaitidReturns ==
    /\ threads > 0 /\ child \in {"zombie", "reaped"}
    /\ threads' = threads - 1 /\ exit_event' = "set"
    /\ UNCHANGED <<fixed, child, pidfd, wait_lock, pc, ownVars>>

\* What wait() sleeps for: the pidfd is readable, or was closed under the
\* sleeper by poll(); the waitid thread's event; or kqueue's NOTE_EXIT
ExitNoticed ==
    CASE platform = "pidfd" -> child = "zombie" \/ pidfd = "closed"
      [] platform = "waitid" -> exit_event = "set"
      [] platform = "kqueue" -> child \in {"zombie", "reaped"}

\* The exit was noticed: Popen.wait(), _close_pidfd(), and the lock is released
WaitWoken(t) ==
    /\ pc[t] = "asleep" /\ ExitNoticed
    /\ child' = "reaped" /\ CloseIfReaped(TRUE)
    /\ wait_lock' = Tail(wait_lock) /\ pc' = [pc EXCEPT ![t] = "done"]
    /\ UNCHANGED <<fixed, exit_event, threads, ownVars>>

\* A task's wait() is cancelled, in line for the lock or asleep.  Users come
\* back to call it again; run_process goes into its except block.
WaitCancelled(t) ==
    /\ pc[t] \in {"lock", "asleep"}
    /\ t = Runner => cancelled /\ rp = "wait"
    /\ wait_lock' = Remove(wait_lock, t)
    /\ pc' = [pc EXCEPT ![t] = "idle"]
    /\ IF t = Runner THEN rp' = "kill" /\ killer' = "scheduled" ELSE UNCHANGED <<rp, killer>>
    /\ UNCHANGED <<fixed, child, pidfd, exit_event, threads, cancelled, killer_cscope, helpers>>

\* poll() or returncode, by anyone
Poll ==
    /\ child = "zombie" /\ child' = "reaped" /\ CloseIfReaped(TRUE)
    /\ UNCHANGED <<fixed, wait_lock, pc, exit_event, threads, ownVars>>

\* Popen.send_signal: nothing happens once the returncode is known
Signalled(sig) == IF child = "running" /\ (sig = "SIGKILL" \/ obeys) THEN "zombie" ELSE child

\* It raises an OSError instead, such as EPERM
Refused == ~permitted /\ child \in {"running", "zombie"}

send_signal(sig) ==
    /\ child # "none" /\ (child' = Signalled(sig) \/ (Refused /\ UNCHANGED child))
    /\ UNCHANGED <<fixed, pidfd, wait_lock, pc, exit_event, threads, ownVars>>

ChildExits ==
    /\ child = "running" /\ child' = "zombie"
    /\ UNCHANGED <<fixed, pidfd, wait_lock, pc, exit_event, threads, ownVars>>

\* run_process, wait() returned: the body ends, or the killer is called off
\* and the exception goes on; either way the nursery waits for its tasks
RunnerWaited ==
    /\ pc[Runner] = "done" /\ rp \in {"wait", "kill"}
    /\ rp' = IF rp = "kill" THEN "raise" ELSE "exit"
    /\ killer_cscope' = (rp = "kill")
    /\ cancelled' = (cancelled \/ rp = "kill")
    /\ UNCHANGED <<fixed, child, pidfd, wait_lock, pc, exit_event, threads, killer, helpers>>

\* A plausible bug: the second signal is a SIGTERM too.
KillerAsksAgain ==
    /\ \/ killer = "scheduled" /\ killer' = "sleep" /\ child' = Signalled("SIGTERM")
       \/ killer = "sleep" /\ killer' = "done" /\ child' = Signalled("SIGTERM")
       \/ killer \in {"scheduled", "sleep"} /\ Refused /\ killer' = "done" /\ UNCHANGED child
    /\ UNCHANGED <<fixed, pidfd, wait_lock, pc, exit_event, threads, rp, cancelled, killer_cscope, helpers>>

\* killer() and _posix_deliver_cancel: SIGTERM, five seconds that the end of
\* the process cuts short, SIGKILL.  If either signal is refused, that is
\* all: a warning, and run_process goes on waiting.
Killer ==
    /\ \/ /\ killer = "scheduled" /\ killer' = "sleep" /\ child' = Signalled("SIGTERM")
       \/ /\ killer = "sleep" /\ killer' = "done"
          /\ child' = IF killer_cscope THEN child ELSE Signalled("SIGKILL")
       \/ /\ killer = "scheduled" \/ (killer = "sleep" /\ ~killer_cscope)
          /\ Refused /\ killer' = "done" /\ UNCHANGED child
    /\ UNCHANGED <<fixed, pidfd, wait_lock, pc, exit_event, threads, rp, cancelled, killer_cscope, helpers>>

\* Nobody holds the other end of the pipes: end of file, or a broken pipe
PipesEnd == child \in {"zombie", "reaped"} /\ ~inherited

\* feed_input and read_output end with the other end of the pipe (feed_input
\* also when all is sent) or cancelled; an error cancels the nursery
HelperEnds(h) ==
    /\ h \in helpers /\ (PipesEnd \/ cancelled \/ h = "feed_input")
    /\ helpers' = helpers \ {h}
    /\ UNCHANGED <<fixed, child, pidfd, wait_lock, pc, exit_event, threads, rp, cancelled, killer, killer_cscope>>

HelperFails(h) ==
    /\ h \in helpers /\ helpers' = helpers \ {h} /\ cancelled' = TRUE
    /\ UNCHANGED <<fixed, child, pidfd, wait_lock, pc, exit_event, threads, rp, killer, killer_cscope>>

CancelRunner ==
    /\ ~cancelled /\ cancelled' = TRUE /\ rp \in {"open", "wait", "exit"}
    /\ UNCHANGED <<fixed, child, pidfd, wait_lock, pc, exit_event, threads, rp, killer, killer_cscope, helpers>>

\* The nursery of run_process is empty; an exit status other than zero is an
\* error (check=True)
RunnerEnds ==
    /\ rp \in {"exit", "raise"} /\ helpers = {} /\ killer \in {"none", "done"}
    /\ rp' \in IF rp = "raise" THEN {"raised"} ELSE {"returned", "raised"}
    /\ UNCHANGED <<fixed, child, pidfd, wait_lock, pc, exit_event, threads, cancelled, killer,
                   killer_cscope, helpers>>

ProcessSteps ==
    \/ \E t \in Task : WaitLocked(t) \/ WaitWoken(t)
    \/ CallWait(Runner) \/ WaitCancelled(Runner) \/ RunnerWaited \/ RunnerEnds
    \/ WaitidReturns \/ Killer \/ \E h \in helpers : HelperEnds(h)
    \/ \E i, o \in BOOLEAN : open_process(i, o)

ProcessNext ==
    \/ ProcessSteps
    \/ \E t \in Task \ {Runner} : CallWait(t) \/ WaitCancelled(t)
    \/ \E sig \in {"SIGTERM", "SIGKILL"} : send_signal(sig)
    \/ \E h \in helpers : HelperFails(h)
    \/ OpenFails \/ Poll \/ ChildExits \/ CancelRunner

ProcessSpec == ProcessInit /\ [][ProcessNext]_procVars

\* The run loop runs every scheduled task, threads and the kernel answer, the
\* killer's five seconds pass.  Nothing makes users call, the child exit, or
\* anyone read what feed_input sends.
ProcessFairness ==
    /\ \A t \in Task : WF_procVars(WaitLocked(t)) /\ WF_procVars(WaitWoken(t))
    /\ WF_procVars(CallWait(Runner)) /\ WF_procVars(WaitCancelled(Runner))
    /\ WF_procVars(RunnerWaited) /\ WF_procVars(RunnerEnds)
    /\ WF_procVars(WaitidReturns) /\ WF_procVars(Killer)
    /\ \A h \in {"feed_input", "read_output"} : WF_procVars((PipesEnd \/ cancelled) /\ HelperEnds(h))
----------------------------------------------------------------------------
\* When run_process has returned or raised, the child has exited and was
\* reaped, its pidfd is closed, its killer and its helpers are over ("will
\* always wait for the child process to exit"); and at no time is there more
\* than one waitid thread, however often wait() is cancelled and called again.
NothingLeftBehind ==
    /\ rp = "returned" \/ (rp = "raised" /\ child # "none") =>
         child = "reaped" /\ pidfd # "open" /\ helpers = {} /\ killer \in {"none", "done"}
    /\ threads <= 1

\* Once run_process is cancelled, it comes to an end even if the child ignores
\* SIGTERM, whoever else waits, polls, gives up or is cancelled in between;
\* unless the kernel refuses the signals, for then nothing ends before the
\* child does.  Without a cancellation, it ends after the child has exited and
\* no process is left that holds the child's pipes.
CancelEndsTheProcess ==
    (\/ cancelled /\ rp = "wait" /\ permitted
     \/ child \in {"zombie", "reaped"} /\ (cancelled \/ ~inherited))
       ~> (rp \in {"returned", "raised"})
=============================================================================
