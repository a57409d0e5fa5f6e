-------------------------------- MODULE Threads --------------------------------
(***************************************************************************)
(* trio.to_thread.run_sync() and trio.from_thread (trio/_threads.py): a    *)
(* task takes a token from a limiter, hands a function to a worker thread  *)
(* and sleeps; the thread may call back into the run, and finally reports  *)
(* its result through the entry queue.  A cancellable call can be          *)
(* abandoned, the main task can end, and the run can finish while threads  *)
(* still run.                                                              *)
(*                                                                         *)
(* The entry queue is represented by what EntryQueue shows of it: it runs  *)
(* what it accepted in order, and accepts nothing once the run is done.    *)
(* The limiter is that of CapacityLimiter, each call having a placeholder  *)
(* of its own.                                                             *)
(***************************************************************************)
EXTENDS Naturals, Sequences, SequencesExt, FiniteSets

CONSTANTS
    Task,
    Call,          \* the calls of run_sync(), each used once
    Cancellable,   \* those with cancellable=True
    total_tokens,  \* of the limiter
    MaxAsks,       \* bound: calls of from_thread.run*() by one thread
    Nothing

ASSUME ThreadsAssumption ==
    /\ Cancellable \subseteq Call
    /\ total_tokens \in Nat \ {0}
    /\ MaxAsks \in Nat
    /\ Nothing \notin Task \cup Call

VARIABLES
    stage,          \* how far a call has come
    task_register,  \* task_register[0] of each call
    in_call,        \* the call a task is in
    sent,           \* what a rescheduled task will be sent
    borrowers,      \* the limiter's borrowers
    lot,            \* the calls waiting for a token
    entry_queue,     \* the entry queue
    answer,         \* the SimpleQueue a thread blocks on in from_thread
    asks,           \* how often a thread has called back
    system,         \* calls whose from_thread.run() has a system task
    phase           \* of the run

threadVars == <<stage, task_register, in_call, sent, borrowers, lot, entry_queue, answer,
                asks, system, phase>>

Stage == {"unused", "waiting",   \* parked for a token
          "granted",             \* has one, and passes through a checkpoint
          "running",             \* the thread runs sync_fn
          "asking",              \* blocked in from_thread.run*()
          "reporting",           \* the result is in the entry queue
          "over"}

Message == {"report", "sync", "async"} \X Call

\* system_nursery open; cancelled; closed; the entry queue has stopped.
Phase == {"main", "stopping", "closed", "done"}

ThreadsTypeOK ==
    /\ stage \in [Call -> Stage]
    /\ task_register \in [Call -> Task \cup {Nothing}]
    /\ in_call \in [Task -> Call \cup {Nothing}]
    /\ sent \in [Task -> {"none", "result", "Cancelled"}]
    /\ borrowers \subseteq Call /\ Cardinality(borrowers) <= total_tokens
    /\ lot \in Seq(Call)
    /\ entry_queue \in Seq(Message)
    /\ answer \in [Call -> {"none", "result", "Cancelled", "RunFinishedError"}]
    /\ asks \in [Call -> 0 .. MaxAsks]
    /\ system \subseteq Call
    /\ phase \in Phase

ThreadsInit ==
    /\ stage = [c \in Call |-> "unused"]
    /\ task_register = [c \in Call |-> Nothing]
    /\ in_call = [t \in Task |-> Nothing]
    /\ sent = [t \in Task |-> "none"]
    /\ borrowers = {}
    /\ lot = <<>>
    /\ entry_queue = <<>>
    /\ answer = [c \in Call |-> "none"]
    /\ asks = [c \in Call |-> 0]
    /\ system = {}
    /\ phase = "main"

--------------------------------------------------------------------------------
(***************************************************************************)
(* The task's side of run_sync()                                           *)
(***************************************************************************)

\* The placeholder borrows a token, or the task parks.
Start(t, c) ==
    /\ phase = "main"
    /\ in_call[t] = Nothing
    /\ stage[c] = "unused"
    /\ in_call' = [in_call EXCEPT ![t] = c]
    /\ task_register' = [task_register EXCEPT ![c] = t]
    /\ IF Cardinality(borrowers) < total_tokens /\ lot = <<>>
       THEN /\ borrowers' = borrowers \cup {c}
            /\ stage' = [stage EXCEPT ![c] = "granted"]
            /\ UNCHANGED lot
       ELSE /\ lot' = Append(lot, c)
            /\ stage' = [stage EXCEPT ![c] = "waiting"]
            /\ UNCHANGED borrowers
    /\ UNCHANGED <<sent, entry_queue, answer, asks, system, phase>>

(***************************************************************************)
(* release_on_behalf_of(): call c is over, and the longest waiting call    *)
(* takes the token.                                                        *)
(***************************************************************************)
ReleaseToken(c) ==
    IF lot = <<>>
    THEN /\ borrowers' = borrowers \ {c}
         /\ stage' = [stage EXCEPT ![c] = "over"]
         /\ UNCHANGED lot
    ELSE /\ borrowers' = (borrowers \ {c}) \cup {Head(lot)}
         /\ stage' = [stage EXCEPT ![c] = "over", ![Head(lot)] = "granted"]
         /\ lot' = Tail(lot)

\* The task has its token and starts the thread.
StartThread(t) ==
    LET c == in_call[t]
    IN  /\ c # Nothing /\ stage[c] = "granted"
        /\ stage' = [stage EXCEPT ![c] = "running"]
        /\ UNCHANGED <<task_register, in_call, sent, borrowers, lot, entry_queue, answer,
                       asks, system, phase>>

\* The system has no more threads: give the token back and raise.
StartThreadFails(t) ==
    LET c == in_call[t]
    IN  /\ c # Nothing /\ stage[c] = "granted"
        /\ ReleaseToken(c)
        /\ in_call' = [in_call EXCEPT ![t] = Nothing]
        /\ UNCHANGED <<task_register, sent, entry_queue, answer, asks, system, phase>>

\* Cancelled while waiting for a token: acquire_on_behalf_of() raises.
CancelWaiting(t) ==
    LET c == in_call[t]
    IN  /\ c # Nothing /\ stage[c] = "waiting"
        /\ \E i \in 1 .. Len(lot) : lot[i] = c /\ lot' = RemoveAt(lot, i)
        /\ stage' = [stage EXCEPT ![c] = "over"]
        /\ in_call' = [in_call EXCEPT ![t] = Nothing]
        /\ UNCHANGED <<task_register, sent, borrowers, entry_queue, answer, asks, system, phase>>

\* The task sleeps in wait_task_rescheduled().
Asleep(t) ==
    /\ in_call[t] # Nothing /\ sent[t] = "none"
    /\ stage[in_call[t]] \in {"running", "asking", "reporting"}

AbandonKeepsRegister(t) ==
    /\ Asleep(t) /\ in_call[t] \in Cancellable
    /\ sent' = [sent EXCEPT ![t] = "Cancelled"]
    /\ UNCHANGED <<task_register, stage, in_call, borrowers, lot, entry_queue, answer,
                   asks, system, phase>>

AbandonReleases(t) ==
    LET c == in_call[t]
    IN  /\ Asleep(t) /\ c \in Cancellable
        /\ task_register' = [task_register EXCEPT ![c] = Nothing]
        /\ sent' = [sent EXCEPT ![t] = "Cancelled"]
        /\ borrowers' = borrowers \ {c}
        /\ UNCHANGED <<stage, in_call, lot, entry_queue, answer, asks, system, phase>>

\* abort() succeeds for a cancellable call, and changes nothing for another.
Abandon(t) ==
    /\ Asleep(t) /\ in_call[t] \in Cancellable
    /\ task_register' = [task_register EXCEPT ![in_call[t]] = Nothing]
    /\ sent' = [sent EXCEPT ![t] = "Cancelled"]
    /\ UNCHANGED <<stage, in_call, borrowers, lot, entry_queue, answer, asks, system, phase>>

\* run_sync() returns or raises.
Return(t) ==
    /\ sent[t] # "none"
    /\ sent' = [sent EXCEPT ![t] = "none"]
    /\ in_call' = [in_call EXCEPT ![t] = Nothing]
    /\ UNCHANGED <<stage, task_register, borrowers, lot, entry_queue, answer, asks,
                   system, phase>>

--------------------------------------------------------------------------------
(***************************************************************************)
(* The thread's side                                                       *)
(***************************************************************************)

\* from_thread.run() and run_sync(); RunFinishedError when the run is done.
Ask(c, kind) ==
    /\ stage[c] = "running"
    /\ asks[c] < MaxAsks
    /\ asks' = [asks EXCEPT ![c] = @ + 1]
    /\ IF phase = "done"
       THEN UNCHANGED <<stage, entry_queue>>
       ELSE /\ entry_queue' = Append(entry_queue, <<kind, c>>)
            /\ stage' = [stage EXCEPT ![c] = "asking"]
    /\ UNCHANGED <<task_register, in_call, sent, borrowers, lot, answer, system, phase>>

\* q.get() returns.
GetAnswer(c) ==
    /\ stage[c] = "asking"
    /\ answer[c] # "none"
    /\ answer' = [answer EXCEPT ![c] = "none"]
    /\ stage' = [stage EXCEPT ![c] = "running"]
    /\ UNCHANGED <<task_register, in_call, sent, borrowers, lot, entry_queue, asks,
                   system, phase>>

\* sync_fn ends; deliver_worker_fn_result() swallows RunFinishedError.
Finish(c) ==
    /\ stage[c] = "running"
    /\ IF phase = "done"
       THEN /\ stage' = [stage EXCEPT ![c] = "over"]
            /\ UNCHANGED entry_queue
       ELSE /\ stage' = [stage EXCEPT ![c] = "reporting"]
            /\ entry_queue' = Append(entry_queue, <<"report", c>>)
    /\ UNCHANGED <<task_register, in_call, sent, borrowers, lot, answer, asks,
                   system, phase>>

--------------------------------------------------------------------------------
(***************************************************************************)
(* The run's side                                                          *)
(***************************************************************************)
NextMessage(kind, c) ==
    /\ entry_queue # <<>> /\ phase # "done"
    /\ Head(entry_queue) = <<kind, c>>
    /\ entry_queue' = Tail(entry_queue)

\* report_back_in_trio_thread_fn(): release the token, wake the task.
ReportBack(c) ==
    /\ NextMessage("report", c)
    /\ ReleaseToken(c)
    /\ sent' = IF task_register[c] = Nothing THEN sent
               ELSE [sent EXCEPT ![task_register[c]] = "result"]
    /\ UNCHANGED <<task_register, in_call, answer, asks, system, phase>>

\* callback() of from_thread.run_sync().
AnswerSync(c) ==
    /\ NextMessage("sync", c)
    /\ answer' = [answer EXCEPT ![c] = "result"]
    /\ UNCHANGED <<stage, task_register, in_call, sent, borrowers, lot, asks,
                   system, phase>>

AnswerAsyncUnguarded(c) ==
    /\ NextMessage("async", c)
    /\ system' = IF phase = "closed" THEN system ELSE system \cup {c}
    /\ UNCHANGED <<stage, task_register, in_call, sent, borrowers, lot, answer,
                   asks, phase>>

\* callback() of from_thread.run(): spawn a system task, if that still works.
AnswerAsync(c) ==
    /\ NextMessage("async", c)
    /\ IF phase = "closed"
       THEN /\ answer' = [answer EXCEPT ![c] = "RunFinishedError"]
            /\ UNCHANGED system
       ELSE /\ system' = system \cup {c}
            /\ UNCHANGED answer
    /\ UNCHANGED <<stage, task_register, in_call, sent, borrowers, lot, asks, phase>>

(***************************************************************************)
(* The system task ends, with Cancelled if the nursery was cancelled first *)
(* and it does not ignore that.  An empty cancelled nursery closes.        *)
(***************************************************************************)
SystemTaskEnds(c) ==
    /\ c \in system
    /\ system' = system \ {c}
    /\ \E a \in {"result"} \cup (IF phase = "stopping" THEN {"Cancelled"} ELSE {}) :
          answer' = [answer EXCEPT ![c] = a]
    /\ phase' = IF phase = "stopping" /\ system = {c} THEN "closed" ELSE phase
    /\ UNCHANGED <<stage, task_register, in_call, sent, borrowers, lot, entry_queue, asks>>

\* The main task, with all its children, is done: system tasks are cancelled.
MainTaskEnds ==
    /\ phase = "main"
    /\ \A t \in Task : in_call[t] = Nothing
    /\ phase' = IF system = {} THEN "closed" ELSE "stopping"
    /\ UNCHANGED <<stage, task_register, in_call, sent, borrowers, lot, entry_queue,
                   answer, asks, system>>

\* The entry queue stops when it is empty.
RunFinishes ==
    /\ phase = "closed" /\ entry_queue = <<>>
    /\ phase' = "done"
    /\ UNCHANGED <<stage, task_register, in_call, sent, borrowers, lot, entry_queue,
                   answer, asks, system>>

RunStep ==
    \/ \E c \in Call : ReportBack(c) \/ AnswerSync(c) \/ AnswerAsync(c)
    \/ \E t \in Task : Return(t)

ThreadsNext ==
    \/ RunStep
    \/ \E t \in Task :
          \/ StartThread(t)
          \/ StartThreadFails(t)
          \/ CancelWaiting(t)
          \/ Abandon(t)
          \/ \E c \in Call : Start(t, c)
    \/ \E c \in Call :
          \/ \E kind \in {"sync", "async"} : Ask(c, kind)
          \/ GetAnswer(c)
          \/ Finish(c)
          \/ SystemTaskEnds(c)
    \/ MainTaskEnds
    \/ RunFinishes

ThreadsSpec == ThreadsInit /\ [][ThreadsNext]_threadVars

(***************************************************************************)
(* The run loop runs what is scheduled, threads run, and the functions     *)
(* given to threads and to system tasks come to an end.  Nobody has to     *)
(* start a call, to cancel one or to finish the run.                       *)
(***************************************************************************)
ThreadsFairness ==
    /\ WF_threadVars(\E c \in Call : ReportBack(c) \/ AnswerSync(c) \/ AnswerAsync(c))
    /\ \A t \in Task : WF_threadVars(Return(t)) /\ WF_threadVars(StartThread(t))
    /\ \A c \in Call : /\ WF_threadVars(GetAnswer(c) \/ Finish(c))
                       /\ WF_threadVars(SystemTaskEnds(c))

--------------------------------------------------------------------------------
(***************************************************************************)
(* Properties                                                              *)
(***************************************************************************)

(***************************************************************************)
(* The documentation of run_sync(): the limiter is only released after the *)
(* thread has finished, abandoned or not, and if the run finishes first    *)
(* not at all; so there are never more threads than tokens.  And nobody is *)
(* parked for a token while there is one.                                  *)
(***************************************************************************)
TokenWhileThreadRuns ==
    LET using == {c \in Call :
                     stage[c] \in {"granted", "running", "asking", "reporting"}}
    IN  /\ ThreadsTypeOK
        /\ IF phase = "done" THEN using \subseteq borrowers ELSE using = borrowers
        /\ lot # <<>> => Cardinality(borrowers) = total_tokens

(***************************************************************************)
(* A result wakes the task that is asleep in that call, once: not one that *)
(* was cancelled and is now elsewhere, perhaps in another such call.       *)
(***************************************************************************)
ResultFindsItsTask ==
    \A c \in Call :
        stage[c] \in {"running", "asking", "reporting"} /\ task_register[c] # Nothing
        => Asleep(task_register[c]) /\ in_call[task_register[c]] = c

(***************************************************************************)
(* Every run_sync() comes back, and so every token that somebody waits     *)
(* for; and no thread is left blocked in from_thread, even by a run that   *)
(* ends while its question is under way.                                   *)
(***************************************************************************)
NoCallHangs ==
    /\ \A t \in Task : in_call[t] # Nothing ~> in_call[t] = Nothing
    /\ \A c \in Call : stage[c] = "asking" ~> stage[c] # "asking"
================================================================================
