------------------------------- MODULE AsyncGens -------------------------------
(***************************************************************************)
(* trio/_core/_asyncgens.py with Runner.init of trio/_core/_run.py: every  *)
(* async generator that a Trio task iterates is closed by the end of the   *)
(* run, by its user, by a system task when the garbage collector finds it  *)
(* abandoned, or by the init task after the system nursery has closed.     *)
(* The collector runs in the Trio thread here: clearing the weak reference *)
(* and calling the finalizer hook are then one step.                       *)
(***************************************************************************)
EXTENDS Naturals, Sequences, FiniteSets, SequencesExt

CONSTANT Agen

Init_task == "reschedule(init_task)"    \* the other callback in the queue

ASSUME AsyncGensAssumption == Init_task \notin Agen

VARIABLES
    host_finalizer,  \* prev_hooks.finalizer is not None
    agen,     \* "new", "suspended", "garbage", "closing", "closed" or one of Foreign
    alive,    \* a WeakSet, later a set
    alive_type,   \* which of the two
    trailing_needs_finalize,
    callbacks,     \* the entry queue's callbacks for asyncgens, and reschedule(init)
    system,   \* the generators that a system task of their own is closing
    batch,    \* what finalize_remaining has still to close in this round
    current,  \* the one it is closing: a set of at most one
    init,     \* where Runner.init is
    closes    \* how often Trio called aclose()

\* First iterated outside of Trio's tasks: not abandoned so far, given to the
\* host's finalizer, closed, or left with an error for not exiting at once
Foreign == {"foreign", "host", "exited", "stuck"}

agenVars == <<host_finalizer, agen, alive, alive_type, trailing_needs_finalize, callbacks, system, batch, current, init, closes>>

AgenInit ==
    /\ host_finalizer \in BOOLEAN
    /\ agen = [a \in Agen |-> "new"] /\ closes = [a \in Agen |-> 0]
    /\ alive = {} /\ trailing_needs_finalize = {} /\ alive_type = "WeakSet"
    /\ callbacks = <<>> /\ system = {} /\ batch = {} /\ current = {} /\ init = "main"

\* User code runs: a task, or the cleanup code of a generator being closed.
UserCode == init = "main" \/ system # {} \/ current # {}

\* The firstiter hook: in a Trio task, ...
firstiter(a) ==
    /\ UserCode /\ agen[a] = "new"
    /\ agen' = [agen EXCEPT ![a] = "suspended"]
    /\ alive' = alive \cup {a}
    /\ UNCHANGED <<trailing_needs_finalize, alive_type, callbacks, system, batch, current, init, closes>>

\* ... and in the host loop of guest mode.
FirstIterForeign(a) ==
    /\ agen[a] = "new" /\ init # "over"
    /\ agen' = [agen EXCEPT ![a] = "foreign"]
    /\ UNCHANGED <<alive, alive_type, trailing_needs_finalize, callbacks, system, batch, current, init, closes>>

\* Its user exhausts or closes it.
UserCloses(a) ==
    /\ UserCode /\ agen[a] = "suspended"
    /\ agen' = [agen EXCEPT ![a] = "closed"]
    /\ UNCHANGED <<alive, alive_type, trailing_needs_finalize, callbacks, system, batch, current, init, closes>>

Referenced(a) == (alive_type = "set" /\ a \in alive) \/ a \in batch \cup current \cup system

\* The garbage collector and the finalizer hook.  A generator of the host goes
\* to its finalizer; if it has none, aclose() is stepped once, as Python does
\* without hooks, and anything but an exit there is a RuntimeError.
finalizer(a) ==
    /\ init # "over" /\ ~Referenced(a)
    /\ \/ /\ agen[a] = "suspended"
          /\ agen' = [agen EXCEPT ![a] = "garbage"]
          /\ alive' = alive \ {a} /\ callbacks' = Append(callbacks, a) /\ UNCHANGED closes
       \/ /\ agen[a] = "foreign" /\ host_finalizer
          /\ agen' = [agen EXCEPT ![a] = "host"]
          /\ UNCHANGED <<alive, callbacks, closes>>
       \/ /\ agen[a] = "foreign" /\ ~host_finalizer
          /\ \E end \in {"exited", "stuck"} : agen' = [agen EXCEPT ![a] = end]
          /\ closes' = [closes EXCEPT ![a] = @ + 1]
          /\ UNCHANGED <<alive, callbacks>>
    /\ UNCHANGED <<alive_type, trailing_needs_finalize, system, batch, current, init>>

\* finalize_in_trio_context in the entry queue's task; the system nursery
\* refuses the new task once it has closed.
finalize_in_trio_context ==
    /\ init # "over" /\ callbacks # <<>> /\ Head(callbacks) # Init_task
    /\ callbacks' = Tail(callbacks)
    /\ IF init \in {"main", "cancelled"}
       THEN /\ system' = system \cup {Head(callbacks)}
            /\ agen' = [agen EXCEPT ![Head(callbacks)] = "closing"]
            /\ closes' = [closes EXCEPT ![Head(callbacks)] = @ + 1]
            /\ UNCHANGED trailing_needs_finalize
       ELSE /\ trailing_needs_finalize' = trailing_needs_finalize \cup {Head(callbacks)}
            /\ UNCHANGED <<system, agen, closes>>
    /\ UNCHANGED <<alive, alive_type, batch, current, init>>

\* _finalize_one ends, in a system task or in init; it never raises.
_finalize_one(a) ==
    /\ a \in system \cup current
    /\ agen' = [agen EXCEPT ![a] = "closed"]
    /\ system' = system \ {a} /\ current' = current \ {a}
    /\ UNCHANGED <<alive, alive_type, trailing_needs_finalize, callbacks, batch, init, closes>>

\* Runner.init: the main task is done, the system nursery is cancelled, ...
MainTaskDone ==
    /\ init = "main" /\ init' = "cancelled"
    /\ UNCHANGED <<agen, alive, alive_type, trailing_needs_finalize, callbacks, system, batch, current, closes>>

\* ... closes once its tasks are gone, and a tick later init runs again:
SystemNurseryCloses ==
    /\ init = "cancelled" /\ system = {} /\ init' = "nursery closed"
    /\ UNCHANGED <<agen, alive, alive_type, trailing_needs_finalize, callbacks, system, batch, current, closes>>

\* A plausible bug: finalize_remaining does not wait for the entry queue.
FinalizesAtOnce ==
    /\ init = "nursery closed" /\ init' = "rescheduled"
    /\ alive_type' = "set"
    /\ UNCHANGED <<agen, alive, trailing_needs_finalize, callbacks, system, batch, current, closes>>

\* finalize_remaining up to its wait for the entry queue.
finalize_remaining ==
    /\ init = "nursery closed" /\ init' = "waits for queue"
    /\ alive_type' = "set"
    /\ callbacks' = Append(callbacks, Init_task)
    /\ UNCHANGED <<agen, alive, trailing_needs_finalize, system, batch, current, closes>>

Rescheduled ==
    /\ callbacks # <<>> /\ Head(callbacks) = Init_task
    /\ callbacks' = Tail(callbacks) /\ init' = "rescheduled"
    /\ UNCHANGED <<agen, alive, alive_type, trailing_needs_finalize, system, batch, current, closes>>

CollectTrailing ==
    /\ init = "rescheduled" /\ init' = "finalizing"
    /\ alive' = alive \cup trailing_needs_finalize
    /\ trailing_needs_finalize' = {}
    /\ UNCHANGED <<agen, alive_type, callbacks, system, batch, current, closes>>

\* The while loop, and one round of the for loop in it.
NextBatch ==
    /\ init = "finalizing" /\ current = {} /\ batch = {} /\ alive # {}
    /\ batch' = alive /\ alive' = {}
    /\ UNCHANGED <<agen, alive_type, trailing_needs_finalize, callbacks, system, current, init, closes>>

FinalizeNext(a) ==
    /\ init = "finalizing" /\ current = {} /\ a \in batch
    /\ batch' = batch \ {a}
    /\ IF agen[a] = "closed"    \* aclose() of an exhausted generator does nothing
       THEN UNCHANGED <<agen, current, closes>>
       ELSE /\ current' = {a}
            /\ agen' = [agen EXCEPT ![a] = "closing"]
            /\ closes' = [closes EXCEPT ![a] = @ + 1]
    /\ UNCHANGED <<alive, alive_type, trailing_needs_finalize, callbacks, system, init>>

\* The run_sync_soon task is stopped when it has nothing left to run.
RunEnds ==
    /\ init = "finalizing" /\ current = {} /\ batch = {} /\ alive = {} /\ callbacks = <<>>
    /\ init' = "over"
    /\ UNCHANGED <<agen, alive, alive_type, trailing_needs_finalize, callbacks, system, batch, current, closes>>

AgenNext ==
    /\ UNCHANGED host_finalizer
    /\ \/ \E a \in Agen :
              \/ firstiter(a) \/ FirstIterForeign(a) \/ UserCloses(a) \/ finalizer(a)
              \/ _finalize_one(a) \/ FinalizeNext(a)
       \/ finalize_in_trio_context \/ MainTaskDone \/ SystemNurseryCloses \/ finalize_remaining
       \/ Rescheduled \/ CollectTrailing \/ NextBatch \/ RunEnds

AgenSpec == AgenInit /\ [][AgenNext]_agenVars

(***************************************************************************)
(* Every generator that a Trio task iterated is closed when the run ends,  *)
(* however the collector, the callbacks and the shutdown interleave (the   *)
(* comment on AsyncGenerators.alive); Trio calls aclose() on none of them  *)
(* twice, and on one that belongs to the host loop only where the host has *)
(* no finalizer that would.                                                *)
(***************************************************************************)
EveryGeneratorIsClosed ==
    /\ init = "over" => \A a \in Agen : agen[a] \in {"new", "closed"} \cup Foreign
    /\ \A a \in Agen : closes[a] <= IF agen[a] \in Foreign /\ host_finalizer THEN 0 ELSE 1
================================================================================
