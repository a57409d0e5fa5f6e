---------------------------- MODULE SignalReceiver -----------------------------
(***************************************************************************)
(* trio/_signals.py: open_signal_receiver() replaces the handlers of some  *)
(* signals; the handler posts SignalReceiver._add to the entry queue,      *)
(* which collects the signals in _pending for the task that iterates.      *)
(* Leaving the block gives what nobody took back to the original handlers, *)
(* while signals keep arriving between any two of its steps.               *)
(***************************************************************************)
EXTENDS Naturals, Sequences, FiniteSets, SequencesExt

CONSTANT Signal

VARIABLES
    ours,        \* the signals whose handler is the receiver's
    block,       \* "open", "restoring", "redelivering" or "left"
    soon,        \* the entry queue: one entry per signal at most (idempotent)
    _pending,    \* an OrderedDict: a sequence without repetition
    _closed,
    anext,       \* the iterating task: "no", "parked", "checkpoint" or "woken"
    owed         \* signals that our handler took and nobody was given

signalVars == <<ours, block, soon, _pending, _closed, anext, owed>>

SignalInit ==
    /\ ours = Signal /\ block = "open" /\ _closed = FALSE
    /\ soon = <<>> /\ _pending = <<>> /\ anext = "no" /\ owed = {}

Once(q, s) == IF Contains(q, s) THEN q ELSE Append(q, s)

\* A signal arrives: handler() if it is still installed, else the original one.
handler(s) ==
    /\ s \in ours
    /\ soon' = Once(soon, s)
    /\ owed' = owed \cup {s}
    /\ UNCHANGED <<ours, block, _pending, _closed, anext>>

\* _add, from the entry queue.  signal_raise() runs the handler that is
\* installed now, which after the block is the original one.
_add ==
    /\ soon # <<>>
    /\ soon' = Tail(soon)
    /\ IF _closed
       THEN owed' = owed \ {Head(soon)} /\ UNCHANGED <<_pending, anext>>
       ELSE /\ _pending' = Once(_pending, Head(soon))
            /\ anext' = IF anext = "parked" THEN "woken" ELSE anext
            /\ UNCHANGED owed
    /\ UNCHANGED <<ours, block, _closed>>

\* __anext__ up to its wait: one task at a time (the ConflictDetector).
CallAnext ==
    /\ anext = "no" /\ ~_closed
    /\ anext' = IF _pending = <<>> THEN "parked" ELSE "checkpoint"
    /\ UNCHANGED <<ours, block, soon, _pending, _closed, owed>>

\* The rest of it: popitem, which on an empty dict raises KeyError (the block
\* was left between the unpark and this step).
ResumeAnext ==
    /\ anext \in {"woken", "checkpoint"}
    /\ anext' = "no"
    /\ IF _pending = <<>>
       THEN UNCHANGED <<_pending, owed>>
       ELSE _pending' = Tail(_pending) /\ owed' = owed \ {Head(_pending)}
    /\ UNCHANGED <<ours, block, soon, _closed>>

CancelAnext ==
    /\ anext \in {"parked", "checkpoint"} /\ anext' = "no"
    /\ UNCHANGED <<ours, block, soon, _pending, _closed, owed>>

\* The end of the block: _signal_handler's finally clause, a signal at a time.
LeaveBlock ==
    /\ block = "open" /\ block' = "restoring"
    /\ UNCHANGED <<ours, soon, _pending, _closed, anext, owed>>

Restore(s) ==
    /\ block = "restoring" /\ s \in ours
    /\ ours' = ours \ {s}
    /\ UNCHANGED <<block, soon, _pending, _closed, anext, owed>>

\* A plausible bug: the receiver is closed after the look at _pending.
ClosesTooLate ==
    /\ block = "restoring" /\ ours = {}
    /\ block' = "redelivering"
    /\ UNCHANGED <<ours, soon, _pending, _closed, anext, owed>>

\* _redeliver_remaining: closed first, then ...
Redeliver ==
    /\ block = "restoring" /\ ours = {}
    /\ block' = "redelivering" /\ _closed' = TRUE
    /\ UNCHANGED <<ours, soon, _pending, anext, owed>>

\* ... deliver_next, which goes on when the handler it ran raises.
deliver_next ==
    /\ block = "redelivering"
    /\ IF _pending # <<>>
       THEN /\ _pending' = Tail(_pending) /\ owed' = owed \ {Head(_pending)}
            /\ UNCHANGED block
       ELSE block' = "left" /\ UNCHANGED <<_pending, owed>>
    /\ UNCHANGED <<ours, soon, _closed, anext>>

SignalNext ==
    \/ \E s \in Signal : handler(s) \/ Restore(s)
    \/ _add \/ CallAnext \/ ResumeAnext \/ CancelAnext
    \/ LeaveBlock \/ Redeliver \/ deliver_next

SignalSpec == SignalInit /\ [][SignalNext]_signalVars

(***************************************************************************)
(* No signal is lost, as the docstring promises ("This avoids a race       *)
(* condition when signals arrives just before we exit the with block"):    *)
(* what the handler took is on its way or pending, a pending signal never  *)
(* meets a sleeping iterator, and once the block is left nothing is        *)
(* pending any more, so what is still owed goes to the original handler.   *)
(***************************************************************************)
NoSignalLost ==
    /\ owed \subseteq ToSet(soon) \cup ToSet(_pending)
    /\ anext = "parked" => _pending = <<>>
    /\ block = "left" => _pending = <<>>
================================================================================
