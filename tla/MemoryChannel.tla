----------------------------- MODULE MemoryChannel -----------------------------
(***************************************************************************)
(* Memory channels (trio/_channel.py): any number of send and receive      *)
(* handles on one buffer, tasks sleeping on either end, clones, closing.   *)
(*                                                                         *)
(* The methods never yield between looking at the state and changing it,   *)
(* so each is one step.  The checkpoints before and after only decide      *)
(* whether the caller goes on; a task that was rescheduled cannot be       *)
(* cancelled before it runs.                                               *)
(***************************************************************************)
EXTENDS Naturals, Sequences, FiniteSets

CONSTANTS
    Task,
    Value,           \* the values sent, each of them once
    SendHandle,      \* the MemorySendChannel objects, clones included
    ReceiveHandle,   \* the MemoryReceiveChannel objects
    BufferSize,      \* the sizes the channel may be opened with
    None

ASSUME MemoryChannelAssumption ==
    /\ BufferSize \subseteq Nat
    /\ SendHandle \cap ReceiveHandle = {}
    /\ None \notin Task \cup Value \cup SendHandle \cup ReceiveHandle

Handle == SendHandle \cup ReceiveHandle

VARIABLES
    max_buffer_size,
    data,                  \* the buffer
    send_tasks,            \* keys of MemoryChannelState.send_tasks, in order
    send_value,            \* its values
    receive_tasks,         \* keys of MemoryChannelState.receive_tasks
    open_send_channels,
    open_receive_channels,
    created,               \* the handles that exist
    closed,                \* handles with _closed set
    tasks,                 \* _tasks of each handle
    custom_sleep_data,     \* the handle a task sleeps on
    outcome,               \* what a rescheduled task will be sent
    fresh,                 \* values not sent yet
    delivered              \* history: the values received, in order

channelVars == <<max_buffer_size, data, send_tasks, send_value, receive_tasks,
                 open_send_channels, open_receive_channels, created, closed, tasks,
                 custom_sleep_data, outcome, fresh, delivered>>

Outcome == {"none", "ok", "ClosedResourceError", "BrokenResourceError",
            "EndOfChannel", "Cancelled"}

ChannelTypeOK ==
    /\ max_buffer_size \in BufferSize
    /\ data \in Seq(Value) /\ Len(data) <= max_buffer_size
    /\ send_tasks \in Seq(Task)
    /\ send_value \in [Task -> Value \cup {None}]
    /\ receive_tasks \in Seq(Task)
    /\ open_send_channels \in Nat
    /\ open_receive_channels \in Nat
    /\ created \subseteq Handle
    /\ closed \subseteq created
    /\ tasks \in [Handle -> SUBSET Task]
    /\ custom_sleep_data \in [Task -> Handle \cup {None}]
    /\ outcome \in [Task -> Outcome]
    /\ fresh \subseteq Value
    /\ delivered \in Seq(Value)

\* open_memory_channel() makes one handle of each kind.
ChannelInit ==
    /\ max_buffer_size \in BufferSize
    /\ data = <<>>
    /\ send_tasks = <<>>
    /\ send_value = [t \in Task |-> None]
    /\ receive_tasks = <<>>
    /\ open_send_channels = 1
    /\ open_receive_channels = 1
    /\ \E s \in SendHandle, r \in ReceiveHandle : created = {s, r}
    /\ closed = {}
    /\ tasks = [h \in Handle |-> {}]
    /\ custom_sleep_data = [t \in Task |-> None]
    /\ outcome = [t \in Task |-> "none"]
    /\ fresh = Value
    /\ delivered = <<>>

--------------------------------------------------------------------------------
Members(q) == {q[i] : i \in 1 .. Len(q)}

\* What is left of an OrderedDict once the keys in S are deleted.
Without(q, S) ==
    LET upTo[n \in 0 .. Len(q)] ==
            IF n = 0 THEN <<>>
            ELSE IF q[n] \in S THEN upTo[n - 1] ELSE Append(upTo[n - 1], q[n])
    IN  upTo[Len(q)]

\* The task is running its own code and may call a method.
Free(t) ==
    /\ t \notin Members(send_tasks) \cup Members(receive_tasks)
    /\ outcome[t] = "none"

Usable(h) == h \in created \ closed

\* The tasks in T are rescheduled with result x and forget what they slept on.
Reschedule(T, x) ==
    outcome' = [t \in Task |-> IF t \in T THEN x ELSE outcome[t]]

\* The tasks in T are taken off the handles they slept on.
Unsleep(T) ==
    /\ tasks' = [h \in Handle |-> tasks[h] \ T]
    /\ custom_sleep_data' = [t \in Task |->
            IF t \in T THEN None ELSE custom_sleep_data[t]]

--------------------------------------------------------------------------------
(***************************************************************************)
(* MemorySendChannel                                                       *)
(***************************************************************************)

\* ClosedResourceError, BrokenResourceError and WouldBlock change nothing.
SendRaises(t, h) ==
    /\ Free(t)
    /\ h \in created \cap SendHandle
    /\ \/ h \in closed
       \/ open_receive_channels = 0
       \/ receive_tasks = <<>> /\ Len(data) >= max_buffer_size
    /\ UNCHANGED channelVars

\* send_nowait() that finds a waiting receiver, or room in the buffer.
SendNow(t, h, v) ==
    /\ Free(t)
    /\ Usable(h) /\ h \in SendHandle
    /\ open_receive_channels > 0
    /\ v \in fresh
    /\ fresh' = fresh \ {v}
    /\ IF receive_tasks # <<>>
       THEN /\ receive_tasks' = Tail(receive_tasks)
            /\ Unsleep({Head(receive_tasks)})
            /\ Reschedule({Head(receive_tasks)}, "ok")
            /\ delivered' = Append(delivered, v)
            /\ UNCHANGED data
       ELSE /\ Len(data) < max_buffer_size
            /\ data' = Append(data, v)
            /\ UNCHANGED <<receive_tasks, tasks, custom_sleep_data, outcome,
                           delivered>>
    /\ UNCHANGED <<send_tasks, send_value, open_send_channels,
                   open_receive_channels, created, closed>>

\* send() that has to wait.
SendBlocks(t, h, v) ==
    /\ Free(t)
    /\ Usable(h) /\ h \in SendHandle
    /\ open_receive_channels > 0
    /\ receive_tasks = <<>> /\ Len(data) >= max_buffer_size
    /\ v \in fresh
    /\ fresh' = fresh \ {v}
    /\ send_tasks' = Append(send_tasks, t)
    /\ send_value' = [send_value EXCEPT ![t] = v]
    /\ tasks' = [tasks EXCEPT ![h] = @ \cup {t}]
    /\ custom_sleep_data' = [custom_sleep_data EXCEPT ![t] = h]
    /\ UNCHANGED <<data, receive_tasks, open_send_channels, open_receive_channels,
                   created, closed, outcome, delivered>>

CloseSendSilently(h) ==
    /\ Usable(h) /\ h \in SendHandle
    /\ closed' = closed \cup {h}
    /\ send_tasks' = Without(send_tasks, tasks[h])
    /\ send_value' = [t \in Task |-> IF t \in tasks[h] THEN None ELSE send_value[t]]
    /\ open_send_channels' = open_send_channels - 1
    /\ Unsleep(tasks[h])
    /\ Reschedule(tasks[h], "ClosedResourceError")
    /\ UNCHANGED <<data, receive_tasks, open_receive_channels, created, fresh,
                   delivered>>

(***************************************************************************)
(* close(): senders asleep on this handle get ClosedResourceError; when it *)
(* was the last send handle, all receivers get EndOfChannel.               *)
(***************************************************************************)
CloseSend(h) ==
    LET own    == tasks[h]
        last   == open_send_channels = 1
        others == IF last THEN Members(receive_tasks) ELSE {}
    IN  /\ Usable(h) /\ h \in SendHandle
        /\ closed' = closed \cup {h}
        /\ send_tasks' = Without(send_tasks, own)
        /\ send_value' = [t \in Task |-> IF t \in own THEN None ELSE send_value[t]]
        /\ open_send_channels' = open_send_channels - 1
        /\ receive_tasks' = IF last THEN <<>> ELSE receive_tasks
        /\ Unsleep(own \cup others)
        /\ outcome' = [t \in Task |->
                IF t \in own THEN "ClosedResourceError"
                ELSE IF t \in others THEN "EndOfChannel" ELSE outcome[t]]
        /\ UNCHANGED <<data, open_receive_channels, created, fresh, delivered>>

--------------------------------------------------------------------------------
(***************************************************************************)
(* MemoryReceiveChannel                                                    *)
(***************************************************************************)

\* ClosedResourceError, EndOfChannel and WouldBlock change nothing.
ReceiveRaises(t, h) ==
    /\ Free(t)
    /\ h \in created \cap ReceiveHandle
    /\ \/ h \in closed
       \/ send_tasks = <<>> /\ data = <<>>
    /\ UNCHANGED channelVars

ReceiveJumpsQueue(t, h) ==
    /\ Free(t)
    /\ Usable(h) /\ h \in ReceiveHandle
    /\ send_tasks # <<>>
    /\ delivered' = Append(delivered, send_value[Head(send_tasks)])
    /\ send_tasks' = Tail(send_tasks)
    /\ send_value' = [send_value EXCEPT ![Head(send_tasks)] = None]
    /\ Unsleep({Head(send_tasks)})
    /\ Reschedule({Head(send_tasks)}, "ok")
    /\ UNCHANGED <<data, receive_tasks, open_send_channels, open_receive_channels,
                   created, closed, fresh>>

\* receive_nowait(): the longest waiting sender's value enters the buffer first.
ReceiveNow(t, h) ==
    LET sender == Head(send_tasks)
        buffer == IF send_tasks = <<>> THEN data
                  ELSE Append(data, send_value[sender])
    IN  /\ Free(t)
        /\ Usable(h) /\ h \in ReceiveHandle
        /\ buffer # <<>>
        /\ data' = Tail(buffer)
        /\ delivered' = Append(delivered, Head(buffer))
        /\ IF send_tasks = <<>>
           THEN UNCHANGED <<send_tasks, send_value, tasks, custom_sleep_data, outcome>>
           ELSE /\ send_tasks' = Tail(send_tasks)
                /\ send_value' = [send_value EXCEPT ![sender] = None]
                /\ Unsleep({sender})
                /\ Reschedule({sender}, "ok")
        /\ UNCHANGED <<receive_tasks, open_send_channels, open_receive_channels,
                       created, closed, fresh>>

\* receive() that has to wait.
ReceiveBlocks(t, h) ==
    /\ Free(t)
    /\ Usable(h) /\ h \in ReceiveHandle
    /\ send_tasks = <<>> /\ data = <<>> /\ open_send_channels > 0
    /\ receive_tasks' = Append(receive_tasks, t)
    /\ tasks' = [tasks EXCEPT ![h] = @ \cup {t}]
    /\ custom_sleep_data' = [custom_sleep_data EXCEPT ![t] = h]
    /\ UNCHANGED <<data, send_tasks, send_value, open_send_channels,
                   open_receive_channels, created, closed, outcome, fresh,
                   delivered>>

(***************************************************************************)
(* close(): receivers asleep on this handle get ClosedResourceError; when  *)
(* it was the last receive handle, all senders get BrokenResourceError and *)
(* the buffer is thrown away.                                              *)
(***************************************************************************)
CloseReceive(h) ==
    LET own    == tasks[h]
        last   == open_receive_channels = 1
        others == IF last THEN Members(send_tasks) ELSE {}
    IN  /\ Usable(h) /\ h \in ReceiveHandle
        /\ closed' = closed \cup {h}
        /\ receive_tasks' = Without(receive_tasks, own)
        /\ open_receive_channels' = open_receive_channels - 1
        /\ send_tasks' = IF last THEN <<>> ELSE send_tasks
        /\ send_value' = [t \in Task |-> IF t \in others THEN None ELSE send_value[t]]
        /\ data' = IF last THEN <<>> ELSE data
        /\ Unsleep(own \cup others)
        /\ outcome' = [t \in Task |->
                IF t \in own THEN "ClosedResourceError"
                ELSE IF t \in others THEN "BrokenResourceError" ELSE outcome[t]]
        /\ UNCHANGED <<open_send_channels, created, fresh, delivered>>

--------------------------------------------------------------------------------
\* clone(): a new handle of the same kind, counted by __attrs_post_init__.
Clone(h, new) ==
    /\ Usable(h)
    /\ new \notin created
    /\ created' = created \cup {new}
    /\ \/ /\ {h, new} \subseteq SendHandle
          /\ open_send_channels' = open_send_channels + 1
          /\ UNCHANGED open_receive_channels
       \/ /\ {h, new} \subseteq ReceiveHandle
          /\ open_receive_channels' = open_receive_channels + 1
          /\ UNCHANGED open_send_channels
    /\ UNCHANGED <<data, send_tasks, send_value, receive_tasks, closed, tasks,
                   custom_sleep_data, outcome, fresh, delivered>>

AbortForgetsHandle(t) ==
    /\ custom_sleep_data[t] # None
    /\ send_tasks' = Without(send_tasks, {t})
    /\ receive_tasks' = Without(receive_tasks, {t})
    /\ send_value' = [send_value EXCEPT ![t] = None]
    /\ Reschedule({t}, "Cancelled")
    /\ UNCHANGED <<data, open_send_channels, open_receive_channels, created,
                   closed, tasks, custom_sleep_data, fresh, delivered>>

\* abort_fn of send() and receive(): the sleeper is cancelled.
Abort(t) ==
    /\ custom_sleep_data[t] # None
    /\ send_tasks' = Without(send_tasks, {t})
    /\ receive_tasks' = Without(receive_tasks, {t})
    /\ send_value' = [send_value EXCEPT ![t] = None]
    /\ Unsleep({t})
    /\ Reschedule({t}, "Cancelled")
    /\ UNCHANGED <<data, open_send_channels, open_receive_channels, created,
                   closed, fresh, delivered>>

\* The run loop sends a rescheduled task its outcome.
Resume(t) ==
    /\ outcome[t] # "none"
    /\ outcome' = [outcome EXCEPT ![t] = "none"]
    /\ UNCHANGED <<data, send_tasks, send_value, receive_tasks,
                   open_send_channels, open_receive_channels, created, closed,
                   tasks, custom_sleep_data, fresh, delivered>>

ChannelStep ==
    \/ \E t \in Task :
          \/ Abort(t)
          \/ Resume(t)
          \/ \E h \in Handle :
                \/ SendRaises(t, h)
                \/ ReceiveRaises(t, h)
                \/ ReceiveNow(t, h)
                \/ ReceiveBlocks(t, h)
                \/ \E v \in Value : SendNow(t, h, v) \/ SendBlocks(t, h, v)
    \/ \E h \in Handle :
          \/ CloseSend(h)
          \/ CloseReceive(h)
          \/ \E new \in Handle : Clone(h, new)

ChannelNext == ChannelStep /\ UNCHANGED max_buffer_size

ChannelSpec == ChannelInit /\ [][ChannelNext]_channelVars

--------------------------------------------------------------------------------
(***************************************************************************)
(* Properties                                                              *)
(***************************************************************************)

(***************************************************************************)
(* No task sleeps unseen or without need.  The queue of sleepers, the      *)
(* per-handle sets and custom_sleep_data tell the same story, so that no   *)
(* close(), abort or wakeup misses a task or trips over one that is gone,  *)
(* and the counters count the open handles.  A receiver sleeps only while  *)
(* there is nothing to receive (the assertion in send_nowait) and somebody *)
(* who could still send; a sender sleeps only while the buffer is full and *)
(* somebody could still receive.                                           *)
(***************************************************************************)
NobodySleepsWithoutNeed ==
    LET asleep(H) == UNION {tasks[h] : h \in H}
    IN  /\ ChannelTypeOK
        /\ open_send_channels = Cardinality({h \in SendHandle : Usable(h)})
        /\ open_receive_channels = Cardinality({h \in ReceiveHandle : Usable(h)})
        /\ \A h \in Handle : tasks[h] # {} => Usable(h)
        /\ Members(send_tasks) = asleep(SendHandle)
        /\ Members(receive_tasks) = asleep(ReceiveHandle)
        /\ Cardinality(Members(send_tasks)) = Len(send_tasks)
        /\ Cardinality(Members(receive_tasks)) = Len(receive_tasks)
        /\ \A t \in Task, h \in Handle :
              t \in tasks[h] <=> custom_sleep_data[t] = h
        /\ \A t \in Task : send_value[t] # None <=> t \in Members(send_tasks)
        /\ receive_tasks # <<>> =>
              data = <<>> /\ send_tasks = <<>> /\ \E h \in SendHandle : Usable(h)
        /\ send_tasks # <<>> =>
              Len(data) = max_buffer_size /\ \E h \in ReceiveHandle : Usable(h)

(***************************************************************************)
(* The channel is a bounded first-in first-out queue: the buffer, and      *)
(* behind it the values of the sleeping senders, are what is offered.      *)
(***************************************************************************)
Fifo == INSTANCE BoundedFifo WITH
    capacity  <- max_buffer_size,
    offered   <- data \o [i \in 1 .. Len(send_tasks) |-> send_value[send_tasks[i]]],
    delivered <- delivered,
    broken    <- open_receive_channels = 0

ImplementsFifo == Fifo!FifoSpec
================================================================================
