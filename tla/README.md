# Trio in TLA+

Trio is a Python library for concurrent programs: a single-threaded scheduler
with nurseries, cancel scopes, synchronization primitives, channels, and
bridges to threads, signals, sockets, TLS and subprocesses.  This directory
holds TLA+ models of it, TLC configurations that check them on small instances,
and TLAPS proofs of the invariants that the rest stands on.

The models are translated from the code under `src/trio/`; `PROJECT.json` maps
every definition that models code to its lines.

## 1. Inventory

What makes trio hard is not parallelism, since between two checkpoints a task
is alone, but the number of parties that may act *at* a checkpoint: another task,
a cancellation coming from any scope above, a deadline, a control-C that ignores
scopes, I/O, a thread, or in guest mode a host program that runs code between
two ticks.  Each of them may reach a sleeping task first, and the others must
cope.

| Part | State it keeps | Operations | Talks to | What is hard, and what makes it correct |
|---|---|---|---|---|
| Cancel scopes and statuses (`_core/_run.py` 115-760, 1220-1300) | per scope: entered, cancel called, shield, deadline, caught; a tree of statuses with `effectively_cancelled`; per task: status, abort function, outcome to send | enter, exit, cancel, shield, deadline; `recalculate()`; blocking and `reschedule()` | every blocking operation, nurseries, deadlines | `recalculate()` walks a tree that changes under the walk; exits in the wrong order; cancelling against blocking. No cancellation lost or misdirected, one outcome per wait |
| Deadlines (150-240, 600-640) | a heap with stale entries, `_active` | register, change, expire, prune, next deadline | run loop, guest mode | entries become current again; a deadline moved while the loop sleeps. None lost, none slept past |
| Nurseries (760-1150) | children, pending starts and exceptions, a waiting parent; the cancel status of the nursery | `open_nursery`, `start_soon`, `start`, `started`, child exit, `__aexit__` | cancel scopes, tasks | a child moves between nurseries with its cancel status; parent, children and starts end in any order. No forgotten parent, no child outside, no error dropped |
| Run loop, idle check, guest mode (2130-2370) | run queue, the events of the wait, time until idle or jump | wait, expire, wake idle waiters, jump, batch; host wakes tasks | clock, I/O, deadlines, host | the result of a wait is stale when it is used; the host acts between two ticks. No wait with work to do, no idle signal when something happened |
| Entry queue and `TrioToken` (`_core/_entry_queue.py`, `_wakeup_socketpair.py`) | two queues, `done`, a lock, a wakeup socket pair | `run_sync_soon` from threads and signal handlers, the queue's task, shut-down | threads, signals, control-C | reentrant locking, wakeups against going to sleep, shut-down against late calls. In order, once, accepted means run |
| KeyboardInterrupt (`_ki.py`, `_run.py` 1754-1790) | `ki_pending`, the handler | handler, `deliver_ki`, its callback, delivery at checkpoints, end of `run()` | entry queue, main task | the main task may run, sleep, exit or have exited. No control-C lost |
| Memory channels (`_channel.py`) | buffer, sleeping senders and receivers, open handles | send, receive, `_nowait`, clone, close, abort | tasks | closing and cancelling against hand-over. First in first out, nobody sleeps without need |
| Parking lot, Lock, Condition, Semaphore, CapacityLimiter (`_sync.py`, `_core/_parking_lot.py`) | wait queues, owner, value, borrowers | acquire, release, wait, notify, resizing | tasks, cancellation, control-C | what was handed over must not be lost with a cancelled task, nor given twice; nobody starves |
| Thread cache (`_core/_thread_cache.py`) | idle workers, job and lock of each | submit, run, idle timeout | `to_thread` | real threads; the timeout races with being chosen. No job for a dead thread |
| `to_thread`, `from_thread` (`_threads.py`) | calls with a task register and a token, questions under way | run, abandon, report, ask, answer | limiter, cache, entry queue, run shut-down | abandoned calls, results for tasks that moved on, a run that ends under a thread. Tokens follow threads, nobody hangs |
| Async generators (`_core/_asyncgens.py`, `Runner.init`) | `alive`, a weak set and then a set, `trailing_needs_finalize` | `firstiter`, `finalizer`, the final rounds of closing | garbage collector, entry queue, system nursery | the collector may act between any two steps of the shut-down. Every generator of a task is closed, and none twice |
| Signal receiver (`_signals.py`) | handlers, `_pending`, `_closed` | handler, `_add`, `__anext__`, leaving | entry queue, the original handlers | signals arrive while handlers are taken down one by one. None lost |
| I/O managers (`_core/_io_epoll.py`, `_io_kqueue.py`, `_io_windows.py`) | waiters of each descriptor, the kernel's registrations, AFD handles, overlapped operations | wait, cancel, `process_events`, `notify_closing` | kernel, tasks, streams | one-shot registrations, descriptors reused or closed elsewhere, completions already on the way, events fetched and not yet processed. Nobody sleeps on an event that nobody will report |
| Streams on descriptors (`_unix_pipes.py`, `_highlevel_socket.py`, `_socket.py`) | descriptor or -1, conflict detectors | send, receive, half close, close | I/O managers | the number is reused while a task is between a checkpoint and a system call; partial sends. No byte of a message inside another, no call on somebody else's file |
| TLS (`_ssl.py`) | the SSL object with two memory buffers, two locks, a counter of receives, `_state`, `_Once` | handshake, send, receive, unwrap, close | a transport stream | sender and receiver each need both directions. Records in order, no wait for what has come, `aclose()` ends |
| DTLS (`_dtls.py`) | endpoint: table of channels, receive loop; channel: queue, last volley, final volley, `replaced` | connect, serve, handshake with retransmission, send, receive, close | a datagram socket, a clock | loss, repetition, reordering; replacement under a handshake. One live channel, handshakes get through, volleys survive fragmentation |
| Subprocesses (`_subprocess.py`, `_subprocess_platform/`) | pidfd, wait lock, return code; `run_process`'s nursery | wait, poll, signal, run, kill | I/O manager or a thread, cancellation | the child exits by itself at any point, or may not be signalled. Nothing is left behind, a cancelled child dies if it can be signalled |
| Connections (`_highlevel_open_tcp_stream.py`, `_highlevel_open_tcp_listeners.py`, `_highlevel_serve_listeners.py`) | attempts with sockets, a winner; listeners, handlers | staggered connect; open, accept, back off, serve | sockets, nurseries | the timer, answers, errors and cancellation interleave. One socket survives, servers go on |
| In-memory streams (`testing/_memory_streams.py`) | bytes, one parking lot, a waiting receiver | send, receive, pump, close | tests | one lot for both sides. Nobody parked for nothing |

What is left out is in section 8.

`PROJECT.json` lists all components and, under `hazards`, the places where one
of them could go wrong in a way that a test would hardly find.

## 2. Modules

| Module | Models | State and steps |
|---|---|---|
| `CancelScope` | cancel scopes, statuses, delivery | A scope and its status share a name.  `active` are the live statuses, `parent` the tree, `effectively_cancelled` the cached flags.  One action per method; `Recalculate` gives the result of the walk as the least set closed under "visited and its flag changes".  Blocks carry the exception in flight (a set of the kinds "Cancelled" and "Error"), so that catching is modelled.  The code of tasks is anything the API allows; `Misnesting` allows exits in any order. |
| `Deadlines` | the deadline heap | `heap` counts copies of an entry, `registered` is the registered deadline of a scope, `sleeping_until` is the deadline a guest-mode sleep was computed from.  `DropStale` is the clean-up hidden in `next_deadline()`. |
| `Nursery` | nurseries, `start()`, task exit | EXTENDS `CancelScope`: a nursery is a scope of its own with children.  A task's `pc` tells the stage of `__aexit__` or `start()`; everything between two yields of one method is one step, unless a property could tell. |
| `RunLoop` | `unrolled_run`, `guest_tick`, the autojump clock | `state` and `left` of tasks, the wait in progress, the batch.  Time passes in waits only (`Elapse`), at the rate of the clock. |
| `EntryQueue` | the entry queue | Threads and the queue's task at the granularity of one lock, queue or socket operation; a signal handler runs in the main thread at any point, and takes the lock when its own thread has it. |
| `KeyboardInterrupt` | control-C | EXTENDS `EntryQueue`: the callback of `deliver_ki` is one of its jobs. |
| `BoundedFifo` | what a memory channel promises | Values are offered and taken in order; beyond the capacity an offer may be withdrawn, within it none is, unless the last receiver goes away. |
| `MemoryChannel` | `_channel.py` | Handles, buffer, sleepers in order, outcomes.  Implements `BoundedFifo`. |
| `ParkingLot` | `_parking_lot.py` | Operators on all lots at once, so that a primitive can put several together in one step. |
| `Locks`, `Semaphore`, `CapacityLimiter` | `_sync.py` | EXTEND `ParkingLot`; one action per method up to its next checkpoint, and one per way to leave it. |
| `ThreadCache` | `_thread_cache.py` | One step per dict operation, attribute assignment or lock operation. |
| `Threads` | `_threads.py` | Calls with a stage; the entry queue and the limiter as `EntryQueue` and `CapacityLimiter` show them to be. |
| `AsyncGens` | `_asyncgens.py`, the end of `Runner.init` | A state per generator, `alive`, the phase of the run, and the entry queue as a sequence.  The collector runs in the Trio thread.  Generators of a guest run's host go to its finalizer, or are stepped once in `aclose()` if it has none. |
| `SignalReceiver` | `_signals.py` | Handlers, the idempotent queue, `_pending`; leaving is one step per handler and per signal given back. |
| `EpollIO`, `KqueueIO` | `_io_epoll.py`, `_io_kqueue.py` | Trio's table of waiters next to the kernel's registrations; the environment makes descriptors ready, closes and reuses them, with and without `notify_closing`.  In `KqueueIO`, `get_events` and `process_events` are two steps: in guest mode the host's code runs between them. |
| `WindowsIO` | `_io_windows.py` | The AFD polls of a socket, overlapped operations and a first-in first-out completion port, with completions, cancellations that come too late and fallback messages in it. |
| `ByteStream` | `FdStream`, `SocketStream`, `_nonblocking_helper` | A descriptor number and whose file it is; a byte is a message and a position. |
| `MemoryStreams` | the in-memory streams | Numbered bytes, the state of each call, the shared parking lot. |
| `SSLStream` | `_ssl.py` | `running` names the task in an await-free stretch.  Records are numbered as OpenSSL makes them.  The SSL object is the outcome of a call: done, want read or error, with records made and messages used. |
| `DTLS` | `_dtls.py` except the codec | The volleys of one handshake are numbered 1 to 6, data is 7; `net` is a set of packets that lose, repeat and overtake each other.  Cookies carry the tick they were made in. |
| `DTLSVolley` | `encode_volley`, `decode_volley_trusted`, timer and MTU | A message is its kind and length, a packet a sequence of records with their sizes. |
| `Subprocess` | `_subprocess.py` | The child, the tasks in `wait()`, the stages of `run_process`, its killer and helpers, on three platforms.  The kernel may refuse signals, and another process may hold the child's pipes. |
| `HappyEyeballs`, `TcpServer` | the high-level TCP functions | Attempts with their sockets, bound to `local_address` or not, and the stagger timer; listeners, connections and handlers, with a bounded number of descriptor shortages. |
| `CancelScopeProofs`, `WaitProofs`, `ThreadsProofs`, `NetProofs`, `SyncProofs` (and the run loop), `IOProofs`, `SecureProofs` | | Theorems, section 6; each EXTENDS the modules it is about. |
| `QueueProofs` | | Lemmas about sequences as queues (append, pop, remove, split, concatenate) and the least element of a set of numbers, which the others cite. |
| `MC*` | | Instances for TLC. |

Definitions that stand before the one they resemble (`ParkFirst` before
`Park`, `ExitRegardless` before `Exit`) are what the code would be with a
plausible mistake in it.  Nothing uses them.  `PROJECT.json`, `mutants`, names for
each property one of them that breaks it, which shows that the property depends
on the code being as it is.

What is abstracted everywhere: values, messages and results are model values;
exceptions are kinds; context variables, names, statistics, `repr` and argument
checks are left out.  A method that raises without changing anything is left out
if it cannot be told from not being called.

## 3. Runs

`tlc -config <cfg> <module>`; each finishes in less than four minutes on two
workers.  A run with several instances or parts picks one in its initial state:
components without common state share a run and do not multiply each other's
states.

| Run | Instances and bounds | Shows |
|---|---|---|
| `cancel` (`MCCancelScope`) | two tasks, a root and two scopes: well nested with a shield; one scope with a deadline; mis-nested without shields | `effectively_cancelled` is exactly reachability of a cancelled scope without a shield between (`EffectivelyCancelledIsExact`), nobody sleeps on through a cancellation (`NoLostCancel`), and `reschedule()` never overwrites an outcome (`SentOnce`) |
| `tasks` (`MCTasks`) | run loop: three tasks; guest mode with autojump, guest mode on a running clock, regular mode; cushions 0 and 2, sleeps of 1 and 2 (only 2 on the running clock), waits of at most 3. Primitives (`MCSync`): three tasks on a lock and condition with two control-Cs, a semaphore of initial value 1 and maximum 2, or a limiter of 1 to 3 tokens | no wait with a runnable task; `wait_all_tasks_blocked()` returns, and the clock jumps, only after everything was blocked for the whole cushion; every runnable task runs; lots and tasks agree; lock, permits and tokens are handed over without loss; nobody is overtaken for ever |
| `nursery` (`MCNursery`) | three tasks, two nurseries, a `start()`; two tasks, a nursery with a deadline, a shield around the `start()`, a scope in the child | children live inside their nursery's block, its parent sleeps only when somebody will wake it, and a pending `start()` keeps it open; `started()` moves cancellation with the tasks; every Cancelled raised has a scope above that catches it; errors reach the parent |
| `threads` (`MCThreads`) | entry queue: two threads, a signal handler, three jobs and a socket pair of one byte, with two control-Cs or with two idempotent keys; cache: two callers and three worker names; calls: two tasks, three calls (two of them cancellable), one token, one call back each | order, exactly-once, no sleep with work queued, a control-C ends in the main task or in `run()`'s caller; jobs go to living threads, no more of them than callers; results wake their own task, tokens are held while threads run; whatever was accepted is answered |
| `io` (`MCIO`) | deadlines: two scopes, three times, at most two copies of an entry, a regular run and a guest run that prunes always; epoll, and kqueue in a regular and a guest run: three tasks, two descriptors; Windows: one socket with three polls, two overlapped operations, groups of two; byte streams: two messages of two bytes through a buffer of one; channels: three values, two handles a side, buffers of 0 and 2; in-memory streams of three bytes | no deadline lost or slept past; no waiter forgotten by any of the three managers; a late cancellation is reported as what it was; messages do not mix and a closed stream stays closed although its number is reused; nobody is parked or sleeps without need; channels implement `BoundedFifo` |
| `secure` (`MCSecure`) | TLS: three tasks, three calls, four messages from the peer, client and server, HTTPS-compatible or not; DTLS: a second connection that replaces the first, cookies over two refresh intervals, and one connection with one fault and data; volleys of up to three messages of every kind with MTUs from 4 to 8 | section 1's properties of TLS and DTLS: `RecordsInOrder`, `NoStaleReceive`, `ACloseEnds`; `OneLiveChannel`, `HandshakeGetsThrough`, `VolleySurvives` |
| `net` (`MCNet`) | `run_process` and two other users of the Process on three platforms; a child that ignores SIGTERM, may not be signalled, or leaves its pipes to another; up to three addresses of four kinds, up to two with a `local_address`; two listening addresses, three connections, two shortages; three signals; three generators, a host with and without a finalizer | nothing is left behind by `run_process`, no socket leaks from `open_tcp_stream` or `serve_tcp`, every signal is taken or given back, every generator of a task is closed and none twice, a cancelled process ends, reachable addresses are found and connections served |
| `locks_interrupted`, `limiter_shared` (violation) | the primitives, as in `tasks`; for the second, two tasks borrow for one object | findings 1 and 2, section 7 |
| `tls_lost_record` (violation) | as `secure`, with one task that sends, one that receives and nobody who closes | finding 3 |
| `io_handles`, `kqueue_guest` (violation) | as `io` | findings 4 and 5 |

*Why these bounds.*  Each hazard needs an actor, the party it races with and
one bystander: two tasks and two scopes give a parent and a child status with a
shield on either; a third task gives a queue in which somebody can be overtaken;
a second copy of a heap entry is the first that can be mistaken for the other; a
socket pair of one byte is always full when it is not empty; a third worker name is
the surplus thread that should not be; a socket buffer shorter than a message makes
sends partial; one lost packet is enough, because each retransmission is the
same step again, and a network of four packets holds a whole exchange; an AFD group of two
is full after two polls; two families of addresses are interchangeable, so the first address
is called an IPv4 one; MTUs of 4 to 8 bytes against headers of 1 put fragments on either
side of a packet's last byte.  Named bounds (`MaxCopies`, `MaxKI`, `MaxExtra`, `MaxAsks`,
`MaxTokens`, `MaxQuiet`, `WakeupCapacity`, `MaxCalls`, `MaxPeer`, `MaxChannel`,
`MaxConn`, `MaxShortage`, `MaxGroup`, `MaxIn`, `MaxBytes`, `MaxFailed`) are constants of
the modules.

*Deadlock checking* is off in the runs whose programs end (`tasks`, `threads`,
`io`, `secure`, `net`): a run that ends, a closed stream or a finished process has no
next step.  What stops too early is what the liveness properties, `NoWaiterForgotten`,
`NobodyParkedForNothing` and `NobodySleepsWithoutNeed` exclude.

*Assertions in the code.*  A `del` or `popleft` on something missing is an
evaluation error in TLC, so a passing run also shows that those cannot happen.

## 4. Fairness

Liveness properties are only claimed where the code's scheduling justifies it:

* `RunnableTasksRun`: weak fairness of the loop, the thread it waits in and the host's
  call of the tick.  Nothing is assumed of I/O, of the host's other code or of what
  tasks do.
* `NoStarvation`: weak fairness of resuming a rescheduled task (the run loop
  gives every runnable task a turn); conditional on owners letting go.
* `EveryCallIsAnswered` is three things.  `EveryJobRuns`: weak fairness of the queue's
  task and of each thread inside `run_sync_soon`, only claimed without idempotent
  calls, since those may be repeated for ever and `threading.RLock` does not promise a
  thread its turn.  `EveryJobDelivered`: weak fairness of a caller between choosing a
  worker and releasing its lock, and of workers; idle timeouts are not fair.
  `NoCallHangs`: weak fairness of the callbacks run by the entry queue, of
  rescheduled tasks, of threads and of the system tasks they ask for, i.e. the
  functions that users pass in terminate.  No cancellation and no end of the run is
  assumed.
* `ACloseEnds`: runnable tasks run, and a send into the transport ends.  Nothing is
  assumed of what the peer says.
* `HandshakeGetsThrough`: tasks run, timers expire, a packet that is not lost arrives.
  The number of faults is bounded: a network that loses every retransmission lets no
  protocol through.  The claim is void once somebody closes, the server stops
  serving, or a channel is replaced.
* `CancelEndsTheProcess`: tasks and the waitid thread run, the killer's
  timeout expires, SIGKILL kills.  A child that ignores SIGTERM is in the model; one that
  exits by itself is not assumed.  Two things outside of trio limit the claim.  A signal may be
  refused (EPERM for a setuid child): the killer then ends with a warning, no SIGKILL is
  sent, and the shielded `wait()` lasts as long as the child does; so the claim for a
  living child is made only if signals are permitted.  And a process that the child has started may
  hold its pipes, a captured stdout for example: without a cancellation `read_output` then goes
  on after the child's exit, so that `run_process` ends is claimed only if nobody else
  holds them.  Nobody is assumed to read what `feed_input` sends.
* `ConnectionsAreMade`: tasks run, the stagger timer expires, an address that accepts or
  refuses answers (a black hole does not); for the server, listeners are tried again
  after `SLEEP_TIME` and a shortage of descriptors ends.

## 5. An abstract specification

`MemoryChannel` implements `BoundedFifo` under the mapping "offered = buffer
followed by the values of sleeping senders, in order".  TLC checks the whole
refinement as the property `ImplementsFifo`, and `WaitProofs` proves it step by step.

## 6. What is proved

TLAPS proves, for every set of tasks and scopes (of deadlines: every finite one)
and every value of the other constants:

* `CancelScopeProofs`: `TypeCorrect`, `CancellationConsistent`, `CancelNotLost`,
  `StatusesFormAForest`, `CaughtWasCancelled`, `OutcomeSentOnce`.  The inductive
  invariant is the conjunction of the type invariant, `Tree` (which statuses
  have parents, and `Forest`), `OneStateAtATime` (a task is running, blocked or has an
  outcome waiting, never two of these), `Consistent` (each cached flag agrees with
  its scope, its shield and its parent's flag), `NoLostCancel` and
  `CaughtImpliesCancelled`.  `NoLostCancel` is not inductive by itself: a change of a
  shield delivers only to statuses whose flag changes, so one must know that
  the flags were right before, which is `Consistent`; and `Consistent` needs the
  tree.  `Recalculate` is not proved by following the work list.  The least closed set is an intersection, so
  whatever is closed contains it, and it is closed itself; the lemmas about it
  need no induction, and everything else follows from them.
* `CancelScopeProofs`, on what the flags mean: `CancellationExact`.  That every flag agrees with
  its parent's (`Consistent`) does not by itself say that a flagged status has a cancelled scope
  above it: around a cycle flags could hold each other up.  `Settled` adds that in
  every set of scopes one has its parent outside (`Grounded`), and that what an early close
  leaves behind is flagged (`Orphans`); the path up
  from a status is again the least set closed upward (`Encloses`), so
  reachability needs no induction either.
* `CancelScopeProofs`, on nurseries, for any number of tasks, nurseries and calls of `start()`:
  `CancellationFollows`, `NurseryCancellationExact`, `NurseriesWait`, `NoErrorLost`, `CancelledIsKept`
  and, with no run of its own, `CancellationStays`.
  - `NInv` is `IInv` with the discipline of the nurseries.  Children, live tasks and open
    nurseries name each other (`Membership`, `Lives`); a task in `start()` or `__aexit__` is in the
    innermost block of its own (`Blocks`, `StartBlocks`); the open scopes of a task
    are a stack from its nursery to its status (`Stacks`, `Innermost`); `pending_starts` is the number
    of `start()` calls into the nursery (`Starts`); who sleeps in `__aexit__` has something to wait
    for (`Waiting`).  That tasks leave scopes in order is not assumed: it follows (`ExitOwned`).
  - `started()` hangs a subtree under another status, and the proof that this makes no cycle is
    why the tree alone is not enough: two calls of `start()` could each move the
    other's target below itself.  `GroundedTogether` says that parents *and* targets of pending
    `start()` calls, taken together, have no cycle.
  - `CancellationStays` assumes `NoneShieldedWhileOpen`: a shield set on an open scope takes a
    cancellation back, and nothing else does.
  - `CancelledIsKept` needs no such assumption.  That the status of a Cancelled on its way is
    effectively cancelled is not an invariant, for a shield may be set meanwhile.  What lasts is
    `Held`: an open cancelled scope around it with no start() nursery in between that
    `started()` could still move things out of (`Movable`).  A caller of `start()` that is cancelled
    while asleep in `__aexit__` cancels the old nursery in its abort function
    (`FailedKept`), so from then on the old nursery itself catches what is inside it.
* `WaitProofs`, on deadlines: `DeadlinesTypeCorrect`, `DeadlineNotLost`,
  `ActiveCountExact` (the assertion in `_prune()`), `SleepEndsInTime`.  The inductive
  invariant adds to those `SleepBound`: no entry of the heap, *stale ones
  included*, lies before the end of a guest-mode sleep unless a tick has been
  forced.  Without the stale ones it is not inductive, because a deadline set back
  to an earlier value makes a stale entry current again.  That comparison in
  `_might_change_registered_deadline` is right only because `next_deadline()` drops
  stale entries from the top before the loop goes to sleep.

* `SyncProofs`, on the run loop, for any tasks, timeouts, cushions and clock, in regular and guest mode:
  `NoWaitWithWorkThm` and the action property `IdleMeansIdleThm`.  `RunLoopInv` joins
  that a ready task is in the run queue or the batch (`ReadyIsQueued`); that in a thread
  either nothing is runnable and no tick is forced yet, or the wakeup is there
  (`WakesForWork`); that what the loop primed before the wait stays right as long
  as nothing becomes runnable (`StaysPrimed`); and that a wait that returned nothing
  has lasted its timeout (`WaitedLongEnough`).  Between priming and the check the host
  may wake one of the very tasks in `wait_all_tasks_blocked()`; then the timeout is no longer
  theirs, but the run queue is not empty, which the check looks at.
* `ThreadsProofs`, for any number of threads, signal handlers' jobs, callers, workers,
  calls and tokens.
  - `NoLostWakeupThm` and `RunsOnceInOrderThm`.  `EntryInv` joins to them where the
    lock is held (`LockHeld`), what a pass of `run_all_bounded()` has still to do
    (`PassState`), that the last passes come after `done` was set under the lock
    (`LastPass`), and that what was accepted is what was processed, then the rest
    of the snapshot, then the queue, in this order (`FirstInFirstOut`,
    `KeysInOrder`).  A callback that arrives during the last pass is the case
    that needs `LastPass` and `LockHeld` together.
  - `NoInterruptLostThm`: `KiInv` is `EntryInv` with the order in which the run shuts
    down and, for every control-C, the place where it is kept now (`InterruptKept`).
  - `WorkersAccountedForThm`: `CacheInv` says who owns each worker's lock, job and
    place in the idle list.  That there are no more workers than callers is not
    inductive; it follows from a map of the living workers into the callers that
    sends no two to the same (`NotTooMany`).
  - `TokenWhileThreadRunsThm` and `ResultFindsItsTaskThm`: `CallInv` counts the tokens
    by the stages of the calls, and has a task and its call name each other until
    the call's one message is on its way.
* `NetProofs`, for any number of generators, signals, addresses, connections and tasks:
  `EveryGeneratorIsClosedThm`, `NoSignalLostThm`, `OneSocketSurvivesThm`,
  `ServerLeavesNothingOpenThm`, `NoSocketLeakedThm`, `NothingLeftBehindThm`.  The
  invariants say where each thing is at each stage: a generator is in exactly
  one of the places that will close it (`Held`, `Places`), and one of the host is closed by Trio
  only if the host has no finalizer, and at most once (`ClosedOnce`); a handler is closed before
  the signals are given back (`ClosedFirst`); `close_all` knows every open
  socket until the end, that of a `bind()` that raised too (`SocketsKnown`), and attempts are cancelled only when one has won or the caller was
  cancelled; a listener or connection belongs to somebody who closes it; a child that
  was reaped has had its descriptor closed.
* `SyncProofs`, on the primitives, for any number of tasks, lots, permits, tokens and control-Cs:
  `HandedOverThm`.  `LotOK` is what a ParkingLot keeps to whatever is built on it: who is
  parked knows where, is parked once, and has no outcome yet.  On top of it
  `LocksInv`, `SemaphoreInv` and `LimiterInv` say that the lock has an owner while there
  are waiters, that value and permits given out add up, and that every token is
  borrowed while somebody waits.  They need each other's stages (a task that was
  woken owns what it was woken for before it runs).  For the limiter the theorem
  assumes `OwnObjects`, no two tasks borrow for one object, which is what finding 2 is about.
* `IOProofs`, for any number of tasks, descriptors, sockets, operations, messages, bytes
  and any buffer size: `NoWaiterForgottenThm`, `LateCancelIsRightThm`,
  `MessagesDoNotMixThm`, `ClosedIsClosedThm`, `NobodyParkedForNothingThm`.
  - *epoll*: `EpollForgetsNobody` with types is inductive; the work is in
    `_update_registrations`, which every action ends in (`UpdateRegistrations`).
  - *kqueue*: one must add that exactly the queues of `monitor_kevent` have events that
    are not one-shot (`QueuesStay`), and that an event which was fetched is no longer with the
    kernel if it was one-shot (`FetchedOnce`).  That every fetched event finds a receiver is
    proved of regular runs; in guest mode it is false, finding 5.
  - *Windows*: `WindowsInv` covers both halves at once, polls and overlapped operations in
    one port, although the run checks them apart.  It needs two facts about the
    port: no address is in it twice under one key, so that a completion is
    taken by the operation it belongs to and not by a later one at its address; and a
    LATE_CANCEL lies behind the completion that it was too late for (`PortOK`).
    `RefreshOK` is the lemma about `_refresh_afd`, stated for the waiters, operations,
    port and sleepers as any of its four callers leaves them.
  - *byte streams*: one sender at a time (`OneSender`), who has written the end of the wire up
    to where it is (`HalfSent`); a cancelled send leaves its half message with nobody
    to continue it, which is why `MessagesDoNotMix` asks for unbroken runs only.
    `ClosedIsClosed` needs that the stream's number is its own file's while it has
    one (`OwnNumber`).
  - *in-memory streams*: which calls can be parked at all (`MemoryCalls`).
* `WaitProofs`, on channels, for any number of tasks, handles, clones and values and any buffer size:
  `NobodySleepsWithoutNeedThm` and the refinement `ImplementsFifoThm`.
  - `ChannelInv` restates the property so that it is inductive: custom_sleep_data decides
    who sleeps on which handle (`SleepersOnHandles`) and in which queue (`QueueOf`),
    the counters are the numbers of open handles of a finite set (`HandlesCounted`), and
    sleeping is needed according to the counters (`NeededSleep`), which is what
    `close()` looks at.
  - What is left of a queue when some sleepers are deleted from it (`Without`, a
    recursive function) is found by induction on how many keys have been looked at:
    `UpTo` says that a *set* of numbers with 0, and n + 1 with n, has them all, and is
    proved from the least number that it lacks, so no induction principle with an
    operator parameter is needed.
  - In the refinement (`ChannelStepIsFifo`) `send_nowait()` is a Handover or an Offer, a
    `send()` that waits an Offer behind the others (`OfferedLast`), `receive_nowait()` a
    Take even when a sleeper's value moves into the buffer meanwhile (`OfferTaken`),
    cancelling and closing senders a Withdraw (`OffersWithdrawn`, which needs that
    nobody waits to send unless the buffer is full), closing the last receiver a Break.
* `SecureProofs`, on TLS, for any number of tasks, calls and messages of the peer:
  `RecordsInOrderThm` and `NoStaleReceiveThm`.  `SSLInv` has four parts.
  - *The locks* (`LockOK`): who is in a line is what the tasks' stages say, the first has
    the lock and nobody else.  Each step is shown to be a `Moved`: t changes, and at most
    the first of each line is handed its lock.
  - *The records* (`Ordered`, `LineRises`, `Accounted`): those on the wire lie below those
    held back, which lie below those that tasks have taken; a line for the
    send lock has its records in the order of the line; and each one made is somewhere.
    The lock is why it is enough that records are *taken* in order.
  - *The handshake* (`Fits`): `_Once` lets one task do it, and until its end nobody else is in
    `_retry`.  This is what makes `_delayed_outgoing` safe: it is set when nobody has
    records, so what is held back is older than whatever follows it.
  - *Receiving* (`Fits`): a task that means to receive, and has missed no receive, has found
    the SSL object starved, and nothing but a receive can feed it: a call of another
    task on a starved object uses nothing up and finishes no handshake.
* `SecureProofs`, on DTLS, for any number of channels, packets, faults and cookies:
  `OneLiveChannelThm`.  The property is inductive once the types are added, in
  which the channel that the table names exists.  Most steps edit one channel without
  changing its place (`SamePlace`); making one, which replaces the old, and closing
  one have lemmas of their own.

*Assumptions.*  All of them are named in the modules that declare the constants, and TLC
evaluates them in the runs.  They say that `None`, tasks, handles, operations and keys
are not taken for one another (`CancelScopeAssumption`, `NurseryAssumption`, `ParkingLotAssumption`,
`MemoryChannelAssumption`, `AsyncGensAssumption`, `WaitingAssumption` and so on), that sizes
are natural numbers and positive where the code needs it (`LimiterAssumption`,
`SizesAssumption`, `ServerAssumption`), that addresses come with a family and a behaviour
(`LookupsAssumption`), that the bound up to which idle time is measured covers the
cushions and the autojump threshold (`RunLoopAssumption`), and that sets that are counted are finite: scopes with
deadlines, callers of the thread cache, tasks of the limiter, listening
addresses and AFD operations.

*Only model-checked:* the liveness properties (`RunnableTasksRun`, `NoStarvation`, `EveryCallIsAnswered`,
`ACloseEnds`, `HandshakeGetsThrough`, `CancelEndsTheProcess`, `ConnectionsAreMade`), since fairness is
out of the prover's reach; and `VolleySurvives` of `DTLSVolley`, which is about what a RECURSIVE
operator computes from the fragments of a message: an induction over data.

## 7. Findings and confirmed suspicions

1. `locks_interrupted`.  `Condition.wait()` promises to re-acquire the lock
   "before waking up" (`src/trio/_sync.py` 706-707).  The re-acquisition is behind a
   shield (733), but a KeyboardInterrupt passes through shields: interrupted
   while re-acquiring, the main task leaves `wait()` without the lock, and the
   surrounding `async with` fails to release it.
2. `limiter_shared`.  `CapacityLimiter.acquire_on_behalf_of()` raises when the
   borrower "already holds one of this sack's tokens" (278-279), but looks only before it
   parks.  Two tasks parked for the same borrower are both woken (203), with one
   token on record.

3. `tls_lost_record`.  `SSLStream._retry` reads the SSL object's records out of the
   outgoing buffer and then waits for the send lock (`src/trio/_ssl.py` 479, 568).  A task
   cancelled in that line drops them, and only a failure *inside* the lock marks the
   stream broken.  In the run nobody closes the stream.  One task is in the
   transport's `send_all()`; a second one receives a request for a renegotiation in
   `receive_some()`, gets in line with the answer, and is cancelled there.  The stream stays
   usable with a gap in its records, while the docstring promises that a `receive_some()`
   cancelled during a renegotiation makes future calls raise BrokenResourceError if the
   stream is unusable (656-660; `send_all()` at 708-711).
4. `io_handles`.  The Windows I/O manager spreads its sockets over AFD handles by
   counting the polls of each (`AFDGroup.size`), but a completed poll is never taken off
   the count (`src/trio/_core/_io_windows.py` 512-517 against 618-620): a single socket
   that is used again and again makes it open ever more handles.
5. `kqueue_guest`.  In guest mode events are fetched in one step and processed in a later
   call of the host loop (`src/trio/_core/_run.py` 1348-1369).  If host code cancels, in
   between, the scope of a task in `wait_readable()` whose event has been fetched, the abort
   function ignores that the kernel does not have the event any more (`_io_kqueue.py` 156) and
   deletes the registration (126-130); `process_events` then fails with a KeyError (79), and
   the run with a TrioInternalError, which "should never happen"
   (`src/trio/_core/_exceptions.py` 10).

Seen while modelling, with no run of their own:

* If the first task in `_Once.ensure` is cancelled during the TLS handshake, the event
  is never set: tasks already waiting there wait for ever, while
  `do_handshake()` says that it "waits for it to complete and then returns"
  (`_ssl.py` 218-226, 626-628).  The model has it, which is why `ACloseEnds` speaks of
  a task that is past the wait.
* A lockstep `send_all()` that follows a cancelled one fails at
  `assert not self._data` (`testing/_memory_streams.py`); the model gives it no such call.
* In `dtls_receive_loop` an error of the socket while the final volley is sent again
  falls into the branch "??? shouldn't happen" and ends the system task with the run
  (`_dtls.py` 740-746; `ResendFails`).

Things that looked wrong and are not: `started()` in the middle of a cancellation,
with shields toggled between delivery and catch (`EveryCancelledHasACatcher`
holds, and is proved: the abort function of the caller of `start()` cancels the old nursery); re-entering `recalculate()` from a nursery's abort function; an idle
timeout in the thread cache when the worker has been chosen; a control-C
after the entry queue has stopped; a completion that is in the port when its AFD poll
is replaced; a descriptor closed behind trio's back while epoll still reports it; the
close of a DTLS channel that has been replaced.

## 8. Not modelled, and the plan

* *Generated and stateless code*: generated wrappers, file and path wrappers,
  deprecation and other utilities, test harnesses, statistics, instruments, `repr`.
* *`Event`, `UnboundedQueue`, `StapledStream`, `Sequencer`*: one flag or list, or calls
  passed on; nothing that takes several steps to go wrong.
* *A callback that raises in the entry queue* (`_entry_queue.py` 60) and crashes of system
  tasks: they need the init task's nurseries composed with the queue.
* *Run loop*: instruments, the internal-error path, the set-up of guest mode; changes
  of a MockClock's rate or threshold during a run.
* *MultiError* is the set of the kinds of its leaves; how groups are collapsed and
  tracebacks joined is formatting.
* *Async generators* collected by another thread than Trio's, where the weak reference
  and the finalizer are two steps.
* *I/O*: `monitor_completion_key` and `force_wakeup` on Windows; `_windows_pipes.py`, whose
  calls wait in `wait_overlapped`.
* *TLS*: `send_all(b"")` and `SSLListener`; the check for a pending cancellation with which
  `Lock.acquire()` begins when the send lock is free (a task cancelled there drops its records
  as one cancelled in line does, finding 3).  *DTLS*: the parsing of packets is the outcome
  of the parse; a retransmit timer that expires while the final volley is being sent is
  covered by that volley's being sent or lost.
* *Subprocesses*: the deprecated `Process.aclose` and the Windows code.
* *Connections*: name resolution, an external `handler_nursery`, and the Unix and TLS
  helpers, which wrap what is modelled.

To do: the composition of the init task (main nursery, system nursery, entry queue) with
a callback that raises, on top of `Nursery` and its `NInv`.
