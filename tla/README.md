# Rillet in TLA+

Rillet is an actor framework: the `rillet` crate is the runtime, and
`rillet-macros` generates, for each service, its handle, its loop and the
plumbing between them. This directory models what the generated services do at
run time, and what the macros make of a source, model-checks both with TLC on
small instances, and proves the safety properties of both with TLAPS for every
value of the constants.

File names below are relative to `src/crates/rillet/src/` (`op.rs`, `view.rs`,
...) or `src/crates/rillet-macros/src/` (`handlers.rs`, `service.rs`).

## The system

| component | state | operations |
|---|---|---|
| **Service loop and handles** (`handlers.rs`, `runtime.rs`) | the service behind `Arc<RwLock<T>>`, a bounded command queue, flags for the open inputs | handle methods: send a command, start an operation, run a `direct` or `direct_mut` method, clone, drop, cancel; the loop: select over cancellation, commands, events and watched views, execute, drain, stop |
| **Operations** (`op.rs`) | per operation its state; per service the `OpsCell`: registries of parked resolvers with an index of deadlines, queued conclusions, a closed flag | start, insert, claim (`succeed_`, `fail_`), flush, expire, close, drop |
| **Cancellation token** (`cancellation.rs`) | a flag and an event | cancel, poll, drop |
| **Task set and completion** (`runtime.rs`) | handles of spawned tasks, a done flag, a condition variable | push, wait, join |
| **View slot** (`view.rs`) | the current view, a version, an event, a watcher count | publish, load, watch, changed, try_changed, wait |
| **Emitter** (`event.rs`) | a bounded broadcast channel per event type | emit, subscribe, receive |
| **Metrics** (`metrics.rs`) | two counters per command, a ring of depth samples | count, sample, aggregate |
| **Gauges** (`gauge.rs`) | one atomic word per cell | store, load |
| **Spawner** (`spawner.rs`) | - | spawn, block on |
| **Macros proper** (`handlers.rs`, `service.rs`) | the methods and fields of a source, by role; the builder's flags and context fields | parse, validate, number the commands, generate `new()`, the spawn builder, `spawn_with`, samplers |

How they meet:

- A *handle method* sends a command through the queue and then counts it. For
  an operation it first makes a pair: the `Op` the caller keeps, and the
  resolver that travels inside the command.
- The *loop* takes the state's write lock for a *turn*: it executes one command
  or one event, publishes the view, then applies the conclusions of operations
  that the turn has queued. `direct_mut` methods run the same turn on a
  caller's thread.
- A *deferred* operation is parked in the `OpsCell` by the turn that executes
  it, and claimed by a later one. A task of its own, the *expirer*, fails those
  whose deadline passes; it does not take the state lock.
- The loop, the expirer and the service's own tasks listen to one cancellation
  token, and their handles go into one task set, which completions wait on.
- Another service may listen to this one's events or watch its view. A loop
  whose handles are gone lives on while a source is open and an observer (a
  subscriber or a watcher) remains.

What is hard: the expirer runs beside every turn, with only short mutexes
between them; each wait (expirer, token, watcher, blocking wait, condition
variable) must not miss the event it sleeps for; handles, sources and
observers disappear in any order; a handler may panic on the loop or on a
caller's thread, which poisons the lock for everybody; shutdown drains a queue
to which callers still send.

What makes each part correct:

- operations: exactly one party can conclude each, none is forgotten while
  the service lives, conclusions are final, timeouts are never early and never
  missed;
- loop: it stops for the documented reasons only, and whenever nothing can
  reach it, or it is cancelled and callers cease to send; delivered commands
  are executed; what a concluded operation did is in the view;
- token, view, task set: no sleeper misses its event, nothing is left
  registered, panics reach exactly one waiter, a watcher is given no view older
  than the version it is then marked seen for;
- events: a subscriber has exactly what was emitted since it subscribed, never
  half a turn of it; only a subscriber that is really behind makes an emit
  panic; a loop stops for want of observers only when there are none;
- metrics: a depth, though summed up from moving counters and stale loads, is
  too large by a bounded number at most, where a lock bounds it at all; the ring
  reads back the last samples;
- macros: exactly the legal sources are accepted, a command is counted as what
  it is wherever it is counted, a spawned service is complete, and a handle's
  gauges are the service's.

## The modules

### OpLifecycle: what an operation promises

The abstract specification. An operation is `Unborn`, `Pending`, or in one of
four terminal states (`Done`, `Failed`, `TimedOut`, `Lost`; the code folds
`TimedOut` into `Failed` with the declared reason). A step begins one, resolves
one, times one out **at or after its deadline**, loses some, or lets time
pass. Terminal states are final.

### OpsCell: `op.rs` in steps

A step is a critical section of one of the cell's mutexes, or an access of its
atomics. Three parties:

- the *writer*, whoever has the state's write lock (`wpc`): `BeginTurn`,
  `BeginOp`, `Insert` / `InsertClosed`, `Notify`, `ClaimInHandler`,
  `ImmediateOutcome`, `HandlerReturns`, `Panic`, `FlushOne`, `EndTurn`; the
  loop's end: `CloseFlag`, `CloseLock`, `Drain`, `CloseEnd`;
- the *expirer* (`epc`): `Listen`, `Check`, `Scan` one registry at a time,
  `ScanEnd`, `Wake`, `Recheck`, `ExpireLock`, `Sweep` one registry at a time,
  `FailDue` one operation at a time, `SweepEnd`;
- *callers*: `Start`, `DropSent`, `ClaimInDirect`, `Cancel`, and the clock,
  `Tick`.

`byKey` and `deadlines` are the two structures of `Entries`; `queued` is the
queue of conclusions; `due` the operations a sweep has removed and not yet
failed. A lookup of a registry in the map is merged into the section that
follows it: a registry is never removed, so nobody can tell when it was looked
up. Claiming and queueing are one step: both happen under the state lock,
which keeps the flush out from between them.

### ServiceLoop: the generated loop, its handles and its shutdown

One service with the cell of operations as a set (`parked`, `claimed`). `loop`
is where the loop is: `select`, waiting for the `lock`, in a `turn`, about to
`count`, in the `drain`, in the `exitcheck`, about to `close`, `return`, or
gone (`ended`, or `dead` of a panic). A turn is `handler`, `publish`, `flush`,
whoever holds the lock. The three loops the macro generates (with commands,
with sources only, with neither) are one, told apart by `HasCommands` and
`Sources` as in the generator. The parts of the exit check - the open flags,
the observers, the read lock they are looked up under - are as in
`exit_check`; so are the three places where the loop meets a poisoned lock
(`FindPoisoned`). An operation is called once; a plain command may be sent over
and over. Of the two counters, which would grow without end, only the
difference is kept (`depth`, which may be negative).

### CancellationToken, TaskSet, ViewSlot: the waits

Each in steps of single atomic accesses (or critical sections, for the task
set), with `event-listener` as it is used: a notification reaches the
listeners there are at the time, polling a listener takes its notification or
leaves a waker, dropping it deregisters it.

- `CancellationToken`: `Store` then `Notify`; a poll is `Poll`, `Load`,
  `Listen`, `PollListener`, in a loop as in the code; `Drop` between polls.
- `TaskSet`: `Spawn` and `Push` alternate until `SpawnReturns`; a waiter takes
  all handles (`Take`) and blocks on each (`BlockOn`), or finds none and sleeps
  until the set is done (`Check`); `Mark` and `NotifyAll` are the guard's drop,
  on return and on unwinding. A completion lists one or two sets.
- `ViewSlot`: one publisher at a time, since publishing happens under the write
  lock: `Publish`, `Store`, `Bump`, `Notify`. `changed()` is `Changed`,
  `Listen`, `ReadVersion`, `LoadView`, `Await`; `wait()` is `WaitListen`,
  `WaitLoad`, `Judge`, `WaitAwait`.

### EventChannel: emitting, subscribing, stopping for want of observers

A channel per event type, with its log of all events emitted, and per
subscription what is `unread` and what it `got`. Events carry the turn they
were emitted in. `DirectMut`, `LoopTurn` (write lock) and `Direct` (read lock:
`direct` methods, and `emit_<event>` called on a handle) begin a turn, `EndTurn`
ends it; `Emit` and `CountPublished` are the two steps of `Emitter::emit`, and
`Overflow` its panic. `Subscribe` takes the read lock as `on_<event>` does;
`Take`, `End` and `DropReceiver` are the receiver's side. The exit check reads
one counter per step (`ReadCounter`) before it decides (`ExitCheck`).
async_broadcast is modelled as it is used: a broadcast reaches every active
receiver or, one of them being full, none.

### Metrics: counters, ring, sampling

A counter stands as the set of commands it has counted. The counters are
atomics accessed with `Ordering::Relaxed` (`metrics.rs:51-106`): a sum over them
makes one `Load` a step, and a load may return any value its counter has ever
had (`history`), unless whoever loads is bound to have seen a newer one
(`known`): by its own increments, by its earlier loads, or because the ring's
mutex has come to it from somebody who had (`released`). Nothing orders a load
of one counter with one of another.
`Receive`, `EndTurn`, `Push`, `Reset`, `IncProcessed` are the loop's;
`Ask` / `Answer` are `aggregate_stats`, which holds the ring's mutex while it
sums, `AskCommand` / `AnswerCommand` `command_stats`, which holds nothing.
`samples` remembers all samples the ring has been given.

### Lists, HandlersMacro, ServiceMacro, GeneratedService: from a source to a service

`Lists` has the one loop the macros share: sorting the items of their input
into lists of their own. `HandlersMacro` and `ServiceMacro` are the two attribute macros as operators on
what they look at of a source: attributes in order, receiver, parameters,
return type; struct arguments, events, fields. They say what is refused, which
role a method has, how commands and operations are numbered
(`CommandPieces`, `OpPieces`), what `new()` initialises, and how a gauge's value
becomes a word and back (`ToBits`, `FromBits`: widths and signs in full).

`GeneratedService` runs a source through them (`Expand`, `New`), lets the owner
store into gauges or replace one, arms the context tasks of the spawn builder
(`ArmFirst`, `ArmNext`), and goes through `spawn_with` one statement at a time
(`Seed`, `TakeCells`, `Subscribe`, `SpawnTask`, `PushTask`), while whoever has a
handle already - a task does before `spawn_with` returns - sends commands and
the loop executes them.

Definitions whose name begins with `X`, headed "Slip", are plausible mistakes
in the definition that follows them. No specification uses them: they are there
to be swapped in, to see that the property named in `PROJECT.json` notices.

The modules are composed by what they promise rather than by product: the
loop's expirer and cell are those of `OpsCell`, its cancellation is
`CancellationToken` at the granularity of its flag, a task that ends in
`TaskSet` is a loop that stops in `ServiceLoop`, the sources and observers of
`ServiceLoop` are the subscriptions of `EventChannel` and the watchers of
`ViewSlot`, and what `GeneratedService` has spawned is where they all begin.

## What is checked

Twelve runs. Bounds are in the `.cfg` files. The counters capped in a guard are
the clock (`MaxTime`), the publications (`MaxStores`), the turns and events of
`EventChannel` (`MaxTurns`, `MaxEvents`), and the sends and cells of
`GeneratedService` (`MaxSends`, `MaxCells`); elsewhere each operation is called
once, and each command of `Metrics` sent once. `ServiceLoop` caps no counter:
the plain command of `loop_live` is sent as often as its caller likes.

| run | instance | shows |
|---|---|---|
| `ops_safety` | 3 operations, 2 registries, 1 key, clock 0..1, panics, claims in direct methods; 2.1M states | `OneResolver`, `IndexConsistent`, `NoLostWakeup`, `ClosedIsEmpty`, `ClaimWins`, `LostForCause`, and `Lifecycle`: OpsCell implements OpLifecycle |
| `ops_live` | 2 operations, 1 registry, 2 keys, no panics | `DeadlineConcludes` |
| `loop_safety` | 2 handles, 1 immediate and 2 deferred operations, 1 event source, queue of 2, panics; 1.3M states | `StopsForCause`, `ConcludedShown`, `OpsAccounted`, `DepthConserved`, `NoLateInsert` |
| `loop_live` | 1 handle, a command sent again and again, an operation, 1 source, queue of 1, panics | `DeliveredIsExecuted`, `CancelStops`, `UnreachableStops` |
| `token` | 2 cancellers, 3 futures | `NoLostCancel`, `NothingRegistered`, `CancelWakes` |
| `tasks` | 2 sets, 3 tasks, 2 waiters | `DoneMeansEnded`, `PanicsPropagate`, `WaitsEnd` |
| `view` | 2 values, 2 publications, 2 watchers, 1 wait | type with the count of watchers, `SleepersAreCurrent`, `SleepersWait`, `NeverStale`, `WatchersCatchUp`, `CancelledWaitsEnd` |
| `events` | 2 event types, 2 subscriptions, 1 handle and the loop, queues of 2, 2 turns, 3 events; 0.7M states | `ReceivesAll`, `TurnsWhole`, `StopsUnobserved`, `OverflowForCause`, `SubscribersEnd` |
| `metrics` | 3 commands of 2 methods, a ring of 2, a sample every 2 commands or 1 tick, clock 0..3, 1 reader; 8.2M states | `DepthBounded`, `RingExact`, `SamplesPaced` |
| `macros` | 5000 sources: every method of up to 2 attributes, structs of each argument and field attribute, 4 whole services; words of 4 bits, 2 sends | `RefusedIffIllegal`, `CountedByName`, `SampleIsLatest`, `SpawnIsWhole` |
| `loop_hang`, `loop_expirer` | see below | counterexamples |

Type correctness is checked in `view`, where it carries the count of watchers;
elsewhere it is proved.

Why these are enough. In `ops_safety` two operations meet on one key
(displacement) and two in different registries (a scan or a sweep in parts),
one expires at 0 and one at 1 (early, on time, never), with a third left to
start at any moment; registries are visited one at a time, so two tell all
positions of an insertion relative to a scan. In `loop_safety` the queue is
smaller than the number of commands (a send is refused), two deferred
operations displace each other, and two handles let one caller hold the lock
while another sends. Handles are interchangeable there, and so are deferred
operations: no action tells them apart, which is what the symmetry set says,
and no liveness property is checked with it. Two waiters on joined sets, in
either order, make the shortest cycle waiting could have; three tasks put a
panic before, between and after others. Two publications separate a stale
view from a new one. In `events` three events fill a queue of two and one more,
and two types let a subscriber come to a counter already read and go from one
not yet read. In `metrics` three samples wrap a ring of two, two methods tear a
sum, and the bounds of `DepthBounded` are both met: one command less is
violated. In `macros` a second attribute is the first that can conflict or override,
a gauge as wide as the word, a narrower signed one and `bool` are the cases the
conversions tell apart, and three context tasks are the first whose arguments a
builder step has to carry past another one.

`CancelStops` has two parts: a cancellation is followed by the drain or the end,
whatever callers do; and, once callers cease to send
(`<>[][...~SendAccepted...]_vars`), by the end. The condition is needed: the
drain goes on as long as `try_recv` finds a command (`handlers.rs:1014-1018`),
and nothing closes the receiver first, so that in `loop_live` without it a
caller that sends as fast as the loop executes keeps the drain going for ever.
`DeliveredIsExecuted` is about the first of a resent command's executions.

Two runs end in a counterexample, each of something the documentation says.
They show what the code does:

- `loop_hang` (`OpsNeverHang`): the drain ends when `try_recv` finds the queue
  empty, but the receiver lives on until the loop has closed the cell and
  returned. An operation sent in between is accepted into a queue nobody reads
  and which lives as long as any handle: it is pending for ever, where
  `examples/08_ops.rs` says an operation can never hang.
- `loop_expirer` (`StopCompletes`): `expire_loop` ends by cancellation only. A
  service with deferred operations that stops because nothing can reach it
  leaves its expirer running, so a thread blocked on its completion stays
  blocked. When nobody holds the completion, the task set is dropped with the
  last handle and the loop's state, and the expirer with it
  (`ExpirerAborted`): the run has `Awaited = TRUE`, `loop_safety` has it
  `FALSE`.

### Fairness

- *Expirer* (`OpsCell`): weak fairness; an executor polls a task that can run.
  So are a turn's steps (handlers return) and the clock; a cancelled loop gets
  the read lock it closes under, however often callers take the lock in
  between (strong fairness of `CloseFlag`). The loop is not obliged to execute
  anything: it is the expirer, or the close, that concludes the operation.
- *Loop* (`ServiceLoop`): strong fairness of its step, because the lock it
  waits for is taken and released by callers in between and `RwLock` lets
  no waiter wait for ever; and strong fairness of each arm of the `select!`,
  because `futures::select!` polls its arms in random order, so that an arm
  that is ready again and again is taken. Nothing makes callers send, clone,
  drop or cancel.
- *Token*: a poll that has begun returns; a future is polled again when it has
  been woken, and only then need it be: `WF_vars(f \in woken /\ Poll(f))`.
- *Task set*: threads run and tasks end. That tasks end is the assumption a
  completion rests on; that the loop does, after a cancellation and once
  callers cease to send, is `CancelStops`.
- *Events*: a turn begun ends and an emit counts; the loop is polled, and strong
  fairness of its cancel arm stands for the random order of `select!`; a
  receiver that is waited on is polled. Nothing makes anybody emit, subscribe
  or leave.
- *View*: a publication begun runs to its notify (nothing in it blocks);
  watchers and waiters run when they can. Publications are never obliged.

## What is proved

The proofs are in `OpsCell_proofs`, `ServiceLoop_proofs`,
`CancellationToken_proofs`, `TaskSet_proofs`, `ViewSlot_proofs`,
`EventChannel_proofs`, `Metrics_proofs` and `GeneratedService_proofs`. They hold
for any sets of operations, methods, keys, commands, sources, futures,
cancellers, tasks, sets, waiters, views, event types and subscriptions, any
capacity of the queues and any programs, under the modules' named assumptions
only (a `None` that is none, kinds of things that do not overlap, a bound that
is a number, finitely many handles, watchers, subscriptions and commands; and
`ProgramsAssumption`, below). Each module's type invariant is proved with them
(`TypeCorrect`, `ServiceTyped`, `TokenTyped`, `SetTyped`, `WatchersCounted`,
`EventsTyped`, `MetricsTyped`; in `GeneratedService_proofs` the types are
conjuncts of the four invariants).

**OpsCell.** The inductive invariant is the conjunction of

- `TypeOK`;
- `TurnInv`: the writer has an operation in hand exactly from the start of its
  command to the insert, or to the handler's return;
- `DueInv`: overdue operations exist only inside a sweep, and were overdue at
  the time it compares with, which is not ahead of the clock;
- `OneResolver`: every pending operation's resolver is in exactly one of: a
  queued command, the writer's hands, a registry, the queue of conclusions,
  the sweep; a concluded one's in none;
- `IndexConsistent`: the index lists exactly the parked operations with a
  deadline;
- `CloseInv`: registries still to drain exist only while the loop closes, and
  of a closed cell only they can hold anything;
- `ScanInv`: from its listener on, the expirer has accounted for every deadline
  of the registries it has visited, or has been notified, or is about to be.

None of the properties is inductive by itself: `OneResolver` needs `TurnInv`
and `DueInv` (otherwise a step could leave `cur` or `due` behind),
`ClosedIsEmpty` is `CloseInv` once the drain is over, and `NoLostWakeup` is
`ScanInv` once the scan is. From it follow `TypeCorrect`, `ResolverUnique`, `IndexExact`,
`ClosedEmpty`, `NoWakeupLost`; the action properties `ClaimsWin` and `NotLostInVain`; and
`ImplementsLifecycle`: initial states map to initial states, and every step to
a step of `OpLifecycle` or a stutter, `DueInv` being what makes a timeout
never early.

**ServiceLoop.** The inductive invariant is `TypeOK` with

- `LockInv`: the write lock is held exactly during a turn, by the loop exactly
  in its own, and the loop has a command or source in hand exactly while it
  serves it;
- `CauseInv`: a drain follows a cancellation, the command channel is seen
  closed only without handles, a source only once its upstream ended;
- `CloseInv`: only the loop's last steps see the cell closed;
- `PlaceInv`: an operation's command is queued at most once and, with the one
  in hand, the parked and the claimed, in one place at most; all were sent;
- `ViewInv`: at the flush the view shows everything;

and `StopsForCause`, `OpsAccounted`, `DepthConserved` themselves. `OpsAccounted`
needs `PlaceInv`: dropping a resolver in one place would otherwise leave the
operation, concluded, in another. `ConcludedShown` needs `OpsAccounted`: what a
handler claims is pending. Hence `WindsDownForCause`, `ShownBeforeConcluded`,
`NothingForgotten`, `BooksBalance`, `ClosesLast`.

**CancellationToken.** `TypeOK`, `NothingRegistered`, and `ListenerInv`:
between its last look at the flag and its sleep a future holds a listener; if
that has been told, the future is being woken, and if not although the flag is
set, some canceller is about to notify. Hence `CancelNotLost`, `WaitsDeregistered`.

**TaskSet.** `TypeOK`; `SpawnInv` (waits are on spawned sets, and handles stay
with the set of their task); `OwnerInv` (a set has one owner at most, and none
of its handles left then); `UnwindInv` (a waiter unwinds because of a panicked
task of the set it is at); `HeldInv` (every task of a set is on its way into
it, in it, in its owner's hands, or ended, unless a panic made the owner drop
the rest); `DoneInv` (a set that is done, or about to be marked, is spawned,
and its tasks have ended or its owner is unwinding). Hence `CompleteMeansEnded` and `NoPanicSwallowed`.

**ViewSlot.** `TypeOK`, in which the counter of watchers is the number of live
ones; `VersionInv`: the version lags the stores by the publication between its
store and its bump; `WatcherInv`: a watcher is marked seen for no version newer
than what it got, unless it is about to load, and one going to sleep with its
listener un-notified has seen the current version or a notify is due;
`WaiterInv`: the same for waits, whose view is the current one. Hence
`WatchersCounted`, `NoChangeMissed`, `NoWaitMissed` and `SeenIsHeld`.

**EventChannel.** `EventsTyped` first. `StopsUnobserved` rests on `Control`
(who holds the lock, what the flags of the loop go with, that the end comes
without handles) and `Observed`: with no handles left, and a sum of nothing so
far, a live subscription is to a counter not yet read. `TurnsWhole` rests on
`Apart`: turn numbers are not ahead of `turn`, a reader's number is none of a
writer's events, and no subscription begins between two events of a writer's
turn, nor within the turn going on. `ReceivesAll` rests on `Streams` (what a
subscription got and has waiting is the log since it began, position by
position) and `Counted`: the log is as long as `published` says, plus the
parties about to count. `OverflowForCause`, an action property, follows from
`Streams` - a full queue is as many events behind - and `Quiet`: once the lock
is poisoned nobody is inside any more, so that a panic poisons it once, and is
a writer's.

**Metrics.** `MetricsTyped` first. `DepthOverBounded` (`DepthBounded`) rests on

- `SumsRight`: no value the enqueued ever had counts what was not sent, and a
  sum has loaded nothing else of them; of the processed it has, over the
  counters it has been through, all that its owner cannot miss (`Due`): the
  loop all of them, the holder of the mutex those it was last released with;
- `Caught`: the loop knows all it has processed (`InHand`), and the mutex was
  last released by somebody who knew what had been processed, but for one
  command, at the last sample (`Sampled`). With `Pace`, which bounds the
  commands since, the holder of the mutex can be behind by `CommandInterval` at
  most.

`RingExact`
rests on `RingHeld`: the slot `i` before the head is the sample `i` before the
last, as far back as the ring reaches, and samples are in the order of their
times, so that the slots a reader keeps, the newest in a row, are the positions
of the recent samples; the sum, the maximum and the number over the ones are
carried over to the others one slot at a time. `SamplesPaced` rests on `Pace`
(what `since` and `last` stand for at each step of the loop) and `Spaced` (each
sample was due, and not overdue).

**GeneratedService.** `ProgramsAssumption` says what any source has by the time
the macros see it: attributes, arguments and fields in sequences, no two
methods and no two fields of a name, and on each `gauge` a type that
`GaugeValue` is implemented for. Nothing is assumed of how many there are, or
in what order. Hence

- `MacrosRefuse` (`RefusedIffIllegal`). `MethodAttrsAre`, `FieldAttrsAre` and
  `ArgsAre` say what each of the macros' loops over attributes has found at its
  end, by induction over the attributes; `MethodRefusal` and `StructRefusal`
  that this is what the documentation forbids.
- `CountersAgree` (`CountedByName`). `PiecesAre`: commands and operations are
  numbered, apart, by their places in one list of names, and `SenderIs`: a
  name's index and its variant's are the same. The invariant `CountInv` adds
  that the queue is what has been sent and not executed, variant by variant
  (`Underway`), and that the counters count calls by name (`Counted`).
- `GaugesSampled` (`SampleIsLatest`). `RoundTrip`: a value of a gauge's type
  is read back from the word it was stored in, for every width of both. The
  invariant `GaugeInv`: no two fields hold one cell, and a cell's word is its
  last value's. With the cells taken at spawn (`Meanwhile`, below) the property
  follows.
- `SpawnWhole` (`SpawnIsWhole`). What is left of `spawn_with` and what has been
  done make up the whole: what is to be spawned, to be pushed or pushed are all
  the tasks, each once (`Meanwhile`), the statements left are in order
  (`SpawnTypes`), and every armed task has its arguments in the builder, or in
  the task already (`Handed`).

A fold of the community modules is recursive over a set of positions. That
there is such a function, and what it computes, is proved once (`FoldExists`,
`FoldIs`), from the least counterexample that well-foundedness of the naturals
gives; each loop then has its invariant, by `SetInduction` (`MethodFold`,
`FieldFold`, `ArgFold`, `OnlyFold`). Sums and maxima of sets in `Metrics_proofs`
are treated the same way, an element at a time.

The proofs found one thing wrong with a model: `Expand` had chosen among
`refused`, `uncompilable` and `compiled` by a `CASE` whose arms overlap, which in
TLA+ leaves it open which is taken. TLC takes the first, so no run could show
it.

Model-checked only: the liveness properties, `DeadlineConcludes`,
`DeliveredIsExecuted`, `CancelStops`, `UnreachableStops`, `CancelWakes`, `WaitsEnd`,
`WatchersCatchUp`, `CancelledWaitsEnd`, `SubscribersEnd` (fairness and `ENABLED`
are out of the prover's reach). Every safety property a passing run checks,
state or action, is proved.

## What is not modelled, and why

- *Memory ordering.* Steps interleave, and a load returns the last store, but
  for the counters of the metrics, whose `Relaxed` loads may be stale in
  `Metrics`. Elsewhere the accesses are `SeqCst`, or release/acquire around the
  data they announce, or under a mutex; or of one atomic alone, of which
  nothing else is concluded (a gauge's word, `published`, the count of watchers,
  which the exit check takes as it finds it).
- *Data*: commands' arguments, reasons, views' contents beyond equality,
  wording of panics.
- *Syntax*: tokens, spans, messages, types beyond those a rule looks at,
  `derive(Event)`, `derive(CheapClone)`, case conversion (two names that become
  one variant are in `macros`), what rustc makes of the expansion otherwise.
- *Accessors*: getters and the view handle's delegations read under the read
  lock or of one atomic.
- *A second service*: a source is an input of `ServiceLoop` and a subscription
  of `EventChannel`; two services with two locks, whose handlers call each
  other's direct methods, are not composed, and would deadlock.
- *The demos and examples*: users of the library.
- *Waiting too early*: a wait begun while `spawn_with` is still pushing (from a
  task, or through `cancel()` on an un-spawned service) takes a part of the
  handles, or none for ever. `TaskSet` starts waits after `spawn_with`.

Known divergences without a run of their own: a conclusion called from a
`direct` method, or one queued by a handler that panics afterwards, is applied
by a later turn or never, and the operation can no longer time out
(`ops_safety` has both, `DeadlineConcludes` is checked without them;
`OneResolver` says then only that one party holds the resolver, and
`OpsAccounted` only that it is in the queue of conclusions); a panic in a
`direct_mut` method poisons the state without waking the loop, though
`lib.rs` says a panicking handler terminates the service.

- *A cancelled service that is still sent to.* Its drain need never end
  (`CancelStops`, above), where `lib.rs:9` says a service runs until it is
  cancelled, and `service.rs:838` that the completion waits for it to finish.
- *The depth.* `metrics.rs:3-4` calls it exact at any moment, and `metrics.rs:168`
  the aggregate one exact. It may be too small: a command is counted after it
  is sent, so the counters may cross, which `saturating_sub` hides. And it may
  be too large, the processed being loaded with `Relaxed`: by
  `CommandInterval` at most in `aggregate_stats`, whose holder of the mutex has
  seen what the last sample had, and by any number in `command_stats`, which
  takes no lock. `DepthBounded` says what holds.
- *A relay's last observer.* Whether one remains is looked up in the exit check
  only (`handlers.rs:906`), which an observer's leaving does not trigger: a
  relay that has lost its handles and then its last subscriber runs on until
  its source emits or closes, where `lib.rs:9-11` says it stops.
- *A panic in one of several tasks.* `DoneGuard` marks the set done as soon as
  the panic unwinds (`runtime.rs:72`), with the handles behind it not blocked
  on: another waiter returns while those tasks may still run, where
  `runtime.rs:98` says it blocks until all tasks complete. `DoneMeansEnded`
  has this exception in it.
- *The same view twice.* The view is stored before the version is bumped
  (`view.rs:132`): a watcher that starts or loads in between is told of that
  view again, which `view.rs:209` calls newer.
- *The last minute.* `mean_depth_1m` is over at most the ring's samples, fewer
  than a minute's when there are more.
- *View handles.* `service.rs:756` says one takes no locks; its `on_<event>`
  takes the state's read lock.
- *Repeated attributes.* Of two `op`s, or two `from`s, on a method the last
  silently counts (`RefusedIffIllegal` takes this as legal).
- *A gauge reassigned after spawning* leaves the handle with the old cell
  (`gauge.rs:16-17` forbids it; nothing checks it). Before spawning it is
  harmless: `SampleIsLatest`.

## Plan

Done: the modules above, each with the proofs of its safety but `OpLifecycle`,
which is a specification.

Left, in this order:

1. Theorems on how the modules meet: that an operation which has been accepted
   by `ServiceLoop` follows `OpLifecycle` too, its cell being a set, and that
   `CancellationToken` and `ViewSlot` implement a flag and a register.
2. `ServiceGraph`: two services, an upstream and a relay, where the one's loop
   holds a handle of the other: order of shutdown, reference cycles, direct
   methods called both ways.
3. `TaskSet` with waits during `spawn_with`, from a task or through `cancel()`
   of a service not yet spawned, and what they can still be promised.
