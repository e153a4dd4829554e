# A verification project for tau-core

tau-core runs Rust programs as *plugins*: dynamic libraries that a host process
compiles, loads, drives and unloads. The host and its plugins share one small
async runtime (`tau-host`), reached through a C ABI (`tau-rt`), and a copy of
tokio's API built on it (`tau-tokio`). This directory holds TLA+ models of that
system, TLC configurations that check them on small instances, and theorems
checked by TLAPS.

E is short for `crates/tau-host/src/runtime/executor.rs`, R for
`crates/tau-rt/src/runtime.rs`.

## 1. Inventory

| component | state it keeps | operations | what makes it correct |
|---|---|---|---|
| **executor** (E, R, `runtime/sync.rs`) | a slab of task slots (state, generation, owner, detached flag, join waker, storage of the future or its result), free list, ready queue, LIFO hot slot, queue of remote wakes, timer map | spawn, wake (own thread / other thread), the drive cycle (drain, fire timers, poll), `JoinHandle` poll / drop / cancel, `abort`, wait by id, `drop_plugin_tasks`, timers and `SleepFuture` | a slot is used by one task at a time and freed once; glue finds the data it was compiled for; no wake is lost; a handle yields the result unless somebody ended the task; an unload leaves no code pointer behind |
| **root loops** (R's `block_on`, E's `wait_for_task`) | locals only | poll the root, drive until quiet, wait in the reactor | the root is looked at after every work; no wait over work; wakes of other threads are seen within one wait |
| **task storage** (glue in R, slots in E) | a future or its result, in the slot or in a box | poll, drop, cancel, read glue | each value ends once, and its box with it |
| **reactor** (`runtime/reactor.rs`, `tau-rt/src/io.rs`) | registrations: descriptor, readiness bits, one waker per direction | register, deregister, poll_ready, clear_ready, poll with a timeout | readiness that was seen is not lost; whoever waits is registered |
| **plugin host** (`main.rs`, `plugin_guard.rs`, `tau/src/plugin.rs`) | loaded plugins, library handles, two `CURRENT_PLUGIN` atomics | load, send, wait, unload, drop at exit | destroy, tasks, resources, dlclose in this order; nothing of a plugin outlives its library |
| **resources** (`runtime/resources.rs`, `tau-rt/src/resource.rs`) | named values with their plugin's destructor | put, get, take, drop of a plugin's resources | a destructor runs once, before its library is closed |
| **plugin guards** (`tau/src/guard.rs`) | a counted library handle next to a value whose code is in it | new, clone, call, take apart, drop | the library outlives the value |
| **async locks** (`tau-tokio/src/sync/{mutex,rwlock}.rs`) | one atomic word, a list of wakers behind a std mutex | lock, read, write, the try variants, drop of a guard, drop of a waiting future | readers and one writer exclude each other; nobody sleeps in front of a free lock |
| **channels, notify, semaphore** (rest of `tau-tokio/src/sync/*`) | flags, counters, queues and wakers | tokio's operations | order, completeness, no lost wake, permits conserved |
| **task and time shim** (`tau-tokio/src/{lib,task/mod,time/mod}.rs`) | JoinSet, AbortHandle, spawn_blocking, Sleep, Timeout, Interval | tokio's operations, `select!` | each task joined once; nothing elapses early, what waits has a timer |
| **streams** (`tau/src/stream/*`) | the state of each adapter | poll_next and the consumers | the items an adapter's definition gives, no lost wake |
| **io, net, fs shim** | buffers, pipes, registrations, threads | reads and writes, readiness loops, file calls | no byte lost, repeated or invented; every wait ends |
| **process and signal shim** | children, pipes | spawn, wait, wait_with_output, kill, drop | output complete; kill on drop |
| **plugin compiler** (`compiler.rs`) | artifacts, dep files, a copy per environment | freshness decision, cargo, copy | what is loaded as up to date is what the sources say |
| **terminal UI** (`tau-tui`) | none for text | width, wrap, truncate, slice, strip | text is neither lost nor stretched |
| **xtask**, **vendored crossterm**, **loom tests** | | | outside the runtime |

How they interact. User code runs in poll functions and destructors that the
executor calls through function pointers; that code calls back into the executor
(spawn, wake, join, cancel, even drive) *while the executor's own functions are on
the stack*. Other threads reach the executor only through the queue of remote
wakes, and by unparking its thread. The root (`block_on` or the host's
`wait_for_task`) alternates between driving the executor and waiting in the
reactor. The host's unload runs the plugin's `destroy`, then
`drop_plugin_tasks`, then drops the plugin's resources, then closes the library;
whatever still points into it afterwards is a dangling code pointer.

The hard behaviours are therefore re-entrancy (a destructor or a poll that calls
any entry point at the worst moment), reuse (wakers, queue entries and handles
that outlive their task and name a slot that now belongs to another), wakes from
other threads, and unload in the middle of all that. `PROJECT.json` lists them
line by line under "hazards", with the properties that would catch each, or a
note why none does.

## 2. Plan

| step | modules | abstract specification or reference | status |
|---|---|---|---|
| 1 | `Executor`, `MCExecutor`, `ExecutorLifecycle` | `TaskLifecycle` | done |
| 2 | `ExecutorProofs`, `ExecutorStorageProofs` | `TaskLifecycle` | done: every safety property of the executor and the lifecycle refinement |
| 3 | `AsyncLock`, `MCAsyncLock`, `AsyncLockProofs` | `SharedLock` | done |
| 4 | `RootLoop`, `RootLoopProofs` | | done: waits, wakes of other threads, the way to the end of the root; every safety property proved |
| 5 | `Mpsc`, `Oneshot`, `Watch`, `Notify`, `Semaphore`, put together in `MCLibrary`, `LibraryProofs` | what was sent, in order; a count of calls and permits | done |
| 6 | `Streams`, `FileSystem` (`LibraryStreams`, `StreamProofs`), `ByteStream`, `ReadBuf` (`LibraryBytes`, `ByteProofs`), `JoinSet`, `Timing` (`MCLibrary`, `LibraryProofs`) | the adapters' definitions on sequences | done |
| 7 | `PluginHost`, `PluginGuards`, `Resources`, `Payload`, `Reactor`, `ChildProcess` (`MCHost`), `HostProofs` | "no code pointer outlives its library", with its exceptions | done |
| 8 | `Compiler` (proved in `HostProofs`), `TextLayout`, `AnsiCodes` (`MCHost`) | definitions of column counts and of codes | done |
| 9 | several executors in one model (joins and aborts across threads) | | not begun |

The modules are written to be proved about: parameters are CONSTANTS with one
named assumption, one action per operation, queues are sequences handled by
non-recursive operators, and invariants are conjunctions of named parts. TLC's
limits (symmetry, which tasks exist) live in the configurations; no
configuration replaces a definition.

Theorems worth proving, in order: types (done), no lost wake (done), exact free
list and single release (done), result owners and unload (done), the lifecycle
refinement (done), glue finds its data (done), awaiters and timers (done); the
root's waits (done); exclusion and wakes of the locks (done); the reactor's and
the channel's wakes (done); no pointer outlives its library, and values end once
(done); children's output, and the compiler's freshness (done); the rest
of the library: messages, counts, streams, bytes, files, times and wakes (done).

## 3. The models

### Executor

#### Modules

* `TaskLifecycle`: what the executor promises about a task and its handle,
  without slots, generations or queues. A task is unborn, running, done (its
  result waits for the handle) or over; a handle is open until it is dropped,
  cancelled or has yielded.
* `Executor`: one executor of one thread.
* `ExecutorLifecycle`: the mapping from slots and generations to the lifecycle,
  and the claim `ImplementsLifecycle`.
* `MCExecutor`: model values and symmetry for TLC; the module of every run.
* `ExecutorProofs`, `ExecutorStorageProofs`: lemmas and theorems (section 6).

#### State

| model | code |
|---|---|
| `state, gen, owner, detached, joinWaker` | the fields of `TaskSlot` |
| `store` (history) | what a slot's storage holds: a future, a result, nothing, and of which generation; the code keeps this implicit in `state` and in which glue it calls |
| `segs, free` | the slab's segments and `free_list` |
| `ready, hot` | `ready_queue` and `hot_slot` |
| `remote` | the queue behind `remote_ready` |
| `timers, nextTimer, now` | the timer map, the handle counter, the monotonic clock |
| `sleep[s]` | the `SleepFuture` inside the future in slot `s`: deadline and handle |
| `handles` | the `JoinHandle`s that exist, as pairs of slot and generation (the packed id) |
| `stack, depth` | the executor functions on the thread's call stack that have user code above or below them |
| `unloading, doomed, undropped` | the locals of `drop_plugin_tasks` |
| `halted` | the process has panicked in `alloc_slot` |
| `owed, awaitedBy, killed` (history) | which tasks are owed a poll, which task is parked on which, which tasks were ended by somebody else |

A frame of `stack` is `[at, slot, gen, then]`. `root` is the code that owns the
executor; `drain`, `fire` and `select` are the phases of `drive_cycle`; `poll`,
`dropFuture` and `dropResult` are calls of the task's glue; `unload` is
`drop_plugin_tasks`. `then` says what the caller of a destructor does next:
nothing, free the slot, or free it if it is still CANCELLED with the same
generation (`cancel_task`). Every function that runs no user code is one action.
A function that does is split exactly at the calls of user code: the action up to
the call pushes a frame, the action after it pops. While a frame of user code is
on top, every entry point is enabled. So the interleavings of re-entrant calls
are enumerated and not chosen. Two actions are taken by someone else at any
moment: `RemoteWake` (another thread's waker) and `Tick` (the clock).

`PROJECT.json` maps each definition to the lines it models. The main
correspondence: `Spawn` is `alloc_raw` + `commit_spawn`; `Wake` and `WakeInto`
are `waker_wake` on the own thread with its hot-slot displacement; `Drain`,
`Fire`, `PollHot`, `PollNext`, `PollPending`, `PollReady` are the three phases of
`drive_cycle`; `DropReturn` is what follows a destructor; `JoinTake`,
`JoinNone`, `JoinWait`, `JoinDrop` are `JoinHandle`'s poll and drop; `Cancel` and
`Abort` reach `cancel_task`; `HostWait` is `wait_for_task`'s clean-up;
`UnloadBegin`, `UnloadDrop`, `UnloadFree`, `UnloadDone` are
`drop_plugin_tasks`; `SleepStart`, `SleepAgain`, `SleepEnd` are `SleepFuture`.

#### What user code does: `Client`

Any Rust code may run in a poll or a destructor, and some habits cost some
guarantees. The constant `Client` says which habits are allowed: awaiting handles, aborting running
tasks, aborting oneself, aborting a task somebody awaits, aborting a completed
task (PRD.md:48 calls it a no-op; the code drops the result, so no run whose
joins should hold allows it), spawning in a destructor whose slot is already free, driving the executor
inside a task, waiting by id, unloading, sleeping. The passing runs allow a large
set of habits; each finding adds the one habit that breaks the property.
The theorems say for which habits they hold.

#### Abstractions and bounds

Payloads are not modelled: a future is the generation it was spawned with.
Futures do not choose what they do, they may do anything the habits allow.
`MaxSpawns`, `MaxRemote` (queue length), `MaxDepth` (frames on the stack),
`MaxTime` and `MaxTimers` bound the behaviours; they appear in guards only.
`MaxSpawns < GenMod` is the assumption that no generation comes round again (the
code wraps at 2^32). The conversion of a deadline through a duration
(R:355 and the host's `timer_create`) is the slip of `Slips`: the entry may be
due later than the deadline by the time that passed between two clock reads.
Timers and sleeps are exact otherwise; how long the root waits between two
drives is the subject of `RootLoop`, which in turn leaves slots, generations and
results out.

### AsyncLock

`AsyncLock` is one module for `Mutex` and `RwLock`, which differ in who may
enter (nobody reads a mutex) and in whom a release wakes (the last waker in the
list, or all). `kind` is chosen in `Init`, and so is `together`: whether all users are
tasks of one executor thread, where a poll or a drop runs to its end, or each
runs on a thread of its own, where every atomic operation interleaves.

| model | code |
|---|---|
| `word` | `RwLock::state`; `Mutex::locked`, with `WriteLocked` for true |
| `waiters` | the `Vec<Waker>`; a waker is the task it wakes |
| `at[t]` | where `t` is: out, between two atomic operations of a poll (`load`, `cas`, `refused...`), parked, holding a guard, or in a drop between the release and the wake (`released`) |
| `seen[t]` | the local `state` of the reader's loop |
| `woken` | woken and not polled since: the executor's READY |

A poll of `MutexLockFuture` or `RwLockWriteFuture` is `PollExclusive`, then
`PushWaker` if it was refused. A poll of `RwLockReadFuture` is `PollShared`, `LoadFree` or
`LoadWriteLocked`, `CountIn` (back to the load if the exchange fails), and
`PushWaker`. A guard's drop is `DropShared` or `DropExclusive`, then `WakeLast` or
`WakeAll`; the list is locked during each, so they are atomic. `DropFuture` is
what `select!` and timeouts do to a waiting future: nothing is undone, its waker
stays. `Use` says for each kind whether futures are dropped and polled without
having been woken. That a woken task is polled is the executor's business
(`NoLostWake`). A task holds or awaits one guard of the lock at a time.

`SharedLock` is what a lock promises: any number of readers, or one writer.

### RootLoop

The thread of an executor as its root sees it. `at` is where the thread is: at
the root, in one of the phases of `drive_cycle` (`drain`, `timers`, `fire`,
`pick`, `poll`), about to wait (`react`), or in the reactor's wait. `kind` says
whether `block_on` or `wait_for_task` is the root: the one looks at its future
only after a cycle that found nothing, the other after each cycle
(`AfterCycle`). `Timeout` is `next_timer_deadline`, capped and cut to whole
milliseconds; `left` counts down to a sleeper's deadline, and below zero how
late its timer or a wake is. A `spawn_blocking` task has its closure on a thread
of its own (`JobEnds`, `JobWakes`, `JobPanics`, `JobAborts`), which stores the
value and takes the waker under the mutex that `PollJob` also takes. `unpark` is
not modelled as an action because it has no effect: the owner is never parked.
`Event`, a descriptor that is ready, ends a wait early and may wake a task.

### The shim's primitives (`MCLibrary`)

Each module has one variable, a record with the fields of the code's structure
and the places of its users. `MCLibrary` puts all of them together; a behaviour
belongs to one component, named by `which`, and the variables of the others are
`Off`. Nothing is composed there: one TLC run serves eleven small models. Four of
the instances are in two modules that `MCLibrary` extends, each with the constants
and the assumption it needs: `LibraryStreams` (`Streams`, `FileSystem`) and
`LibraryBytes` (`ByteStream`, `ReadBuf`). So what is proved of them rests on no
more than they use. Sizes, delimiters and the items a filter likes are constants,
with values in `Library.cfg`; the theorems are for all of them.

| module | state and steps | what is checked |
|---|---|---|
| `Mpsc` | queue, live senders, permits, owned permits, receiver, `closed`; one step per operation, which holds the channel's mutex throughout | `InOrder`, `ReceiverWaitsForSomething`; `ReceiverWaitsForASender` |
| `Oneshot` | value, waker, `sender_alive`; `send` and the drop of `self` after it are two steps | `SentIsDelivered` |
| `Watch` | version, senders, what each receiver has seen; `borrow_and_update` is `BeginUpdate` and `Deref`, with sends between | `LastValueIsSeen` |
| `Notify` | flag, list of wakers, where each `Notified` is; how many may pass, whom `notify_waiters` told | `PassesAreAnnounced`; `AllToldPass`, `WokenPasses` |
| `Semaphore` | permits, and the stack of polls that an `acquire` without a permit builds by driving the executor from its poll | `PermitsConserved` |
| `Streams` | two sources fed by other threads, an adapter (map, filter, filter_map, take_while, merge, then) and a consumer (next, collect, for_each, fold), with what it was given of each source | `StreamIsExact` against the adapter's definition on sequences, `MergeIsFair`, `WaitsForItems` |
| `JoinSet` | members, their tasks, the set's list with `swap_remove`, blocking ones with their threads; aborts at any time, before and after a result | `EachIsJoinedOnce`, `JoinNextIsWoken`; `ResultsOutliveAborts`, `JoinNextHearsAborts` |
| `Timing` | one task in `sleep`, `timeout`, `Interval` or `select!`, its timer and the clock; a deadline goes to the host as a duration and is counted there from a later reading; resets at any time | `NothingIsEarly`, `ParkedIsArmed`; `ResetIsArmed` |
| `ByteStream` | `write_all` into a `BufWriter` or not, one direction of a duplex stream, a `BufReader` or not, and the ways to read; either end dropped at any time | `NothingIsLost`, `PipeKeepsMoving`; `NobodyWaitsForTheGone` |
| `ReadBuf` | filled, initialized and really written bytes | `ShownIsWritten` |
| `FileSystem` | a file and a directory, operations on threads of their own, futures that are dropped | `FilesAreOrdered` |

### The host and its edges (`MCHost`)

Composed in the same way, nine components.

| module | state and steps | what is checked |
|---|---|---|
| `PluginHost` | the loader's handle counts, the table of plugins, live tasks and resources with the plugin they belong to and the plugin they are *tagged* with; an unload is `Destroy`, `DropTasks`, `DropResources`, `Close`; `main`'s fixed programs and the test commands; what a `destroy` or a failed init leaves, and libraries loaded while they are loaded | `OnlyLeftoversDangle`, `HandlesAreExact`; `NoCodePointersDangle` |
| `PluginGuards` | the count of a library's guard, clones of guarded values on any threads, destructors and calls as steps of their own; the host's unload at any time | `GuardsAreExact`; `GuardsKeepCode` |
| `Resources` | entries, values, the registry's lock, what each thread is in the middle of: cloning a value after `get`, replacing one in `put`, sweeping a plugin's | `ValuesEndOnce` |
| `Payload` | what is behind the pointer that a task's glue gets: a future, a result, a box, nothing | `PayloadsEndOnce` |
| `Reactor` | one descriptor: registration, readiness, a waker per direction; a poll of each kind of socket, pipe, listener or `AsyncFd` as the steps its code makes (ask, try, clear, ask again), between several tasks, with the reactor polled by another thread too or not, and halves dropped in any order | `WaitersAreRegistered`; `NobodyIsForgotten` |
| `ChildProcess` | a child, three pipes of limited size, the parent's `wait_with_output`, kill and drop | `OutputIsComplete`, `OutputGetsOn` |
| `Compiler` | source files with time stamps, what cargo built and listed, the cached copy; edits, failed builds, restarts and crashes | `LoadedIsFresh` |
| `TextLayout`, `AnsiCodes` | one step per grapheme of a wrap, per code of a strip; truncation and slicing as operators | `WrappedIsFaithful`, `CutsAreFaithful`, `CodesAreExact` |

Where the code does not do what is said of it, the behaviour is in the model and the
property of the passing run names the exceptions, one by one: so it says that
nothing *else* goes wrong. What the doc says without exception is a definition of its
own, the one behind the semicolon in the tables; section 5 lists what it shows. The exceptions are:

* `ReceiverWaitsForSomething`: the channel was closed by its own receiver (a drop of the last
  sender still wakes it);
* `JoinNextIsWoken`: a task of the set was aborted while `join_next` waited;
* `EachIsJoinedOnce`: a task that was aborted after it had its result is joined with an error;
* `PassesAreAnnounced`: an upper bound; `notify_waiters` counts for all that wait, although one passes;
* `ParkedIsArmed`: the sleep was reset while its task was parked;
* `PipeKeepsMoving`: the other end of the stream was dropped;
* `OnlyLeftoversDangle`: what `destroy` or a failed init left behind, and libraries that were loaded while loaded;
* `GuardsAreExact`: values of a library that the host unloaded while they existed;
* `WaitersAreRegistered`: another task's waker on a shared `UdpSocket` or `AsyncFd`, a write half whose read
  half was dropped, and a poll of another thread between clearing and asking again.

A few conditions are constants instead, because what they exclude corrupts the state that the properties are about:
`Races` (Resources), `Overtakes` (FileSystem), `AwaitBoxed` (Payload), the `Habits` of Compiler, the
mode `"line"` of ByteStream and `Use["mutex"]` of AsyncLock. The passing runs have them FALSE or empty, as
`Client` has in `Executor` what its properties stand: the condition under which the property holds is
written down, and not left out of the model. Section 5 says what each shows when it is on.

`ChildProcess` lets a wait end once the child has exited. How a wait is to learn of an exit is in
`tau-host/src/runtime/process.rs`, which is in no module tree (`runtime/mod.rs` does not declare it), so it is not
modelled: see section 5.

## 4. The runs

| run | what is allowed | bounds | shows |
|---|---|---|---|
| `executor_tasks` | await, abort, wait by id, remote wakes | 3 spawns in a slab that grows from 1 to 2 slots, 4 frames, 1 queued remote wake | types, exact free list, single release, glue and storage, no lost wake, results have owners, joiners are woken, `JoinNone` only for killed tasks, and the lifecycle refinement |
| `executor_unload` | await, abort, unload, sleep; two plugins | 2 spawns, 3 frames, a clock of 2 values, 2 timer handles | unload drops each task as what it is, leaves none of its plugin behind, loses no wake of the other plugin and no timer of a dead task |
| `executor_sleep` | await, sleep, under fairness | 2 sleepers, a clock of 3 values, 2 timer handles | a sleeper has a timer that wakes it at or after its deadline, and is woken |
| `executor_wakeups` | no habit but wakes and detaches, under fairness | 3 spawns in 3 slots, 2 queued remote wakes, 3 frames | a READY task is polled, if Phase 3 finds the hot slot empty again and again; every owed poll is given, if Phase 1 finds the remote queue empty again and again |
| `locks` | mutex or rwlock, one thread or several; the rwlock's futures are dropped and polled for nothing | 3 users, `WriteLocked` 4, such useless wakers while the list has fewer than 3 | the word counts the guards, steps implement `SharedLock`, nobody sleeps in front of a free lock on one thread |
| `root_loop` | both roots, any goal, under fairness | 2 closures, 1 sleeper with a delay of 4, a longest wait of 2, 1 tick between waits | wakes are drained and timers fired at most one wait (and the work around it) late; the root never waits over something ready; it returns |
| `library` | the eleven components of `MCLibrary` | 2 senders and 3 messages; 2 receivers and 4 versions; 3 waiters and 3 notifications; 3 users and 2 permits; 3 items; 3 members; a clock of 5; 5 bytes in pipes of 2 and buffers of 3; 4 file operations | order, completeness and wakes, component by component |
| `host` | the nine components of `MCHost` | 3 loads of 2 libraries; 2 values with 2 clones; 3 puts by 2 threads; 8 kinds of descriptors; pipes of 2 and outputs of up to 3; a clock of 3 and 2 edits of 2 files; texts of up to 5 tokens, strings of up to 6 bytes | as above |
| `unload_timers`, `read_line`, `unload_code`, `notify_waiters` | the claim of the doc | as the passing run of the same module | a violation, section 5 |

Why the bounds are enough for the cases that matter. Three spawns over two slots
reuse a slot while handles, wakers and queue entries to its former task exist,
and make the slab grow and, with a fourth spawn refused by the bound, run with a
full slab (`SpawnPanics` fires while spawns remain). Four frames are root, phase,
poll and one destructor under the poll: every entry point is called from a poll
and from a destructor. A third remote wake to a queue of length one adds no order
that draining between them does not. In `executor_unload` the tasks are in every
state (queued, parked, hot, completed, sleeping) when the unload starts.

Three users of a lock are a holder, a waiter and one that barges in between; with
two readers a compare-exchange fails and a last reader differs from another.
`WriteLocked` is as close above the number of users as the assumption allows, so
an off-by-one in the count meets it.

In `root_loop` a wait can end by its limit, by an event, or by the clock passing
a deadline, and the sleeper's delay is two of the longest waits, so a timer is
skipped, capped and met. In `library` and `host` each limited buffer, queue or
pipe is smaller than what goes through it, so each fills, empties and wraps
around; each shared object has at least two users and, where order matters among
those waiting, three. The texts contain every kind of token next to every other,
and widths that a text exceeds by a wide grapheme.

Deadlock is checked in the runs of the executor, the root loop and the locks: the
executor always has a step (or has panicked, which is the explicit `Stopped`),
and so has some user of a lock. In `library` and `host` components really do
come to an end (a channel is closed, a script is over, a bound on operations is
reached), so `CHECK_DEADLOCK` is off there; that nobody is left waiting is what
`NobodyWaitsInVain`, `OutputIsComplete` and `WaitersAreRegistered` say.

Fairness (`FairSpec`). The executor's thread runs, so an enabled step of the
drive cycle, of an unload or a return of user code is eventually taken; this
assumes what every cooperative executor assumes, that poll functions and
destructors return. `block_on` and `wait_for_task` drive in a loop (E's
`block_on`, R's `block_on`), so `StartDrive` at the root is taken again and again.
A `SleepFuture` that is polled before its deadline and lost its timer re-registers
in that poll, and the clock advances. Nothing is assumed of remote wakes, joins,
aborts or spawns. The two liveness properties carry their extra condition in
their statement (`[]<>(Top.at = "root")`, `[]<>(... hot = None)`, `[]<>(Top.at = "fire")`), since the code
does not guarantee it: the yielding task of section 5 shows what happens without. The two conditions of
`ReadyQueueServes` differ because the remote queue is drained in Phase 1 only: two tasks that wake each other can keep
Phase 3 going for ever, with the hot slot empty now and then, while the wake of a third
one waits in the remote queue. It takes three tasks, which is why that run has three.

`RootLoop`'s fairness: weak of the thread's own steps, of the end of each closure
and of its wake (closures return, threads run), strong of the clock, which does
not stop because the thread is busy for a while. No event is assumed.
`RootGetsThere` leaves out a root that waits for a closure that panicked, since
the code does wait for ever then. The components of `MCLibrary` and `MCHost` have
safety properties only; that a woken task is polled is the executor's business.

Every property of a passing run has a mutant, an operator next to the one it
replaces, commented "mutant": a plausible slip in that line of the code that the
property then catches.

## 5. Disagreements between the code and what is said of it

`PROJECT.json` quotes the lines. Four have a run:

| run | habit | what happens |
|---|---|---|
| `unload_timers` | unload while others sleep | all timers are discarded, the survivors have nothing that would poll them (comment: they re-register on next poll) |
| `read_line` | a line comes in pieces | what the earlier polls consumed is lost |
| `unload_code` | `destroy` or a failed init leaves tasks or resources behind, or a library is loaded twice | they are tagged 0, since the host and tau-rt each have a `CURRENT_PLUGIN`; unload finds none, and their code is unmapped under them; a second load does not keep its guard |
| `notify_waiters` | two tasks wait (doc: it notifies all waiting tasks) | one takes the flag, the other was woken for nothing and left no waker |

One is not a matter of steps: `runtime/mod.rs:21` lists SIGCHLD handling among what the host provides, but
the file that has it is not compiled, nothing else defines `tau_host_sigchld_subscribe` (`tau-rt/src/ffi.rs:198`), and the
linker is told to allow that (`.cargo/config.toml`). A plugin that waits for a child that still runs stops the process at
an undefined symbol.

The others are seen by changing one constant of a run or by adding the definition named to it:

| property | how to see it | what happens |
|---|---|---|
| `GlueFindsItsData` | `"abortSelf"` in `Client` of `ExecutorTasks.cfg` | a task's future is dropped under its own poll, and `drive_cycle` then completes the freed slot (PRD: the drop is deferred) |
| `AwaiterNotForgotten` | `"abortAwaited"` in it | the join waker of an aborted task is cleared without a wake |
| `GlueFindsItsData` | `"spawnInDrop"` in it | the slot is free before its result is dropped; a new future overwrites the value |
| `PolledOneAtATime` | `"driveInTask"` in it | the nested cycle polls the task whose poll started it |
| `JoinNoneMeansKilled` | `"abortDone"` in it | abort of a completed task drops its result |
| `UnloadLeavesNothing` | `"spawnInDrop"` in `ExecutorUnload.cfg` | a destructor that runs during the unload spawns a task of the same plugin |
| `EveryOwedPollIsGiven` | as the property of `ExecutorWakeups.cfg` | a task that yields is in the hot slot again, and the queue starves |
| `NoExpiredTimerWaits` | as a property of `RootLoop.cfg` | a timer that expires between the cycle and the computation of the wait is neither fired nor counted; the root sleeps over it |
| `AbortWorksAnywhere` | as an invariant of `RootLoop.cfg` | the thread of a `spawn_blocking` closure has no executor; abort panics in an `extern "C"` function |
| `ValuesEndOnce` | `AwaitBoxed = TRUE` in `Host.cfg` | awaiting a task larger than its slot frees the first word of the result as if it were the box, and leaks the box |
| `NobodyForgotten` | `Use <- Cancelling` in `AsyncLock.cfg` | unlock wakes a dropped waiter only; the next sleeps in front of a free mutex |
| `WokenPasses` of `Notify` | under its `FairSpec`, two waiters | `notify_one` wakes without setting the flag; the woken task waits on |
| `JoinNextHearsAborts` of `JoinSet` | as invariant | as `AwaiterNotForgotten`, seen from `join_next` |
| `ResultsOutliveAborts` of `JoinSet` | as invariant | abort of a task that has completed drops its result (doc: a no-op) |
| `ResetIsArmed` of `Timing` | as invariant | a sleep reset while its task is parked has no timer until the task is polled for another reason |
| `NobodyWaitsForTheGone` of `ByteStream` | as invariant | dropping an end of a duplex stream closes nothing |
| `ReceiverWaitsForASender` of `Mpsc` | as invariant | `recv` on a closed and empty channel waits for the senders to be dropped, though they cannot send |
| `FilesAreOrdered` | `Overtakes` | a dropped write is done after a later one was answered; a dropped `next_entry` loses the directory |
| `NobodyIsForgotten` of `Reactor` | as invariant | another thread's poll falls between clear and ask, and the answer "ready" is not looked at; a read half deregisters the descriptor its write half waits for; the second task that waits for a direction of a shared descriptor replaces the waker of the first |
| `NobodyLocksItselfOut` of `Resources` | as invariant | `put` runs a destructor under the registry's lock |
| `GuardsKeepCode` of `PluginGuards` | as invariant | the guard of the plugin's static is never dropped, and dlclose unmaps under the others |
| `OutputGetsOn` | an `err` of more than a pipe | stdout is read to its end before stderr |
| `LoadedIsFresh` | each of Compiler's `Habits` | an edit during the build, a replaced runtime, a copy cut short are taken for fresh |
| `WrappedIsFaithful`, `CutsAreFaithful` | without their allowance | a grapheme that does not fit the rest of the line sticks out after a break at a space; a cut below the ellipsis's width is empty |

## 6. What is proved

The theorems about the executor hold for every slab size, number of plugins, bound and, unless said
otherwise, every set of habits. They rest on `ExecutorAssumption` only: sizes are
natural numbers, `Client` is a set of habits, and generations do not come round.

* `TypeCorrect` (`ExecutorProofs`): `Spec => []TypeOK`. `TypeOK` is not inductive:
  `drive_cycle` and `drop_plugin_tasks` push frames without looking at
  `MaxDepth` again, since `StartDrive` and `UnloadBegin` have made room. The
  inductive invariant `TypeInv` adds `RoomAbove`: such a frame is never at the
  limit. One lemma per action.
* `NoWakeIsLost`: `Spec => []NoLostWake`. The invariant
  adds `SlabInv`: used slots, the hot slot and every frame's slot are inside the slab's
  segments. Without it a drained remote wake could be discarded as out of range,
  or a spawn could overwrite a live task in the next segment. The theorem needs
  no restriction of `Client`: even the habits that break other properties do not
  lose wakes.
* `FreeListIsExact` and `SlotsAreReleasedOnce`: assuming that no task aborts
  itself and none drives the executor. They are proved together, by `SlotInv`,
  because neither is inductive alone: freeing a slot keeps the list exact only if
  nobody else is about to free it, and a release can be promised only for a slot
  that is not on the list. `SlotInv` adds `Shape` (a phase of the drive cycle or
  the unload is the second frame, a poll the third), `PolledIsAlive` (the task
  under poll still is in its slot: what `PollReady` relies on when it overwrites
  the state without comparing generations), `SpentStaysFreed` (the second check
  in `cancel_task` fails for a slot it has already freed, also after reuse; here
  generations matter) and `GenBound` (they grow). The two assumptions are the ones the code
  needs: `abortSelf` and `driveInTask` in section 5 show what happens without them.

`ExecutorProofs` begins with the facts about `Append`, `Tail`, `Front` and
`retain` on queues seen as sets, which all of these use.

The second half of `ExecutorProofs` builds on `SlotInv`, and so assumes with
it that no task aborts itself and only the root drives (`WellBehaved`).

* `UnloadLeavesNoTask`: `Spec => UnloadLeavesNothing`, if moreover no destructor
  spawns and no plugin is called `NoPlugin`. The invariant adds `UnloadCovers`:
  what the unloading plugin still has in the slab is in the list that
  `drop_plugin_tasks` collected. A spawn by a destructor is what would escape it.
* `ResultsHaveOwners`, `HandlesYieldResults`: `Spec => []ResultHasOwner` and
  `Spec => JoinNoneMeansKilled`, if nobody aborts a completed task. The invariant
  adds `HandleInv`: every slot whose result can still be taken has its handle, and
  every handle names such a slot with its generation, or a task that somebody
  ended. Both directions are needed: the first keeps results from being stranded,
  the second keeps `JoinNone` from lying after slots were reused.
* `ExecutorImplementsLifecycle`: `Spec => ImplementsLifecycle`, from `SlotInv` with
  no further assumption. Each action maps to a step of `TaskLifecycle` on the
  task of at most one slot, or to a stutter; the delicate ones are those that
  reuse a slot (a spawn must look like a birth although an old handle still
  names the slot) and the poll that completes a detached task.

`ExecutorStorageProofs`, on top of `SlotInv`, so with `WellBehaved` as well:

* `GlueAlwaysFindsItsData`, `StorageAlwaysMatchesState`:
  `Spec => []GlueFindsItsData`, `Spec => []StorageMatchesState`, if no destructor spawns. They are
  proved together: that a free slot's storage is empty holds because the drop
  that empties it ran, and that drop found its data because nobody filled the
  slot in between. `StoreInv` adds `DropStates` (a drop runs on a cancelled slot, or on a
  result whose slot is free already: the order of 688 and 694 of `executor.rs`)
  and `DoomedMatch` (what an unload has collected and not yet dropped still is in its slot, nobody
  is at it, and it is listed once).
* `AwaitersAreNotForgotten`: `Spec => []AwaiterNotForgotten`, if no task is aborted
  that another awaits. `AwaitInv` is stronger in one point: it also speaks of awaiters that are on the stack,
  since an awaiter may go on after it has left its waker.
* `TimersHaveTheirTask`: `Spec => []TimersOwned`. `TimerInv` adds that a handle names
  no timer of somebody else (`HandlesAreOwn`; handles are never reused), that
  what a detached task leaves behind does not sleep, and that an entry is late
  by the slips of the clock only.
* `SleepersAreCovered`: `Spec => []SleepCovered`, if no plugin is unloaded. The run
  `unload_timers` shows why the assumption is needed: an unload drains the timers of all.

The assumptions on `Client` are those that section 5 shows to be necessary: with
`abortSelf`, `spawnInDrop`, `abortAwaited` or `unload` the corresponding
property fails in the model as it does in the code.

`RootLoopProofs`, for any finite set of tasks, jobs and sleepers and any delays,
from `RootAssumption` alone:

* `RootTypeCorrect`, `TheRootSleepsOverNothing`, `WakesAreAlwaysInTime`:
  `Spec => []TypeOK`, `Spec => []NothingIsSleptOver`, `Spec => []WakesAreSeenInTime`. `RootInv` joins the types with
  `PlacesOK`, `GoalIsNoticed` (whatever completed the goal left its mark in the
  flags the loop looks at before it waits), `ReadyIsQueued` and `IdleIsEmpty` (the queues are
  empty when a wait begins), and for the times with `ArmedInTime` and `RemoteInTime`. The bound of
  `WakesAreSeenInTime` alone is not inductive: how late a timer may be depends on the place in the
  cycle, so `InTime` has one bound for what has been looked at since the last wait, one for the wait
  itself and one for the rest.

`AsyncLockProofs`, for every finite set of users, on one thread or several, with
every habit unless said otherwise. They rest on `AsyncLockAssumption`: there are
fewer users than readers the word can count.

* `WordIsExact`, `LockTypes`: `Spec => []WordCountsGuards`, `Spec => []TypeOK`. The
  invariant `WordInv` joins them with `SeenFree`: a reader never reaches its
  compare-exchange having loaded `WRITE_LOCKED`. Without it `seen + 1` could
  leave the range, and an exchange could succeed against a writer.
* `LocksImplementSharedLock`: `Spec => ImplementsSharedLock`, from the same
  invariant. A successful exchange enters, the operation that changes the word
  in a guard's drop leaves, everything else stutters.
* `NobodySleepsAtAnOpenLock`: `Spec => []NobodyForgotten`, assuming `Use["mutex"] = {}`
  (section 5 shows why). `WakeInv` adds that what a poll was refused for stays true
  until its waker is in the list (`RefusedRightly`; this is where one thread is
  needed), that whoever is parked is listed or woken (`Enlisted`), and for a
  mutex that the list names each waiter once and nobody else (`MutexList`).

`LibraryProofs` has the theorems about the eleven components of `MCLibrary`, for any
sets of users, sizes, periods and bounds, from the components' assumptions alone. Each
component has an inductive invariant, proved of its own `Init` and `Next`;
`StreamProofs` and `ByteProofs` hold those of the instances in `LibraryStreams`
and `LibraryBytes`. `LibraryInv` says that the component a behaviour is about keeps its own.

* `MessagesAlwaysArrive`: `Spec => []MessagesArrive`. `ChannelInv` adds
  `SendersCounted` (`sender_count` is the number of those who hold a part in the channel,
  senders or owned permits, and nobody is both: otherwise the channel would close
  too early or never) and `GotWasSent`. `OnceInv` adds `OnceFacts`: the value is there from
  the send until it is taken, also after its sender is gone. `WatchInv` adds that nobody has
  seen or marked a version that is yet to come.
* `CountsStayExact`: `Spec => []CountsAreExact`. `PassesAreAnnounced` of Notify is
  inductive with the types: a notification adds as many as may pass for it, and a pass clears the flag. For the semaphore, `Conserved` is a sum over its users, so
  that each step changes one summand, and `SpinsOnce` says that a user whose
  acquire drives the executor is in the stack once and holds nothing meanwhile: without it
  a poll that returns could overwrite permits. `JoinInv` says of each member of a JoinSet where it is:
  its handle in the list exactly once, joined, or detached; what was joined has ended, with an
  error only if it was aborted, before or after it had a result; and what runs is known to whoever must hear of its end. The delicate step is
  `swap_remove`, which moves the last handle into the place of the one removed.
* `StreamsStayExact`: `Spec => []StreamsAreExact`. `StreamInv` holds in the middle of a poll, too,
  since a poll asks its sources in turn: `Flows` (what was taken is a prefix of
  what was made, `take_while` was cut at the first item it did not like),
  `Outs` (what was given of each source is in order and is what the adapter keeps of the prefix) and `Fair`
  (a source that merge passed over once is asked first, so it is passed over once at most).
* `BytesStayExact`: `Spec => []BytesAreExact`, if nobody reads lines. `PipeInv` has as its centre
  `Placed`: what the reader has, its two buffers, the pipe and the writer's buffer are adjacent
  pieces of what is written. `Held` keeps each within its size and says when the writer may close,
  `Handed` that an end was read after the last byte and pieces end at a delimiter. The hypothesis
  is what the run `read_line` shows to be necessary: a `read_line` that is polled more than once drops
  what it had. For the buffer, what is initialized was written. For
  files, `FilesInv` (`Begun`, `Filed`, `Listed`) says that at most one operation
  is waited for, that a thread still at work is overtaken by no read or write, and that a directory's
  stream is here or with its one pending operation; it is stated with `Overtakes` FALSE (section 5).
* `TimesAreAlwaysKept`: `Spec => []TimesAreKept`. `TimerFacts` adds that the last tick of an interval is a
  period before the next deadline, that a timer is for the deadline or as much later as the clock went on between
  two readings, and that a timeout that looks at its delay has just been refused its value and left its waker,
  or was woken since. A sleep that was reset while its task was parked is the property's one exception.
* `WaitersAreAlwaysHeard`: `Spec => []NobodyWaitsInVain`, if nobody reads lines, from the
  same invariants: their conjuncts `Listens`, `Asleep`, the last two of `MemberGood` and
  `ReceiverInv` say of each who is parked and not woken that what it waits for is not there and that
  its waker is where that will come from. The exceptions of `ReceiverWaitsForSomething`, `JoinNextIsWoken` and
  `PipeKeepsMoving` (section 3) are waits that the code does not end.
* `LibraryIsTyped`: `Spec => []TypeOK`, reading lines included.

Sums over finite sets and counts need induction over data. The theorems of
the library that state it have an operator as a parameter, which no prover here
can instantiate; `StreamProofs` derives it for *sets* instead, from the least element of a set of
numbers (`LeastNumber`, `Induction`, `FiniteInduction`), and uses it to show that `Sums`, a
recursive function on finite sets, is defined and changes by one summand.

`HostProofs`, about the components of `MCHost` for any libraries, names, values,
threads and bounds, from `HostAssumption`:

* `StoredValuesEndOnce`: `Spec => []ValuesEndOnce`, if no handle of a boxed task is
  awaited (section 5). Of the registry, `RegistryInv` says where each resource is:
  stored under one name, in the hands of one thread, or over (`InOnePlace`, `Once`);
  that a replacement holds the registry's lock (`ReplacesLocked`) and that
  a thread that clones found its resource still stored (`ClonedIsStored`) are what keeps an
  end away from under a clone. `MCHost` fixes `Races` to FALSE: locks are taken as the
  code takes them. Of a task's storage, `StorageInv` says that while the slot is in use
  exactly one of future and result is there.
* `CodeStaysMapped`: `Spec => []NothingElseDangles`, whatever plugins leave behind and whatever is loaded
  twice or unloaded in use. What the host
  promises is far from inductive. `PluginInv` adds that a library that was never loaded twice is open, once,
  for the one plugin in use that is its (`OpenForOne`), that a plugin has
  one name and none while it is torn down (`NamedOnce`: otherwise the name would keep
  an unmapped plugin), that what lives is of a plugin in use or was left behind (`LiveIsUsed`), and that once `destroy` has returned
  whatever lives of the plugin counts as left (`DestroyLeaves`), since the two drops that follow find none of it. For the guards, `GuardInv`
  makes the count exact: the static's guard, the loose ones, one for each clone and one for each
  thread that has taken a clone apart and not dropped its guard yet; a call
  borrows a clone that is there (`CallBorrows`); the last guard
  closes a library that the host did not load, once, and the host closes its own once, early if it is in use
  (`ClosedRight`). So a library that is
  used has a guard besides the static's, and is mapped unless the host cut it off.

The second half of `HostProofs`, about the other components of `MCHost` but the text functions, for any
tasks, children, outputs, sources and environments, from `HostAssumption`:

* `WaitersStayRegistered`: `Spec => []WaitersAreRegistered`, for any number of tasks in each direction,
  with the reactor polled by one thread or more. The inductive invariant `ReactorInv` adds
  `UsersAreThere` (who is in a poll uses a half that exists), `OneUser` (a descriptor that is not shared by
  reference has one user for each direction), `GoneWhenUnused` (the registration went with the descriptor, with its read half, or
  with a connect that is done), `ClearedIsClear` (between clearing the
  readiness and asking again nobody sets it, if one thread polls) and `WakersAreKept`, which has the three
  exceptions of the property. Section 5 shows each of them to be necessary.
* `OutputsAreComplete`: `Spec => []OutputIsComplete`, from `NothingIsLost` (what was written
  is read or in its pipe, and what a child that was not killed has closed it has written all
  of), `PipesAreRead` (a pipe the parent is done with is empty and closed) and
  `LivesRight`. That errors fit into their pipe is part of `Outputs`; section 5 shows
  what happens otherwise.
* `LoadsAreFresh`: `Spec => []LoadedIsFresh`. That an artifact is fresh when it is found up to
  date says nothing about the next edit; `ChangesShow` does: as long as an artifact is not
  what would be built, a file that is there is younger than it, and if
  modules came or went since the dep file was written, that is one the dep file names, or the
  manifest. With `KeptIsWhole` and `KnowsRt` (the hash of a process is that of the
  runtime it runs with) this is inductive. `MCHost` fixes `Habits` of the compiler
  to the empty set: each of them breaks the property (section 5).

Only model-checked: of `MCHost` the text functions, and its types. The text functions are
folds over sequences, what they compute is induction over data.
Out of the prover's reach: the liveness properties
(`SleepersWake`, `ReadyQueueServes`, `RootGetsThere`), and everything that needs ENABLED.

## 7. Not modelled

Within the locks: between threads the model makes no claim about wakes. A `Mutex`
or `RwLock` shared by tasks of two executors can miss one, since the waker is
added after the refusal without a second look at the word. Orderings weaker than
sequential consistency are not modelled; each operation involved is a read-modify-write
or a release store on the same word. A task that takes the same lock twice is
left out.

Within the executor: several executors (a `JoinHandle` used from another thread,
`tau_task_abort` on an executor's thread that is not the task's), the 2^32 wrap of generations
(assumed away by `ExecutorAssumption`), and the test-only `reset`. `RootLoop` and
`Executor` are not composed: the one has no slots, the other no waits.

Within the other components:

* reactor: how tokens are allotted, errors of the poller, and
  `tau_reactor_notify`, which needs the mutex that a waiting poll holds and is
  called by nobody in the runtime;
* channels: `Semaphore::close` (it wakes waiters, of which there never are any);
  the accessors of watch that change nothing;
* io, net, fs: `copy`, `split`, seeking, address look-ups;
* process and signal: the builder of `Command`, which fills a record; the
  signal module, a stub that never completes; and the SIGCHLD registry, which the host does not compile (section 5);
* plugin host and compiler: the command line, the patches of dependencies and the
  flags handed to cargo, which are strings;
* plugin guards: the unsizing conversions;
* terminal UI: decoding of keys and drawing;
* task shim: `LocalSet`, task-locals and `runtime::Builder`, which are thin.

The components are checked one by one: that a poll is given to whoever is woken
is the executor's promise (`NoLostWake`) and is assumed in the others, as that
their wakers wake is assumed in the executor. xtask, the vendored crossterm and
the loom tests have no state the runtime depends on.
