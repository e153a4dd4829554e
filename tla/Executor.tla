------------------------------ MODULE Executor ------------------------------
(***************************************************************************)
(* One tau executor: the task slab, the ready queue with its LIFO hot      *)
(* slot, the queue of wakes from other threads, the timer map, the drive   *)
(* cycle, and the JoinHandle / abort / unload entry points that user code  *)
(* calls while the drive cycle runs it.                                    *)
(*                                                                         *)
(* All of it belongs to one thread, so its control is one call stack:      *)
(* `stack' has a frame for every executor function that is on the thread's *)
(* stack with user code above or below it.  Poll functions and drop glue   *)
(* are user code: in a "poll", "dropFuture" or "dropResult" frame, and in  *)
(* the "root" frame (block_on's root future, or the host), the code may    *)
(* call any entry point before it returns.  Only RemoteWake and Tick come  *)
(* from outside the thread.                                                *)
(*                                                                         *)
(* `Client' names what user code is assumed to do.  Each habit is legal    *)
(* Rust; the runs show which guarantees each one costs.                    *)
(***************************************************************************)
EXTENDS Integers, Sequences, FiniteSets

CONSTANTS
  SegSize,    \* slots in one segment of the slab           (SEGMENT_SIZE)
  MaxSegs,    \* segments the slab may grow to              (MAX_SEGMENTS)
  GenMod,     \* a slot's generation wraps at this number   (2^32)
  Plugins,    \* plugin ids a task can be tagged with
  Client,     \* the habits of user code, a subset of Habits
  MaxSpawns,  \* bound: spawns in a behaviour
  MaxRemote,  \* bound: length of the remote wake queue
  MaxDepth,   \* bound: frames on the call stack
  MaxTime,    \* bound: the clock
  MaxTimers   \* bound: timer handles handed out

Habits ==
  { "await",          \* awaits the JoinHandle of a task that still runs
    "abort",          \* calls cancel() / abort() on tasks that still run
    "abortSelf",      \* ... also from inside that task's own poll
    "abortAwaited",   \* ... also on tasks another task is joining
    "abortDone",      \* calls abort() on completed tasks
    "spawnInDrop",    \* spawns from the destructor of a result whose slot is
                      \* already free, or of a task that an unload drops
    "driveInTask",    \* drives the executor from inside a poll or a drop
    "hostWait",       \* the host waits for a task by its packed id
    "unload",         \* the host unloads plugins
    "sleep" }         \* tasks await SleepFuture

ASSUME ExecutorAssumption ==
  /\ SegSize \in Nat \ {0}
  /\ MaxSegs \in Nat \ {0}
  /\ GenMod \in Nat
  /\ MaxSpawns \in Nat
  /\ MaxSpawns < GenMod     \* no generation is reused within a behaviour
  /\ MaxRemote \in Nat
  /\ MaxDepth \in Nat \ {0}
  /\ MaxTime \in Nat
  /\ MaxTimers \in Nat
  /\ Client \subseteq Habits

Slots == 0 .. SegSize * MaxSegs - 1
None == -1                  \* Option::None where a slot id is expected
Noop == -2                  \* block_on's no-op waker
Wakers == Slots \cup {None, Noop}
Gens == 0 .. GenMod - 1
Tasks == Slots \X Gens      \* a packed task id: slot and generation
States == {"EMPTY", "PENDING", "READY", "COMPLETE", "CANCELLED"}

Places == {"none", "root", "drain", "fire", "select", "poll",
           "dropFuture", "dropResult", "unload"}
AfterDrop == {"none", "freeIfCancelled", "free"}
Frames == [at : Places, slot : Slots \cup {None}, gen : Gens, then : AfterDrop]
Depths == 1 .. MaxDepth
Contents == {"none", "future", "result"} \X Gens

NoPlugin == "no plugin"
NoSleep == [due |-> 0, handle |-> 0]

VARIABLES
  \* TaskSlot, one function per field
  state, gen, detached, owner, joinWaker,
  \* Executor
  segs,       \* number of segments
  free,       \* stack of free slots, top at the end
  ready,      \* ready queue, front first
  hot,        \* LIFO hot slot
  remote,     \* wakes pushed by other threads
  timers,     \* timer handle -> [due, waker]
  nextTimer,
  \* the thread
  stack, depth,
  unloading,  \* drop_plugin_tasks: its plugin, NoPlugin outside of it
  doomed,     \* ... the slots it cancelled and has yet to free
  undropped,  \* ... and those whose drop glue has yet to run, with the state it saw
  halted,     \* the slab was full and alloc_slot panicked
  \* user code and its environment
  handles,    \* JoinHandles that are neither taken nor dropped
  sleep,      \* the SleepFuture a task is awaiting: [due, handle], due 0 if none
  now,
  spawns,
  \* history: what the storage of a slot holds, whether a poll is owed to
  \* the task, who awaits it, and the tasks that an abort ended while they ran,
  \* that an unload ended, or whose result the host consumed by id
  store, owed, awaitedBy, killed

slab  == <<state, gen, detached, owner, joinWaker>>
lists == <<segs, free, ready, hot, remote>>
clock == <<timers, nextTimer, now, sleep>>
calls == <<stack, depth>>
purge == <<unloading, doomed, undropped>>
hist  == <<store, owed, awaitedBy, killed>>
vars  == <<slab, lists, clock, calls, purge, halted, handles, spawns, hist>>

-----------------------------------------------------------------------------
(* The call stack.                                                         *)

Frame(at, s, g, then) == [at |-> at, slot |-> s, gen |-> g, then |-> then]
NoFrame == Frame("none", None, 0, "none")
Top == stack[depth]
InUserCode == Top.at \in {"root", "poll", "dropFuture", "dropResult"}

HasRoomFor(n) == depth + n <= MaxDepth
Push(f) == /\ depth' = depth + 1
           /\ stack' = [stack EXCEPT ![depth + 1] = f]
Replace(f) == /\ depth' = depth
              /\ stack' = [stack EXCEPT ![depth] = f]
Pop == /\ depth' = depth - 1
       /\ stack' = [stack EXCEPT ![depth] = NoFrame]

OnStack(s) == \E i \in 1 .. depth : stack[i].slot = s /\ stack[i].at = "poll"
\* some drop glue runs on the storage of a slot that was freed before it
FreedUnderDrop == \E i \in 1 .. depth :
                     stack[i].at = "dropResult" /\ stack[i].then # "free"

-----------------------------------------------------------------------------
(* Queues.                                                                 *)

Elems(q) == {q[i] : i \in DOMAIN q}
Front(q) == SubSeq(q, 1, Len(q) - 1)

\* VecDeque::retain: q without the entries that are in S
Without(q, S) ==
  LET kept == {i \in DOMAIN q : q[i] \notin S}
      rank(i) == Cardinality({j \in kept : j <= i})
  IN  [k \in 1 .. Cardinality(kept) |-> q[CHOOSE i \in kept : rank(i) = k]]

Alive(s) == state[s] \in {"PENDING", "READY"}
Allocated == 0 .. segs * SegSize - 1

\* waker_wake on the executor's own thread, applied to slot states st
Wakes(st, w) == w \in Slots /\ st[w] = "PENDING"
StateAfterWake(st, w) == IF Wakes(st, w) THEN [st EXCEPT ![w] = "READY"] ELSE st
\* mutant: the task that leaves the hot slot is not queued
ForgetDisplaced(st, w) == ready
QueueDisplaced(st, w) == IF Wakes(st, w) /\ hot # None THEN Append(ready, hot)
                         ELSE ready
WakeInto(st, w) ==
  /\ state' = StateAfterWake(st, w)
  /\ hot' = IF Wakes(st, w) THEN w ELSE hot
  /\ ready' = QueueDisplaced(st, w)
Owing(w) == IF w \in Slots /\ Alive(w) THEN [owed EXCEPT ![w] = TRUE] ELSE owed

-----------------------------------------------------------------------------
(* Spawning: alloc_raw, the write of the future, commit_spawn.             *)

NewSlot == IF free # <<>> THEN free[Len(free)] ELSE segs * SegSize

\* mutant: one slot too many
FreshSlotsInclusive == [i \in 1 .. SegSize |-> (segs + 1) * SegSize + 1 - i]
FreshSlots == [i \in 1 .. SegSize - 1 |-> (segs + 1) * SegSize - i]

Spawn(p) ==
  /\ InUserCode
  /\ spawns < MaxSpawns
  /\ FreedUnderDrop \/ unloading # NoPlugin => "spawnInDrop" \in Client
  /\ free # <<>> \/ segs < MaxSegs
  /\ free' = IF free # <<>> THEN Front(free) ELSE FreshSlots
  /\ segs' = IF free # <<>> THEN segs ELSE segs + 1
  /\ LET s == NewSlot
         g == (gen[s] + 1) % GenMod
     IN  /\ gen' = [gen EXCEPT ![s] = g]
         /\ state' = [state EXCEPT ![s] = "READY"]
         /\ detached' = [detached EXCEPT ![s] = FALSE]
         /\ owner' = [owner EXCEPT ![s] = p]
         /\ joinWaker' = [joinWaker EXCEPT ![s] = None]
         /\ ready' = Append(ready, s)
         /\ handles' = handles \cup {<<s, g>>}
         /\ store' = [store EXCEPT ![s] = <<"future", g>>]
         /\ owed' = [owed EXCEPT ![s] = TRUE]
         /\ awaitedBy' = [awaitedBy EXCEPT ![s] = None]
         /\ sleep' = [sleep EXCEPT ![s] = NoSleep]
  /\ spawns' = spawns + 1
  /\ UNCHANGED <<hot, remote, timers, nextTimer, now, calls, purge, halted,
                 killed>>

\* alloc_slot panics when the slab cannot grow
SpawnPanics ==
  /\ InUserCode
  /\ spawns < MaxSpawns
  /\ free = <<>> /\ segs = MaxSegs
  /\ halted' = TRUE
  /\ UNCHANGED <<slab, lists, clock, calls, purge, handles, spawns, hist>>

-----------------------------------------------------------------------------
(* Wakes.                                                                  *)

\* any code on this thread that holds a waker; a waker names a slot, not a task
Wake(s) ==
  /\ InUserCode
  /\ gen[s] # 0
  /\ Alive(s)
  /\ WakeInto(state, s)
  /\ owed' = Owing(s)
  /\ UNCHANGED <<gen, detached, owner, joinWaker, segs, free, remote, clock,
                 calls, purge, halted, handles, spawns, store, awaitedBy, killed>>

\* another thread's wake only pushes the slot id, at any moment
RemoteWake(s) ==
  /\ gen[s] # 0
  /\ Len(remote) < MaxRemote
  /\ remote' = Append(remote, s)
  /\ owed' = Owing(s)
  /\ UNCHANGED <<slab, segs, free, ready, hot, clock, calls, purge, halted,
                 handles, spawns, store, awaitedBy, killed>>

-----------------------------------------------------------------------------
(* The drive cycle.                                                        *)

StartDrive ==
  /\ InUserCode
  /\ Top.at = "root" \/ "driveInTask" \in Client
  /\ HasRoomFor(2)
  /\ Push(Frame("drain", None, 0, "none"))
  /\ UNCHANGED <<slab, lists, clock, purge, halted, handles, spawns, hist>>

\* Phase 1
\* mutant: the bound check misses the last slot
DrainableBelow(s) == s + 1 \in Allocated /\ state[s] = "PENDING"
Drainable(s) == s \in Allocated /\ state[s] = "PENDING"

Drain ==
  /\ Top.at = "drain"
  /\ remote # <<>>
  /\ remote' = Tail(remote)
  /\ LET s == Head(remote)
     IN  IF Drainable(s)
         THEN /\ state' = [state EXCEPT ![s] = "READY"]
              /\ ready' = Append(ready, s)
         ELSE UNCHANGED <<state, ready>>
  /\ UNCHANGED <<gen, detached, owner, joinWaker, segs, free, hot, clock, calls,
                 purge, halted, handles, spawns, hist>>

DrainDone ==
  /\ Top.at = "drain"
  /\ remote = <<>>
  /\ Replace(Frame("fire", None, 0, "none"))
  /\ UNCHANGED <<slab, lists, clock, purge, halted, handles, spawns, hist>>

\* Phase 2.  The expired entries are collected and then woken; a wake runs no
\* user code, so one entry is removed and woken at a time.
\* mutant: a timer at its deadline waits for the next tick
DueBefore == {h \in DOMAIN timers : timers[h].due < now}
Due == {h \in DOMAIN timers : timers[h].due <= now}
TimersWithout(H) == [h \in DOMAIN timers \ H |-> timers[h]]

\* mutant: all that expired go, one is woken
TakeAllDue(h) == TimersWithout(Due)
TakeDue(h) == TimersWithout({h})

Fire(h) ==
  /\ Top.at = "fire"
  /\ h \in Due
  /\ timers' = TakeDue(h)
  /\ WakeInto(state, timers[h].waker)
  /\ owed' = Owing(timers[h].waker)
  /\ UNCHANGED <<gen, detached, owner, joinWaker, segs, free, remote, nextTimer,
                 now, sleep, calls, purge, halted, handles, spawns, store,
                 awaitedBy, killed>>

FireDone ==
  /\ Top.at = "fire"
  /\ Due = {}
  /\ Replace(Frame("select", None, 0, "none"))
  /\ UNCHANGED <<slab, lists, clock, purge, halted, handles, spawns, hist>>

\* mutant: whatever is queued is polled
PollableIfUsed(s) == state[s] # "EMPTY"
Pollable(s) == state[s] = "READY"

\* Phase 3: take s off a queue; poll it if it is READY, skip it if it is not
PollIfReady(s) ==
  /\ IF Pollable(s)
     THEN /\ state' = [state EXCEPT ![s] = "PENDING"]
          /\ Push(Frame("poll", s, gen[s], "none"))
          /\ owed' = [owed EXCEPT ![s] = FALSE]
          /\ awaitedBy' = [x \in Slots |-> IF awaitedBy[x] = s THEN None
                                           ELSE awaitedBy[x]]
     ELSE UNCHANGED <<state, calls, owed, awaitedBy>>
  /\ UNCHANGED <<gen, detached, owner, joinWaker, segs, free, remote, clock,
                 purge, halted, handles, spawns, store, killed>>

PollHot ==
  /\ Top.at = "select"
  /\ hot # None
  /\ hot' = None
  /\ PollIfReady(hot)
  /\ UNCHANGED ready

PollNext ==
  /\ Top.at = "select"
  /\ hot = None
  /\ ready # <<>>
  /\ ready' = Tail(ready)
  /\ PollIfReady(Head(ready))
  /\ UNCHANGED hot

DriveDone ==
  /\ Top.at = "select"
  /\ hot = None
  /\ ready = <<>>
  /\ Pop
  /\ UNCHANGED <<slab, lists, clock, purge, halted, handles, spawns, hist>>

\* a future that is still sleeping has polled its SleepFuture before Pending
PollPending ==
  /\ Top.at = "poll"
  /\ sleep[Top.slot].due # 0 => sleep[Top.slot].handle \in DOMAIN timers
  /\ Pop
  /\ UNCHANGED <<slab, lists, clock, purge, halted, handles, spawns, hist>>

\* The poll function has replaced the future by its result.  drive_cycle does
\* not look at the generation again.
PollReady ==
  /\ Top.at = "poll"
  /\ LET s == Top.slot
         w == joinWaker[s]
     IN  /\ sleep[s].due = 0
         /\ store' = [store EXCEPT ![s] = <<"result", Top.gen>>]
         /\ joinWaker' = [joinWaker EXCEPT ![s] = None]
         /\ awaitedBy' = [awaitedBy EXCEPT ![s] = None]
         /\ IF detached[s]
            THEN /\ state' = [state EXCEPT ![s] = "CANCELLED"]
                 /\ Replace(Frame("dropResult", s, Top.gen, "free"))
                 /\ UNCHANGED <<hot, ready, owed>>
            ELSE /\ WakeInto([state EXCEPT ![s] = "COMPLETE"], w)
                 /\ owed' = Owing(w)
                 /\ Pop
  /\ UNCHANGED <<gen, detached, owner, segs, free, remote, clock, purge, halted,
                 handles, spawns, killed>>

-----------------------------------------------------------------------------
(* Freeing slots.                                                          *)

\* mutant: cancel_task frees the slot whatever became of it
FreesAlways(f) == f.then # "none"
\* mutant: cancel_task leaves the slot CANCELLED
FreesDetached(f) == f.then = "free"
Frees(f) == \/ f.then = "free"
            \/ /\ f.then = "freeIfCancelled"
               /\ state[f.slot] = "CANCELLED"
               /\ gen[f.slot] = f.gen

\* mutant: timer_cancel is not called
KeepTimer(h) == timers
CancelTimer(h) == TimersWithout({h})

\* the user's destructor is done; what follows it in the caller
DropReturn ==
  /\ Top.at \in {"dropFuture", "dropResult"}
  /\ LET s == Top.slot
     IN  /\ state' = IF Frees(Top) THEN [state EXCEPT ![s] = "EMPTY"] ELSE state
         /\ free' = IF Frees(Top) THEN Append(free, s) ELSE free
         /\ store' = IF store[s][2] = Top.gen
                     THEN [store EXCEPT ![s] = <<"none", 0>>] ELSE store
         \* a SleepFuture inside the dropped future cancels its timer
         /\ IF Top.at = "dropFuture"
            THEN /\ timers' = CancelTimer(sleep[s].handle)
                 /\ sleep' = [sleep EXCEPT ![s] = NoSleep]
            ELSE UNCHANGED <<timers, sleep>>
  /\ Pop
  /\ UNCHANGED <<gen, detached, owner, joinWaker, segs, ready, hot, remote,
                 nextTimer, now, purge, halted, handles, spawns, owed, awaitedBy,
                 killed>>

\* mutant: drop_result_fn is not called
SkipDropResult(s, then) == UNCHANGED calls
CallDropResult(s, then) ==
  /\ HasRoomFor(1)
  /\ Push(Frame("dropResult", s, gen[s], then))

\* A COMPLETE slot goes to the free list first; its result is dropped after
DiscardResult(s, then) ==
  /\ state[s] = "COMPLETE"
  /\ state' = [state EXCEPT ![s] = "EMPTY"]
  /\ joinWaker' = [joinWaker EXCEPT ![s] = None]
  /\ free' = Append(free, s)
  /\ CallDropResult(s, then)
  /\ UNCHANGED <<gen, detached, owner, segs, hot, remote, clock, purge, halted,
                 spawns, store, owed, awaitedBy>>

-----------------------------------------------------------------------------
(* JoinHandle.                                                             *)

MyWakers == IF Top.at = "root" THEN {Noop}
            ELSE {Top.slot} \cup (IF "driveInTask" \in Client THEN {Noop} ELSE {})

\* mutant: the generation is not compared
NamesSlot(h) == h \in Tasks
\* the slot still belongs to the task h is a handle of
Names(h) == gen[h[1]] = h[2]

\* JoinHandle::poll: the result is there
JoinTake(h) ==
  /\ Top.at \in {"root", "poll"}
  /\ h \in handles
  /\ Names(h)
  /\ state[h[1]] = "COMPLETE"
  /\ state' = [state EXCEPT ![h[1]] = "EMPTY"]
  /\ joinWaker' = [joinWaker EXCEPT ![h[1]] = None]
  /\ free' = Append(free, h[1])
  /\ handles' = handles \ {h}
  /\ store' = [store EXCEPT ![h[1]] = <<"none", 0>>]
  /\ UNCHANGED <<gen, detached, owner, segs, ready, hot, remote, clock, calls,
                 purge, halted, spawns, owed, awaitedBy, killed>>

\* mutant: a task that is queued counts as gone
GoneUnlessParked(h) == ~ Names(h) \/ state[h[1]] \notin {"PENDING", "COMPLETE"}
\* JoinHandle::poll: the task was cancelled, or its slot was reused
Gone(h) == ~ Names(h) \/ state[h[1]] \in {"CANCELLED", "EMPTY"}

JoinNone(h) ==
  /\ Top.at \in {"root", "poll"}
  /\ h \in handles
  /\ Gone(h)
  /\ handles' = handles \ {h}
  /\ UNCHANGED <<slab, lists, clock, calls, purge, halted, spawns, hist>>

\* mutant: a waker that is already there is kept
KeepFirstWaker(s, w) == IF joinWaker[s] = None THEN w ELSE joinWaker[s]
WakerToStore(s, w) == w

\* JoinHandle::poll: still running, store the waker
JoinWait(h, w) ==
  /\ "await" \in Client
  /\ Top.at \in {"root", "poll"}
  /\ h \in handles
  /\ Names(h)
  /\ Alive(h[1])
  /\ w \in MyWakers
  /\ joinWaker' = [joinWaker EXCEPT ![h[1]] = WakerToStore(h[1], w)]
  /\ awaitedBy' = [awaitedBy EXCEPT ![h[1]] = IF w = Noop THEN None ELSE w]
  /\ UNCHANGED <<state, gen, detached, owner, lists, clock, calls, purge, halted,
                 handles, spawns, store, owed, killed>>

\* Drop for JoinHandle: detach_or_cleanup
JoinDrop(h) ==
  /\ InUserCode
  /\ h \in handles
  /\ handles' = handles \ {h}
  /\ \/ /\ Gone(h)
        /\ UNCHANGED <<slab, lists, clock, calls, purge, halted, spawns, hist>>
     \/ /\ Names(h)
        /\ Alive(h[1])
        /\ detached' = [detached EXCEPT ![h[1]] = TRUE]
        /\ joinWaker' = [joinWaker EXCEPT ![h[1]] = None]
        /\ awaitedBy' = [awaitedBy EXCEPT ![h[1]] = None]
        /\ UNCHANGED <<state, gen, owner, lists, clock, calls, purge, halted,
                       spawns, store, owed, killed>>
     \/ /\ Names(h)
        /\ DiscardResult(h[1], "none")
        /\ UNCHANGED <<ready, killed>>

-----------------------------------------------------------------------------
(* cancel_task, reached from JoinHandle::cancel (h is taken) and from      *)
(* abort(), AbortHandle and tau_task_abort (the handle stays).  An id      *)
(* whose generation is not the slot's, or a slot that is EMPTY or          *)
(* CANCELLED, is left alone.                                               *)

CancelRunning(s) ==
  /\ "abort" \in Client
  /\ OnStack(s) => "abortSelf" \in Client
  /\ awaitedBy[s] # None => "abortAwaited" \in Client
  /\ Alive(s)
  /\ HasRoomFor(1)
  /\ state' = [state EXCEPT ![s] = "CANCELLED"]
  /\ joinWaker' = [joinWaker EXCEPT ![s] = None]
  /\ ready' = Without(ready, {s})
  /\ Push(Frame("dropFuture", s, gen[s], "freeIfCancelled"))
  /\ killed' = killed \cup {<<s, gen[s]>>}
  /\ UNCHANGED <<gen, detached, owner, segs, free, hot, remote, clock, purge,
                 halted, spawns, store, owed, awaitedBy>>

CancelComplete(s) ==
  /\ DiscardResult(s, "freeIfCancelled")
  /\ ready' = Without(ready, {s})
  /\ UNCHANGED killed

Cancel(h) ==
  /\ InUserCode
  /\ h \in handles
  /\ handles' = handles \ {h}
  /\ \/ /\ Gone(h)
        /\ UNCHANGED <<slab, lists, clock, calls, purge, halted, spawns, hist>>
     \/ /\ Names(h)
        /\ CancelRunning(h[1]) \/ CancelComplete(h[1])

Abort(s) ==
  /\ InUserCode
  /\ \/ CancelRunning(s)
     \/ "abortDone" \in Client /\ CancelComplete(s)
  /\ UNCHANGED handles

-----------------------------------------------------------------------------
(* The host: wait_for_task's cleanup and drop_plugin_tasks.                *)

HostWait(s) ==
  /\ Top.at = "root"
  /\ "hostWait" \in Client
  /\ DiscardResult(s, "none")
  /\ killed' = killed \cup {<<s, gen[s]>>}
  /\ UNCHANGED <<ready, handles>>

\* mutant: slots are selected by their plugin alone
SlotsOf(p) == {s \in Allocated : owner[s] = p}
\* mutant: results that nobody took are left behind
RunningOf(p) == {s \in Allocated : owner[s] = p /\ Alive(s)}
TasksOf(p) == {s \in Allocated : owner[s] = p /\ state[s] \notin {"EMPTY", "CANCELLED"}}

\* mutant: the hot slot is cleared whoever is in it
ClearHot(p) == None
HotWithout(p) == IF hot # None /\ owner[hot] = p THEN None ELSE hot

UnloadBegin(p) ==
  /\ Top.at = "root"
  /\ "unload" \in Client
  /\ HasRoomFor(2)
  /\ \A s \in TasksOf(p) : \/ awaitedBy[s] \in TasksOf(p) \cup {None}
                           \/ "abortAwaited" \in Client
  /\ state' = [s \in Slots |-> IF s \in TasksOf(p) THEN "CANCELLED" ELSE state[s]]
  /\ joinWaker' = [s \in Slots |-> IF s \in TasksOf(p) THEN None ELSE joinWaker[s]]
  /\ ready' = Without(ready, TasksOf(p))
  /\ hot' = HotWithout(p)
  /\ unloading' = p
  /\ doomed' = TasksOf(p)
  /\ undropped' = {<<s, state[s]>> : s \in TasksOf(p)}
  /\ killed' = killed \cup {<<s, gen[s]>> : s \in TasksOf(p)}
  /\ Push(Frame("unload", None, 0, "none"))
  /\ UNCHANGED <<gen, detached, owner, segs, free, remote, clock, halted, handles,
                 spawns, store, owed, awaitedBy>>

\* mutant: every task is dropped as a future
DropAsFuture(st) == "dropFuture"
GlueFor(st) == IF st = "COMPLETE" THEN "dropResult" ELSE "dropFuture"

UnloadDrop(s) ==
  /\ Top.at = "unload"
  /\ \E u \in undropped :
       /\ u[1] = s
       /\ \A x \in undropped : s <= x[1]
       /\ undropped' = undropped \ {u}
       /\ Push(Frame(GlueFor(u[2]), s, gen[s], "none"))
  /\ UNCHANGED <<slab, lists, clock, unloading, doomed, halted, handles, spawns,
                 hist>>

\* the closing closure frees the slots in order and, if there was any, drops
\* every timer of the executor
UnloadFree(s) ==
  /\ Top.at = "unload"
  /\ undropped = {}
  /\ s \in doomed /\ \A x \in doomed : s <= x
  /\ doomed' = doomed \ {s}
  /\ state' = [state EXCEPT ![s] = "EMPTY"]
  /\ free' = Append(free, s)
  /\ timers' = TimersWithout(DOMAIN timers)
  /\ UNCHANGED <<gen, detached, owner, joinWaker, segs, ready, hot, remote,
                 nextTimer, now, sleep, calls, unloading, undropped, halted,
                 handles, spawns, hist>>

UnloadDone ==
  /\ Top.at = "unload"
  /\ doomed = {} /\ undropped = {}
  /\ unloading' = NoPlugin
  /\ Pop
  /\ UNCHANGED <<slab, lists, clock, doomed, undropped, halted, handles, spawns,
                 hist>>

-----------------------------------------------------------------------------
(* SleepFuture, polled by the task it belongs to, and the clock.           *)

Sleeper == Top.slot
\* tau-rt turns the deadline into a duration and the host turns it back, with a
\* clock read each: the entry is late by what passed between the two
Slips == 0 .. 1
Register(t, due, slip) ==
  /\ nextTimer <= MaxTimers
  /\ due + slip <= MaxTime
  /\ timers' = [h \in DOMAIN timers \cup {nextTimer} |->
                  IF h = nextTimer THEN [due |-> due + slip, waker |-> t] ELSE timers[h]]
  /\ nextTimer' = nextTimer + 1
  /\ sleep' = [sleep EXCEPT ![t] = [due |-> due, handle |-> nextTimer]]

SleepStart(d, slip) ==
  /\ Top.at = "poll"
  /\ "sleep" \in Client
  /\ sleep[Sleeper].due = 0
  /\ d > 0
  /\ Register(Sleeper, now + d, slip)
  /\ UNCHANGED <<slab, lists, now, calls, purge, halted, handles, spawns, hist>>

\* polled again before its deadline: a handle the map does not know any more
\* is registered anew
SleepAgain(slip) ==
  /\ Top.at = "poll"
  /\ now < sleep[Sleeper].due
  /\ sleep[Sleeper].handle \notin DOMAIN timers
  /\ Register(Sleeper, sleep[Sleeper].due, slip)
  /\ UNCHANGED <<slab, lists, now, calls, purge, halted, handles, spawns, hist>>

\* it is past its deadline, or it is dropped before: Drop cancels the timer
SleepEnd ==
  /\ Top.at = "poll"
  /\ sleep[Sleeper].due # 0
  /\ timers' = CancelTimer(sleep[Sleeper].handle)
  /\ sleep' = [sleep EXCEPT ![Sleeper] = NoSleep]
  /\ UNCHANGED <<slab, lists, nextTimer, now, calls, purge, halted, handles,
                 spawns, hist>>

\* Phase 2 reads the clock once; a tick between two Fires stands for a later read
Tick ==
  /\ "sleep" \in Client
  /\ now < MaxTime
  /\ now' = now + 1
  /\ UNCHANGED <<slab, lists, timers, nextTimer, sleep, calls, purge, halted,
                 handles, spawns, hist>>

-----------------------------------------------------------------------------
Init ==
  /\ state = [s \in Slots |-> "EMPTY"]
  /\ gen = [s \in Slots |-> 0]
  /\ detached = [s \in Slots |-> FALSE]
  /\ owner \in {[s \in Slots |-> p] : p \in Plugins}
  /\ joinWaker = [s \in Slots |-> None]
  /\ segs = 1
  /\ free = [i \in 1 .. SegSize |-> SegSize - i]
  /\ ready = <<>>
  /\ hot = None
  /\ remote = <<>>
  /\ timers = [h \in {} |-> [due |-> 0, waker |-> None]]
  /\ nextTimer = 1
  /\ now = 0
  /\ sleep = [s \in Slots |-> NoSleep]
  /\ stack = [i \in Depths |-> IF i = 1 THEN Frame("root", None, 0, "none") ELSE NoFrame]
  /\ depth = 1
  /\ unloading = NoPlugin /\ doomed = {} /\ undropped = {}
  /\ halted = FALSE
  /\ handles = {}
  /\ spawns = 0
  /\ store = [s \in Slots |-> <<"none", 0>>]
  /\ owed = [s \in Slots |-> FALSE]
  /\ awaitedBy = [s \in Slots |-> None]
  /\ killed = {}

Stopped == halted /\ UNCHANGED vars

Tasking(p) == Spawn(p) \/ UnloadBegin(p)
Waking(s) == Wake(s) \/ RemoteWake(s)
Driving ==
  \/ Drain \/ DrainDone \/ FireDone \/ PollHot \/ PollNext \/ DriveDone
  \/ \E h \in DOMAIN timers : Fire(h)
Polling == PollPending \/ PollReady \/ DropReturn
Joining(h) ==
  \/ JoinTake(h) \/ JoinNone(h) \/ JoinDrop(h) \/ Cancel(h)
  \/ \E w \in Wakers : JoinWait(h, w)
Unloading == UnloadDone \/ \E s \in Slots : UnloadDrop(s) \/ UnloadFree(s)
Sleeping ==
  \/ SleepEnd \/ Tick
  \/ \E slip \in Slips : SleepAgain(slip) \/ \E d \in 1 .. MaxTime : SleepStart(d, slip)

Next ==
  \/ /\ ~halted
     /\ \/ SpawnPanics \/ StartDrive \/ Driving \/ Polling \/ Unloading \/ Sleeping
        \/ \E p \in Plugins : Tasking(p)
        \/ \E s \in Slots : Waking(s) \/ Abort(s) \/ HostWait(s)
        \/ \E h \in handles : Joining(h)
  \/ Stopped

Spec == Init /\ [][Next]_vars

\* The executor thread runs; poll functions and destructors return; the root
\* (block_on, wait_for_task) drives again and again.
Fairness ==
  /\ WF_vars(Driving)
  /\ WF_vars(Polling)
  /\ WF_vars(Top.at = "root" /\ StartDrive)
  /\ WF_vars(Unloading)
  /\ WF_vars(\E slip \in Slips : SleepAgain(slip))
  /\ WF_vars(Tick)
FairSpec == Spec /\ Fairness

-----------------------------------------------------------------------------
(* Type invariant.                                                         *)

\* The stack has the root at its bottom, frames up to depth and none above;
\* frames of user code that belong to a task name its slot.
StackOK ==
  /\ depth \in Depths
  /\ stack \in [Depths -> Frames]
  /\ \A i \in Depths : stack[i].at = "root" <=> i = 1
  /\ \A i \in Depths : i > depth => stack[i] = NoFrame
  /\ \A i \in Depths : stack[i].at \in {"poll", "dropFuture", "dropResult"}
                          => stack[i].slot \in Slots

\* Every variable stays in the set the Rust type of its field allows, queues
\* and lists hold slots of the slab, and the stack is well formed.
TypeOK ==
  /\ state \in [Slots -> States]
  /\ gen \in [Slots -> Gens]
  /\ detached \in [Slots -> BOOLEAN]
  /\ owner \in [Slots -> Plugins]
  /\ joinWaker \in [Slots -> Wakers]
  /\ segs \in 1 .. MaxSegs
  /\ free \in Seq(Slots) /\ ready \in Seq(Slots) /\ remote \in Seq(Slots)
  /\ hot \in Slots \cup {None}
  /\ DOMAIN timers \subseteq 1 .. nextTimer - 1
  /\ \A h \in DOMAIN timers : timers[h].due \in Nat /\ timers[h].waker \in Slots
  /\ nextTimer \in Nat \ {0} /\ now \in Nat /\ spawns \in Nat
  /\ sleep \in [Slots -> [due : Nat, handle : Nat]]
  /\ StackOK
  /\ unloading \in Plugins \cup {NoPlugin}
  /\ doomed \subseteq Slots
  /\ undropped \subseteq Slots \X States
  /\ halted \in BOOLEAN
  /\ handles \subseteq Tasks /\ killed \subseteq Tasks
  /\ store \in [Slots -> Contents]
  /\ owed \in [Slots -> BOOLEAN]
  /\ awaitedBy \in [Slots -> Slots \cup {None}]

-----------------------------------------------------------------------------
(* Safety.                                                                 *)

\* A slot is on the free list, and on it once, exactly when it is part of the
\* slab and EMPTY: alloc_slot never hands out a slot that is in use, and no
\* path that ends a task (take_result, cancel_task, detach_or_cleanup,
\* drive_cycle, wait_for_task, drop_plugin_tasks) frees twice or forgets to.
FreeListExact ==
  /\ \A i, j \in DOMAIN free : free[i] = free[j] => i = j
  /\ \A s \in Slots : s \in Elems(free) <=> s \in Allocated /\ state[s] = "EMPTY"

\* A CANCELLED slot is on its way to the free list through one caller only:
\* the drive cycle that drops a detached result, the cancel_task that drops the
\* future, or the unload; and each of these holds only CANCELLED slots.
Releasing(i) == \/ stack[i].then = "free"
                \/ /\ stack[i].then = "freeIfCancelled"
                   /\ stack[i].at = "dropFuture"
ReleasedOnce ==
  /\ \A s \in Slots :
       state[s] = "CANCELLED" <=>
         s \in doomed \/ \E i \in 1 .. depth : Releasing(i) /\ stack[i].slot = s
  /\ \A i \in 1 .. depth : Releasing(i) =>
       /\ stack[i].slot \notin doomed
       /\ stack[i].gen = gen[stack[i].slot]
       /\ \A j \in 1 .. depth : Releasing(j) /\ stack[j].slot = stack[i].slot => i = j

\* The glue that runs on a slot's storage finds there what it was compiled for:
\* a poll or a drop of the future finds the future, a drop of the result finds
\* the result, of the same generation, and no two glue calls share a storage.
GlueFindsItsData ==
  \A i \in 1 .. depth :
    /\ stack[i].at \in {"poll", "dropFuture"} =>
         store[stack[i].slot] = <<"future", stack[i].gen>>
    /\ stack[i].at = "dropResult" =>
         store[stack[i].slot] = <<"result", stack[i].gen>>
    /\ \A j \in 1 .. depth :
         stack[i].slot # None /\ stack[j].slot = stack[i].slot => i = j

\* A task is not polled while a poll of it is on the stack ("poll tasks one at a
\* time", drive_cycle).
PolledOneAtATime ==
  \A i, j \in 1 .. depth :
    stack[i].at = "poll" /\ stack[j].at = "poll" /\ stack[i].slot = stack[j].slot
      => i = j

\* The storage agrees with the slot's state: a live task has its future, a
\* completed one its result, and a free slot whose destructor has run has
\* neither (each future and each result is dropped or taken, once).
StorageMatchesState ==
  \A s \in Slots :
    /\ Alive(s) => store[s] = <<"future", gen[s]>>
    /\ state[s] = "COMPLETE" => store[s] = <<"result", gen[s]>>
    /\ state[s] = "EMPTY" /\ (\A i \in 1 .. depth : stack[i].slot # s)
         => store[s][1] = "none"

\* No wake is lost: a READY task is queued where Phase 3 looks, and a task to
\* which a poll is owed is READY, or its wake waits in the remote queue.
NoLostWake ==
  \A s \in Slots :
    /\ state[s] = "READY" => hot = s \/ s \in Elems(ready)
    /\ owed[s] /\ Alive(s) => state[s] = "READY" \/ s \in Elems(remote)

\* A completed result always has an owner that will take it or drop it: its
\* JoinHandle still exists.  (A detached task frees its own slot.)
ResultHasOwner ==
  \A s \in Slots : state[s] = "COMPLETE" => <<s, gen[s]>> \in handles

\* A task parked on a JoinHandle is not forgotten: unless a poll is owed to it,
\* the task it joins still runs and will wake it.
AwaiterNotForgotten ==
  \A s \in Slots :
    LET t == awaitedBy[s]
    IN  t # None /\ Alive(t) /\ ~ OnStack(t) /\ ~ owed[t]
          => Alive(s) /\ joinWaker[s] = t

\* A JoinHandle yields None only for a task that was aborted while it ran, was
\* unloaded with its plugin, or was waited for by id: slot reuse, the order of
\* completion and the destruction of others never cost a handle its result.
JoinNoneMeansKilled == [][\A h \in handles : JoinNone(h) => h \in killed]_vars

\* When drop_plugin_tasks returns, and the library may be closed, no slot holds
\* a task of the plugin: no poll or drop glue in its text is reachable.
UnloadLeavesNothing ==
  [][UnloadDone => \A s \in Slots : owner[s] = unloading => state[s] = "EMPTY"]_vars

\* A task that sleeps has a timer that will wake it, not before its deadline and
\* no later than the conversion of the deadline costs, unless a poll is already
\* owed to it.
Asleep(t) == Alive(t) /\ sleep[t].due # 0 /\ ~ OnStack(t) /\ ~ owed[t]
SleepCovered ==
  \A t \in Slots : Asleep(t) =>
    \E h \in DOMAIN timers :
      timers[h].waker = t /\ timers[h].due - sleep[t].due \in Slips

\* A live timer belongs to the task that sleeps on it: the entries of tasks
\* that were dropped are gone with them.
TimersOwned ==
  \A h \in DOMAIN timers :
    LET t == timers[h].waker
    IN  sleep[t].handle = h /\ state[t] \in {"PENDING", "READY", "CANCELLED"}

-----------------------------------------------------------------------------
(* Liveness.                                                               *)

\* The ready queue starves nobody: if Phase 3 keeps finding the hot slot empty,
\* whoever is READY is polled, or ends.  A wake of another thread makes nobody
\* READY before Phase 1 drains it, and Phase 3 may go on for ever with tasks that
\* wake each other; but if Phase 1 finds the remote queue empty again and again,
\* every poll that is owed, by whatever wake, is given, or the task ends.
ReadyQueueServes ==
  /\ []<>(Top.at = "select" /\ hot = None)
       => \A s \in Slots : [](state[s] = "READY" => <>(state[s] # "READY"))
  /\ []<>(Top.at = "fire")
       => \A s \in Slots : [](owed[s] /\ Alive(s) => <>(~ owed[s] \/ ~ Alive(s)))

\* ... and without that condition: whatever the other tasks do, a poll that is
\* owed is given.  A task that yields promises this of the executor.
EveryOwedPollIsGiven ==
  \A s \in Slots : [](owed[s] /\ Alive(s) => <>(~ owed[s] \/ ~ Alive(s)))

\* A sleeper is woken when its time has come, if drive cycles end.
SleepersWake ==
  []<>(Top.at = "root") => \A t \in Slots : [](Asleep(t) => <>(~ Asleep(t)))

=============================================================================
