------------------------------ MODULE RootLoop ------------------------------
(***************************************************************************)
(* The thread of an executor, from its root: block_on, or the host's       *)
(* wait_for_task, drives the executor until nothing is ready and then      *)
(* waits in the reactor.  Tasks wait for a timer, or for a closure on a    *)
(* thread of its own (spawn_blocking), whose wake goes through the remote  *)
(* queue.  That wake unparks the owner, which is never parked: what ends   *)
(* the wait is its limit.  Slots and results are Executor's subject.       *)
(***************************************************************************)
EXTENDS Integers, Sequences, SequencesExt, FiniteSets

CONSTANTS
  Jobs,        \* tasks of spawn_blocking
  Sleepers,    \* tasks that sleep
  NONE,        \* no task
  Delays,      \* how long they sleep, in ticks
  Milli,       \* ticks of a millisecond
  MaxWait,     \* ticks of the reactor's longest wait (10 ms)
  MaxBusy      \* bound: ticks between two waits

Tasks == Jobs \cup Sleepers

RootAssumption ==
  /\ IsFiniteSet(Tasks) /\ Jobs \cap Sleepers = {} /\ NONE \notin Tasks
  /\ Delays \subseteq Nat /\ Milli \in Nat \ {0} /\ MaxBusy \in Nat
  /\ MaxWait \in Nat /\ MaxWait % Milli = 0

ASSUME RootAssumption

VARIABLES
  kind,            \* "block_on" or "wait_for_task"
  goal,            \* the task whose end the root waits for
  at,              \* where the thread is
  drove, worked,   \* the locals of the root loop and of drive_cycle
  cur,             \* the task that is polled
  task,            \* the state of each task
  ready, hot, remote,
  armed,           \* the sleepers with an entry in the map of timers
  due,             \* the expired entries that are not fired yet
  left,            \* ticks until a sleeper's deadline, until now for a wake
  wait,            \* ticks until the reactor's wait ends
  busy,            \* ticks since the last wait began
  job              \* the closure's thread, and the waker it finds

queues == <<task, ready, hot, remote>>
timers == <<armed, due>>
vars == <<kind, goal, at, drove, worked, cur, queues, timers, left, wait, busy, job>>

Late == MaxWait + 2 * MaxBusy

TypeOK ==
  /\ kind \in {"block_on", "wait_for_task"} /\ goal \in Tasks
  /\ at \in {"root", "drain", "timers", "fire", "pick", "poll", "react", "wait",
             "returned", "halted"}
  /\ drove \in BOOLEAN /\ worked \in BOOLEAN
  /\ cur \in Tasks \cup {NONE} /\ hot \in Tasks \cup {NONE}
  /\ task \in [Tasks -> {"PENDING", "READY", "COMPLETE"}]
  /\ ready \in Seq(Tasks) /\ remote \in Seq(Jobs)
  /\ armed \subseteq Sleepers /\ due \subseteq Sleepers \ armed
  /\ left \in [Tasks -> Int]
  /\ wait \in Nat /\ busy \in 0 .. MaxBusy
  /\ job \in [Jobs -> {"running", "listened", "waking", "ended", "lost"}]

(* All tasks are spawned, in some order, and the closures run. *)
Init ==
  /\ kind \in {"block_on", "wait_for_task"} /\ goal \in Tasks
  /\ at = "root" /\ drove = FALSE /\ worked = FALSE /\ cur = NONE
  /\ task = [t \in Tasks |-> "READY"]
  /\ ready \in SetToSeqs(Tasks) /\ hot = NONE /\ remote = <<>>
  /\ armed = {} /\ due = {}
  /\ left \in [Tasks -> Delays \cup {0}]
  /\ \A t \in Tasks : t \in Jobs <=> left[t] = 0
  /\ wait = 0 /\ busy = 0 /\ job = [t \in Jobs |-> "running"]

-----------------------------------------------------------------------------
(* The root *)

RootReturns ==
  /\ at = "root" /\ task[goal] = "COMPLETE" /\ at' = "returned"
  /\ UNCHANGED <<kind, goal, drove, worked, cur, queues, timers, left, wait, busy, job>>

RootDrives ==
  /\ at = "root" /\ task[goal] # "COMPLETE" /\ at' = "drain"
  /\ drove' = FALSE /\ worked' = FALSE
  /\ UNCHANGED <<kind, goal, cur, queues, timers, left, wait, busy, job>>

AfterCycleAlways == IF worked THEN "drain" ELSE "react"  \* mutant: no continue

(* drive_cycle has returned `worked': wait_for_task looks at its task      *)
(* after each cycle, block_on only when a cycle had nothing to do.         *)
AfterCycle ==
  IF worked THEN IF kind = "wait_for_task" /\ task[goal] = "COMPLETE"
                 THEN "root" ELSE "drain"
  ELSE IF drove THEN "root" ELSE "react"

CycleEnds ==
  /\ at = "pick" /\ hot = NONE /\ ready = <<>>
  /\ at' = AfterCycle /\ drove' = (drove \/ worked) /\ worked' = FALSE
  /\ UNCHANGED <<kind, goal, cur, queues, timers, left, wait, busy, job>>

(* next_timer_deadline: expired entries do not count. *)
ToNextTimer == {left[t] : t \in {s \in armed : left[s] > 0}}

Least(S) == CHOOSE x \in S : \A y \in S : x <= y

Uncapped == IF ToNextTimer = {} THEN MaxWait ELSE Least(ToNextTimer)   \* mutant: no min

Shortest == Least(ToNextTimer \cup {MaxWait})

(* Handed to tau_react in whole milliseconds. *)
Timeout == (Shortest \div Milli) * Milli

React ==
  /\ at = "react" /\ at' = "wait" /\ wait' = Timeout /\ busy' = 0
  /\ UNCHANGED <<kind, goal, drove, worked, cur, queues, timers, left, job>>

WaitEnds ==
  /\ at = "wait" /\ wait = 0 /\ at' = "root"
  /\ UNCHANGED <<kind, goal, drove, worked, cur, queues, timers, left, wait, busy, job>>

-----------------------------------------------------------------------------
(* The drive cycle *)

Drain ==
  /\ at = "drain" /\ remote # <<>> /\ remote' = Tail(remote) /\ worked' = TRUE
  /\ LET t == Head(remote) IN
     IF task[t] = "PENDING"
     THEN task' = [task EXCEPT ![t] = "READY"] /\ ready' = Append(ready, t)
     ELSE UNCHANGED <<task, ready>>
  /\ UNCHANGED <<kind, goal, at, drove, cur, hot, timers, left, wait, busy, job>>

Drained ==
  /\ at = "drain" /\ remote = <<>> /\ at' = "timers"
  /\ UNCHANGED <<kind, goal, drove, worked, cur, queues, timers, left, wait, busy, job>>

KeepsExpired(expired) == armed    \* mutant: entries are fired and not removed

Without(expired) == armed \ expired

Expire ==
  /\ at = "timers" /\ at' = "fire"
  /\ due' = {t \in armed : left[t] <= 0} /\ armed' = Without(due')
  /\ worked' = (worked \/ due' # {})
  /\ UNCHANGED <<kind, goal, drove, cur, queues, left, wait, busy, job>>

(* waker_wake on the executor's own thread. *)
WakeInto(t) ==
  IF task[t] = "PENDING"
  THEN /\ task' = [task EXCEPT ![t] = "READY"] /\ hot' = t
       /\ ready' = IF hot = NONE THEN ready ELSE Append(ready, hot)
  ELSE UNCHANGED <<task, hot, ready>>

Fire ==
  /\ at = "fire"
  /\ \E t \in due : WakeInto(t) /\ due' = due \ {t}
  /\ UNCHANGED <<kind, goal, at, drove, worked, cur, remote, armed, left, wait, busy, job>>

Fired ==
  /\ at = "fire" /\ due = {} /\ at' = "pick"
  /\ UNCHANGED <<kind, goal, drove, worked, cur, queues, timers, left, wait, busy, job>>

PickIfReady(t) ==
  IF task[t] = "READY"
  THEN task' = [task EXCEPT ![t] = "PENDING"] /\ cur' = t /\ at' = "poll"
  ELSE UNCHANGED <<task, cur, at>>

(* The hot slot first, then the queue. *)
Pick ==
  /\ at = "pick"
  /\ \/ hot # NONE /\ PickIfReady(hot) /\ hot' = NONE /\ UNCHANGED ready
     \/ hot = NONE /\ ready # <<>> /\ PickIfReady(Head(ready)) /\ ready' = Tail(ready)
        /\ UNCHANGED hot
  /\ UNCHANGED <<kind, goal, drove, worked, remote, timers, left, wait, busy, job>>

Polled(state) ==
  /\ task' = [task EXCEPT ![cur] = state] /\ at' = "pick" /\ worked' = TRUE
  /\ cur' = NONE

(* SleepFuture::poll; its end drops it, and cancels what timer it has. *)
PollSleep ==
  /\ at = "poll" /\ cur \in Sleepers
  /\ IF left[cur] <= 0
     THEN Polled("COMPLETE") /\ armed' = armed \ {cur}
     ELSE Polled("PENDING") /\ armed' = armed \cup {cur}
  /\ UNCHANGED <<kind, goal, drove, ready, hot, remote, due, left, wait, busy, job>>

Unheard == job                    \* mutant: the waker is not stored

Heard == [job EXCEPT ![cur] = IF @ = "running" THEN "listened" ELSE @]

(* SpawnBlockingFuture::poll, under the mutex it shares with the thread. *)
PollJob ==
  /\ at = "poll" /\ cur \in Jobs /\ job[cur] # "waking"
  /\ IF job[cur] = "ended" THEN Polled("COMPLETE") /\ UNCHANGED job
                           ELSE Polled("PENDING") /\ job' = Heard
  /\ UNCHANGED <<kind, goal, drove, ready, hot, remote, timers, left, wait, busy>>

-----------------------------------------------------------------------------
(* Other threads, the kernel and the clock *)

(* The closure's value is stored and the waker taken, under the mutex ... *)
JobEnds(t) ==
  /\ job[t] \in {"running", "listened"}
  /\ job' = [job EXCEPT ![t] = IF @ = "listened" THEN "waking" ELSE "ended"]
  /\ UNCHANGED <<kind, goal, at, drove, worked, cur, queues, timers, left, wait, busy>>

(* ... which is released when the wake is in the owner's remote queue. *)
JobWakes(t) ==
  /\ job[t] = "waking" /\ job' = [job EXCEPT ![t] = "ended"]
  /\ remote' = Append(remote, t)
  /\ UNCHANGED <<kind, goal, at, drove, worked, cur, task, ready, hot, timers, left, wait, busy>>

(* The thread ends without a value; nobody takes the waker. *)
JobPanics(t) ==
  /\ job[t] \in {"running", "listened"}
  /\ job' = [job EXCEPT ![t] = "lost"]
  /\ UNCHANGED <<kind, goal, at, drove, worked, cur, queues, timers, left, wait, busy>>

(* AbortHandle::abort on the closure's thread: tau_task_abort looks for    *)
(* the executor of a thread that has none, beyond the end of EXECUTORS.    *)
JobAborts(t) ==
  /\ job[t] \in {"running", "listened"}
  /\ at \notin {"returned", "halted"} /\ at' = "halted"
  /\ UNCHANGED <<kind, goal, drove, worked, cur, queues, timers, left, wait, busy, job>>

(* A descriptor is ready: the wait ends, and a task that also waits for it *)
(* is woken, or none.                                                      *)
Event ==
  /\ at = "wait" /\ at' = "root"
  /\ UNCHANGED <<task, hot, ready>> \/ \E t \in Tasks : WakeInto(t)
  /\ UNCHANGED <<kind, goal, drove, worked, cur, remote, timers, left, wait, busy, job>>

Tick ==
  /\ \/ at = "wait" /\ wait > 0 /\ wait' = wait - 1 /\ UNCHANGED busy
     \/ at \notin {"wait", "returned", "halted"} /\ busy < MaxBusy /\ busy' = busy + 1
        /\ UNCHANGED wait
  /\ left' = [t \in Tasks |->
                IF (t \in Sleepers \/ Contains(remote, t)) /\ left[t] >= -Late
                THEN left[t] - 1 ELSE left[t]]
  /\ UNCHANGED <<kind, goal, at, drove, worked, cur, queues, timers, job>>

Stopped == at \in {"returned", "halted"} /\ UNCHANGED vars

Own == \/ RootReturns \/ RootDrives \/ CycleEnds \/ React \/ WaitEnds
       \/ Drain \/ Drained \/ Expire \/ Fire \/ Fired \/ Pick \/ PollSleep \/ PollJob

Next == \/ Own \/ Event \/ Tick \/ Stopped
        \/ \E t \in Jobs : JobEnds(t) \/ JobWakes(t) \/ JobPanics(t) \/ JobAborts(t)

Spec == Init /\ [][Next]_vars

(* The thread runs, closures end and time passes; no event need come. *)
FairSpec ==
  /\ Spec /\ WF_vars(Own) /\ SF_vars(Tick)
  /\ \A t \in Jobs : WF_vars(JobEnds(t)) /\ WF_vars(JobWakes(t))

-----------------------------------------------------------------------------
(* A wake of another thread is drained, and a timer is fired, at most one  *)
(* wait and the work around it late, although neither interrupts the wait  *)
(* and the computation of its length skips timers that have expired.       *)
WakesAreSeenInTime ==
  \A t \in armed \cup ToSet(remote) : left[t] >= - Late

(* The root waits only when no task it could poll is ready, and what it    *)
(* waits for has not happened.                                             *)
NothingIsSleptOver ==
  at = "wait" => /\ task[goal] # "COMPLETE" /\ \A t \in Tasks : task[t] # "READY"

(* The root returns, whatever it waits for and whatever comes between,     *)
(* unless the closure it waits for panics or a call ends the process.      *)
RootGetsThere ==
  <>(at \in {"returned", "halted"} \/ goal \in {t \in Jobs : job[t] = "lost"})

(* The wait is "until the next timer fires" (next_timer_deadline): no      *)
(* timer that could fire at once is left to a wait.  The code does not     *)
(* keep this.                                                              *)
NoExpiredTimerWaits ==
  [][React => wait' = 0 \/ \A t \in armed : left[t] > 0]_vars

(* Threads may call abort: "make tau_task_abort work from background       *)
(* threads" (PRD.md).  The code does not keep this.                        *)
AbortWorksAnywhere == at # "halted"

=============================================================================
