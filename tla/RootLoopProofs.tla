--------------------------- MODULE RootLoopProofs ---------------------------
(***************************************************************************)
(* The root loop sleeps over nothing: it waits only when no task is ready  *)
(* and what it waits for has not happened, and a timer or a wake of        *)
(* another thread is seen one wait, and the work around it, late at most,  *)
(* for any number of tasks and any delays.                                 *)
(***************************************************************************)
EXTENDS RootLoop, FiniteSetTheorems, SequenceTheorems, WellFoundedInduction, TLAPS

-----------------------------------------------------------------------------
(* Operators *)

LEMMA Rounded ==
  ASSUME NEW x \in Nat, NEW m \in Nat \ {0}
  PROVE  (x \div m) * m \in 0 .. x
<1>1. x \div m \in Nat /\ (x \div m) * m <= x
  BY Z3
<1>2. \A q \in Nat : q * m \in Nat
  BY Z3
<1> QED  BY <1>1, <1>2

LEMMA LeastOfNats ==
  ASSUME NEW T, T \subseteq Nat, T # {}
  PROVE  Least(T) \in T /\ \A y \in T : Least(T) <= y
<1> DEFINE R == {p \in Nat \X Nat : p[1] < p[2]}
<1>1. IsWellFoundedOn(R, Nat)
  <2>1. IsWellFoundedOn(OpToRel(<, Nat), Nat)
    BY NatLessThanWellFounded
  <2> QED  BY <2>1 DEF OpToRel
<1>2. \A x, y \in Nat : <<y, x>> \in R <=> y < x
  OBVIOUS
<1> HIDE DEF R
<1>3. PICK x \in T : \A y \in T : ~ (<<y, x>> \in R)
  BY <1>1, WFMin
<1>4. ASSUME NEW y \in T  PROVE x <= y
  <2>1. x \in Nat /\ y \in Nat
    OBVIOUS
  <2>2. ~ (<<y, x>> \in R)
    BY <1>3
  <2>3. ~ (y < x)
    BY <1>2, <2>1, <2>2
  <2> QED  BY <2>1, <2>3
<1> QED  BY <1>4 DEF Least

(* The length of the reactor's wait, at most MaxWait. *)
LEMMA TimeoutBound ==
  ASSUME TypeOK
  PROVE  Timeout \in 0 .. MaxWait
<1>1. MaxWait \in Nat /\ Milli \in Nat \ {0}
  BY RootAssumption DEF RootAssumption
<1> DEFINE T == ToNextTimer \cup {MaxWait}
<1>2. T \subseteq Nat /\ T # {} /\ MaxWait \in T
  BY <1>1 DEF ToNextTimer, TypeOK, Tasks
<1>3. Least(T) \in Nat /\ Least(T) <= MaxWait
  BY <1>2, LeastOfNats
<1>4. Shortest \in Nat /\ Shortest <= MaxWait
  BY <1>3 DEF Shortest
<1>5. Timeout \in 0 .. Shortest
  BY <1>1, <1>4, Rounded DEF Timeout
<1> QED  BY <1>1, <1>4, <1>5

LEMMA AppendSet ==
  ASSUME NEW S, NEW q \in Seq(S), NEW t \in S
  PROVE  Append(q, t) \in Seq(S) /\ ToSet(Append(q, t)) = ToSet(q) \cup {t}
<1>1. /\ Append(q, t) \in Seq(S) /\ Len(Append(q, t)) = Len(q) + 1 /\ Len(q) \in Nat
      /\ \A i \in 1 .. Len(q) : Append(q, t)[i] = q[i]
      /\ Append(q, t)[Len(q) + 1] = t
  BY AppendProperties, LenProperties
<1>2. DOMAIN Append(q, t) = 1 .. Len(q) + 1 /\ DOMAIN q = 1 .. Len(q)
  BY <1>1, LenProperties
<1> QED  BY <1>1, <1>2 DEF ToSet

LEMMA TailSet ==
  ASSUME NEW S, NEW q \in Seq(S), q # <<>>
  PROVE  /\ Head(q) \in S /\ Tail(q) \in Seq(S)
         /\ ToSet(q) = ToSet(Tail(q)) \cup {Head(q)}
<1>1. /\ Head(q) \in S /\ Tail(q) \in Seq(S) /\ Len(Tail(q)) = Len(q) - 1
      /\ \A i \in 1 .. Len(Tail(q)) : Tail(q)[i] = q[i + 1]
      /\ Len(q) \in Nat \ {0} /\ Head(q) = q[1]
  BY HeadTailProperties, EmptySeq, LenProperties
<1>2. DOMAIN q = 1 .. Len(q) /\ DOMAIN Tail(q) = 1 .. Len(q) - 1
  BY <1>1, LenProperties
<1>3. ASSUME NEW i \in 1 .. Len(q)  PROVE q[i] \in ToSet(Tail(q)) \cup {Head(q)}
  <2>1. CASE i = 1
    BY <1>1, <2>1
  <2>2. CASE i # 1
    <3>1. i - 1 \in 1 .. Len(q) - 1 /\ Tail(q)[i - 1] = q[i]
      BY <1>1, <2>2
    <3> QED  BY <1>2, <3>1 DEF ToSet
  <2> QED  BY <2>1, <2>2
<1>4. ASSUME NEW i \in 1 .. Len(q) - 1  PROVE Tail(q)[i] \in ToSet(q)
  BY <1>1, <1>2, <1>4 DEF ToSet
<1>5. Head(q) \in ToSet(q)
  BY <1>1, <1>2 DEF ToSet
<1> QED  BY <1>2, <1>3, <1>4, <1>5 DEF ToSet

LEMMA NoElements ==
  ToSet(<<>>) = {}
BY EmptySeq DEF ToSet

LEMMA ContainsSet ==
  ASSUME NEW S, NEW q \in Seq(S), NEW t
  PROVE  Contains(q, t) <=> t \in ToSet(q)
<1>1. DOMAIN q = 1 .. Len(q)
  BY LenProperties
<1> QED  BY <1>1 DEF Contains, ToSet

(* An enumeration of a set names every element.                            *)
LEMMA EverySeq ==
  ASSUME NEW S, IsFiniteSet(S), NEW q \in SetToSeqs(S)
  PROVE  q \in Seq(S) /\ ToSet(q) = S
<1> DEFINE n == Cardinality(S)
<1>1. n \in Nat /\ IsFiniteSet(1 .. n) /\ Cardinality(1 .. n) = n
  BY FS_CardinalityType, FS_Interval
<1>2. q \in [1 .. n -> S] /\ \A i, j \in 1 .. n : i # j => q[i] # q[j]
  BY DEF SetToSeqs
<1> HIDE DEF n
<1>3. q \in Injection(1 .. n, S)
  BY <1>2 DEF Injection, IsInjective
<1>4. q \in Surjection(1 .. n, S)
  BY <1>1, <1>3, FS_Injection DEF n
<1>5. ToSet(q) = S
  BY <1>2, <1>4 DEF ToSet, Surjection
<1>6. q \in Seq(S)
  BY <1>1, <1>2, SeqDef
<1> QED  BY <1>5, <1>6

-----------------------------------------------------------------------------
(* The invariant *)

Cycle == {"drain", "timers", "fire", "pick", "poll"}
AfterExpire == {"fire", "pick", "poll", "react"}
AfterDrain == {"timers", "fire", "pick", "poll", "react"}

(* What is fired is expired, who is polled is a task, and no wait is       *)
(* longer than the reactor's longest.                                      *)
PlacesOK ==
  /\ due # {} => at \in {"fire", "halted"}
  /\ at = "poll" => cur \in Tasks
  /\ wait <= MaxWait

(* Whatever completed the goal has left its mark on the locals of the loop,*)
(* which look at the goal again before a wait.                             *)
GoalIsNoticed ==
  task[goal] = "COMPLETE" => /\ at \in Cycle => worked \/ drove
                             /\ at \notin {"react", "wait"}

(* A task that is ready is in a queue, and a wait begins with empty queues.*)
ReadyIsQueued == \A t \in Tasks : task[t] = "READY" => t = hot \/ t \in ToSet(ready)
IdleIsEmpty == at \in {"react", "wait"} => hot = NONE /\ ready = <<>>

(* A closure's thread wakes once, and its wake ages from then on.          *)
WakesOnce == \A t \in Jobs : job[t] # "ended" => left[t] = 0 /\ t \notin ToSet(remote)

(* How late t may be: by the work since the last wait began if t was not   *)
(* overdue since, by that wait and the work before it if it may have been. *)
InTime(t, seen) ==
  /\ at \in seen => left[t] >= - busy
  /\ at = "wait" => left[t] >= - (MaxBusy + (MaxWait - wait))
  /\ left[t] >= - (MaxBusy + MaxWait + busy)

ArmedInTime == \A t \in armed : InTime(t, AfterExpire)
RemoteInTime == \A t \in ToSet(remote) : InTime(t, AfterDrain)

RootInv ==
  /\ TypeOK /\ PlacesOK
  /\ GoalIsNoticed /\ ReadyIsQueued /\ IdleIsEmpty
  /\ WakesOnce /\ ArmedInTime /\ RemoteInTime

-----------------------------------------------------------------------------
(* Types *)

LEMMA Bounds ==
  /\ MaxBusy \in Nat /\ MaxWait \in Nat /\ NONE \notin Tasks /\ IsFiniteSet(Tasks)
  /\ Jobs \subseteq Tasks /\ Sleepers \subseteq Tasks /\ Jobs \cap Sleepers = {} /\ Delays \subseteq Nat
BY RootAssumption DEF RootAssumption, Tasks

(* A wake queues its task and keeps the others queued.                     *)
LEMMA WakeQueues ==
  ASSUME TypeOK, NEW t \in Tasks, WakeInto(t)
  PROVE  /\ task' \in [Tasks -> {"PENDING", "READY", "COMPLETE"}]
         /\ hot' \in Tasks \cup {NONE} /\ ready' \in Seq(Tasks)
         /\ ReadyIsQueued => ReadyIsQueued'
         /\ \A x \in Tasks : task'[x] = "COMPLETE" <=> task[x] = "COMPLETE"
<1>1. CASE task[t] # "PENDING"
  BY <1>1 DEF WakeInto, TypeOK, ReadyIsQueued
<1>2. CASE task[t] = "PENDING"
  <2>1. /\ task' = [task EXCEPT ![t] = "READY"] /\ hot' = t
        /\ ready' = IF hot = NONE THEN ready ELSE Append(ready, hot)
        /\ hot \in Tasks \cup {NONE} /\ ready \in Seq(Tasks)
        /\ task \in [Tasks -> {"PENDING", "READY", "COMPLETE"}]
    BY <1>2 DEF WakeInto, TypeOK
  <2>2. /\ ready' \in Seq(Tasks)
        /\ ToSet(ready) \subseteq ToSet(ready')
        /\ hot \in Tasks => hot \in ToSet(ready')
    BY <2>1, AppendSet, Bounds
  <2>3. \A x \in Tasks : task'[x] = IF x = t THEN "READY" ELSE task[x]
    BY <2>1
  <2>4. ReadyIsQueued => ReadyIsQueued'
    BY <2>1, <2>2, <2>3 DEF ReadyIsQueued
  <2> QED  BY <1>2, <2>1, <2>2, <2>3, <2>4
<1> QED  BY <1>1, <1>2

(* What is taken off the queues is polled if it is ready.                  *)
LEMMA PickQueues ==
  ASSUME TypeOK, Pick
  PROVE  /\ task' \in [Tasks -> {"PENDING", "READY", "COMPLETE"}]
         /\ hot' \in Tasks \cup {NONE} /\ ready' \in Seq(Tasks)
         /\ (at' = at /\ cur' = cur) \/ (at' = "poll" /\ cur' \in Tasks)
         /\ ReadyIsQueued => ReadyIsQueued'
         /\ \A x \in Tasks : task'[x] = "COMPLETE" => task[x] = "COMPLETE"
<1>0. /\ hot \in Tasks \cup {NONE} /\ ready \in Seq(Tasks)
      /\ task \in [Tasks -> {"PENDING", "READY", "COMPLETE"}]
  BY DEF TypeOK
<1>1. PICK t \in Tasks :
        /\ PickIfReady(t)
        /\ \/ t = hot /\ hot' = NONE /\ ready' = ready
           \/ hot' = hot /\ ready # <<>> /\ t = Head(ready) /\ ready' = Tail(ready)
  BY <1>0, TailSet DEF Pick
<1>2. /\ hot' \in Tasks \cup {NONE} /\ ready' \in Seq(Tasks)
      /\ \A x \in Tasks : x = hot \/ x \in ToSet(ready) => x = t \/ x = hot' \/ x \in ToSet(ready')
  BY <1>0, <1>1, TailSet
<1>3. /\ (at' = at /\ cur' = cur) \/ (at' = "poll" /\ cur' \in Tasks)
      /\ task' \in [Tasks -> {"PENDING", "READY", "COMPLETE"}]
      /\ task'[t] # "READY" /\ \A x \in Tasks \ {t} : task'[x] = task[x]
      /\ task'[t] = "COMPLETE" => task[t] = "COMPLETE"
  BY <1>0, <1>1 DEF PickIfReady
<1>4. ReadyIsQueued => ReadyIsQueued'
  BY <1>2, <1>3 DEF ReadyIsQueued
<1> QED  BY <1>2, <1>3, <1>4

LEMMA RootTypes ==
  ASSUME TypeOK, PlacesOK,
         RootReturns \/ RootDrives \/ CycleEnds \/ React \/ WaitEnds \/ Drained \/ Fired
  PROVE  TypeOK' /\ PlacesOK'
<1>1. CASE React
  <2>1. wait' \in Nat /\ wait' <= MaxWait /\ busy' = 0 /\ 0 \in 0 .. MaxBusy
    BY <1>1, TimeoutBound, Bounds DEF React
  <2> QED  BY <1>1, <2>1 DEF React, TypeOK, PlacesOK, queues, timers
<1>2. CASE CycleEnds
  <2>1. AfterCycle \in {"root", "drain", "react"} /\ drove' \in BOOLEAN
    BY <1>2 DEF AfterCycle, TypeOK, CycleEnds
  <2> QED  BY <1>2, <2>1 DEF CycleEnds, TypeOK, PlacesOK, queues, timers
<1>3. CASE RootReturns \/ RootDrives \/ WaitEnds \/ Drained \/ Fired
  BY <1>3 DEF RootReturns, RootDrives, WaitEnds, Drained, Fired, TypeOK, PlacesOK, queues, timers
<1> QED  BY <1>1, <1>2, <1>3

LEMMA CycleTypes ==
  ASSUME TypeOK, PlacesOK, Drain \/ Expire \/ Fire \/ Pick \/ PollSleep \/ PollJob
  PROVE  TypeOK' /\ PlacesOK'
<1>1. CASE Drain
  <2>1. Head(remote) \in Jobs /\ remote' \in Seq(Jobs)
    BY <1>1, TailSet DEF Drain, TypeOK
  <2> DEFINE t == Head(remote)
  <2>2. ready' \in Seq(Tasks) /\ task' \in [Tasks -> {"PENDING", "READY", "COMPLETE"}]
    <3>1. t \in Tasks /\ ready \in Seq(Tasks) /\ task \in [Tasks -> {"PENDING", "READY", "COMPLETE"}]
      BY <2>1, Bounds DEF TypeOK
    <3>2. (task' = [task EXCEPT ![t] = "READY"] /\ ready' = Append(ready, t)) \/ UNCHANGED <<task, ready>>
      BY <1>1 DEF Drain
    <3> HIDE DEF t
    <3> QED  BY <3>1, <3>2, AppendSet
  <2> QED  BY <1>1, <2>1, <2>2 DEF Drain, TypeOK, PlacesOK, timers
<1>2. CASE Expire
  <2>1. due' \subseteq armed /\ armed' = armed \ due' /\ worked' \in BOOLEAN
    BY <1>2 DEF Expire, Without, TypeOK
  <2>2. armed' \subseteq Sleepers /\ due' \subseteq Sleepers \ armed'
    BY <2>1 DEF TypeOK
  <2> QED  BY <1>2, <2>1, <2>2 DEF Expire, TypeOK, PlacesOK, queues
<1>3. CASE Fire
  <2>1. PICK t \in due : WakeInto(t) /\ due' = due \ {t}
    BY <1>3 DEF Fire
  <2>2. t \in Tasks
    BY Bounds DEF TypeOK
  <2> QED  BY <1>3, <2>1, <2>2, WakeQueues DEF Fire, TypeOK, PlacesOK
<1>4. CASE Pick
  <2>1. due = {}
    BY <1>4 DEF Pick, PlacesOK
  <2> QED  BY <1>4, <2>1, PickQueues DEF Pick, TypeOK, PlacesOK, timers
<1>5. CASE PollSleep
  <2>1. cur \in Sleepers /\ due = {} /\ at' = "pick" /\ worked' = TRUE /\ cur' = NONE
    BY <1>5 DEF PollSleep, Polled, PlacesOK
  <2>2. task' \in [Tasks -> {"PENDING", "READY", "COMPLETE"}] /\ armed' \subseteq Sleepers
    BY <1>5, <2>1, Bounds DEF PollSleep, Polled, TypeOK
  <2> QED  BY <1>5, <2>1, <2>2 DEF PollSleep, TypeOK, PlacesOK
<1>6. CASE PollJob
  <2>1. cur \in Jobs /\ due = {} /\ at' = "pick" /\ worked' = TRUE /\ cur' = NONE
    BY <1>6 DEF PollJob, Polled, PlacesOK
  <2>2. task' \in [Tasks -> {"PENDING", "READY", "COMPLETE"}]
    BY <1>6, <2>1, Bounds DEF PollJob, Polled, TypeOK
  <2>3. job' \in [Jobs -> {"running", "listened", "waking", "ended", "lost"}]
    BY <1>6, <2>1 DEF PollJob, Heard, TypeOK
  <2> QED  BY <1>6, <2>1, <2>2, <2>3 DEF PollJob, TypeOK, PlacesOK, timers
<1> QED  BY <1>1, <1>2, <1>3, <1>4, <1>5, <1>6

LEMMA OutsideTypes ==
  ASSUME TypeOK, PlacesOK,
         Event \/ Tick \/ (\E t \in Jobs : JobEnds(t) \/ JobWakes(t) \/ JobPanics(t) \/ JobAborts(t))
  PROVE  TypeOK' /\ PlacesOK'
<1>1. CASE Event
  <2>1. (\E t \in Tasks : WakeInto(t)) \/ UNCHANGED <<task, hot, ready>>
    BY <1>1 DEF Event
  <2>2. /\ task' \in [Tasks -> {"PENDING", "READY", "COMPLETE"}]
        /\ hot' \in Tasks \cup {NONE} /\ ready' \in Seq(Tasks)
    BY <2>1, WakeQueues DEF TypeOK
  <2> QED  BY <1>1, <2>2 DEF Event, TypeOK, PlacesOK, timers
<1>2. CASE Tick
  <2>1. wait' \in Nat /\ wait' <= MaxWait /\ busy' \in 0 .. MaxBusy
    BY <1>2, Bounds DEF Tick, TypeOK, PlacesOK
  <2>2. left' \in [Tasks -> Int]
    BY <1>2 DEF Tick, TypeOK
  <2> QED  BY <1>2, <2>1, <2>2 DEF Tick, TypeOK, PlacesOK, queues, timers
<1>3. ASSUME NEW t \in Jobs, JobEnds(t) \/ JobPanics(t) \/ JobAborts(t)
      PROVE  TypeOK' /\ PlacesOK'
  <2>1. job' \in [Jobs -> {"running", "listened", "waking", "ended", "lost"}]
    BY <1>3 DEF JobEnds, JobPanics, JobAborts, TypeOK
  <2> QED  BY <1>3, <2>1 DEF JobEnds, JobPanics, JobAborts, TypeOK, PlacesOK, queues, timers
<1>4. ASSUME NEW t \in Jobs, JobWakes(t)  PROVE TypeOK' /\ PlacesOK'
  <2>1. job' \in [Jobs -> {"running", "listened", "waking", "ended", "lost"}] /\ remote' \in Seq(Jobs)
    BY <1>4, AppendSet DEF JobWakes, TypeOK
  <2> QED  BY <1>4, <2>1 DEF JobWakes, TypeOK, PlacesOK, timers
<1> QED  BY <1>1, <1>2, <1>3, <1>4

LEMMA TypesNext ==
  ASSUME TypeOK, PlacesOK, [Next]_vars
  PROVE  TypeOK' /\ PlacesOK'
<1>1. CASE UNCHANGED vars
  BY <1>1 DEF vars, queues, timers, TypeOK, PlacesOK
<1> QED  BY <1>1, RootTypes, CycleTypes, OutsideTypes DEF Next, Own, Stopped

LEMMA TypesInit ==
  ASSUME Init
  PROVE  TypeOK /\ PlacesOK
<1>1. ready \in Seq(Tasks)
  BY Bounds, EverySeq DEF Init
<1>2. remote \in Seq(Jobs)
  BY EmptySeq DEF Init
<1>3. left \in [Tasks -> Int]
  <2>1. left \in [Tasks -> Delays \cup {0}] /\ Delays \cup {0} \subseteq Int
    BY Bounds DEF Init
  <2> QED  BY <2>1
<1>4. task \in [Tasks -> {"PENDING", "READY", "COMPLETE"}]
      /\ job \in [Jobs -> {"running", "listened", "waking", "ended", "lost"}]
  BY DEF Init
<1>5. /\ kind \in {"block_on", "wait_for_task"} /\ goal \in Tasks /\ at = "root" /\ drove = FALSE
      /\ worked = FALSE /\ cur = NONE /\ hot = NONE /\ armed = {} /\ due = {} /\ wait = 0 /\ busy = 0
  BY DEF Init
<1>6. wait <= MaxWait /\ busy \in 0 .. MaxBusy /\ wait \in Nat
  BY <1>5, Bounds
<1> QED  BY <1>1, <1>2, <1>3, <1>4, <1>5, <1>6 DEF TypeOK, PlacesOK

-----------------------------------------------------------------------------
(* Queues and the goal *)

LEMMA QueuesNext ==
  ASSUME TypeOK, PlacesOK, ReadyIsQueued, IdleIsEmpty, [Next]_vars
  PROVE  ReadyIsQueued' /\ IdleIsEmpty'
<1>1. CASE UNCHANGED <<task, hot, ready>> /\ (at' \in {"react", "wait"} => at \in {"react", "wait"})
  BY <1>1 DEF ReadyIsQueued, IdleIsEmpty
<1>2. CASE CycleEnds
  BY <1>2 DEF CycleEnds, queues, ReadyIsQueued, IdleIsEmpty
<1>3. CASE Drain
  <2> DEFINE t == Head(remote)
  <2>1. /\ t \in Tasks /\ ready \in Seq(Tasks) /\ task \in [Tasks -> {"PENDING", "READY", "COMPLETE"}]
    BY <1>3, TailSet, Bounds DEF Drain, TypeOK
  <2>2. /\ (task' = [task EXCEPT ![t] = "READY"] /\ ready' = Append(ready, t)) \/ UNCHANGED <<task, ready>>
        /\ hot' = hot /\ at' = "drain"
    BY <1>3 DEF Drain
  <2> HIDE DEF t
  <2>3. CASE task' = [task EXCEPT ![t] = "READY"] /\ ready' = Append(ready, t)
    <3>1. ToSet(ready') = ToSet(ready) \cup {t} /\ \A x \in Tasks : task'[x] = IF x = t THEN "READY" ELSE task[x]
      BY <2>1, <2>3, AppendSet
    <3> QED  BY <2>2, <3>1 DEF ReadyIsQueued, IdleIsEmpty
  <2>4. CASE UNCHANGED <<task, ready>>
    BY <2>2, <2>4 DEF ReadyIsQueued, IdleIsEmpty
  <2> QED  BY <2>2, <2>3, <2>4
<1>4. CASE Fire \/ Event
  <2>1. (\E t \in Tasks : WakeInto(t)) \/ UNCHANGED <<task, hot, ready>>
    BY <1>4, Bounds DEF Fire, Event, TypeOK
  <2>2. ReadyIsQueued'
    BY <2>1, WakeQueues DEF ReadyIsQueued
  <2>3. at' \in {"fire", "root"}
    BY <1>4 DEF Fire, Event
  <2> QED  BY <2>2, <2>3 DEF IdleIsEmpty
<1>5. CASE Pick
  <2>1. at' \notin {"react", "wait"}
    BY <1>5, PickQueues DEF Pick
  <2> QED  BY <1>5, <2>1, PickQueues DEF IdleIsEmpty
<1>6. CASE PollSleep \/ PollJob
  <2>1. /\ \E st \in {"PENDING", "COMPLETE"} : task' = [task EXCEPT ![cur] = st]
        /\ at' = "pick" /\ UNCHANGED <<ready, hot>>
    BY <1>6 DEF PollSleep, PollJob, Polled
  <2>2. \A t \in Tasks : task'[t] = "READY" => task[t] = "READY"
    BY <2>1 DEF TypeOK
  <2> QED  BY <2>1, <2>2 DEF ReadyIsQueued, IdleIsEmpty
<1>7. CASE RootReturns \/ RootDrives \/ React \/ WaitEnds \/ Drained \/ Expire \/ Fired \/ Tick \/ UNCHANGED vars
           \/ \E t \in Jobs : JobEnds(t) \/ JobWakes(t) \/ JobPanics(t) \/ JobAborts(t)
  BY <1>1, <1>7 DEF RootReturns, RootDrives, React, WaitEnds, Drained, Expire, Fired, Tick, vars, queues,
                    JobEnds, JobWakes, JobPanics, JobAborts
<1> QED  BY <1>2, <1>3, <1>4, <1>5, <1>6, <1>7 DEF Next, Own, Stopped

LEMMA GoalNext ==
  ASSUME TypeOK, PlacesOK, GoalIsNoticed, [Next]_vars
  PROVE  GoalIsNoticed'
<1>0. goal \in Tasks
  BY DEF TypeOK
<1>1. CASE RootReturns \/ RootDrives \/ CycleEnds \/ React \/ WaitEnds \/ Drained \/ Fired
  BY <1>1 DEF RootReturns, RootDrives, CycleEnds, AfterCycle, React, WaitEnds, Drained, Fired, queues,
              GoalIsNoticed, Cycle, TypeOK
<1>2. CASE Drain
  <2>1. at' = "drain" /\ worked' = TRUE
    BY <1>2 DEF Drain
  <2> QED  BY <2>1 DEF GoalIsNoticed
<1>3. CASE Expire
  BY <1>3 DEF Expire, GoalIsNoticed, Cycle, queues
<1>4. CASE Fire \/ Event
  <2>1. (\E t \in Tasks : WakeInto(t)) \/ UNCHANGED <<task, hot, ready>>
    BY <1>4, Bounds DEF Fire, Event, TypeOK
  <2>2. task'[goal] = "COMPLETE" <=> task[goal] = "COMPLETE"
    BY <1>0, <2>1, WakeQueues
  <2>3. /\ goal' = goal /\ (worked \/ drove => worked' \/ drove') /\ at' \in {"root", at}
        /\ at' # "root" => at = "fire"
    BY <1>4 DEF Fire, Event
  <2> QED  BY <2>2, <2>3 DEF GoalIsNoticed, Cycle
<1>5. CASE Pick
  <2>1. task'[goal] = "COMPLETE" => task[goal] = "COMPLETE"
    BY <1>0, <1>5, PickQueues
  <2>2. goal' = goal /\ drove' = drove /\ worked' = worked /\ at = "pick" /\ at' \in {"pick", "poll"}
    BY <1>5, PickQueues DEF Pick
  <2> QED  BY <2>1, <2>2 DEF GoalIsNoticed, Cycle
<1>6. CASE PollSleep \/ PollJob
  <2>1. at' = "pick" /\ worked' = TRUE
    BY <1>6 DEF PollSleep, PollJob, Polled
  <2> QED  BY <2>1 DEF GoalIsNoticed
<1>7. CASE Tick \/ UNCHANGED vars \/ \E t \in Jobs : JobEnds(t) \/ JobWakes(t) \/ JobPanics(t) \/ JobAborts(t)
  BY <1>7 DEF Tick, vars, queues, JobEnds, JobWakes, JobPanics, JobAborts, GoalIsNoticed, Cycle
<1> QED  BY <1>1, <1>2, <1>3, <1>4, <1>5, <1>6, <1>7 DEF Next, Own, Stopped

-----------------------------------------------------------------------------
(* Time *)

LEMMA TimeFacts ==
  ASSUME TypeOK, PlacesOK
  PROVE  /\ busy \in 0 .. MaxBusy /\ wait \in 0 .. MaxWait /\ \A t \in Tasks : left[t] \in Int
         /\ armed \subseteq Tasks /\ ToSet(remote) \subseteq Jobs
<1>1. remote \in Seq(Jobs)
  BY DEF TypeOK
<1>2. ToSet(remote) \subseteq Jobs
  BY <1>1, LenProperties DEF ToSet
<1> QED  BY <1>2, Bounds DEF TypeOK, PlacesOK

(* A step that takes no time, and keeps what was seen to be in time.       *)
LEMMA StillInTime ==
  ASSUME TypeOK, PlacesOK, NEW t, NEW seen, "wait" \notin seen, InTime(t, seen),
         UNCHANGED <<left, busy>>,
         at' \in seen => at \in seen,
         at' = "wait" => at = "wait" /\ wait' = wait
  PROVE  InTime(t, seen)'
BY DEF InTime

(* The wait begins: the work before it is what anything is late by.        *)
LEMMA WaitInTime ==
  ASSUME TypeOK, PlacesOK, NEW t \in Tasks, NEW seen, InTime(t, seen), "react" \in seen, "wait" \notin seen, React
  PROVE  InTime(t, seen)'
<1>1. left'[t] = left[t] /\ left[t] \in Int /\ left[t] >= - busy /\ busy \in 0 .. MaxBusy
  BY TimeFacts DEF React, InTime
<1>2. at' = "wait" /\ wait' \in 0 .. MaxWait /\ busy' = 0
  BY TimeoutBound DEF React
<1> QED  BY <1>1, <1>2, Bounds DEF InTime

LEMMA TickInTime ==
  ASSUME TypeOK, PlacesOK, NEW t \in Tasks, NEW seen, InTime(t, seen), "wait" \notin seen, Tick
  PROVE  InTime(t, seen)'
<1>1. left[t] \in Int /\ left'[t] \in {left[t], left[t] - 1}
  BY TimeFacts DEF Tick
<1>2. busy \in 0 .. MaxBusy /\ wait \in 0 .. MaxWait /\ MaxBusy \in Nat /\ MaxWait \in Nat /\ at' = at
  BY TimeFacts, Bounds DEF Tick
<1>3. CASE at = "wait" /\ wait > 0 /\ wait' = wait - 1 /\ busy' = busy
  <2>1. left[t] >= - (MaxBusy + (MaxWait - wait))
    BY <1>3 DEF InTime
  <2>2. left'[t] >= - (MaxBusy + (MaxWait - wait'))
    BY <1>1, <1>2, <1>3, <2>1
  <2>3. left'[t] >= - (MaxBusy + MaxWait + busy')
    BY <1>1, <1>2, <1>3, <2>2
  <2> QED  BY <1>2, <1>3, <2>2, <2>3 DEF InTime
<1>4. CASE at # "wait" /\ busy' = busy + 1
  BY <1>1, <1>2, <1>4 DEF InTime
<1> QED  BY <1>3, <1>4 DEF Tick

(* Who is not overdue is in time wherever the thread is.                   *)
LEMMA NotOverdue ==
  ASSUME TypeOK', PlacesOK', NEW t \in Tasks, left'[t] >= 0, NEW seen
  PROVE  InTime(t, seen)'
<1>1. /\ busy' \in 0 .. MaxBusy /\ wait' \in 0 .. MaxWait /\ left'[t] \in Int
      /\ MaxBusy \in Nat /\ MaxWait \in Nat
  BY Bounds DEF TypeOK, PlacesOK
<1> QED  BY <1>1 DEF InTime

LEMMA ArmedNext ==
  ASSUME TypeOK, PlacesOK, TypeOK', PlacesOK', ArmedInTime, [Next]_vars
  PROVE  ArmedInTime'
<1>0. armed \subseteq Tasks
  BY TimeFacts
<1>1. CASE Tick
  BY <1>0, <1>1, TickInTime DEF Tick, timers, ArmedInTime, AfterExpire
<1>2. CASE React
  BY <1>0, <1>2, WaitInTime DEF React, timers, ArmedInTime, AfterExpire
<1>3. CASE Expire
  <2>1. ASSUME NEW t \in armed'  PROVE InTime(t, AfterExpire)'
    <3>1. t \in Tasks /\ left'[t] >= 0
      BY <1>0, <1>3, <2>1, TimeFacts DEF Expire, Without
    <3> QED  BY <3>1, NotOverdue
  <2> QED  BY <2>1 DEF ArmedInTime
<1>4. CASE PollSleep
  <2>1. ASSUME NEW t \in armed'  PROVE InTime(t, AfterExpire)'
    <3>1. CASE t \in armed
      BY <1>4, <3>1, StillInTime DEF PollSleep, Polled, ArmedInTime, AfterExpire
    <3>2. CASE t \notin armed
      <4>1. t \in Tasks /\ left'[t] >= 0
        BY <1>4, <2>1, <3>2, TimeFacts, Bounds DEF PollSleep
      <4> QED  BY <4>1, NotOverdue
    <3> QED  BY <3>1, <3>2
  <2> QED  BY <2>1 DEF ArmedInTime
<1>5. CASE /\ UNCHANGED <<armed, left, busy>>
           /\ at' \in AfterExpire => at \in AfterExpire
           /\ at' = "wait" => at = "wait" /\ wait' = wait
  BY <1>5, StillInTime DEF ArmedInTime, AfterExpire
<1>6. CASE RootReturns \/ RootDrives \/ CycleEnds \/ WaitEnds \/ Drain \/ Drained \/ Fire \/ Fired \/ PollJob
           \/ Event \/ UNCHANGED vars \/ \E t \in Jobs : JobEnds(t) \/ JobWakes(t) \/ JobPanics(t) \/ JobAborts(t)
  BY <1>5, <1>6 DEF RootReturns, RootDrives, CycleEnds, AfterCycle, WaitEnds, Drain, Drained, Fire, Fired, PollJob,
                    Polled, Event, vars, timers, JobEnds, JobWakes, JobPanics, JobAborts, AfterExpire
<1>7. CASE Pick
  BY <1>5, <1>7, PickQueues DEF Pick, timers, AfterExpire
<1> QED  BY <1>1, <1>2, <1>3, <1>4, <1>6, <1>7 DEF Next, Own, Stopped

LEMMA WakesOnceNext ==
  ASSUME TypeOK, PlacesOK, WakesOnce, [Next]_vars
  PROVE  WakesOnce'
<1>0. remote \in Seq(Jobs) /\ job \in [Jobs -> {"running", "listened", "waking", "ended", "lost"}]
      /\ left \in [Tasks -> Int]
  BY DEF TypeOK
<1>1. CASE Tick
  <2>1. ASSUME NEW t \in Jobs, job[t] # "ended"  PROVE left'[t] = 0
    <3>1. t \in Tasks /\ t \notin Sleepers /\ left[t] = 0 /\ ~ Contains(remote, t)
      BY <1>0, <2>1, Bounds, ContainsSet DEF WakesOnce
    <3> QED  BY <1>1, <3>1 DEF Tick
  <2> QED  BY <1>1, <2>1 DEF Tick, queues, WakesOnce
<1>2. CASE Drain
  <2>1. ToSet(remote') \subseteq ToSet(remote)
    BY <1>0, <1>2, TailSet DEF Drain
  <2> QED  BY <1>2, <2>1 DEF Drain, WakesOnce
<1>3. ASSUME NEW t \in Jobs, JobWakes(t)  PROVE WakesOnce'
  <2>1. ToSet(remote') = ToSet(remote) \cup {t} /\ \A x \in Jobs : job'[x] = IF x = t THEN "ended" ELSE job[x]
    BY <1>0, <1>3, AppendSet DEF JobWakes
  <2> QED  BY <1>3, <2>1 DEF JobWakes, WakesOnce
<1>4. CASE UNCHANGED <<left, remote>> /\ \A t \in Jobs : job[t] = "ended" => job'[t] = "ended"
  BY <1>4 DEF WakesOnce
<1>5. ASSUME NEW t \in Jobs, JobEnds(t) \/ JobPanics(t) \/ JobAborts(t)  PROVE WakesOnce'
  BY <1>0, <1>4, <1>5 DEF JobEnds, JobPanics, JobAborts, queues
<1>6. CASE PollJob
  BY <1>0, <1>4, <1>6 DEF PollJob, Heard
<1>7. CASE RootReturns \/ RootDrives \/ CycleEnds \/ React \/ WaitEnds \/ Drained \/ Expire \/ Fire \/ Fired
           \/ Pick \/ PollSleep \/ Event \/ UNCHANGED vars
  BY <1>4, <1>7 DEF RootReturns, RootDrives, CycleEnds, React, WaitEnds, Drained, Expire, Fire, Fired, Pick,
                    PollSleep, Event, vars, queues
<1> QED  BY <1>1, <1>2, <1>3, <1>5, <1>6, <1>7 DEF Next, Own, Stopped

LEMMA RemoteNext ==
  ASSUME TypeOK, PlacesOK, TypeOK', PlacesOK', WakesOnce, RemoteInTime, [Next]_vars
  PROVE  RemoteInTime'
<1>0. remote \in Seq(Jobs) /\ ToSet(remote) \subseteq Tasks
  BY TimeFacts, Bounds DEF TypeOK
<1>1. CASE Tick
  BY <1>0, <1>1, TickInTime DEF Tick, queues, RemoteInTime, AfterDrain
<1>2. CASE React
  BY <1>0, <1>2, WaitInTime DEF React, queues, RemoteInTime, AfterDrain
<1>3. CASE Drained
  <2>1. ToSet(remote') = {}
    BY <1>3, NoElements DEF Drained, queues
  <2> QED  BY <2>1 DEF RemoteInTime
<1>4. ASSUME NEW j \in Jobs, JobWakes(j)  PROVE RemoteInTime'
  <2>1. ToSet(remote') = ToSet(remote) \cup {j} /\ UNCHANGED <<at, left, busy, wait>>
    BY <1>0, <1>4, AppendSet DEF JobWakes
  <2>2. InTime(j, AfterDrain)'
    <3>1. j \in Tasks /\ left'[j] >= 0
      BY <1>4, <2>1, Bounds DEF JobWakes, WakesOnce
    <3> QED  BY <3>1, NotOverdue
  <2>3. \A t \in ToSet(remote) : InTime(t, AfterDrain)'
    BY <2>1 DEF RemoteInTime, InTime
  <2> QED  BY <2>1, <2>2, <2>3 DEF RemoteInTime
<1>5. CASE /\ ToSet(remote') \subseteq ToSet(remote) /\ UNCHANGED <<left, busy>>
           /\ at' \in AfterDrain => at \in AfterDrain
           /\ at' = "wait" => at = "wait" /\ wait' = wait
  BY <1>5, StillInTime DEF RemoteInTime, AfterDrain
<1>6. CASE Drain
  BY <1>0, <1>5, <1>6, TailSet DEF Drain, AfterDrain
<1>7. CASE RootReturns \/ RootDrives \/ CycleEnds \/ WaitEnds \/ Expire \/ Fire \/ Fired \/ PollSleep \/ PollJob
           \/ Event \/ UNCHANGED vars \/ \E t \in Jobs : JobEnds(t) \/ JobPanics(t) \/ JobAborts(t)
  BY <1>5, <1>7 DEF RootReturns, RootDrives, CycleEnds, AfterCycle, WaitEnds, Expire, Fire, Fired, PollSleep, PollJob,
                    Polled, Event, vars, queues, JobEnds, JobPanics, JobAborts, AfterDrain
<1>8. CASE Pick
  BY <1>5, <1>8, PickQueues DEF Pick, AfterDrain
<1> QED  BY <1>1, <1>2, <1>3, <1>4, <1>6, <1>7, <1>8 DEF Next, Own, Stopped

-----------------------------------------------------------------------------
(* Theorems *)

LEMMA RootAlways ==
  Spec => []RootInv
<1>1. Init => RootInv
  <2>1. ASSUME Init  PROVE RootInv
    <3>1. TypeOK /\ PlacesOK
      BY <2>1, TypesInit
    <3>2. /\ at = "root" /\ armed = {} /\ remote = <<>> /\ \A t \in Jobs : left[t] = 0
          /\ \A t \in Tasks : task[t] = "READY"
      BY <2>1, Bounds DEF Init
    <3>3. \A t \in Tasks : t \in ToSet(ready)
      <4>1. IsFiniteSet(Tasks) /\ ready \in SetToSeqs(Tasks)
        BY <2>1, Bounds DEF Init
      <4> QED  BY <4>1, EverySeq
    <3>4. ToSet(remote) = {}
      BY <3>2, NoElements
    <3> QED
      BY <3>1, <3>2, <3>3, <3>4
      DEF RootInv, GoalIsNoticed, Cycle, ReadyIsQueued, IdleIsEmpty, WakesOnce, ArmedInTime, RemoteInTime
  <2> QED  BY <2>1
<1>2. RootInv /\ [Next]_vars => RootInv'
  BY TypesNext, QueuesNext, GoalNext, WakesOnceNext, ArmedNext, RemoteNext DEF RootInv
<1> QED  BY <1>1, <1>2, PTL DEF Spec

(* All variables stay in the sets of the code's types, the timers that are *)
(* being fired are out of the map, and no list has a name it should not.   *)
THEOREM RootTypeCorrect ==
  Spec => []TypeOK
<1>1. RootInv => TypeOK
  BY DEF RootInv
<1> QED  BY <1>1, RootAlways, PTL

(* The thread enters the reactor only when it has looked for what it waits *)
(* for after the last poll that could have completed it, and when every    *)
(* task that is ready has been polled.                                     *)
THEOREM TheRootSleepsOverNothing ==
  Spec => []NothingIsSleptOver
<1>1. RootInv => NothingIsSleptOver
  <2>1. ASSUME RootInv, at = "wait"  PROVE task[goal] # "COMPLETE" /\ \A t \in Tasks : task[t] # "READY"
    <3>1. hot = NONE /\ ToSet(ready) = {}
      BY <2>1, NoElements DEF RootInv, IdleIsEmpty
    <3> QED  BY <2>1, <3>1, Bounds DEF RootInv, GoalIsNoticed, ReadyIsQueued
  <2> QED  BY <2>1 DEF NothingIsSleptOver
<1> QED  BY <1>1, RootAlways, PTL

(* No wake from another thread, and no timer, is left longer than the      *)
(* longest wait and the work on both sides of it.                          *)
THEOREM WakesAreAlwaysInTime ==
  Spec => []WakesAreSeenInTime
<1>1. RootInv => WakesAreSeenInTime
  <2>1. ASSUME RootInv, NEW t \in armed \cup ToSet(remote)  PROVE left[t] >= - Late
    <3>1. /\ left[t] \in Int /\ busy \in 0 .. MaxBusy /\ MaxBusy \in Nat /\ MaxWait \in Nat
      BY <2>1, TimeFacts, Bounds DEF RootInv
    <3>2. left[t] >= - (MaxBusy + MaxWait + busy)
      BY <2>1 DEF RootInv, ArmedInTime, RemoteInTime, InTime
    <3> QED  BY <3>1, <3>2 DEF Late
  <2> QED  BY <2>1 DEF WakesAreSeenInTime
<1> QED  BY <1>1, RootAlways, PTL

=============================================================================
