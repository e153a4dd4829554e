------------------------------- MODULE Timing -------------------------------
(***************************************************************************)
(* One task that waits with the shim's time functions: sleep, timeout,     *)
(* interval, and select! between a value and a sleep.  The clock, the      *)
(* value's completion (from any thread) and other wakes of the task come   *)
(* at any time; the executor's table of timers holds at most one entry,    *)
(* the one this task's SleepFuture registered.  A select! does not park:   *)
(* it spins inside its poll with a waker that does nothing.  A deadline    *)
(* that is passed on as a duration is counted from a later reading of the  *)
(* clock; readings within a step are bound by MaxClock alone.              *)
(***************************************************************************)
EXTENDS Naturals

CONSTANTS
  Period,      \* how long a sleep, a timeout or an interval's period lasts
  MaxClock     \* bound: the clock stops here

TimingAssumption == Period \in Nat \ {0} /\ MaxClock \in Nat

VARIABLE tmr

None == 2 * MaxClock + Period + 1     \* no entry in the table of timers

TimingType ==
  [ what     : {"sleep", "timeout", "interval", "select"},
    now      : 0 .. MaxClock,
    target   : 0 .. MaxClock + Period,    \* Sleep::deadline
    deadline : 0 .. MaxClock + Period,    \* SleepFuture::deadline
    entry    : 0 .. None,         \* the deadline in TimerEntry
    stale    : BOOLEAN,           \* reset while its task was parked (history)
    value    : BOOLEAN,           \* the awaited value is there
    listens  : BOOLEAN,           \* ... or whoever makes it has our waker
    at       : {"queued", "value", "delay", "parked", "done"},
    woken    : BOOLEAN,           \* woken while it is being polled
    result   : {"none", "ok", "elapsed"},
    ended    : 0 .. MaxClock,     \* when it got its result (history)
    ticks    : SUBSET (0 .. MaxClock) ]       \* an interval's ticks (history)

TypeOK == tmr \in TimingType

Init ==
  \E kind \in {"sleep", "timeout", "interval", "select"}, later \in 0 .. MaxClock :
    tmr = [ what |-> kind, now |-> later, target |-> Period, deadline |-> later + Period,
            entry |-> None, stale |-> FALSE, value |-> FALSE, listens |-> FALSE, at |-> "queued", woken |-> FALSE,
            result |-> "none", ended |-> 0, ticks |-> {} ]

-----------------------------------------------------------------------------
Clock ==
  /\ tmr.now < MaxClock
  /\ tmr' = [tmr EXCEPT !.now = @ + 1]

(* A wake queues the task, or is remembered while the task is polled. *)
Woken(t) ==
  IF t.at = "parked" THEN [t EXCEPT !.at = "queued"] ELSE [t EXCEPT !.woken = TRUE]

(* Something else the task waits for wakes it. *)
OtherWake == tmr.at = "parked" /\ tmr' = Woken(tmr)

ValueReady ==
  /\ tmr.what \in {"timeout", "select"} /\ ~tmr.value
  /\ LET t == [tmr EXCEPT !.value = TRUE, !.listens = FALSE] IN
     tmr' = IF tmr.listens /\ tmr.at # "done" THEN Woken(t) ELSE t

(* Fired by the executor between polls, or by the drive() of a select!,    *)
(* whose waker wakes nobody.                                               *)
Fire ==
  /\ tmr.entry <= tmr.now /\ tmr.at \in {"queued", "parked"}
  /\ LET t == [tmr EXCEPT !.entry = None] IN
     tmr' = IF tmr.at = "parked" THEN Woken(t) ELSE t

StartPoll ==
  /\ tmr.at = "queued"
  /\ tmr' = [tmr EXCEPT !.woken = FALSE,
                        !.at = IF tmr.what \in {"timeout", "select"} THEN "value" ELSE "delay"]

(* The future is dropped with its SleepFuture, which cancels its timer. *)
Finish(how) == [tmr EXCEPT !.at = "done", !.result = how, !.ended = tmr.now, !.entry = None]

PollValue ==
  /\ tmr.at = "value"
  /\ tmr' = IF tmr.value THEN Finish("ok")
            ELSE [tmr EXCEPT !.at = "delay", !.listens = (tmr.what = "timeout")]

NextAt == IF tmr.woken \/ tmr.what = "select" THEN "queued" ELSE "parked"

Unarmed == tmr' = [tmr EXCEPT !.at = NextAt]    \* mutant: no timer is set

Until(deadline, now) == IF deadline > now THEN deadline - now ELSE 0

(* timer_register: an entry that is still there stays, or one is inserted, *)
(* for the time that was left at one reading, counted from the next.       *)
Pending ==
  \E now \in tmr.now .. MaxClock : \E later \in now .. MaxClock :
    tmr' = [tmr EXCEPT
              !.entry = IF @ = None THEN later + Until(tmr.deadline, now) ELSE @,
              !.now = later, !.at = NextAt, !.stale = FALSE]

ElapsedEarly == tmr.now + 1 >= tmr.deadline       \* mutant: off by one

Elapsed == tmr.now >= tmr.deadline

(* A new SleepFuture, of the time to the target; the old one is dropped,   *)
(* and cancels its timer.                                                  *)
Renewed(t, target, now, later) ==
  [t EXCEPT !.target = target, !.deadline = later + Until(target, now),
            !.entry = None, !.now = later]

(* Every period counts from the last tick: sleep(period) after it. *)
Tick ==
  \E now \in tmr.now .. MaxClock : \E next \in now .. MaxClock : \E later \in next .. MaxClock :
    tmr' = [Renewed(tmr, next + Period, next, later) EXCEPT
              !.ticks = @ \cup {now}, !.at = "queued"]

PollDelay ==
  /\ tmr.at = "delay"
  /\ IF ~Elapsed THEN Pending
     ELSE IF tmr.what = "interval" THEN Tick ELSE tmr' = Finish("elapsed")

(* Sleep::reset, to any deadline, and Interval::reset, between two polls.  *)
(* A task that is parked stays so; a sleep that is over is awaited again.  *)
Reset ==
  /\ tmr.what \in {"sleep", "interval"} /\ tmr.at \in {"queued", "parked", "done"}
  /\ \E now \in tmr.now .. MaxClock : \E later \in now .. MaxClock :
     \E target \in IF tmr.what = "interval" THEN {now + Period} ELSE 0 .. now + Period :
       tmr' = [Renewed(tmr, target, now, later) EXCEPT
                 !.at = IF @ = "done" THEN "queued" ELSE @, !.result = "none",
                 !.stale = (tmr.at = "parked")]

Next == \/ Clock \/ OtherWake \/ ValueReady \/ Fire
        \/ StartPoll \/ PollValue \/ PollDelay \/ Reset

Spec == Init /\ [][Next]_tmr

-----------------------------------------------------------------------------
Armed ==
  /\ tmr.entry \in tmr.deadline .. tmr.now + Period
  /\ tmr.what = "timeout" => ~tmr.value /\ tmr.listens

(* A wait that is parked will be woken: its timer is in the table, for no  *)
(* earlier than its deadline and no more than a period from now; and       *)
(* whoever makes the value it waits for has its waker.  But for a wait     *)
(* that was reset while its task was parked: its timer went with it.       *)
ParkedIsArmed == tmr.at = "parked" => Armed \/ tmr.stale

(* "Resets the sleep to a new deadline" (Sleep::reset): it ends then.  It  *)
(* is not so if the task that awaits it is parked.                         *)
ResetIsArmed == tmr.at = "parked" => Armed

(* Nothing elapses before its deadline, a timeout gives the value only if  *)
(* it is there, and two ticks of an interval are a period apart even when  *)
(* the task was late for the first.                                        *)
NothingIsEarly ==
  /\ tmr.result = "elapsed" => tmr.ended >= tmr.target
  /\ tmr.result = "ok" => tmr.value
  /\ \A m, n \in tmr.ticks : m < n => m + Period <= n

=============================================================================
