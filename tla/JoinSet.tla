------------------------------ MODULE JoinSet -------------------------------
(***************************************************************************)
(* The shim's JoinSet over tasks of the executor, and spawn_blocking,      *)
(* whose task waits for a thread.  Of the executor only what the set sees  *)
(* is here: a task runs, has a result that nobody took, or is gone, and    *)
(* holds the waker of whoever awaits it; aborting it drops what it has and *)
(* that waker with it.  (The executor itself is the module Executor.)      *)
(***************************************************************************)
EXTENDS Naturals, Sequences, SequencesExt

CONSTANTS
  Members,       \* the tasks that are spawned
  Blocking       \* those spawned with spawn_blocking

JoinSetAssumption == Blocking \subseteq Members

VARIABLE set

JoinSetType ==
  [ handles   : Seq(Members),
    task      : [Members -> {"none", "running", "complete", "gone"}],
    awaited   : SUBSET Members,     \* join wakers, all of the set's owner
    thread    : [Members -> {"none", "running", "stored"}],
    listens   : SUBSET Members,     \* tasks whose waker the thread will find
    ready     : SUBSET Members,     \* blocking tasks that will be polled
    owner     : {"idle", "parked", "dropped"},
    woken     : BOOLEAN,
    joined    : [Members -> {"no", "ok", "err"}],  \* what join_next returned
    killed    : SUBSET Members,     \* aborted before they had a result
    wiped     : SUBSET Members,     \* ... and after (history)
    detached  : SUBSET Members ]

TypeOK == set \in JoinSetType

Init ==
  set = [ handles |-> << >>, task |-> [t \in Members |-> "none"], awaited |-> {},
          thread |-> [t \in Members |-> "none"], listens |-> {}, ready |-> {},
          owner |-> "idle", woken |-> FALSE, joined |-> [t \in Members |-> "no"],
          killed |-> {}, wiped |-> {}, detached |-> {} ]

-----------------------------------------------------------------------------
(* The tasks *)

Spawned(t) == [set EXCEPT !.task[t] = "running", !.handles = Append(@, t)]

Spawn(t) ==
  /\ set.owner = "idle" /\ set.task[t] = "none" /\ t \notin Blocking
  /\ set' = Spawned(t)

(* The thread starts before the task that waits for it.  (spawn_blocking   *)
(* gives a JoinHandle; here it is put into the set like the others.)       *)
SpawnBlocking(t) ==
  /\ set.owner = "idle" /\ set.task[t] = "none" /\ t \in Blocking
  /\ set' = [Spawned(t) EXCEPT !.thread[t] = "running", !.ready = @ \cup {t}]

ThreadDone(t) ==
  /\ set.thread[t] = "running"
  /\ set' = [set EXCEPT !.thread[t] = "stored", !.listens = @ \ {t},
                        !.ready = IF t \in set.listens THEN @ \cup {t} ELSE @]

Complete(s, t) ==
  [s EXCEPT !.task[t] = "complete", !.woken = @ \/ t \in s.awaited, !.awaited = @ \ {t}]

TaskDone(t) ==
  /\ set.task[t] = "running" /\ t \notin Blocking
  /\ set' = Complete(set, t)

(* A poll of SpawnBlockingFuture. *)
PollBlocking(t) ==
  /\ set.task[t] = "running" /\ t \in set.ready
  /\ LET s == [set EXCEPT !.ready = @ \ {t}] IN
     set' = IF set.thread[t] = "stored" THEN Complete(s, t)
            ELSE [s EXCEPT !.listens = @ \cup {t}]

(* cancel_task, for each of some tasks; of a complete one it drops the     *)
(* result.  Whoever awaits a task is not told.                             *)
Kill(s, ts) ==
  LET ran == {t \in ts : s.task[t] = "running"}
      had == {t \in ts : s.task[t] = "complete"}
  IN  [s EXCEPT !.task = [t \in Members |-> IF t \in ran \cup had THEN "gone" ELSE @[t]],
                !.awaited = @ \ (ran \cup had), !.ready = @ \ (ran \cup had),
                !.killed = @ \cup ran, !.wiped = @ \cup had]

-----------------------------------------------------------------------------
(* The set *)

Finished(t) == set.task[t] \in {"complete", "gone"}

RemoveLast(seq, i) == Front(seq)     \* mutant: forgets to swap

SwapRemove(seq, i) ==
  IF i = Len(seq) THEN Front(seq) ELSE [Front(seq) EXCEPT ![i] = Last(seq)]

(* The poll of JoinNextFuture: the handles are asked in turn, each one     *)
(* that is not finished keeps the waker, the first finished one is taken.  *)
JoinNext ==
  /\ set.owner = "idle" \/ (set.owner = "parked" /\ set.woken)
  /\ set.handles # << >>
  /\ LET done == {i \in DOMAIN set.handles : Finished(set.handles[i])}
         asked(n) == {set.handles[i] : i \in 1 .. n}
         s == [set EXCEPT !.woken = FALSE]
     IN  IF done = {}
         THEN set' = [s EXCEPT !.owner = "parked", !.awaited = @ \cup asked(Len(set.handles))]
         ELSE LET i == CHOOSE i \in done : \A j \in done : i <= j
                  t == set.handles[i]
              IN  set' = [s EXCEPT
                            !.owner = "idle",
                            !.awaited = @ \cup asked(i - 1),
                            !.handles = SwapRemove(@, i),
                            !.task[t] = "gone",
                            !.joined[t] = IF set.task[t] = "complete" THEN "ok" ELSE "err"]

(* A waiting join_next is dropped; its wakers stay with the tasks. *)
Cancel ==
  /\ set.owner = "parked"
  /\ set' = [set EXCEPT !.owner = "idle"]

AbortAll ==
  /\ set.owner = "idle"
  /\ set' = Kill(set, Range(set.handles))

(* AbortHandle::abort, by anyone *)
Abort(t) ==
  /\ t \in Range(set.handles)
  /\ set' = Kill(set, {t})

(* The handles are dropped: tasks run on, results that are there are lost. *)
Detached(s) ==
  [s EXCEPT !.handles = << >>, !.detached = @ \cup Range(s.handles),
            !.task = [t \in Members |->
                        IF t \in Range(s.handles) /\ @[t] = "complete" THEN "gone" ELSE @[t]]]

DetachAll ==
  /\ set.owner = "idle"
  /\ set' = Detached(set)

(* abort_all, then join_next until there is none; nothing in it waits. *)
Shutdown ==
  /\ set.owner = "idle"
  /\ set' = [Kill(set, Range(set.handles)) EXCEPT
               !.handles = << >>,
               !.joined = [t \in Members |-> IF t \in Range(set.handles) THEN "err" ELSE @[t]]]

Drop ==
  /\ set.owner = "idle"
  /\ set' = [Kill(set, Range(set.handles)) EXCEPT !.handles = << >>, !.owner = "dropped"]

Next ==
  \/ \E t \in Members : \/ Spawn(t) \/ SpawnBlocking(t) \/ ThreadDone(t)
                        \/ TaskDone(t) \/ PollBlocking(t) \/ Abort(t)
  \/ JoinNext \/ Cancel \/ AbortAll \/ DetachAll \/ Shutdown \/ Drop

Spec == Init /\ [][Next]_set

-----------------------------------------------------------------------------
(* Every task that was spawned is in the set, or was joined, or detached;  *)
(* it is joined once, with its result unless it was aborted, before or     *)
(* after it had one; and a set that is dropped leaves none of its tasks    *)
(* running.                                                                *)
EachIsJoinedOnce ==
  /\ IsInjective(set.handles)
  /\ \A t \in Members :
       /\ t \in Range(set.handles) => set.joined[t] = "no" /\ set.task[t] # "none"
       /\ set.joined[t] = "err" => t \in set.killed \cup set.wiped
       /\ set.joined[t] = "ok" => t \notin set.killed \cup set.wiped /\ set.task[t] = "gone"
       /\ set.task[t] # "none" /\ set.owner # "dropped" =>
            t \in Range(set.handles) \/ set.joined[t] # "no" \/ t \in set.detached
       /\ set.owner = "dropped" /\ set.task[t] = "running" => t \in set.detached

(* "If the task has already completed, this is a no-op" (abort): who has a *)
(* result is joined with it.  It is not so.                                *)
ResultsOutliveAborts == \A t \in Members : set.joined[t] = "err" => t \in set.killed

WillWake(t) == set.task[t] = "running" /\ t \in set.awaited

(* While join_next waits, every task of the set runs and will wake it, or  *)
(* was aborted meanwhile; and a task that waits for its thread will be     *)
(* polled when that is done.                                               *)
JoinNextIsWoken ==
  /\ set.owner = "parked" /\ ~set.woken =>
       \A t \in Range(set.handles) : WillWake(t) \/ t \in set.killed
  /\ \A t \in Blocking : set.task[t] = "running" =>
       t \in set.ready \/ (t \in set.listens /\ set.thread[t] = "running")

(* While join_next waits there is a task that will wake it.  It is not so: *)
(* all of them may have been aborted meanwhile, and it waits for ever.     *)
JoinNextHearsAborts ==
  set.owner = "parked" /\ ~set.woken => \E t \in Range(set.handles) : WillWake(t)

=============================================================================
