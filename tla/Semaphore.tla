----------------------------- MODULE Semaphore ------------------------------
(***************************************************************************)
(* The shim's semaphore.  acquire does not wait for a waker: inside its    *)
(* poll it drives the executor and tries again, so a task that finds no    *)
(* permit runs the other tasks from within its own poll.  Those tasks run  *)
(* on top of it: `stack' holds the polls under way, the running one last,  *)
(* and a poll goes on only when the ones above it have ended.  close()     *)
(* changes nothing: it wakes waiters, of which there never are any.        *)
(***************************************************************************)
EXTENDS Naturals, Sequences, SequencesExt, FiniteSets

CONSTANTS
  Users,       \* tasks of one executor
  Permits,     \* permits at the start
  Wants,       \* how many permits each user asks for at a time
  MaxAdded     \* bound: permits added

SemaphoreAssumption ==
  IsFiniteSet(Users) /\ Permits \in Nat /\ Wants \in [Users -> Nat \ {0}] /\ MaxAdded \in Nat

VARIABLE sem

SemaphoreType ==
  [ available : Nat,
    stack : Seq(Users),             \* inside acquire, spinning
    holds : [Users -> Nat],         \* in SemaphorePermits
    added : 0 .. MaxAdded ]

TypeOK == sem \in SemaphoreType

Init ==
  sem = [ available |-> Permits, stack |-> << >>,
          holds |-> [u \in Users |-> 0], added |-> 0 ]

Spinning(u) == u \in Range(sem.stack)
AnyLeft(u)  == sem.available > 0      \* mutant: acquire_many takes what there is
Enough(u)   == sem.available >= Wants[u]

Take(s, u) == [s EXCEPT !.available = @ - Wants[u], !.holds[u] = Wants[u]]

(* acquire and its variants are polled, by the executor or by the drive of *)
(* the poll that spins on top of the stack.                                *)
Acquire(u) ==
  /\ sem.holds[u] = 0 /\ ~Spinning(u)
  /\ sem' = IF Enough(u) THEN Take(sem, u) ELSE [sem EXCEPT !.stack = Append(@, u)]

(* drive() came back; the loop looks again. *)
Retry ==
  /\ sem.stack # << >> /\ Enough(Last(sem.stack))
  /\ sem' = Take([sem EXCEPT !.stack = Front(@)], Last(sem.stack))

TryAcquire(u) ==
  /\ sem.holds[u] = 0 /\ ~Spinning(u) /\ Enough(u)
  /\ sem' = Take(sem, u)

(* A permit is dropped, by a task that is not itself inside acquire. *)
Release(u) ==
  /\ sem.holds[u] > 0 /\ ~Spinning(u)
  /\ sem' = [sem EXCEPT !.available = @ + sem.holds[u], !.holds[u] = 0]

AddPermits ==
  /\ sem.added < MaxAdded
  /\ sem' = [sem EXCEPT !.available = @ + 1, !.added = @ + 1]

Next ==
  \/ \E u \in Users : Acquire(u) \/ TryAcquire(u) \/ Release(u)
  \/ Retry \/ AddPermits

Spec == Init /\ [][Next]_sem

-----------------------------------------------------------------------------
(* Permits are neither lost nor invented, whatever spins below whatever:   *)
(* those held and those available are those there ever were.               *)
PermitsConserved ==
  sem.available + SumFunction(sem.holds) = Permits + sem.added

=============================================================================
