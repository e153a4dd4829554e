----------------------------- MODULE AsyncLock -----------------------------
(***************************************************************************)
(* The two async locks of the tokio shim, Mutex and RwLock: a word that is *)
(* changed by compare-and-exchange and a list of wakers behind a std       *)
(* mutex.  The word and the list are not changed together, so every atomic *)
(* operation is a step of its own.  `kind' says which lock it is; a locked *)
(* Mutex has the word of a write-locked RwLock.                            *)
(*                                                                         *)
(* `together' says that all users are tasks of one executor thread, where  *)
(* a poll or a drop runs to its end before the next; otherwise each runs   *)
(* on a thread of its own.                                                 *)
(***************************************************************************)
EXTENDS Integers, Sequences, FiniteSets

CONSTANTS
  Tasks,        \* the users of the lock
  WriteLocked,  \* the word of an exclusively held lock        (usize::MAX)
  Use,          \* for each kind, what its users do besides waiting
  MaxWaiters    \* bound: wakers in the list when a user adds a useless one

Kinds == {"mutex", "rwlock"}

Habits ==
  { "cancel",       \* drops a future that waits, as select! and timeout do
    "spurious" }    \* polls a future that waits for another wake than its own

ASSUME AsyncLockAssumption ==
  /\ IsFiniteSet(Tasks)
  /\ WriteLocked \in Nat
  /\ Cardinality(Tasks) < WriteLocked     \* fewer readers than usize counts
  /\ Use \in [Kinds -> SUBSET Habits]
  /\ MaxWaiters \in Nat

VARIABLES
  kind, together,   \* see above; they never change
  word,             \* `state', or `locked'
  waiters,          \* the list of wakers, each the task it wakes
  at,               \* where each task is in its use of the lock
  seen,             \* the word a reader loaded and will compare with
  woken             \* the tasks that were woken and not polled since

vars == <<kind, together, word, waiters, at, seen, woken>>

Words == 0 .. WriteLocked

(* A poll or a drop is under way, between two of its steps. *)
MidStep == {"load", "cas", "tryLoad", "tryCas",
            "refusedRead", "refusedWrite", "released"}
Parked  == {"waitRead", "waitWrite"}
Places  == {"out", "reading", "writing"} \cup MidStep \cup Parked

Readers == {t \in Tasks : at[t] = "reading"}
Writers == {t \in Tasks : at[t] = "writing"}

Listed == {waiters[i] : i \in DOMAIN waiters}

TypeOK ==
  /\ kind \in Kinds
  /\ together \in BOOLEAN
  /\ word \in Words
  /\ waiters \in Seq(Tasks)
  /\ at \in [Tasks -> Places]
  /\ seen \in [Tasks -> Words]
  /\ woken \in SUBSET Tasks

Init ==
  /\ kind \in Kinds
  /\ together \in BOOLEAN
  /\ word = 0
  /\ waiters = << >>
  /\ at = [t \in Tasks |-> "out"]
  /\ seen = [t \in Tasks |-> 0]
  /\ woken = {}

-----------------------------------------------------------------------------
(* Who may take a step *)

MyTurn(t) == together => \A u \in Tasks \ {t} : at[u] \notin MidStep

Does(habit) == habit \in Use[kind] /\ Len(waiters) < MaxWaiters

(* t's future is polled: for the first time, or again because t was woken, *)
(* or because something else woke t.                                       *)
Polled(t, parked) ==
  /\ MyTurn(t)
  /\ \/ at[t] = "out"
     \/ at[t] = parked /\ (t \in woken \/ Does("spurious"))
  /\ woken' = woken \ {t}

Goes(t, place) == at' = [at EXCEPT ![t] = place]

(* What the word allows, and what the atomic operations make of it.  Each  *)
(* definition marked "mutant" is a slip in the one that follows it.        *)
NoWriter(w)      == w # WriteLocked     \* mutant: a writer among readers
FreeForWriter(w) == w = 0

Fits(w)          == w \in Words         \* mutant: no test of WRITE_LOCKED
FreeForReader(w) == w # WriteLocked

Stores(t)        == FreeForReader(word) \* mutant: a store, not an exchange
CasSucceeds(t)   == word = seen[t]

NoReaderWas(old) == old = 0             \* mutant: fetch_sub's old value taken
LastReader(old)  == old = 1             \* for the new one

Decremented(w)   == IF w = 0 THEN WriteLocked ELSE w - 1    \* usize wraps

-----------------------------------------------------------------------------
(* Acquiring *)

(* MutexLockFuture and RwLockWriteFuture: one compare-exchange.  Also      *)
(* try_lock and try_write when they succeed; when they fail they change    *)
(* nothing.                                                                *)
PollExclusive(t) ==
  /\ Polled(t, "waitWrite")
  /\ IF FreeForWriter(word)
     THEN word' = WriteLocked /\ Goes(t, "writing")
     ELSE word' = word /\ Goes(t, "refusedWrite")
  /\ UNCHANGED <<kind, together, waiters, seen>>

(* RwLockReadFuture: a loop of load and compare-exchange. *)
PollShared(t) ==
  /\ kind = "rwlock"
  /\ Polled(t, "waitRead")
  /\ Goes(t, "load")
  /\ UNCHANGED <<kind, together, word, waiters, seen>>

TryRead(t) ==
  /\ kind = "rwlock"
  /\ MyTurn(t)
  /\ at[t] = "out"
  /\ Goes(t, "tryLoad")
  /\ UNCHANGED <<kind, together, word, waiters, seen, woken>>

LoadFree(t) ==
  /\ MyTurn(t)
  /\ at[t] \in {"load", "tryLoad"}
  /\ FreeForReader(word)
  /\ seen' = [seen EXCEPT ![t] = word]
  /\ Goes(t, IF at[t] = "load" THEN "cas" ELSE "tryCas")
  /\ UNCHANGED <<kind, together, word, waiters, woken>>

LoadWriteLocked(t) ==
  /\ MyTurn(t)
  /\ at[t] \in {"load", "tryLoad"}
  /\ ~FreeForReader(word)
  /\ Goes(t, IF at[t] = "load" THEN "refusedRead" ELSE "out")
  /\ UNCHANGED <<kind, together, word, waiters, seen, woken>>

CountIn(t) ==
  /\ MyTurn(t)
  /\ at[t] \in {"cas", "tryCas"}
  /\ IF CasSucceeds(t)
     THEN word' = seen[t] + 1 /\ Goes(t, "reading")
     ELSE word' = word /\ Goes(t, IF at[t] = "cas" THEN "load" ELSE "tryLoad")
  /\ UNCHANGED <<kind, together, waiters, seen, woken>>

(* The refused poll adds its waker, whatever happened since, and parks. *)
PushWaker(t) ==
  /\ MyTurn(t)
  /\ at[t] \in {"refusedRead", "refusedWrite"}
  /\ waiters' = Append(waiters, t)
  /\ Goes(t, IF at[t] = "refusedRead" THEN "waitRead" ELSE "waitWrite")
  /\ UNCHANGED <<kind, together, word, seen, woken>>

(* A future that waits is dropped.  It leaves its waker in the list, and a *)
(* wake it was given goes to nobody.                                       *)
DropFuture(t) ==
  /\ MyTurn(t)
  /\ at[t] \in Parked
  /\ Does("cancel")
  /\ Goes(t, "out")
  /\ UNCHANGED <<kind, together, word, waiters, seen, woken>>

-----------------------------------------------------------------------------
(* Releasing *)

DropShared(t) ==
  /\ MyTurn(t)
  /\ at[t] = "reading"
  /\ word' = Decremented(word)
  /\ Goes(t, IF LastReader(word) THEN "released" ELSE "out")
  /\ UNCHANGED <<kind, together, waiters, seen, woken>>

DropExclusive(t) ==
  /\ MyTurn(t)
  /\ at[t] = "writing"
  /\ word' = 0
  /\ Goes(t, "released")
  /\ UNCHANGED <<kind, together, waiters, seen, woken>>

(* Mutex::unlock wakes the waker that was pushed last. *)
WakeLast(t) ==
  /\ kind = "mutex"
  /\ MyTurn(t)
  /\ at[t] = "released"
  /\ waiters # << >>
  /\ woken' = woken \cup {waiters[Len(waiters)]}
  /\ waiters' = SubSeq(waiters, 1, Len(waiters) - 1)
  /\ Goes(t, "out")
  /\ UNCHANGED <<kind, together, word, seen>>

(* RwLock::wake_waiters wakes everybody, and so does unlock with no waker. *)
WakeAll(t) ==
  /\ kind = "rwlock" \/ waiters = << >>
  /\ MyTurn(t)
  /\ at[t] = "released"
  /\ woken' = woken \cup Listed
  /\ waiters' = << >>
  /\ Goes(t, "out")
  /\ UNCHANGED <<kind, together, word, seen>>

-----------------------------------------------------------------------------
Next ==
  \E t \in Tasks :
    \/ PollExclusive(t)
    \/ PollShared(t)
    \/ TryRead(t)
    \/ LoadFree(t)
    \/ LoadWriteLocked(t)
    \/ CountIn(t)
    \/ PushWaker(t)
    \/ DropFuture(t)
    \/ DropShared(t)
    \/ DropExclusive(t)
    \/ WakeLast(t)
    \/ WakeAll(t)

Spec == Init /\ [][Next]_vars

-----------------------------------------------------------------------------
(* Properties *)

(* The word says exactly who holds a guard, between any two steps of any   *)
(* users: it is the number of readers, or WRITE_LOCKED for one writer and  *)
(* no reader.  What the load-and-compare-exchange loop of a reader, the    *)
(* writer's exchange from 0, fetch_sub and store keep up together.         *)
WordCountsGuards ==
  \/ Writers = {} /\ word = Cardinality(Readers)
  \/ Readers = {} /\ Cardinality(Writers) = 1 /\ word = WriteLocked

CouldEnter(t) ==
  \/ at[t] = "waitRead"  /\ word # WriteLocked
  \/ at[t] = "waitWrite" /\ word = 0

WakeUnderWay ==
  \/ \E u \in Tasks : at[u] = "released"
  \/ kind = "mutex" /\ \E u \in woken : at[u] \in Parked

(* On one thread a user does not sleep in front of a lock it could take:   *)
(* a wake is under way or given, to every waiter of an RwLock, to some     *)
(* waiter of a Mutex.  Relies on unlock storing the word before it looks   *)
(* at the list, and on a refused poll adding its waker each time.          *)
NobodyForgotten ==
  together => \A t \in Tasks : CouldEnter(t) => t \in woken \/ WakeUnderWay

(* Readers and writers enter and leave as SharedLock allows. *)
Shared == INSTANCE SharedLock WITH readers <- Readers, writers <- Writers
ImplementsSharedLock == Shared!Spec

=============================================================================
