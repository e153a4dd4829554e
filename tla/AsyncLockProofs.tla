-------------------------- MODULE AsyncLockProofs --------------------------
(* Theorems about the async locks, for any number of users: the word is    *)
(* exact, the locks implement SharedLock, and on one thread nobody sleeps  *)
(* in front of a lock it could take.                                       *)
EXTENDS AsyncLock, FiniteSetTheorems, SequenceTheorems, TLAPS

-----------------------------------------------------------------------------
(* What the steps do to the places, the guards and the list                *)

\* A step that moves one task moves no other.
LEMMA Moves ==
  ASSUME TypeOK, NEW t \in Tasks, NEW place \in Places, Goes(t, place)
  PROVE  /\ at' \in [Tasks -> Places]
         /\ at'[t] = place
         /\ \A u \in Tasks \ {t} : at'[u] = at[u]
BY DEF TypeOK, Goes

\* Who holds a guard after a move.
LEMMA HoldersAfter ==
  ASSUME TypeOK, NEW t \in Tasks, NEW place \in Places, Goes(t, place)
  PROVE  /\ Readers' = IF place = "reading" THEN Readers \cup {t} ELSE Readers \ {t}
         /\ Writers' = IF place = "writing" THEN Writers \cup {t} ELSE Writers \ {t}
BY Moves DEF Readers, Writers

LEMMA ListPush ==
  ASSUME TypeOK, NEW t \in Tasks, waiters' = Append(waiters, t)
  PROVE  /\ waiters' \in Seq(Tasks)
         /\ Len(waiters) \in Nat
         /\ Len(waiters') = Len(waiters) + 1
         /\ \A i \in 1 .. Len(waiters) : waiters'[i] = waiters[i]
         /\ waiters'[Len(waiters) + 1] = t
         /\ Listed' = Listed \cup {t}
<1>1. /\ waiters \in Seq(Tasks) /\ Len(waiters) \in Nat
      /\ DOMAIN waiters = 1 .. Len(waiters)
  BY LenProperties DEF TypeOK
<1>2. /\ waiters' \in Seq(Tasks)
      /\ Len(waiters') = Len(waiters) + 1
      /\ DOMAIN waiters' = 1 .. Len(waiters) + 1
      /\ \A i \in 1 .. Len(waiters) : waiters'[i] = waiters[i]
      /\ waiters'[Len(waiters) + 1] = t
  BY <1>1, AppendProperties, LenProperties
<1> QED  BY <1>1, <1>2 DEF Listed

LEMMA ListPop ==
  ASSUME TypeOK, waiters # << >>,
         waiters' = SubSeq(waiters, 1, Len(waiters) - 1)
  PROVE  /\ waiters' \in Seq(Tasks)
         /\ Len(waiters) \in Nat \ {0}
         /\ Len(waiters') = Len(waiters) - 1
         /\ \A i \in 1 .. Len(waiters) - 1 : waiters'[i] = waiters[i]
         /\ waiters[Len(waiters)] \in Listed
         /\ Listed = Listed' \cup {waiters[Len(waiters)]}
<1>1. /\ waiters \in Seq(Tasks) /\ Len(waiters) \in Nat \ {0}
      /\ DOMAIN waiters = 1 .. Len(waiters)
      /\ \A i \in 1 .. Len(waiters) : waiters[i] \in Tasks
  BY LenProperties, EmptySeq DEF TypeOK
<1>2. /\ waiters' \in Seq(Tasks)
      /\ Len(waiters') = Len(waiters) - 1
      /\ \A i \in 1 .. Len(waiters) - 1 : waiters'[i] = waiters[i]
  BY <1>1, SubSeqProperties
<1>3. DOMAIN waiters' = 1 .. Len(waiters) - 1
  BY <1>2, LenProperties
<1>4. Listed = {waiters[i] : i \in 1 .. Len(waiters)}
  BY <1>1 DEF Listed
<1>5. Listed' = {waiters[i] : i \in 1 .. Len(waiters) - 1}
  BY <1>2, <1>3 DEF Listed
<1>6. 1 .. Len(waiters) = (1 .. Len(waiters) - 1) \cup {Len(waiters)}
  BY <1>1
<1> QED  BY <1>1, <1>2, <1>4, <1>5, <1>6

LEMMA ListedAreTasks ==
  ASSUME TypeOK
  PROVE  Listed \subseteq Tasks /\ (waiters = << >> => Listed = {})
BY LenProperties DEF TypeOK, Listed

-----------------------------------------------------------------------------
(* The word and the guards                                                 *)

\* A reader never goes to its compare-exchange with WRITE_LOCKED loaded.
SeenFree == \A t \in Tasks : at[t] \in {"cas", "tryCas"} => seen[t] # WriteLocked

WordInv == TypeOK /\ SeenFree /\ WordCountsGuards

LEMMA WordInit == Init => WordInv
<1> SUFFICES ASSUME Init PROVE WordInv
  OBVIOUS
<1>1. TypeOK
  BY AsyncLockAssumption, EmptySeq DEF Init, TypeOK, Places, Words
<1>2. SeenFree /\ Readers = {} /\ Writers = {} /\ word = 0
  BY DEF Init, SeenFree, Readers, Writers
<1> QED  BY <1>1, <1>2, FS_EmptySet DEF WordInv, WordCountsGuards

\* The sets of holders are finite, and a free word means there are none.
LEMMA Holders ==
  ASSUME WordInv
  PROVE  /\ IsFiniteSet(Readers) /\ Cardinality(Readers) \in Nat
         /\ Cardinality(Readers) < WriteLocked
         /\ WriteLocked \in Nat \ {0}
         /\ FreeForWriter(word) => Readers = {} /\ Writers = {}
         /\ FreeForReader(word) => Writers = {} /\ word = Cardinality(Readers)
         /\ Writers # {} => Readers = {} /\ \E u : Writers = {u}
<1>1. Readers \in SUBSET Tasks /\ Writers \in SUBSET Tasks
  BY DEF Readers, Writers
<1>2. /\ IsFiniteSet(Readers) /\ IsFiniteSet(Writers)
      /\ Cardinality(Readers) \in Nat /\ Cardinality(Tasks) \in Nat
      /\ Cardinality(Readers) <= Cardinality(Tasks)
  BY <1>1, FS_Subset, FS_CardinalityType, AsyncLockAssumption
<1>3. WriteLocked \in Nat \ {0} /\ Cardinality(Readers) < WriteLocked
  BY <1>2, AsyncLockAssumption
<1>4. /\ Cardinality(Readers) = 0 => Readers = {}
      /\ Cardinality(Writers) = 1 => \E u : Writers = {u}
  BY <1>2, FS_EmptySet, FS_Singleton
<1> QED  BY <1>2, <1>3, <1>4 DEF WordInv, WordCountsGuards, FreeForWriter, FreeForReader

\* Nobody who holds a guard moves, and nobody comes to hold one.
LEMMA WordUntouched ==
  ASSUME WordInv, NEW t \in Tasks, NEW place \in Places \ {"reading", "writing"},
         Goes(t, place), at[t] \notin {"reading", "writing"}, word' = word
  PROVE  WordCountsGuards'
<1>1. Readers' = Readers /\ Writers' = Writers
  BY HoldersAfter DEF WordInv, Readers, Writers
<1> QED  BY <1>1 DEF WordInv, WordCountsGuards

LEMMA WordNext ==
  ASSUME WordInv, [Next]_vars
  PROVE  WordInv'
<1>0. /\ TypeOK /\ SeenFree /\ WordCountsGuards
      /\ WriteLocked \in Nat /\ WriteLocked # 0
  BY Holders DEF WordInv
<1>1. ASSUME NEW t \in Tasks, PollExclusive(t)  PROVE WordInv'
  <2>1. CASE FreeForWriter(word)
    <3>1. word' = WriteLocked /\ Goes(t, "writing") /\ UNCHANGED <<kind, together, waiters, seen>>
          /\ woken' = woken \ {t}
      BY <1>1, <2>1 DEF PollExclusive, Polled
    <3>2. TypeOK' /\ SeenFree'
      BY <1>0, <3>1, Moves DEF TypeOK, SeenFree, Places, Words
    <3>3. Readers' = {} /\ Writers' = {t}
      BY <1>0, <2>1, <3>1, Holders, HoldersAfter DEF Places
    <3> QED  BY <3>1, <3>2, <3>3, FS_Singleton DEF WordInv, WordCountsGuards
  <2>2. CASE ~ FreeForWriter(word)
    <3>1. /\ word' = word /\ Goes(t, "refusedWrite")
          /\ UNCHANGED <<kind, together, waiters, seen>>
          /\ woken' = woken \ {t} /\ at[t] \in {"out", "waitWrite"}
      BY <1>1, <2>2 DEF PollExclusive, Polled
    <3>2. TypeOK' /\ SeenFree'
      BY <1>0, <3>1, Moves DEF TypeOK, SeenFree, Places, MidStep
    <3>3. WordCountsGuards'
      BY <3>1, WordUntouched DEF Places, MidStep
    <3> QED  BY <3>2, <3>3 DEF WordInv
  <2> QED  BY <2>1, <2>2
<1>2. ASSUME NEW t \in Tasks, PollShared(t) \/ TryRead(t)  PROVE WordInv'
  <2>1. PICK place \in {"load", "tryLoad"} : Goes(t, place)
    BY <1>2 DEF PollShared, TryRead
  <2>2. /\ UNCHANGED <<kind, together, word, waiters, seen>>
        /\ woken' \in {woken, woken \ {t}} /\ at[t] \in {"out", "waitRead"}
    BY <1>2 DEF PollShared, TryRead, Polled
  <2>3. place \in Places \ {"reading", "writing"}
    BY <2>1 DEF Places, MidStep
  <2>4. TypeOK' /\ SeenFree'
    BY <1>0, <2>1, <2>2, <2>3, Moves DEF TypeOK, SeenFree
  <2> QED  BY <2>1, <2>2, <2>3, <2>4, WordUntouched DEF WordInv
<1>3. ASSUME NEW t \in Tasks, LoadFree(t)  PROVE WordInv'
  <2>1. PICK place \in {"cas", "tryCas"} : Goes(t, place)
    BY <1>3 DEF LoadFree
  <2>2. /\ UNCHANGED <<kind, together, word, waiters, woken>>
        /\ seen' = [seen EXCEPT ![t] = word] /\ word # WriteLocked
        /\ at[t] \in {"load", "tryLoad"}
    BY <1>3 DEF LoadFree, FreeForReader
  <2>3. place \in Places \ {"reading", "writing"}
    BY <2>1 DEF Places, MidStep
  <2>4. TypeOK' /\ SeenFree'
    BY <1>0, <2>1, <2>2, <2>3, Moves DEF TypeOK, SeenFree
  <2> QED  BY <2>1, <2>2, <2>3, <2>4, WordUntouched DEF WordInv
<1>4. ASSUME NEW t \in Tasks, LoadWriteLocked(t)  PROVE WordInv'
  <2>1. PICK place \in {"refusedRead", "out"} : Goes(t, place)
    BY <1>4 DEF LoadWriteLocked
  <2>2. /\ UNCHANGED <<kind, together, word, waiters, seen, woken>>
        /\ at[t] \in {"load", "tryLoad"}
    BY <1>4 DEF LoadWriteLocked
  <2>3. place \in Places \ {"reading", "writing"}
    BY <2>1 DEF Places, MidStep
  <2>4. TypeOK' /\ SeenFree'
    BY <1>0, <2>1, <2>2, <2>3, Moves DEF TypeOK, SeenFree
  <2> QED  BY <2>1, <2>2, <2>3, <2>4, WordUntouched DEF WordInv
<1>5. ASSUME NEW t \in Tasks, CountIn(t)  PROVE WordInv'
  <2>1. CASE CasSucceeds(t)
    <3>1. /\ word' = word + 1 /\ word # WriteLocked /\ Goes(t, "reading")
          /\ UNCHANGED <<kind, together, waiters, seen, woken>>
          /\ at[t] \in {"cas", "tryCas"}
      BY <1>0, <1>5, <2>1 DEF CountIn, CasSucceeds, SeenFree
    <3>2. TypeOK' /\ SeenFree'
      BY <1>0, <3>1, Moves DEF TypeOK, SeenFree, Places, Words
    <3>3. Writers = {} /\ word = Cardinality(Readers) /\ IsFiniteSet(Readers) /\ t \notin Readers
      BY <3>1, Holders DEF FreeForReader, Readers
    <3>4. Readers' = Readers \cup {t} /\ Writers' = {}
      BY <1>0, <3>1, <3>3, HoldersAfter DEF Places
    <3>5. Cardinality(Readers \cup {t}) = Cardinality(Readers) + 1
      BY <3>3, FS_AddElement
    <3> QED  BY <3>1, <3>2, <3>3, <3>4, <3>5 DEF WordInv, WordCountsGuards
  <2>2. CASE ~ CasSucceeds(t)
    <3>1. PICK place \in {"load", "tryLoad"} : Goes(t, place)
      BY <1>5, <2>2 DEF CountIn
    <3>2. /\ UNCHANGED <<kind, together, word, waiters, seen, woken>>
          /\ at[t] \in {"cas", "tryCas"}
      BY <1>5, <2>2 DEF CountIn
    <3>3. place \in Places \ {"reading", "writing"}
      BY <3>1 DEF Places, MidStep
    <3>4. TypeOK' /\ SeenFree'
      BY <1>0, <3>1, <3>2, <3>3, Moves DEF TypeOK, SeenFree
    <3> QED  BY <3>1, <3>2, <3>3, <3>4, WordUntouched DEF WordInv
  <2> QED  BY <2>1, <2>2
<1>6. ASSUME NEW t \in Tasks, PushWaker(t)  PROVE WordInv'
  <2>1. PICK place \in {"waitRead", "waitWrite"} : Goes(t, place)
    BY <1>6 DEF PushWaker
  <2>2. /\ UNCHANGED <<kind, together, word, seen, woken>>
        /\ at[t] \in {"refusedRead", "refusedWrite"}
        /\ waiters' = Append(waiters, t)
    BY <1>6 DEF PushWaker
  <2>3. place \in Places \ {"reading", "writing"}
    BY <2>1 DEF Places, Parked
  <2>4. waiters' \in Seq(Tasks)
    BY <1>0, <2>2, ListPush
  <2>5. TypeOK' /\ SeenFree'
    BY <1>0, <2>1, <2>2, <2>3, <2>4, Moves DEF TypeOK, SeenFree
  <2> QED  BY <2>1, <2>2, <2>3, <2>5, WordUntouched DEF WordInv
<1>7. ASSUME NEW t \in Tasks, DropFuture(t)  PROVE WordInv'
  <2>1. /\ Goes(t, "out") /\ UNCHANGED <<kind, together, word, waiters, seen, woken>>
        /\ at[t] \in Parked
    BY <1>7 DEF DropFuture
  <2>2. TypeOK' /\ SeenFree'
    BY <1>0, <2>1, Moves DEF TypeOK, SeenFree, Places
  <2> QED  BY <2>1, <2>2, WordUntouched DEF WordInv, Places, Parked
<1>8. ASSUME NEW t \in Tasks, DropShared(t)  PROVE WordInv'
  <2>1. PICK place \in {"released", "out"} : Goes(t, place)
    BY <1>8 DEF DropShared
  <2>2. /\ UNCHANGED <<kind, together, waiters, seen, woken>>
        /\ at[t] = "reading" /\ t \in Readers /\ word' = Decremented(word)
    BY <1>8 DEF DropShared, Readers
  <2>3. place \in Places \ {"reading", "writing", "cas", "tryCas"}
    BY <2>1 DEF Places, MidStep
  <2>4. Writers = {} /\ word = Cardinality(Readers) /\ IsFiniteSet(Readers)
    BY <1>0, <2>2, Holders DEF WordCountsGuards
  <2>5. Cardinality(Readers \ {t}) = Cardinality(Readers) - 1 /\ Cardinality(Readers \ {t}) \in Nat
    BY <2>2, <2>4, FS_RemoveElement, FS_CardinalityType
  <2>6. word \in Words /\ word' = word - 1 /\ word' \in Nat
    BY <1>0, <2>2, <2>4, <2>5, Holders DEF Decremented, TypeOK
  <2>7. TypeOK' /\ SeenFree'
    BY <1>0, <2>1, <2>2, <2>3, <2>6, Moves DEF TypeOK, SeenFree, Words
  <2>8. Readers' = Readers \ {t} /\ Writers' = {}
    BY <1>0, <2>1, <2>3, <2>4, HoldersAfter
  <2> QED  BY <2>4, <2>5, <2>6, <2>7, <2>8 DEF WordInv, WordCountsGuards
<1>9. ASSUME NEW t \in Tasks, DropExclusive(t)  PROVE WordInv'
  <2>1. /\ Goes(t, "released") /\ UNCHANGED <<kind, together, waiters, seen, woken>>
        /\ word' = 0 /\ t \in Writers
    BY <1>9 DEF DropExclusive, Writers
  <2>2. TypeOK' /\ SeenFree'
    BY <1>0, <2>1, Moves DEF TypeOK, SeenFree, Places, MidStep, Words
  <2>3. Readers = {} /\ Writers = {t}
    BY <2>1, Holders
  <2>4. Readers' = {} /\ Writers' = {}
    BY <1>0, <2>1, <2>3, HoldersAfter DEF Places, MidStep
  <2> QED  BY <2>1, <2>2, <2>4, FS_EmptySet DEF WordInv, WordCountsGuards
<1>10. ASSUME NEW t \in Tasks, WakeLast(t) \/ WakeAll(t)  PROVE WordInv'
  <2>1. /\ Goes(t, "out") /\ UNCHANGED <<kind, together, word, seen>>
        /\ at[t] = "released"
    BY <1>10 DEF WakeLast, WakeAll
  <2>2. waiters' \in Seq(Tasks) /\ woken' \in SUBSET Tasks
    <3>1. CASE WakeLast(t)
      BY <1>0, <3>1, ListPop, ListedAreTasks DEF WakeLast, TypeOK
    <3>2. CASE WakeAll(t)
      BY <1>0, <3>2, ListedAreTasks, EmptySeq DEF WakeAll, TypeOK
    <3> QED  BY <1>10, <3>1, <3>2
  <2>3. TypeOK' /\ SeenFree'
    BY <1>0, <2>1, <2>2, Moves DEF TypeOK, SeenFree, Places
  <2> QED  BY <2>1, <2>3, WordUntouched DEF WordInv, Places
<1>11. CASE UNCHANGED vars
  BY <1>0, <1>11 DEF vars, WordInv, TypeOK, SeenFree, WordCountsGuards, Readers, Writers
<1> QED  BY <1>1, <1>2, <1>3, <1>4, <1>5, <1>6, <1>7, <1>8, <1>9, <1>10, <1>11 DEF Next

\* Whatever the users do and wherever they run, the lock's word is the number of
\* readers, or WRITE_LOCKED for a single writer: readers and writers exclude each
\* other, and no count is lost between a reader's load and its compare-exchange.
THEOREM WordIsExact == Spec => []WordCountsGuards
<1>1. WordInv => WordCountsGuards
  BY DEF WordInv
<1> QED  BY WordInit, WordNext, <1>1, PTL DEF Spec

\* The fields of the lock and of its futures only hold what their types allow;
\* in particular the count of readers never reaches WRITE_LOCKED.
THEOREM LockTypes == Spec => []TypeOK
<1>1. WordInv => TypeOK
  BY DEF WordInv
<1> QED  BY WordInit, WordNext, <1>1, PTL DEF Spec

-----------------------------------------------------------------------------
(* The locks implement SharedLock                                          *)

LEMMA SharedNext ==
  ASSUME WordInv, [Next]_vars
  PROVE  [Shared!Next]_<<Readers, Writers>>
<1>0. TypeOK /\ WordCountsGuards
  BY DEF WordInv
<1>1. ASSUME NEW t \in Tasks, PollExclusive(t), FreeForWriter(word)
      PROVE  Shared!EnterExclusive(t)
  <2>1. Goes(t, "writing")
    BY <1>1 DEF PollExclusive
  <2> QED  BY <1>0, <1>1, <2>1, Holders, HoldersAfter DEF Shared!EnterExclusive, Places
<1>2. ASSUME NEW t \in Tasks, CountIn(t), CasSucceeds(t)
      PROVE  Shared!EnterShared(t)
  <2>1. Goes(t, "reading") /\ word # WriteLocked /\ t \notin Readers
    BY <1>2 DEF CountIn, CasSucceeds, WordInv, SeenFree, Readers
  <2> QED  BY <1>0, <2>1, Holders, HoldersAfter DEF Shared!EnterShared, Places, FreeForReader
<1>3. ASSUME NEW t \in Tasks, DropShared(t)
      PROVE  Shared!LeaveShared(t)
  <2>1. PICK place \in {"released", "out"} : Goes(t, place)
    BY <1>3 DEF DropShared
  <2>2. t \in Readers /\ t \notin Writers
    BY <1>3 DEF DropShared, Readers, Writers
  <2> QED  BY <1>0, <2>1, <2>2, HoldersAfter DEF Shared!LeaveShared, Places, MidStep
<1>4. ASSUME NEW t \in Tasks, DropExclusive(t)
      PROVE  Shared!LeaveExclusive(t)
  <2>1. Goes(t, "released") /\ t \in Writers /\ t \notin Readers
    BY <1>4 DEF DropExclusive, Readers, Writers
  <2> QED  BY <1>0, <2>1, HoldersAfter DEF Shared!LeaveExclusive, Places, MidStep
<1>5. ASSUME NEW t \in Tasks,
             NEW place \in Places \ {"reading", "writing"}, Goes(t, place),
             at[t] \notin {"reading", "writing"}
      PROVE  UNCHANGED <<Readers, Writers>>
  BY <1>0, <1>5, HoldersAfter DEF Readers, Writers
<1>6. ASSUME NEW t \in Tasks,
             \/ PollExclusive(t) /\ ~ FreeForWriter(word)
             \/ CountIn(t) /\ ~ CasSucceeds(t)
             \/ PollShared(t) \/ TryRead(t) \/ LoadFree(t) \/ LoadWriteLocked(t)
             \/ PushWaker(t) \/ DropFuture(t) \/ WakeLast(t) \/ WakeAll(t)
      PROVE  UNCHANGED <<Readers, Writers>>
  <2>1. PICK place \in Places \ {"reading", "writing"} : Goes(t, place)
    BY <1>6 DEF PollExclusive, CountIn, PollShared, TryRead, LoadFree, LoadWriteLocked,
         PushWaker, DropFuture, WakeLast, WakeAll, Places, MidStep, Parked
  <2>2. at[t] \notin {"reading", "writing"}
    BY <1>6 DEF PollExclusive, CountIn, PollShared, TryRead, LoadFree, LoadWriteLocked,
         PushWaker, DropFuture, WakeLast, WakeAll, Polled, Parked
  <2> QED  BY <1>5, <2>1, <2>2
<1>7. CASE UNCHANGED vars
  BY <1>7 DEF vars, Readers, Writers
<1> QED  BY <1>1, <1>2, <1>3, <1>4, <1>6, <1>7 DEF Next, Shared!Next

\* Every step of the locks enters or leaves as SharedLock allows, or changes no
\* holder: any number of readers, or one writer.
THEOREM LocksImplementSharedLock == Spec => ImplementsSharedLock
<1>1. Init => Shared!Init
  BY DEF Init, Shared!Init, Readers, Writers
<1>2. WordInv /\ [Next]_vars => [Shared!Next]_<<Readers, Writers>>
  BY SharedNext
<1> QED  BY WordInit, WordNext, <1>1, <1>2, PTL DEF Spec, ImplementsSharedLock, Shared!Spec

-----------------------------------------------------------------------------
(* Nobody is forgotten                                                     *)

\* On one thread at most one poll or drop is under way, and what a poll was
\* refused for stays true until it has added its waker.
OneAtATime ==
  together => \A t, u \in Tasks : at[t] \in MidStep /\ at[u] \in MidStep => t = u

RefusedRightly ==
  together => \A t \in Tasks : /\ at[t] = "refusedRead"  => word = WriteLocked
                               /\ at[t] = "refusedWrite" => word # 0

\* Who is parked has a waker in the list, or was woken.
Enlisted == \A t \in Tasks : at[t] \in Parked => t \in Listed \cup woken

\* As long as its futures are neither dropped nor polled for nothing, every
\* waker in a Mutex's list is the only one of a task that waits.
ReadPlaces == {"load", "tryLoad", "cas", "tryCas", "refusedRead", "waitRead", "reading"}
MutexList ==
  kind = "mutex" =>
    /\ \A t \in Tasks : at[t] \notin ReadPlaces
    /\ \A t \in Listed \cup woken : at[t] \in Parked
    /\ Listed \cap woken = {}
    /\ \A i, j \in 1 .. Len(waiters) : waiters[i] = waiters[j] => i = j

WakeParts == OneAtATime /\ RefusedRightly /\ Enlisted /\ MutexList /\ NobodyForgotten
WakeInv   == WordInv /\ WakeParts

LEMMA WakeInit == Init => WakeInv
<1> SUFFICES ASSUME Init PROVE WakeInv
  OBVIOUS
<1>1. WordInv /\ Listed = {}
  BY WordInit, ListedAreTasks DEF WordInv, Init
<1>2. /\ \A t \in Tasks : at[t] = "out"
      /\ woken = {} /\ waiters = << >> /\ Len(waiters) = 0
  BY EmptySeq DEF Init
<1> QED  BY <1>1, <1>2 DEF WakeInv, WakeParts, OneAtATime, RefusedRightly, Enlisted,
         MutexList, NobodyForgotten, CouldEnter, MidStep, Parked, ReadPlaces

\* A step of one task leaves at most that task under way.
LEMMA OneStays ==
  ASSUME TypeOK, OneAtATime, together' = together,
         NEW t \in Tasks, NEW place \in Places, Goes(t, place), MyTurn(t)
  PROVE  OneAtATime'
<1>1. CASE ~ together
  BY <1>1 DEF OneAtATime
<1>2. CASE together
  <2>1. \A u \in Tasks \ {t} : at'[u] \notin MidStep
    BY <1>2, Moves DEF MyTurn
  <2> QED  BY <1>2, <2>1 DEF OneAtATime
<1> QED  BY <1>1, <1>2

LEMMA PollExclusiveWakes ==
  ASSUME WakeInv, Use["mutex"] = {}, NEW t \in Tasks, PollExclusive(t)
  PROVE  WakeParts'
<1>0. /\ WordInv /\ TypeOK /\ OneAtATime /\ RefusedRightly /\ Enlisted /\ MutexList
      /\ NobodyForgotten /\ WriteLocked # 0
  BY Holders DEF WakeInv, WakeParts, WordInv
<1>1. PICK place \in {"writing", "refusedWrite"} :
        /\ Goes(t, place)
        /\ IF word = 0 THEN word' = WriteLocked /\ place = "writing"
                       ELSE word' = word /\ place = "refusedWrite"
  BY DEF PollExclusive, FreeForWriter
<1>2. /\ UNCHANGED <<kind, together, waiters>> /\ woken' = woken \ {t} /\ MyTurn(t)
      /\ at[t] \in {"out", "waitWrite"}
      /\ kind = "mutex" /\ at[t] = "waitWrite" => t \in woken
  BY DEF PollExclusive, Polled, Does
<1>3. Listed' = Listed
  BY <1>2 DEF Listed
<1>4. /\ place \in Places /\ place \notin Parked \cup ReadPlaces
      /\ at'[t] = place /\ \A u \in Tasks \ {t} : at'[u] = at[u]
  BY <1>0, <1>1, Moves DEF Places, MidStep, Parked, ReadPlaces
<1>5. OneAtATime'
  BY <1>0, <1>1, <1>2, <1>4, OneStays
<1>6. RefusedRightly'
  <2>1. together => \A u \in Tasks \ {t} : at[u] \notin MidStep
    BY <1>2 DEF MyTurn
  <2> QED  BY <1>1, <1>2, <1>4, <2>1 DEF RefusedRightly, MidStep
<1>7. Enlisted'
  BY <1>0, <1>2, <1>3, <1>4 DEF Enlisted
<1>8. MutexList'
  <2>1. kind = "mutex" => t \notin Listed
    BY <1>0, <1>2 DEF MutexList, Parked
  <2>2. Listed \cup woken \subseteq Tasks
    BY <1>0, ListedAreTasks DEF TypeOK
  <2> QED  BY <1>0, <1>2, <1>3, <1>4, <2>1, <2>2 DEF MutexList
<1>9. NobodyForgotten'
  <2>1. ASSUME together, NEW u \in Tasks, CouldEnter(u)'  PROVE u \in woken'
    <3>1. /\ (at'[u] = "waitRead" /\ word' # WriteLocked) \/ (at'[u] = "waitWrite" /\ word' = 0)
          /\ u # t
      BY <1>4, <2>1 DEF CouldEnter, Parked
    <3>2. at[u] = "waitRead" /\ word # WriteLocked /\ kind # "mutex"
      BY <1>0, <1>1, <1>4, <3>1 DEF MutexList, ReadPlaces
    <3>3. \A v \in Tasks : at[v] # "released"
      BY <1>2, <2>1 DEF MyTurn, MidStep
    <3> QED  BY <1>0, <1>2, <2>1, <3>1, <3>2, <3>3 DEF NobodyForgotten, CouldEnter, WakeUnderWay
  <2> QED  BY <1>2, <2>1 DEF NobodyForgotten
<1> QED  BY <1>5, <1>6, <1>7, <1>8, <1>9 DEF WakeParts

\* The steps that only an RwLock takes, and the ones that park nobody: nobody
\* gains the right to enter, unless the step is a release.
LEMMA RwLockWakes ==
  ASSUME WakeInv, kind # "mutex", UNCHANGED <<kind, together, waiters>>,
         NEW t \in Tasks, NEW place \in Places \ (Parked \cup {"refusedWrite"}),
         Goes(t, place), MyTurn(t), at[t] # "released",
         woken \ {t} \subseteq woken',
         place = "refusedRead" => word' = WriteLocked,
         \/ place = "released"
         \/ (word' # WriteLocked => word # WriteLocked) /\ (word' = 0 => word = 0)
  PROVE  WakeParts'
<1>0. /\ TypeOK /\ OneAtATime /\ RefusedRightly /\ Enlisted /\ NobodyForgotten
  BY DEF WakeInv, WakeParts, WordInv
<1>1. at'[t] = place /\ \A u \in Tasks \ {t} : at'[u] = at[u]
  BY <1>0, Moves
<1>2. Listed' = Listed
  BY DEF Listed
<1>3. OneAtATime'
  BY <1>0, OneStays
<1>4. RefusedRightly'
  <2>1. together => \A u \in Tasks \ {t} : at[u] \notin MidStep
    BY DEF MyTurn
  <2> QED  BY <1>1, <2>1 DEF RefusedRightly, MidStep
<1>5. Enlisted'
  BY <1>0, <1>1, <1>2 DEF Enlisted
<1>6. MutexList'
  BY DEF MutexList
<1>7. NobodyForgotten'
  <2>1. CASE place = "released"
    BY <1>1, <2>1 DEF NobodyForgotten, WakeUnderWay
  <2>2. CASE place # "released"
    <3>1. ASSUME NEW u \in Tasks, CouldEnter(u)'  PROVE u # t /\ CouldEnter(u)
      BY <1>1, <2>2, <3>1 DEF CouldEnter, Parked
    <3>2. WakeUnderWay => WakeUnderWay'
      BY <1>1, <2>2 DEF WakeUnderWay
    <3> QED  BY <1>0, <3>1, <3>2 DEF NobodyForgotten
  <2> QED  BY <2>1, <2>2
<1> QED  BY <1>3, <1>4, <1>5, <1>6, <1>7 DEF WakeParts

LEMMA ReadingWakes ==
  ASSUME WakeInv, NEW t \in Tasks,
         \/ PollShared(t) \/ TryRead(t) \/ LoadFree(t) \/ LoadWriteLocked(t)
         \/ CountIn(t) \/ DropShared(t)
  PROVE  WakeParts'
<1>0. /\ TypeOK /\ SeenFree /\ MutexList /\ WordCountsGuards
      /\ WriteLocked \in Nat \ {0} /\ word \in Words
  BY Holders DEF WakeInv, WakeParts, WordInv, TypeOK
<1>1. ASSUME at[t] \in ReadPlaces  PROVE kind # "mutex"
  BY <1>0, <1>1 DEF MutexList
<1>2. CASE PollShared(t)
  <2>1. /\ Goes(t, "load") /\ MyTurn(t) /\ kind # "mutex"
        /\ UNCHANGED <<kind, together, word, waiters>> /\ woken' = woken \ {t}
        /\ at[t] \in {"out", "waitRead"}
    BY <1>2 DEF PollShared, Polled
  <2> QED  BY <2>1, RwLockWakes DEF Places, MidStep, Parked
<1>3. CASE TryRead(t)
  BY <1>3, RwLockWakes DEF TryRead, Places, MidStep, Parked
<1>4. CASE LoadFree(t)
  <2>1. PICK place \in {"cas", "tryCas"} : Goes(t, place)
    BY <1>4 DEF LoadFree
  <2> QED  BY <1>1, <1>4, <2>1, RwLockWakes DEF LoadFree, Places, MidStep, Parked, ReadPlaces
<1>5. CASE LoadWriteLocked(t)
  <2>1. PICK place \in {"refusedRead", "out"} : Goes(t, place)
    BY <1>5 DEF LoadWriteLocked
  <2>2. word = WriteLocked
    BY <1>5 DEF LoadWriteLocked, FreeForReader
  <2> QED  BY <1>1, <1>5, <2>1, <2>2, RwLockWakes
           DEF LoadWriteLocked, Places, MidStep, Parked, ReadPlaces
<1>6. CASE CountIn(t)
  <2>1. PICK place \in {"reading", "load", "tryLoad"} : Goes(t, place)
    BY <1>6 DEF CountIn
  <2>2. word' = word \/ (word' = word + 1 /\ word # WriteLocked)
    BY <1>0, <1>6 DEF CountIn, CasSucceeds, SeenFree
  <2>3. (word' # WriteLocked => word # WriteLocked) /\ (word' = 0 => word = 0)
    BY <1>0, <2>2 DEF Words
  <2> QED  BY <1>1, <1>6, <2>1, <2>3, RwLockWakes
           DEF CountIn, Places, MidStep, Parked, ReadPlaces
<1>7. CASE DropShared(t)
  <2>1. PICK place \in {"released", "out"} :
          Goes(t, place) /\ (place = "out" => word # 1)
    BY <1>7 DEF DropShared, LastReader
  <2>2. t \in Readers
    BY <1>7 DEF DropShared, Readers
  <2>3. word # WriteLocked /\ word # 0
    <3>1. word = Cardinality(Readers) /\ IsFiniteSet(Readers) /\ Cardinality(Readers) < WriteLocked
      BY <2>2, Holders DEF WakeInv, WordInv, WordCountsGuards
    <3> QED  BY <1>0, <2>2, <3>1, FS_EmptySet
  <2>4. place = "released" \/ (word' # 0 /\ word # WriteLocked)
    BY <1>0, <1>7, <2>1, <2>3 DEF DropShared, Decremented, Words
  <2> QED  BY <1>1, <1>7, <2>1, <2>4, RwLockWakes
           DEF DropShared, Places, MidStep, Parked, ReadPlaces
<1> QED  BY <1>2, <1>3, <1>4, <1>5, <1>6, <1>7

LEMMA DropFutureWakes ==
  ASSUME WakeInv, Use["mutex"] = {}, NEW t \in Tasks, DropFuture(t)
  PROVE  WakeParts'
<1>1. /\ kind # "mutex" /\ Goes(t, "out") /\ MyTurn(t) /\ at[t] \in Parked
      /\ UNCHANGED <<kind, together, word, waiters, seen, woken>>
  BY DEF DropFuture, Does
<1> QED  BY <1>1, RwLockWakes DEF Places, Parked

LEMMA PushWakerWakes ==
  ASSUME WakeInv, NEW t \in Tasks, PushWaker(t)
  PROVE  WakeParts'
<1>0. /\ TypeOK /\ OneAtATime /\ RefusedRightly /\ Enlisted /\ MutexList /\ NobodyForgotten
  BY DEF WakeInv, WakeParts, WordInv
<1>1. PICK place \in Parked :
        /\ Goes(t, place)
        /\ place = "waitRead"  => at[t] = "refusedRead"
        /\ place = "waitWrite" => at[t] = "refusedWrite"
  BY DEF PushWaker, Parked
<1>2. /\ UNCHANGED <<kind, together, word, woken>> /\ MyTurn(t)
      /\ waiters' = Append(waiters, t) /\ at[t] \in {"refusedRead", "refusedWrite"}
  BY DEF PushWaker
<1>3. /\ place \in Places /\ at'[t] = place /\ \A u \in Tasks \ {t} : at'[u] = at[u]
  BY <1>0, <1>1, Moves DEF Places
<1>4. /\ Listed' = Listed \cup {t}
      /\ Len(waiters) \in Nat /\ Len(waiters') = Len(waiters) + 1
      /\ \A i \in 1 .. Len(waiters) : waiters'[i] = waiters[i]
      /\ waiters'[Len(waiters) + 1] = t
  BY <1>0, <1>2, ListPush
<1>5. OneAtATime'
  BY <1>0, <1>1, <1>2, <1>3, OneStays
<1>6. RefusedRightly'
  BY <1>0, <1>2, <1>3 DEF RefusedRightly, Parked
<1>7. Enlisted'
  BY <1>0, <1>2, <1>3, <1>4 DEF Enlisted
<1>8. MutexList'
  <2>1. kind = "mutex" => t \notin Listed \cup woken /\ place # "waitRead"
    BY <1>0, <1>1, <1>2 DEF MutexList, Parked, ReadPlaces
  <2>2. kind = "mutex" => \A i, j \in 1 .. Len(waiters') : waiters'[i] = waiters'[j] => i = j
    <3>1. \A i \in 1 .. Len(waiters) : waiters[i] \in Listed
      BY <1>0, LenProperties DEF Listed, TypeOK
    <3> QED  BY <1>0, <1>4, <2>1, <3>1 DEF MutexList
  <2>3. Listed \cup woken \subseteq Tasks
    BY <1>0, ListedAreTasks DEF TypeOK
  <2>4. kind = "mutex" => \A u \in Tasks : at'[u] \notin ReadPlaces
    BY <1>0, <1>1, <1>3, <2>1 DEF MutexList, ReadPlaces, Parked
  <2> QED  BY <1>0, <1>1, <1>2, <1>3, <1>4, <2>1, <2>2, <2>3, <2>4 DEF MutexList
<1>9. NobodyForgotten'
  <2>1. ASSUME together, NEW u \in Tasks, CouldEnter(u)'  PROVE u # t /\ CouldEnter(u)
    BY <1>0, <1>1, <1>2, <1>3, <2>1 DEF CouldEnter, RefusedRightly, Parked
  <2>2. WakeUnderWay => WakeUnderWay'
    BY <1>0, <1>1, <1>2, <1>3 DEF WakeUnderWay, TypeOK
  <2> QED  BY <1>0, <1>2, <2>1, <2>2 DEF NobodyForgotten
<1> QED  BY <1>5, <1>6, <1>7, <1>8, <1>9 DEF WakeParts

LEMMA DropExclusiveWakes ==
  ASSUME WakeInv, NEW t \in Tasks, DropExclusive(t)
  PROVE  WakeParts'
<1>0. /\ TypeOK /\ OneAtATime /\ RefusedRightly /\ Enlisted /\ MutexList
      /\ Listed \cup woken \subseteq Tasks
  BY ListedAreTasks DEF WakeInv, WakeParts, WordInv, TypeOK
<1>1. /\ Goes(t, "released") /\ MyTurn(t) /\ at[t] = "writing"
      /\ UNCHANGED <<kind, together, waiters, seen, woken>>
  BY DEF DropExclusive
<1>2. at'[t] = "released" /\ \A u \in Tasks \ {t} : at'[u] = at[u]
  BY <1>0, <1>1, Moves DEF Places, MidStep
<1>3. Listed' = Listed
  BY <1>1 DEF Listed
<1>4. OneAtATime'
  BY <1>0, <1>1, OneStays DEF Places, MidStep
<1>5. RefusedRightly'
  <2>1. together => \A u \in Tasks \ {t} : at[u] \notin MidStep
    BY <1>1 DEF MyTurn
  <2> QED  BY <1>1, <1>2, <2>1 DEF RefusedRightly, MidStep
<1>6. Enlisted' /\ MutexList'
  BY <1>0, <1>1, <1>2, <1>3 DEF Enlisted, MutexList, Parked, ReadPlaces
<1>7. NobodyForgotten'
  BY <1>2 DEF NobodyForgotten, WakeUnderWay
<1> QED  BY <1>4, <1>5, <1>6, <1>7 DEF WakeParts

LEMMA WakeLastWakes ==
  ASSUME WakeInv, NEW t \in Tasks, WakeLast(t)
  PROVE  WakeParts'
<1>0. /\ TypeOK /\ OneAtATime /\ RefusedRightly /\ Enlisted /\ MutexList
      /\ Listed \cup woken \subseteq Tasks
  BY ListedAreTasks DEF WakeInv, WakeParts, WordInv, TypeOK
<1> DEFINE w == waiters[Len(waiters)]
<1>1. /\ Goes(t, "out") /\ MyTurn(t) /\ at[t] = "released" /\ kind = "mutex"
      /\ waiters # << >> /\ waiters' = SubSeq(waiters, 1, Len(waiters) - 1)
      /\ woken' = woken \cup {w} /\ UNCHANGED <<kind, together, word, seen>>
  BY DEF WakeLast
<1>2. at'[t] = "out" /\ \A u \in Tasks \ {t} : at'[u] = at[u]
  BY <1>0, <1>1, Moves DEF Places
<1>3. /\ Len(waiters) \in Nat \ {0} /\ Len(waiters') = Len(waiters) - 1
      /\ \A i \in 1 .. Len(waiters) - 1 : waiters'[i] = waiters[i]
      /\ w \in Listed /\ Listed = Listed' \cup {w} /\ waiters' \in Seq(Tasks)
  BY <1>0, <1>1, ListPop
<1>4. w \in Tasks /\ w # t /\ at'[w] \in Parked
  BY <1>0, <1>1, <1>2, <1>3 DEF MutexList, Parked
<1>5. OneAtATime'
  BY <1>0, <1>1, OneStays DEF Places
<1>6. RefusedRightly'
  BY <1>0, <1>1, <1>2 DEF RefusedRightly
<1>7. Enlisted'
  BY <1>0, <1>1, <1>2, <1>3 DEF Enlisted, Parked
<1>8. MutexList'
  <2>1. w \notin Listed'
    <3>1. Listed' = {waiters'[i] : i \in 1 .. Len(waiters')}
      BY <1>3, LenProperties DEF Listed
    <3> QED  BY <1>0, <1>1, <1>3, <3>1 DEF MutexList
  <2>2. \A u \in Listed' \cup woken' : at'[u] \in Parked
    BY <1>0, <1>1, <1>2, <1>3, <1>4 DEF MutexList, Parked
  <2>3. Listed' \cap woken' = {}
    BY <1>0, <1>1, <1>3, <2>1 DEF MutexList
  <2>4. \A u \in Tasks : at'[u] \notin ReadPlaces
    BY <1>0, <1>1, <1>2 DEF MutexList, ReadPlaces
  <2>5. \A i, j \in 1 .. Len(waiters') : waiters'[i] = waiters'[j] => i = j
    BY <1>0, <1>1, <1>3 DEF MutexList
  <2> QED  BY <2>2, <2>3, <2>4, <2>5 DEF MutexList
<1>9. NobodyForgotten'
  BY <1>1, <1>4 DEF NobodyForgotten, WakeUnderWay
<1> QED  BY <1>5, <1>6, <1>7, <1>8, <1>9 DEF WakeParts

LEMMA WakeAllWakes ==
  ASSUME WakeInv, NEW t \in Tasks, WakeAll(t)
  PROVE  WakeParts'
<1>0. /\ TypeOK /\ OneAtATime /\ RefusedRightly /\ Enlisted /\ MutexList
  BY DEF WakeInv, WakeParts, WordInv
<1>1. /\ Goes(t, "out") /\ MyTurn(t) /\ at[t] = "released"
      /\ kind = "rwlock" \/ Listed = {}
      /\ waiters' = << >> /\ woken' = woken \cup Listed
      /\ UNCHANGED <<kind, together, word, seen>>
  BY <1>0, ListedAreTasks DEF WakeAll
<1>2. /\ at'[t] = "out" /\ \A u \in Tasks \ {t} : at'[u] = at[u]
      /\ at' \in [Tasks -> Places]
  BY <1>0, <1>1, Moves DEF Places
<1>3. Listed' = {} /\ Len(waiters') = 0
  BY <1>1, EmptySeq DEF Listed
<1>4. OneAtATime'
  BY <1>0, <1>1, OneStays DEF Places
<1>5. RefusedRightly'
  BY <1>0, <1>1, <1>2 DEF RefusedRightly
<1>6. \A u \in Tasks : at'[u] \in Parked => u \in woken'
  BY <1>0, <1>1, <1>2 DEF Enlisted, Parked
<1>7. MutexList'
  <2>1. kind = "mutex" => woken' = woken /\ t \notin woken
    BY <1>0, <1>1 DEF MutexList, Parked
  <2>2. woken \subseteq Tasks
    BY <1>0 DEF TypeOK
  <2> QED  BY <1>0, <1>1, <1>2, <1>3, <2>1, <2>2 DEF MutexList, ReadPlaces
<1>8. Enlisted' /\ NobodyForgotten'
  BY <1>6 DEF Enlisted, NobodyForgotten, CouldEnter, Parked
<1> QED  BY <1>4, <1>5, <1>7, <1>8 DEF WakeParts

LEMMA WakeNext ==
  ASSUME WakeInv, Use["mutex"] = {}, [Next]_vars
  PROVE  WakeInv'
<1> SUFFICES WakeParts'
  BY WordNext DEF WakeInv
<1>1. CASE Next
  <2> PICK t \in Tasks :
        \/ PollExclusive(t) \/ PollShared(t) \/ TryRead(t) \/ LoadFree(t)
        \/ LoadWriteLocked(t) \/ CountIn(t) \/ PushWaker(t) \/ DropFuture(t)
        \/ DropShared(t) \/ DropExclusive(t) \/ WakeLast(t) \/ WakeAll(t)
    BY <1>1 DEF Next
  <2>1. CASE PollExclusive(t)
    BY <2>1, PollExclusiveWakes
  <2>2. CASE PollShared(t) \/ TryRead(t) \/ LoadFree(t) \/ LoadWriteLocked(t)
             \/ CountIn(t) \/ DropShared(t)
    BY <2>2, ReadingWakes
  <2>3. CASE PushWaker(t) \/ DropFuture(t) \/ DropExclusive(t)
    BY <2>3, PushWakerWakes, DropFutureWakes, DropExclusiveWakes
  <2>4. CASE WakeLast(t) \/ WakeAll(t)
    BY <2>4, WakeLastWakes, WakeAllWakes
  <2> QED  BY <2>1, <2>2, <2>3, <2>4
<1>2. CASE UNCHANGED vars
  <2>1. /\ UNCHANGED <<kind, together, word, waiters, at, woken>>
        /\ Listed' = Listed
    BY <1>2 DEF vars, Listed
  <2>2. OneAtATime' /\ RefusedRightly' /\ Enlisted' /\ MutexList'
    BY <2>1 DEF WakeInv, WakeParts, OneAtATime, RefusedRightly, Enlisted, MutexList
  <2>3. NobodyForgotten'
    BY <2>1 DEF WakeInv, WakeParts, NobodyForgotten, CouldEnter, WakeUnderWay
  <2> QED  BY <2>2, <2>3 DEF WakeParts
<1> QED  BY <1>1, <1>2

\* On one executor thread, however many users wait, a user whose turn could come
\* is woken, or somebody is about to wake it: an RwLock's users may drop futures
\* and poll them for nothing, a Mutex's users must do neither.
THEOREM NobodySleepsAtAnOpenLock ==
  ASSUME Use["mutex"] = {}
  PROVE  Spec => []NobodyForgotten
<1>1. WakeInv /\ [Next]_vars => WakeInv'
  BY WakeNext
<1>2. WakeInv => NobodyForgotten
  BY DEF WakeInv, WakeParts
<1> QED  BY WakeInit, <1>1, <1>2, PTL DEF Spec

=============================================================================
