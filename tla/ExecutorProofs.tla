--------------------------- MODULE ExecutorProofs ---------------------------
(***************************************************************************)
(* Theorems about Executor, for every slab, every bound and every client:  *)
(* types, then safety: no wake is lost, whatever user code does; under two *)
(* assumptions about user code the free list is exact, and tasks and       *)
(* results have their owners, as the lifecycle has it.                     *)
(***************************************************************************)
EXTENDS ExecutorLifecycle, Functions, FiniteSetTheorems, SequenceTheorems, TLAPS

-----------------------------------------------------------------------------
(* Queues: what the operators return, for every queue of slots.             *)

\* Append (VecDeque::push_back, Vec::push) adds its argument and keeps the rest.
LEMMA AppendElems ==
  ASSUME NEW S, NEW q \in Seq(S), NEW s \in S
  PROVE  /\ Append(q, s) \in Seq(S)
         /\ Elems(Append(q, s)) = Elems(q) \cup {s}
<1>1. /\ Len(q) \in Nat /\ DOMAIN q = 1 .. Len(q)
      /\ Append(q, s) \in Seq(S)
      /\ DOMAIN Append(q, s) = 1 .. Len(q) + 1
      /\ \A i \in 1 .. Len(q) : Append(q, s)[i] = q[i]
      /\ Append(q, s)[Len(q) + 1] = s
  BY AppendProperties, LenProperties
<1> QED  BY <1>1 DEF Elems

\* Tail (VecDeque::pop_front) gives up nothing but the head.
LEMMA TailElems ==
  ASSUME NEW S, NEW q \in Seq(S), q # <<>>
  PROVE  /\ Head(q) \in S
         /\ Head(q) \in Elems(q)
         /\ Tail(q) \in Seq(S)
         /\ Elems(q) = Elems(Tail(q)) \cup {Head(q)}
<1>1. /\ Len(q) \in Nat \ {0} /\ DOMAIN q = 1 .. Len(q)
      /\ Head(q) \in S
      /\ Head(q) = q[1]
      /\ Tail(q) \in Seq(S)
      /\ DOMAIN Tail(q) = 1 .. Len(q) - 1
      /\ \A i \in 1 .. Len(q) - 1 : Tail(q)[i] = q[i + 1]
  BY HeadTailProperties, LenProperties, EmptySeq
<1>2. Head(q) \in Elems(q)
  BY <1>1 DEF Elems
<1>3. Elems(Tail(q)) \subseteq Elems(q)
  BY <1>1 DEF Elems
<1>4. ASSUME NEW x \in Elems(q), x # Head(q)  PROVE x \in Elems(Tail(q))
  <2>1. PICK i \in 1 .. Len(q) : q[i] = x
    BY <1>1 DEF Elems
  <2>2. i - 1 \in 1 .. Len(q) - 1 /\ Tail(q)[i - 1] = x
    BY <2>1, <1>1, <1>4
  <2> QED  BY <2>2, <1>1 DEF Elems
<1> QED  BY <1>1, <1>2, <1>3, <1>4

\* Front (Vec::pop) gives up the last entry.
LEMMA FrontElems ==
  ASSUME NEW S, NEW q \in Seq(S), q # <<>>
  PROVE  /\ q[Len(q)] \in S
         /\ Len(q) \in Nat \ {0}
         /\ Front(q) \in Seq(S)
         /\ DOMAIN Front(q) = 1 .. Len(q) - 1
         /\ \A i \in 1 .. Len(q) - 1 : Front(q)[i] = q[i]
<1>1. Len(q) \in Nat \ {0} /\ \A i \in 1 .. Len(q) : q[i] \in S
  BY LenProperties, EmptySeq
<1>2. /\ Front(q) \in Seq(S)
      /\ Len(Front(q)) = Len(q) - 1
      /\ \A i \in 1 .. Len(q) - 1 : Front(q)[i] = q[i]
  BY <1>1, SubSeqProperties DEF Front
<1> QED  BY <1>1, <1>2, LenProperties

\* Without (VecDeque::retain) keeps exactly the entries outside of X.
LEMMA WithoutElems ==
  ASSUME NEW S, NEW q \in Seq(S), NEW X
  PROVE  /\ Without(q, X) \in Seq(S)
         /\ Elems(Without(q, X)) = Elems(q) \ X
<1> DEFINE kept == {i \in DOMAIN q : q[i] \notin X}
           upto(i) == {j \in kept : j <= i}
           rank(i) == Cardinality(upto(i))
           n == Cardinality(kept)
           w == [k \in 1 .. n |-> q[CHOOSE i \in kept : rank(i) = k]]
<1>1. /\ DOMAIN q = 1 .. Len(q) /\ Len(q) \in Nat
      /\ \A i \in DOMAIN q : q[i] \in S
  BY LenProperties
<1>2. IsFiniteSet(kept) /\ n \in Nat
  <2>1. IsFiniteSet(1 .. Len(q))
    BY <1>1, FS_Interval
  <2>2. kept \in SUBSET (1 .. Len(q))
    BY <1>1
  <2>3. IsFiniteSet(kept)
    BY <2>1, <2>2, FS_Subset
  <2> QED  BY <2>3, FS_CardinalityType
<1>3. ASSUME NEW i \in kept  PROVE IsFiniteSet(upto(i)) /\ rank(i) \in 1 .. n
  <2>1. upto(i) \in SUBSET kept /\ i \in upto(i)
    BY <1>1
  <2>2. IsFiniteSet(upto(i)) /\ Cardinality(upto(i)) <= n
    BY <2>1, <1>2, FS_Subset
  <2>3. Cardinality(upto(i)) \in Nat /\ Cardinality(upto(i)) # 0
    BY <2>1, <2>2, FS_CardinalityType, FS_EmptySet
  <2> QED  BY <2>2, <2>3, <1>2
<1>4. ASSUME NEW i \in kept, NEW j \in kept, i < j  PROVE rank(i) # rank(j)
  <2>1. upto(i) \in SUBSET upto(j) /\ j \in upto(j) /\ j \notin upto(i)
    BY <1>1, <1>4
  <2>2. IsFiniteSet(upto(j))
    BY <1>3
  <2> QED  BY <2>1, <2>2, FS_Subset
<1>5. ASSUME NEW k \in 1 .. n  PROVE \E i \in kept : rank(i) = k
  <2> DEFINE f == [i \in kept |-> rank(i)]
  <2>1. f \in [kept -> 1 .. n]
    BY <1>3
  <2>2. ASSUME NEW i \in kept, NEW j \in kept, f[i] = f[j]  PROVE i = j
    <3>1. rank(i) = rank(j)
      BY <2>2
    <3>2. i \in Int /\ j \in Int
      BY <1>1
    <3> HIDE DEF kept, rank
    <3> QED  BY <3>1, <3>2, <1>4
  <2>3. f \in Injection(kept, 1 .. n)
    BY <2>1, <2>2 DEF Injection, IsInjective
  <2>4. IsFiniteSet(1 .. n) /\ Cardinality(1 .. n) = n
    BY <1>2, FS_Interval
  <2>5. f \in Surjection(kept, 1 .. n)
    <3> HIDE DEF f, kept
    <3> QED  BY <2>3, <2>4, FS_Injection
  <2> QED  BY <2>5 DEF Surjection
<1>6. Without(q, X) = w
  BY DEF Without
<1>7. ASSUME NEW k \in 1 .. n
      PROVE  w[k] \in S /\ w[k] \in Elems(q) \ X
  <2>1. PICK i \in kept : i = (CHOOSE j \in kept : rank(j) = k)
    BY <1>5
  <2> QED  BY <2>1, <1>1 DEF Elems
<1>8. w \in Seq(S) /\ DOMAIN w = 1 .. n
  <2>1. w \in [1 .. n -> S]
    BY <1>7
  <2> HIDE DEF w, n
  <2> QED  BY <2>1, <1>2, SeqDef
<1>9. ASSUME NEW x \in Elems(q) \ X  PROVE x \in Elems(w)
  <2>1. PICK i \in kept : q[i] = x
    BY DEF Elems
  <2>2. rank(i) \in 1 .. n
    BY <1>3
  <2>3. \A j \in kept : rank(j) = rank(i) => j = i
    <3>1. \A j \in kept : j \in Int
      BY <1>1
    <3> HIDE DEF kept, rank
    <3> QED  BY <3>1, <1>4
  <2>4. w[rank(i)] = x
    BY <2>1, <2>2, <2>3
  <2> QED  BY <2>2, <2>4, <1>8 DEF Elems
<1> HIDE DEF w, n
<1>10. Elems(w) \subseteq Elems(q) \ X
  BY <1>7, <1>8 DEF Elems
<1> QED  BY <1>6, <1>8, <1>9, <1>10


-----------------------------------------------------------------------------
(* Arithmetic of the slab.                                                 *)

LEMMA SlotFacts ==
  /\ Slots \subseteq Nat
  /\ None \notin Slots /\ Noop \notin Slots /\ None # Noop
  /\ GenMod \in Nat \ {0}
  /\ \A g \in Gens : (g + 1) % GenMod \in Gens
BY ExecutorAssumption DEF Slots, None, Noop, Gens

\* Slots are numbered below the number of segments times their size.
LEMMA SegmentFacts ==
  ASSUME NEW n \in 1 .. MaxSegs
  PROVE  /\ n * SegSize \in Nat
         /\ 0 .. n * SegSize - 1 \subseteq Slots
         /\ n < MaxSegs => /\ n * SegSize \in Slots
                           /\ (n + 1) * SegSize = n * SegSize + SegSize
                           /\ (n + 1) * SegSize <= SegSize * MaxSegs
<1> DEFINE a == SegSize
           b == MaxSegs
<1>1. a \in Nat \ {0} /\ b \in Nat \ {0}
  BY ExecutorAssumption
<1>2. n * a \in Nat /\ a * b \in Nat
  BY <1>1
<1>3. n * a <= a * b
  BY <1>1
<1>4. ASSUME n < b
      PROVE  (n + 1) * a <= a * b /\ (n + 1) * a = n * a + a
  BY <1>1, <1>4
<1> QED  BY <1>1, <1>2, <1>3, <1>4 DEF Slots

-----------------------------------------------------------------------------
(* The call stack.                                                         *)

Drives == {"drain", "fire", "select", "unload"}
Glue == {"poll", "dropFuture", "dropResult"}

\* drive() and drop_plugin_tasks leave room for the user code they call.
RoomAbove == \A i \in 1 .. depth : stack[i].at \in Drives => i < MaxDepth

\* A frame that may be put on the stack at depth i.
Fits(f, i) == /\ f \in Frames
              /\ f.at # "root"
              /\ f.at \in Glue => f.slot \in Slots
              /\ f.at \in Drives => i < MaxDepth

LEMMA PushStack ==
  ASSUME StackOK, RoomAbove, NEW f, Fits(f, depth + 1), HasRoomFor(1), Push(f)
  PROVE  StackOK' /\ RoomAbove'
BY ExecutorAssumption DEF StackOK, RoomAbove, Fits, HasRoomFor, Push, Depths, Glue, Drives

LEMMA ReplaceStack ==
  ASSUME StackOK, RoomAbove, NEW f, Fits(f, depth), Top.at # "root", Replace(f)
  PROVE  StackOK' /\ RoomAbove'
BY ExecutorAssumption DEF StackOK, RoomAbove, Fits, Replace, Top, Depths, Glue, Drives

LEMMA PopStack ==
  ASSUME StackOK, RoomAbove, Top.at # "root", Pop
  PROVE  StackOK' /\ RoomAbove'
<1>1. NoFrame \in Frames /\ NoFrame.at = "none"
  BY SlotFacts DEF NoFrame, Frame, Frames, Places, AfterDrop, Gens
<1> QED  BY <1>1, ExecutorAssumption DEF StackOK, RoomAbove, Pop, Top, Depths, Glue, Drives

LEMMA FrameFits ==
  ASSUME NEW at \in Places \ {"root"}, NEW s \in Slots \cup {None}, NEW g \in Gens,
         NEW then \in AfterDrop, NEW i,
         at \in Glue => s \in Slots, at \in Drives => i < MaxDepth
  PROVE  Fits(Frame(at, s, g, then), i)
BY DEF Frame, Frames, Fits

\* ... with the frames of a drive cycle and of an unload, which have no task
LEMMA DriveFits ==
  ASSUME NEW at \in Drives, NEW i, i < MaxDepth
  PROVE  Fits(Frame(at, None, 0, "none"), i)
BY SlotFacts DEF Frame, Frames, Fits, Drives, Places, AfterDrop, Gens, Glue

LEMMA TopFacts ==
  ASSUME StackOK
  PROVE  /\ Top \in Frames
         /\ depth \in Nat \ {0}
         /\ Top.at \in Glue => Top.slot \in Slots
         /\ Top.at # "root" => depth > 1
BY DEF StackOK, Top, Depths, Glue

-----------------------------------------------------------------------------
(* Type correctness.  TypeOK alone is not inductive: that the stack never  *)
(* outgrows Depths rests on the room a drive cycle and an unload leave for *)
(* the call they are about to make.                                        *)

TypeInv == TypeOK /\ RoomAbove

LEMMA WakeTypes ==
  ASSUME TypeOK, NEW st \in [Slots -> States], NEW w, WakeInto(st, w)
  PROVE  /\ state' \in [Slots -> States]
         /\ hot' \in Slots \cup {None}
         /\ ready' \in Seq(Slots)
<1>1. hot # None => Append(ready, hot) \in Seq(Slots)
  BY AppendElems DEF TypeOK
<1> QED  BY <1>1 DEF WakeInto, StateAfterWake, QueueDisplaced, Wakes, TypeOK, States

LEMMA OwingTypes ==
  ASSUME TypeOK, NEW w
  PROVE  Owing(w) \in [Slots -> BOOLEAN]
BY DEF Owing, TypeOK

\* A drive cycle starts and ends with the stack well formed and touches no data.
LEMMA DrivingTypes ==
  ASSUME TypeInv, StartDrive \/ DrainDone \/ FireDone \/ DriveDone
  PROVE  TypeInv'
<1>1. StackOK /\ RoomAbove
  BY DEF TypeInv, TypeOK
<1>2. StackOK' /\ RoomAbove'
  <2> USE SlotFacts
  <2>1. CASE StartDrive
    <3>1. Fits(Frame("drain", None, 0, "none"), depth + 1)
      BY <2>1, <1>1, DriveFits, TopFacts, ExecutorAssumption DEF StartDrive, HasRoomFor, Drives
    <3> QED  BY <2>1, <3>1, <1>1, PushStack, TopFacts, ExecutorAssumption DEF StartDrive, HasRoomFor
  <2>2. CASE DrainDone
    <3>1. Fits(Frame("fire", None, 0, "none"), depth)
      BY <2>2, <1>1, DriveFits, TopFacts DEF DrainDone, RoomAbove, Top, Drives
    <3> QED  BY <2>2, <3>1, <1>1, ReplaceStack DEF DrainDone
  <2>3. CASE FireDone
    <3>1. Fits(Frame("select", None, 0, "none"), depth)
      BY <2>3, <1>1, DriveFits, TopFacts DEF FireDone, RoomAbove, Top, Drives
    <3> QED  BY <2>3, <3>1, <1>1, ReplaceStack DEF FireDone
  <2>4. CASE DriveDone
    BY <2>4, <1>1, PopStack DEF DriveDone
  <2> QED  BY <2>1, <2>2, <2>3, <2>4
<1> QED
  BY <1>2 DEF TypeInv, TypeOK, StartDrive, DrainDone, FireDone, DriveDone, slab, lists, clock, purge, hist

LEMMA SameStack ==
  ASSUME StackOK, RoomAbove, UNCHANGED calls
  PROVE  StackOK' /\ RoomAbove'
BY DEF StackOK, RoomAbove, calls

LEMMA SpawnTypes ==
  ASSUME TypeInv, NEW p \in Plugins, Spawn(p)
  PROVE  TypeInv'
<1> USE SlotFacts
<1>1. StackOK' /\ RoomAbove'
  BY SameStack DEF TypeInv, TypeOK, Spawn
<1>2. /\ NewSlot \in Slots
      /\ free' \in Seq(Slots)
      /\ segs' \in 1 .. MaxSegs
  <2>1. CASE free # <<>>
    BY <2>1, FrontElems DEF NewSlot, Spawn, TypeInv, TypeOK
  <2>2. CASE free = <<>>
    <3>1. segs < MaxSegs /\ segs \in 1 .. MaxSegs
      BY <2>2 DEF Spawn, TypeInv, TypeOK
    <3>2. NewSlot \in Slots
      BY <2>2, <3>1, SegmentFacts DEF NewSlot
    <3>3. \A i \in 1 .. SegSize - 1 : (segs + 1) * SegSize - i \in Slots
      BY <3>1, SegmentFacts, ExecutorAssumption DEF Slots
    <3>4. FreshSlots \in Seq(Slots)
      BY <3>3, IsASeq, ExecutorAssumption DEF FreshSlots
    <3> QED  BY <2>2, <3>1, <3>2, <3>4, ExecutorAssumption DEF Spawn
  <2> QED  BY <2>1, <2>2
<1>3. ready' \in Seq(Slots)
  BY <1>2, AppendElems DEF Spawn, TypeInv, TypeOK
<1> DEFINE g == (gen[NewSlot] + 1) % GenMod
<1>4. /\ g \in Gens
      /\ <<NewSlot, g>> \in Tasks
      /\ <<"future", g>> \in Contents
      /\ NoSleep \in [due : Nat, handle : Nat]
  BY <1>2 DEF TypeInv, TypeOK, Tasks, Contents, NoSleep
<1>5. /\ gen' \in [Slots -> Gens]
      /\ state' \in [Slots -> States]
      /\ detached' \in [Slots -> BOOLEAN]
      /\ owner' \in [Slots -> Plugins]
      /\ joinWaker' \in [Slots -> Wakers]
  BY <1>2, <1>4 DEF Spawn, TypeInv, TypeOK, States, Wakers
<1>6. /\ handles' \subseteq Tasks
      /\ store' \in [Slots -> Contents]
      /\ owed' \in [Slots -> BOOLEAN]
      /\ awaitedBy' \in [Slots -> Slots \cup {None}]
      /\ sleep' \in [Slots -> [due : Nat, handle : Nat]]
  BY <1>2, <1>4 DEF Spawn, TypeInv, TypeOK
<1>7. /\ spawns' = spawns + 1
      /\ UNCHANGED <<hot, remote, timers, nextTimer, now, unloading, doomed,
                     undropped, halted, killed>>
  BY DEF Spawn, purge
<1>8. (nextTimer \in Nat \ {0} /\ now \in Nat /\ spawns \in Nat)'
  BY <1>7 DEF TypeInv, TypeOK
<1> QED
  BY <1>1, <1>2, <1>3, <1>5, <1>6, <1>7, <1>8 DEF TypeInv, TypeOK

LEMMA WakingTypes ==
  ASSUME TypeInv, NEW s \in Slots, Wake(s) \/ RemoteWake(s)
  PROVE  TypeInv'
<1>1. StackOK' /\ RoomAbove'
  BY SameStack DEF TypeInv, TypeOK, Wake, RemoteWake, calls
<1>2. Append(remote, s) \in Seq(Slots)
  BY AppendElems DEF TypeInv, TypeOK
<1>3. CASE Wake(s)
  BY <1>1, <1>3, WakeTypes, OwingTypes DEF Wake, TypeInv, TypeOK, clock, calls, purge
<1>4. CASE RemoteWake(s)
  BY <1>1, <1>2, <1>4, OwingTypes DEF RemoteWake, TypeInv, TypeOK, slab, clock, calls, purge
<1> QED  BY <1>3, <1>4

LEMMA DrainTypes ==
  ASSUME TypeInv, Drain
  PROVE  TypeInv'
<1>1. StackOK' /\ RoomAbove'
  BY SameStack DEF TypeInv, TypeOK, Drain, calls
<1>2. Head(remote) \in Slots /\ remote' \in Seq(Slots)
  BY TailElems DEF Drain, TypeInv, TypeOK
<1>3. ready' \in Seq(Slots)
  <2>1. ready \in Seq(Slots) /\ Append(ready, Head(remote)) \in Seq(Slots)
    BY <1>2, AppendElems DEF TypeInv, TypeOK
  <2> QED  BY <2>1 DEF Drain
<1>4. state' \in [Slots -> States]
  BY <1>2 DEF Drain, TypeInv, TypeOK, States
<1> QED
  BY <1>1, <1>2, <1>3, <1>4 DEF Drain, TypeInv, TypeOK, clock, calls, purge, hist

LEMMA FireTypes ==
  ASSUME TypeInv, NEW h \in DOMAIN timers, Fire(h)
  PROVE  TypeInv'
<1>1. StackOK' /\ RoomAbove'
  BY SameStack DEF TypeInv, TypeOK, Fire, calls
<1> QED
  BY <1>1, WakeTypes, OwingTypes
  DEF Fire, TakeDue, TimersWithout, TypeInv, TypeOK, calls, purge

\* Taking a slot off a queue and, if it is READY, entering its poll.
LEMMA PollTypes ==
  ASSUME TypeInv, PollHot \/ PollNext
  PROVE  TypeInv'
<1> DEFINE s == IF hot # None THEN hot ELSE Head(ready)
<1>1. /\ s \in Slots
      /\ PollIfReady(s)
      /\ Top.at = "select"
      /\ hot' \in Slots \cup {None}
      /\ ready' \in Seq(Slots)
  <2>1. hot \in Slots \cup {None} /\ ready \in Seq(Slots)
    BY DEF TypeInv, TypeOK
  <2>2. CASE PollHot
    BY <2>1, <2>2 DEF PollHot
  <2>3. CASE PollNext
    BY <2>1, <2>3, TailElems DEF PollNext
  <2> QED  BY <2>2, <2>3
<1> HIDE DEF s
<1>2. StackOK' /\ RoomAbove'
  <2>1. CASE Pollable(s)
    <3>1. gen[s] \in Gens
      BY <1>1 DEF TypeInv, TypeOK
    <3>2. Fits(Frame("poll", s, gen[s], "none"), depth + 1)
      BY <3>1, <1>1, FrameFits DEF Places, AfterDrop, Glue, Drives
    <3>3. HasRoomFor(1)
      BY <1>1, ExecutorAssumption DEF TypeInv, TypeOK, StackOK, RoomAbove, Depths, Top, Drives, HasRoomFor
    <3>4. Push(Frame("poll", s, gen[s], "none"))
      BY <2>1, <1>1 DEF PollIfReady
    <3> QED  BY <3>2, <3>3, <3>4, PushStack DEF TypeInv, TypeOK
  <2>2. CASE ~ Pollable(s)
    BY <2>2, <1>1, SameStack DEF PollIfReady, TypeInv, TypeOK
  <2> QED  BY <2>1, <2>2
<1>3. /\ state' \in [Slots -> States]
      /\ owed' \in [Slots -> BOOLEAN]
      /\ awaitedBy' \in [Slots -> Slots \cup {None}]
  <2>1. /\ state \in [Slots -> States] /\ owed \in [Slots -> BOOLEAN]
        /\ awaitedBy \in [Slots -> Slots \cup {None}]
    BY DEF TypeInv, TypeOK
  <2>2. CASE Pollable(s)
    BY <2>1, <2>2, <1>1 DEF PollIfReady, States
  <2>3. CASE ~ Pollable(s)
    BY <2>1, <2>3, <1>1 DEF PollIfReady
  <2> QED  BY <2>2, <2>3
<1> QED
  BY <1>1, <1>2, <1>3 DEF PollIfReady, TypeInv, TypeOK, clock, purge

LEMMA PollPendingTypes ==
  ASSUME TypeInv, PollPending
  PROVE  TypeInv'
<1>1. StackOK' /\ RoomAbove'
  BY PopStack DEF TypeInv, TypeOK, PollPending
<1> QED
  BY <1>1 DEF PollPending, TypeInv, TypeOK, slab, lists, clock, purge, hist

LEMMA PollReadyTypes ==
  ASSUME TypeInv, PollReady
  PROVE  TypeInv'
<1> DEFINE s == Top.slot
<1>1. s \in Slots /\ Top.gen \in Gens /\ Top.at = "poll"
  BY TopFacts DEF PollReady, TypeInv, TypeOK, Frames, Glue
<1>2. CASE detached[s]
  <2>1. Fits(Frame("dropResult", s, Top.gen, "free"), depth)
    BY <1>1, FrameFits DEF Places, AfterDrop, Glue, Drives
  <2>2. StackOK' /\ RoomAbove'
    BY <1>1, <1>2, <2>1, ReplaceStack DEF PollReady, TypeInv, TypeOK
  <2>3. /\ state' \in [Slots -> States]
        /\ UNCHANGED <<hot, ready, owed>>
    BY <1>1, <1>2 DEF PollReady, TypeInv, TypeOK, States
  <2> QED
    BY <1>1, <2>2, <2>3
    DEF PollReady, TypeInv, TypeOK, clock, purge, Wakers, Contents
<1>3. CASE ~ detached[s]
  <2>1. StackOK' /\ RoomAbove'
    BY <1>1, <1>3, PopStack DEF PollReady, TypeInv, TypeOK
  <2>2. [state EXCEPT ![s] = "COMPLETE"] \in [Slots -> States]
    BY <1>1 DEF TypeInv, TypeOK, States
  <2>3. WakeInto([state EXCEPT ![s] = "COMPLETE"], joinWaker[s]) /\ owed' = Owing(joinWaker[s])
    BY <1>3 DEF PollReady
  <2>4. /\ state' \in [Slots -> States]
        /\ hot' \in Slots \cup {None}
        /\ ready' \in Seq(Slots)
        /\ owed' \in [Slots -> BOOLEAN]
    BY <2>2, <2>3, WakeTypes, OwingTypes DEF TypeInv
  <2> QED
    BY <1>1, <2>1, <2>4
    DEF PollReady, TypeInv, TypeOK, clock, purge, Wakers, Contents
<1> QED  BY <1>2, <1>3

LEMMA DropReturnTypes ==
  ASSUME TypeInv, DropReturn
  PROVE  TypeInv'
<1> DEFINE s == Top.slot
<1>1. s \in Slots
  BY TopFacts DEF DropReturn, TypeInv, TypeOK, Glue
<1>2. StackOK' /\ RoomAbove'
  BY PopStack DEF TypeInv, TypeOK, DropReturn
<1>3. state' \in [Slots -> States]
  BY <1>1 DEF DropReturn, TypeInv, TypeOK, States
<1>4. free' \in Seq(Slots)
  <2>1. free \in Seq(Slots) /\ Append(free, s) \in Seq(Slots)
    BY <1>1, AppendElems DEF TypeInv, TypeOK
  <2> QED  BY <2>1 DEF DropReturn
<1>5. store' \in [Slots -> Contents]
  BY <1>1, SlotFacts DEF DropReturn, TypeInv, TypeOK, Contents, Gens
<1>6. /\ DOMAIN timers' \subseteq DOMAIN timers
      /\ \A h \in DOMAIN timers' : timers'[h] = timers[h]
      /\ sleep' \in [Slots -> [due : Nat, handle : Nat]]
  <2>1. sleep \in [Slots -> [due : Nat, handle : Nat]]
    BY DEF TypeInv, TypeOK
  <2>2. CASE Top.at = "dropFuture"
    BY <1>1, <2>1, <2>2 DEF DropReturn, CancelTimer, TimersWithout, NoSleep
  <2>3. CASE Top.at # "dropFuture"
    BY <2>1, <2>3 DEF DropReturn
  <2> QED  BY <2>2, <2>3
<1>7. UNCHANGED <<gen, detached, owner, joinWaker, segs, ready, hot, remote,
                  nextTimer, now, unloading, doomed, undropped, halted, handles,
                  spawns, owed, awaitedBy, killed>>
  BY DEF DropReturn, purge
<1> QED
  BY <1>2, <1>3, <1>4, <1>5, <1>6, <1>7 DEF TypeInv, TypeOK

LEMMA CallGlue ==
  ASSUME TypeInv, NEW s \in Slots, NEW at \in {"dropFuture", "dropResult"},
         NEW then \in AfterDrop, HasRoomFor(1), Push(Frame(at, s, gen[s], then))
  PROVE  StackOK' /\ RoomAbove'
<1>1. gen[s] \in Gens
  BY DEF TypeInv, TypeOK
<1>2. Fits(Frame(at, s, gen[s], then), depth + 1)
  BY <1>1, FrameFits DEF Places, Glue, Drives
<1> QED  BY <1>2, PushStack DEF TypeInv, TypeOK

LEMMA DiscardTypes ==
  ASSUME TypeInv, NEW s \in Slots, NEW then \in AfterDrop, DiscardResult(s, then),
         ready' \in Seq(Slots), handles' \subseteq Tasks, killed' \subseteq Tasks
  PROVE  TypeInv'
<1>1. StackOK' /\ RoomAbove'
  BY CallGlue DEF DiscardResult, CallDropResult
<1>2. free' \in Seq(Slots)
  BY AppendElems DEF DiscardResult, TypeInv, TypeOK
<1>3. /\ state' \in [Slots -> States]
      /\ joinWaker' \in [Slots -> Wakers]
  BY DEF DiscardResult, TypeInv, TypeOK, States, Wakers
<1> QED
  BY <1>1, <1>2, <1>3 DEF DiscardResult, TypeInv, TypeOK, clock, purge

LEMMA JoinTypes ==
  ASSUME TypeInv, NEW h \in handles, JoinTake(h) \/ JoinNone(h)
  PROVE  TypeInv'
<1>1. h[1] \in Slots /\ handles \ {h} \subseteq Tasks
  BY DEF TypeInv, TypeOK, Tasks
<1>2. StackOK' /\ RoomAbove'
  BY SameStack DEF TypeInv, TypeOK, JoinTake, JoinNone
<1>3. CASE JoinTake(h)
  <2>1. free' \in Seq(Slots)
    BY <1>1, <1>3, AppendElems DEF JoinTake, TypeInv, TypeOK
  <2>2. /\ state' \in [Slots -> States]
        /\ joinWaker' \in [Slots -> Wakers]
        /\ store' \in [Slots -> Contents]
    BY <1>1, <1>3, SlotFacts DEF JoinTake, TypeInv, TypeOK, States, Wakers, Contents, Gens
  <2> QED
    BY <1>1, <1>2, <1>3, <2>1, <2>2 DEF JoinTake, TypeInv, TypeOK, clock, purge
<1>4. CASE JoinNone(h)
  BY <1>1, <1>2, <1>4 DEF JoinNone, TypeInv, TypeOK, slab, lists, clock, purge, hist
<1> QED  BY <1>3, <1>4

LEMMA JoinWaitTypes ==
  ASSUME TypeInv, NEW h \in handles, NEW w \in Wakers, JoinWait(h, w)
  PROVE  TypeInv'
<1>1. h[1] \in Slots
  BY DEF TypeInv, TypeOK, Tasks
<1>2. StackOK' /\ RoomAbove'
  BY SameStack DEF TypeInv, TypeOK, JoinWait
<1>3. WakerToStore(h[1], w) \in Wakers
  BY DEF WakerToStore
<1>4. /\ joinWaker' \in [Slots -> Wakers]
      /\ awaitedBy' \in [Slots -> Slots \cup {None}]
  BY <1>1, <1>3 DEF JoinWait, TypeInv, TypeOK, Wakers
<1> QED
  BY <1>2, <1>4 DEF JoinWait, TypeInv, TypeOK, lists, clock, purge

LEMMA JoinDropTypes ==
  ASSUME TypeInv, NEW h \in handles, JoinDrop(h)
  PROVE  TypeInv'
<1>1. h[1] \in Slots /\ handles' \subseteq Tasks
  BY DEF JoinDrop, TypeInv, TypeOK, Tasks
<1>2. CASE UNCHANGED <<slab, lists, clock, calls, purge, halted, spawns, hist>>
  <2>1. StackOK' /\ RoomAbove'
    BY <1>2, SameStack DEF TypeInv, TypeOK
  <2> QED
    BY <1>1, <1>2, <2>1 DEF TypeInv, TypeOK, slab, lists, clock, purge, hist
<1>3. CASE /\ detached' = [detached EXCEPT ![h[1]] = TRUE]
           /\ joinWaker' = [joinWaker EXCEPT ![h[1]] = None]
           /\ awaitedBy' = [awaitedBy EXCEPT ![h[1]] = None]
           /\ UNCHANGED <<state, gen, owner, lists, clock, calls, purge, halted,
                          spawns, store, owed, killed>>
  <2>1. StackOK' /\ RoomAbove'
    BY <1>3, SameStack DEF TypeInv, TypeOK
  <2>2. /\ detached' \in [Slots -> BOOLEAN]
        /\ joinWaker' \in [Slots -> Wakers]
        /\ awaitedBy' \in [Slots -> Slots \cup {None}]
    BY <1>1, <1>3 DEF TypeInv, TypeOK, Wakers
  <2> QED
    BY <1>1, <1>3, <2>1, <2>2 DEF TypeInv, TypeOK, lists, clock, purge
<1>4. CASE DiscardResult(h[1], "none") /\ UNCHANGED <<ready, killed>>
  BY <1>1, <1>4, DiscardTypes DEF TypeInv, TypeOK, AfterDrop
<1> QED  BY <1>2, <1>3, <1>4 DEF JoinDrop

LEMMA CancelRunningTypes ==
  ASSUME TypeInv, NEW s \in Slots, CancelRunning(s), handles' \subseteq Tasks
  PROVE  TypeInv'
<1>1. StackOK' /\ RoomAbove'
  BY CallGlue DEF CancelRunning, AfterDrop
<1>2. ready' \in Seq(Slots)
  BY WithoutElems DEF CancelRunning, TypeInv, TypeOK
<1>3. /\ state' \in [Slots -> States]
      /\ joinWaker' \in [Slots -> Wakers]
      /\ killed' \subseteq Tasks
  BY DEF CancelRunning, TypeInv, TypeOK, States, Wakers, Tasks
<1>4. UNCHANGED <<gen, detached, owner, segs, free, hot, remote, clock, purge,
                  halted, spawns, store, owed, awaitedBy>>
  BY DEF CancelRunning
<1> QED
  BY <1>1, <1>2, <1>3, <1>4 DEF TypeInv, TypeOK, clock, purge

LEMMA CancelCompleteTypes ==
  ASSUME TypeInv, NEW s \in Slots, CancelComplete(s), handles' \subseteq Tasks
  PROVE  TypeInv'
<1>1. ready' \in Seq(Slots) /\ killed' \subseteq Tasks
  BY WithoutElems DEF CancelComplete, TypeInv, TypeOK
<1> QED  BY <1>1, DiscardTypes DEF CancelComplete, AfterDrop

LEMMA CancelTypes ==
  ASSUME TypeInv, NEW h \in handles, Cancel(h)
  PROVE  TypeInv'
<1>1. h[1] \in Slots /\ handles' \subseteq Tasks
  BY DEF Cancel, TypeInv, TypeOK, Tasks
<1>2. CASE UNCHANGED <<slab, lists, clock, calls, purge, halted, spawns, hist>>
  <2>1. StackOK' /\ RoomAbove'
    BY <1>2, SameStack DEF TypeInv, TypeOK
  <2> QED
    BY <1>1, <1>2, <2>1 DEF TypeInv, TypeOK, slab, lists, clock, purge, hist
<1> QED
  BY <1>1, <1>2, CancelRunningTypes, CancelCompleteTypes DEF Cancel

LEMMA AbortTypes ==
  ASSUME TypeInv, NEW s \in Slots, Abort(s)
  PROVE  TypeInv'
BY CancelRunningTypes, CancelCompleteTypes DEF Abort, TypeInv, TypeOK

LEMMA HostWaitTypes ==
  ASSUME TypeInv, NEW s \in Slots, HostWait(s)
  PROVE  TypeInv'
<1>1. /\ ready' \in Seq(Slots)
      /\ handles' \subseteq Tasks
      /\ killed' \subseteq Tasks
  BY DEF HostWait, TypeInv, TypeOK, Tasks
<1> QED  BY <1>1, DiscardTypes DEF HostWait, AfterDrop

LEMMA UnloadBeginTypes ==
  ASSUME TypeInv, NEW p \in Plugins, UnloadBegin(p)
  PROVE  TypeInv'
<1>1. StackOK' /\ RoomAbove'
  <2>1. Fits(Frame("unload", None, 0, "none"), depth + 1)
    BY DriveFits, TopFacts, ExecutorAssumption
    DEF UnloadBegin, HasRoomFor, Drives, TypeInv, TypeOK
  <2> QED
    BY <2>1, PushStack, TopFacts, ExecutorAssumption
    DEF UnloadBegin, HasRoomFor, TypeInv, TypeOK
<1>2. TasksOf(p) \subseteq Slots
  BY SegmentFacts, ExecutorAssumption DEF TasksOf, Allocated, TypeInv, TypeOK
<1>3. ready' \in Seq(Slots)
  BY WithoutElems DEF UnloadBegin, TypeInv, TypeOK
<1>4. /\ state' \in [Slots -> States]
      /\ joinWaker' \in [Slots -> Wakers]
      /\ hot' \in Slots \cup {None}
  BY DEF UnloadBegin, HotWithout, TypeInv, TypeOK, States, Wakers
<1>5. /\ unloading' \in Plugins
      /\ doomed' \subseteq Slots
      /\ undropped' \subseteq Slots \X States
      /\ killed' \subseteq Tasks
  BY <1>2 DEF UnloadBegin, TypeInv, TypeOK, Tasks
<1>6. UNCHANGED <<gen, detached, owner, segs, free, remote, clock, halted, handles,
                  spawns, store, owed, awaitedBy>>
  BY DEF UnloadBegin
<1> QED
  BY <1>1, <1>3, <1>4, <1>5, <1>6 DEF TypeInv, TypeOK, clock

LEMMA UnloadingTypes ==
  ASSUME TypeInv, Unloading
  PROVE  TypeInv'
<1>1. ASSUME NEW s \in Slots, UnloadDrop(s)  PROVE TypeInv'
  <2>1. PICK u \in undropped :
          /\ undropped' = undropped \ {u}
          /\ Push(Frame(GlueFor(u[2]), s, gen[s], "none"))
    BY <1>1 DEF UnloadDrop
  <2>2. HasRoomFor(1)
    BY <1>1, ExecutorAssumption
    DEF UnloadDrop, TypeInv, TypeOK, StackOK, RoomAbove, Depths, Top, Drives, HasRoomFor
  <2>3. StackOK' /\ RoomAbove'
    BY <2>1, <2>2, CallGlue DEF GlueFor, AfterDrop
  <2> QED
    BY <1>1, <2>1, <2>3 DEF UnloadDrop, TypeInv, TypeOK, slab, lists, clock, hist
<1>2. ASSUME NEW s \in Slots, UnloadFree(s)  PROVE TypeInv'
  <2>1. StackOK' /\ RoomAbove'
    BY <1>2, SameStack DEF UnloadFree, TypeInv, TypeOK
  <2>2. free' \in Seq(Slots)
    BY <1>2, AppendElems DEF UnloadFree, TypeInv, TypeOK
  <2>3. state' \in [Slots -> States] /\ DOMAIN timers' = {}
    BY <1>2 DEF UnloadFree, TimersWithout, TypeInv, TypeOK, States
  <2> QED
    BY <1>2, <2>1, <2>2, <2>3 DEF UnloadFree, TypeInv, TypeOK, hist
<1>3. ASSUME UnloadDone  PROVE TypeInv'
  <2>1. StackOK' /\ RoomAbove'
    BY <1>3, PopStack DEF UnloadDone, TypeInv, TypeOK
  <2> QED
    BY <1>3, <2>1 DEF UnloadDone, TypeInv, TypeOK, slab, lists, clock, hist
<1> QED  BY <1>1, <1>2, <1>3 DEF Unloading

\* SleepFuture's calls: the timer map keeps its type when an entry is added ...
LEMMA RegisterTypes ==
  ASSUME TypeInv, NEW t \in Slots, NEW due \in Nat, NEW slip \in Slips,
         Register(t, due, slip)
  PROVE  /\ nextTimer' \in Nat \ {0}
         /\ DOMAIN timers' \subseteq 1 .. nextTimer' - 1
         /\ \A h \in DOMAIN timers' : timers'[h].due \in Nat /\ timers'[h].waker \in Slots
         /\ sleep' \in [Slots -> [due : Nat, handle : Nat]]
<1>1. /\ nextTimer \in Nat \ {0}
      /\ DOMAIN timers \subseteq 1 .. nextTimer - 1
      /\ \A h \in DOMAIN timers : timers[h].due \in Nat /\ timers[h].waker \in Slots
      /\ sleep \in [Slots -> [due : Nat, handle : Nat]]
      /\ due + slip \in Nat
  BY DEF TypeInv, TypeOK, Slips
<1>2. sleep' \in [Slots -> [due : Nat, handle : Nat]]
  BY <1>1 DEF Register
<1>3. /\ nextTimer' = nextTimer + 1
      /\ DOMAIN timers' = DOMAIN timers \cup {nextTimer}
      /\ \A h \in DOMAIN timers' :
           timers'[h] = IF h = nextTimer THEN [due |-> due + slip, waker |-> t]
                        ELSE timers[h]
  BY DEF Register
<1>4. ASSUME NEW h \in DOMAIN timers'
      PROVE  timers'[h].due \in Nat /\ timers'[h].waker \in Slots
  <2>1. CASE h = nextTimer
    BY <1>1, <1>3, <2>1
  <2>2. CASE h # nextTimer
    BY <1>1, <1>3, <2>2
  <2> QED  BY <2>1, <2>2
<1> QED  BY <1>1, <1>2, <1>3, <1>4

\* ... and when one is removed.
LEMMA SleepingTypes ==
  ASSUME TypeInv, Sleeping
  PROVE  TypeInv'
<1>1. ASSUME UNCHANGED <<slab, lists, calls, purge, halted, handles, spawns, hist>>,
             nextTimer' \in Nat \ {0}, now' \in Nat,
             DOMAIN timers' \subseteq 1 .. nextTimer' - 1,
             \A h \in DOMAIN timers' : timers'[h].due \in Nat /\ timers'[h].waker \in Slots,
             sleep' \in [Slots -> [due : Nat, handle : Nat]]
      PROVE  TypeInv'
  <2>1. StackOK' /\ RoomAbove'
    BY <1>1, SameStack DEF TypeInv, TypeOK
  <2> QED  BY <1>1, <2>1 DEF TypeInv, TypeOK, slab, lists, purge, hist
<1>2. Top.at = "poll" => Top.slot \in Slots
  BY TopFacts DEF TypeInv, TypeOK, Glue
<1>3. ASSUME NEW d \in 1 .. MaxTime, NEW slip \in Slips, SleepStart(d, slip)
      PROVE  TypeInv'
  <2>1. now + d \in Nat /\ now' \in Nat
    BY <1>3, ExecutorAssumption DEF SleepStart, TypeInv, TypeOK
  <2> QED
    BY <1>1, <1>2, <1>3, <2>1, RegisterTypes DEF SleepStart, Sleeper
<1>4. ASSUME NEW slip \in Slips, SleepAgain(slip)  PROVE TypeInv'
  <2>1. sleep[Sleeper].due \in Nat /\ now' \in Nat
    BY <1>2, <1>4 DEF SleepAgain, Sleeper, TypeInv, TypeOK
  <2> QED
    BY <1>1, <1>2, <1>4, <2>1, RegisterTypes DEF SleepAgain, Sleeper
<1>5. ASSUME SleepEnd  PROVE TypeInv'
  <2>1. sleep' \in [Slots -> [due : Nat, handle : Nat]]
    BY <1>2, <1>5 DEF SleepEnd, Sleeper, NoSleep, TypeInv, TypeOK
  <2>2. /\ nextTimer' \in Nat \ {0} /\ now' \in Nat
        /\ DOMAIN timers' \subseteq 1 .. nextTimer' - 1
        /\ \A h \in DOMAIN timers' : timers'[h].due \in Nat /\ timers'[h].waker \in Slots
    BY <1>5 DEF SleepEnd, CancelTimer, TimersWithout, TypeInv, TypeOK
  <2> QED  BY <1>1, <1>5, <2>1, <2>2 DEF SleepEnd
<1>6. ASSUME Tick  PROVE TypeInv'
  <2>1. /\ nextTimer' \in Nat \ {0} /\ now' \in Nat
        /\ DOMAIN timers' \subseteq 1 .. nextTimer' - 1
        /\ \A h \in DOMAIN timers' : timers'[h].due \in Nat /\ timers'[h].waker \in Slots
        /\ sleep' \in [Slots -> [due : Nat, handle : Nat]]
    BY <1>6 DEF Tick, TypeInv, TypeOK
  <2> QED  BY <1>1, <1>6, <2>1 DEF Tick
<1> QED  BY <1>3, <1>4, <1>5, <1>6 DEF Sleeping

LEMMA StutterTypes ==
  ASSUME TypeInv, UNCHANGED vars
  PROVE  TypeInv'
BY DEF TypeInv, TypeOK, StackOK, RoomAbove, vars, slab, lists, clock, calls, purge, hist

LEMMA PanicTypes ==
  ASSUME TypeInv, SpawnPanics
  PROVE  TypeInv'
<1>1. StackOK' /\ RoomAbove'
  BY SameStack DEF SpawnPanics, TypeInv, TypeOK
<1> QED
  BY <1>1 DEF SpawnPanics, TypeInv, TypeOK, slab, lists, clock, purge, hist

LEMMA InitTypes ==
  ASSUME Init
  PROVE  TypeInv
<1> USE SlotFacts, ExecutorAssumption
<1>1. /\ stack \in [Depths -> Frames] /\ depth \in Depths
      /\ \A i \in Depths : stack[i] = IF i = 1 THEN Frame("root", None, 0, "none") ELSE NoFrame
  BY DEF Init, Depths, Frames, Frame, NoFrame, Places, AfterDrop, Gens
<1>2. StackOK /\ RoomAbove
  <2>1. depth = 1 /\ Frame("root", None, 0, "none").at = "root" /\ NoFrame.at = "none"
    BY DEF Init, Frame, NoFrame
  <2> QED  BY <1>1, <2>1 DEF StackOK, RoomAbove, Depths, Drives
<1>3. free \in Seq(Slots)
  <2>1. SegSize \in Nat \ {0} /\ 1 \in 1 .. MaxSegs
    OBVIOUS
  <2>2. 0 .. SegSize - 1 \subseteq Slots
    BY <2>1, SegmentFacts
  <2>3. \A i \in 1 .. SegSize : SegSize - i \in Slots
    BY <2>1, <2>2
  <2>4. [i \in 1 .. SegSize |-> SegSize - i] \in Seq(Slots)
    BY <2>1, <2>3, IsASeq
  <2> QED  BY <2>4, Zenon DEF Init
<1>4. ready \in Seq(Slots) /\ remote \in Seq(Slots)
  BY EmptySeq DEF Init
<1>5. /\ DOMAIN timers = {} /\ nextTimer \in Nat \ {0} /\ now \in Nat /\ spawns \in Nat
      /\ sleep \in [Slots -> [due : Nat, handle : Nat]]
      /\ store \in [Slots -> Contents]
  <2>1. NoSleep \in [due : Nat, handle : Nat] /\ <<"none", 0>> \in Contents
    BY DEF NoSleep, Contents, Gens
  <2>2. DOMAIN timers = {}
    BY DEF Init
  <2> QED  BY <2>1, <2>2 DEF Init
<1>6. /\ state \in [Slots -> States]
      /\ gen \in [Slots -> Gens]
      /\ detached \in [Slots -> BOOLEAN]
      /\ owner \in [Slots -> Plugins]
      /\ joinWaker \in [Slots -> Wakers]
      /\ owed \in [Slots -> BOOLEAN]
      /\ awaitedBy \in [Slots -> Slots \cup {None}]
  BY DEF Init, States, Wakers, Gens
<1>7. segs \in 1 .. MaxSegs /\ hot \in Slots \cup {None}
  BY DEF Init
<1>8. /\ unloading \in Plugins \cup {NoPlugin} /\ doomed = {} /\ undropped = {}
      /\ halted \in BOOLEAN /\ handles = {} /\ killed = {}
  BY DEF Init
<1> QED
  BY <1>2, <1>3, <1>4, <1>5, <1>6, <1>7, <1>8 DEF TypeInv, TypeOK

LEMMA StepTypes ==
  ASSUME TypeInv, [Next]_vars
  PROVE  TypeInv'
<1>1. CASE Driving
  BY <1>1, DrainTypes, DrivingTypes, FireTypes, PollTypes DEF Driving
<1>2. CASE Polling
  BY <1>2, PollPendingTypes, PollReadyTypes, DropReturnTypes DEF Polling
<1>3. ASSUME NEW p \in Plugins, Tasking(p)  PROVE TypeInv'
  BY <1>3, SpawnTypes, UnloadBeginTypes DEF Tasking
<1>4. ASSUME NEW s \in Slots, Waking(s) \/ Abort(s) \/ HostWait(s)  PROVE TypeInv'
  BY <1>4, WakingTypes, AbortTypes, HostWaitTypes DEF Waking
<1>5. ASSUME NEW h \in handles, Joining(h)  PROVE TypeInv'
  BY <1>5, JoinTypes, JoinWaitTypes, JoinDropTypes, CancelTypes DEF Joining
<1>6. CASE SpawnPanics \/ StartDrive
  BY <1>6, PanicTypes, DrivingTypes
<1> QED
  BY <1>1, <1>2, <1>3, <1>4, <1>5, <1>6, UnloadingTypes, SleepingTypes, StutterTypes
  DEF Next, Stopped

\* Every variable keeps the type of its field, and the call stack never outgrows
\* the room that drive() and drop_plugin_tasks leave for the code they call.
THEOREM TypeCorrect == Spec => []TypeOK
<1>1. Init => TypeInv
  BY InitTypes
<1>2. TypeInv /\ [Next]_vars => TypeInv'
  BY StepTypes
<1>3. TypeInv => TypeOK
  BY DEF TypeInv
<1> QED  BY <1>1, <1>2, <1>3, PTL DEF Spec

-----------------------------------------------------------------------------
(* Nothing outside of the slab is ever in use.                             *)

InSlab ==
  /\ \A s \in Slots : state[s] # "EMPTY" => s \in Allocated
  /\ Elems(free) \subseteq Allocated
  /\ doomed \subseteq Allocated
  /\ \A u \in undropped : u[1] \in Allocated
  /\ \A i \in 1 .. depth : stack[i].at \in Glue => stack[i].slot \in Allocated

SlabInv == TypeInv /\ InSlab

\* Steps that leave the segments alone keep what is in use inside of them if
\* what they newly use is.
LEMMA SlabStep ==
  ASSUME SlabInv, UNCHANGED segs,
         \A s \in Slots : state'[s] # "EMPTY" => state[s] # "EMPTY" \/ s \in Allocated,
         Elems(free') \subseteq Allocated,
         doomed' \subseteq Allocated,
         \A u \in undropped' : u[1] \in Allocated,
         \A i \in 1 .. depth' : stack'[i].at \in Glue => stack'[i].slot \in Allocated
  PROVE  InSlab'
BY DEF SlabInv, InSlab, Allocated

LEMMA SlabPush ==
  ASSUME SlabInv, NEW f, f.at \in Glue => f.slot \in Allocated, HasRoomFor(1), Push(f)
  PROVE  \A i \in 1 .. depth' : stack'[i].at \in Glue => stack'[i].slot \in Allocated
BY DEF SlabInv, InSlab, TypeInv, TypeOK, StackOK, Depths, HasRoomFor, Push

LEMMA SlabReplace ==
  ASSUME SlabInv, NEW f, f.at \in Glue => f.slot \in Allocated, Replace(f)
  PROVE  \A i \in 1 .. depth' : stack'[i].at \in Glue => stack'[i].slot \in Allocated
BY DEF SlabInv, InSlab, TypeInv, TypeOK, StackOK, Depths, Replace

LEMMA SlabPop ==
  ASSUME SlabInv, Pop
  PROVE  \A i \in 1 .. depth' : stack'[i].at \in Glue => stack'[i].slot \in Allocated
BY DEF SlabInv, InSlab, TypeInv, TypeOK, StackOK, Depths, Pop

LEMMA SlabTop ==
  ASSUME SlabInv, Top.at \in Glue
  PROVE  Top.slot \in Allocated
BY DEF SlabInv, InSlab, TypeInv, TypeOK, StackOK, Depths, Top

LEMMA FrameParts ==
  ASSUME NEW at, NEW s, NEW g, NEW then
  PROVE  LET f == Frame(at, s, g, then)
         IN  f.at = at /\ f.slot = s /\ f.gen = g /\ f.then = then
BY DEF Frame

LEMMA SlabSpawn ==
  ASSUME SlabInv, NEW p \in Plugins, Spawn(p)
  PROVE  InSlab'
<1>1. Allocated \subseteq Allocated' /\ Elems(free') \subseteq Allocated' /\ NewSlot \in Allocated'
  <2>0. free \in Seq(Slots) /\ segs \in 1 .. MaxSegs /\ Elems(free) \subseteq Allocated
    BY DEF SlabInv, InSlab, TypeInv, TypeOK
  <2>1. CASE free # <<>>
    <3>1. UNCHANGED segs /\ free' = Front(free) /\ NewSlot = free[Len(free)]
      BY <2>1 DEF Spawn, NewSlot
    <3>2. free[Len(free)] \in Elems(free) /\ Elems(Front(free)) \subseteq Elems(free)
      <4>1. Len(free) \in Nat \ {0} /\ DOMAIN free = 1 .. Len(free)
        BY <2>0, <2>1, FrontElems, LenProperties
      <4>2. /\ DOMAIN Front(free) = 1 .. Len(free) - 1
            /\ \A i \in 1 .. Len(free) - 1 : Front(free)[i] = free[i]
        BY <2>0, <2>1, FrontElems
      <4> QED  BY <4>1, <4>2 DEF Elems
    <3>3. Allocated' = Allocated
      BY <3>1 DEF Allocated
    <3> QED  BY <2>0, <3>1, <3>2, <3>3
  <2>2. CASE free = <<>>
    <3>1. segs < MaxSegs /\ segs' = segs + 1 /\ free' = FreshSlots /\ NewSlot = segs * SegSize
      BY <2>2 DEF Spawn, NewSlot
    <3>2. /\ segs * SegSize \in Nat
          /\ (segs + 1) * SegSize = segs * SegSize + SegSize
      BY <2>0, <3>1, SegmentFacts
    <3>3. /\ Allocated = 0 .. segs * SegSize - 1
          /\ Allocated' = 0 .. (segs * SegSize + SegSize) - 1
      <4>1. Allocated' = 0 .. (segs + 1) * SegSize - 1
        BY <3>1, Zenon DEF Allocated
      <4>2. Allocated = 0 .. segs * SegSize - 1
        BY DEF Allocated
      <4> QED  BY <3>2, <4>1, <4>2, Zenon
    <3>4. Elems(FreshSlots) = {(segs + 1) * SegSize - i : i \in 1 .. SegSize - 1}
      BY DEF Elems, FreshSlots
    <3> QED  BY <3>1, <3>2, <3>3, <3>4, ExecutorAssumption
  <2> QED  BY <2>1, <2>2
<1>2. \A s \in Slots : state'[s] # "EMPTY" => state[s] # "EMPTY" \/ s = NewSlot
  BY DEF Spawn, SlabInv, TypeInv, TypeOK
<1>3. UNCHANGED <<stack, depth, doomed, undropped>>
  BY DEF Spawn, calls, purge
<1> QED  BY <1>1, <1>2, <1>3 DEF SlabInv, InSlab

\* Steps that push or append no slot that was not there before.
LEMMA SlabCalm ==
  ASSUME SlabInv,
         UNCHANGED <<segs, free, calls, purge>>,
         \A s \in Slots : state'[s] # "EMPTY" => state[s] # "EMPTY"
  PROVE  InSlab'
BY DEF SlabInv, InSlab, Allocated, calls, purge

LEMMA SlabWake ==
  ASSUME SlabInv, NEW st, NEW w, WakeInto(st, w), st \in [Slots -> States]
  PROVE  \A s \in Slots : state'[s] # "EMPTY" => st[s] # "EMPTY"
BY DEF WakeInto, StateAfterWake, Wakes

LEMMA SlabFree ==
  ASSUME SlabInv, NEW s \in Slots, s \in Allocated, free' = Append(free, s)
  PROVE  Elems(free') \subseteq Allocated
BY AppendElems DEF SlabInv, InSlab, TypeInv, TypeOK

LEMMA SlabDiscard ==
  ASSUME SlabInv, NEW s \in Slots, NEW then \in AfterDrop, DiscardResult(s, then)
  PROVE  InSlab'
<1>1. s \in Allocated
  BY DEF DiscardResult, SlabInv, InSlab
<1>2. Elems(free') \subseteq Allocated
  BY <1>1, SlabFree DEF DiscardResult
<1>3. \A i \in 1 .. depth' : stack'[i].at \in Glue => stack'[i].slot \in Allocated
  BY <1>1, SlabPush, FrameParts DEF DiscardResult, CallDropResult
<1> QED
  BY <1>2, <1>3, SlabStep DEF DiscardResult, purge, SlabInv, InSlab, TypeInv, TypeOK

LEMMA SlabCancelRunning ==
  ASSUME SlabInv, NEW s \in Slots, CancelRunning(s)
  PROVE  InSlab'
<1>1. s \in Allocated
  BY DEF CancelRunning, Alive, SlabInv, InSlab
<1>2. \A i \in 1 .. depth' : stack'[i].at \in Glue => stack'[i].slot \in Allocated
  BY <1>1, SlabPush, FrameParts DEF CancelRunning
<1> QED
  BY <1>1, <1>2, SlabStep DEF CancelRunning, purge, SlabInv, InSlab, TypeInv, TypeOK

LEMMA SlabCancel ==
  ASSUME SlabInv, NEW s \in Slots, CancelRunning(s) \/ CancelComplete(s)
  PROVE  InSlab'
BY SlabCancelRunning, SlabDiscard DEF CancelComplete, AfterDrop


LEMMA SlabDriving ==
  ASSUME SlabInv, Driving \/ StartDrive
  PROVE  InSlab'
<1>0. state \in [Slots -> States]
  BY DEF SlabInv, TypeInv, TypeOK
<1>1. CASE StartDrive \/ DrainDone \/ FireDone
  <2>1. /\ Frame("drain", None, 0, "none").at \notin Glue
        /\ Frame("fire", None, 0, "none").at \notin Glue
        /\ Frame("select", None, 0, "none").at \notin Glue
    BY FrameParts DEF Glue
  <2>2. \A i \in 1 .. depth' : stack'[i].at \in Glue => stack'[i].slot \in Allocated
    <3>1. StartDrive => HasRoomFor(1)
      BY TopFacts, ExecutorAssumption DEF StartDrive, HasRoomFor, SlabInv, TypeInv, TypeOK
    <3> QED  BY <1>1, <2>1, <3>1, SlabPush, SlabReplace DEF StartDrive, DrainDone, FireDone
  <2> QED
    BY <1>1, <2>2, SlabStep
    DEF StartDrive, DrainDone, FireDone, slab, lists, purge, SlabInv, InSlab
<1>2. CASE DriveDone
  <2>1. \A i \in 1 .. depth' : stack'[i].at \in Glue => stack'[i].slot \in Allocated
    BY <1>2, SlabPop DEF DriveDone
  <2> QED
    BY <1>2, <2>1, SlabStep DEF DriveDone, slab, lists, purge, SlabInv, InSlab
<1>3. CASE Drain
  <2>1. \A s \in Slots : state'[s] # "EMPTY" => state[s] # "EMPTY"
    BY <1>0, <1>3 DEF Drain, Drainable
  <2> QED  BY <1>3, <2>1, SlabCalm DEF Drain
<1>4. ASSUME NEW h \in DOMAIN timers, Fire(h)  PROVE InSlab'
  <2>1. \A s \in Slots : state'[s] # "EMPTY" => state[s] # "EMPTY"
    BY <1>0, <1>4, SlabWake DEF Fire
  <2> QED  BY <1>4, <2>1, SlabCalm DEF Fire
<1>5. CASE PollHot \/ PollNext
  <2> DEFINE s == IF hot # None THEN hot ELSE Head(ready)
  <2>1. s \in Slots /\ PollIfReady(s)
    BY <1>5, TailElems DEF PollHot, PollNext, SlabInv, TypeInv, TypeOK
  <2>2. HasRoomFor(1)
    BY <1>5, ExecutorAssumption
    DEF PollHot, PollNext, SlabInv, TypeInv, TypeOK, StackOK, RoomAbove, Depths, Top, Drives, HasRoomFor
  <2> HIDE DEF s
  <2>3. CASE Pollable(s)
    <3>1. s \in Allocated /\ \A x \in Slots : state'[x] # "EMPTY" => state[x] # "EMPTY"
      BY <1>0, <2>1, <2>3 DEF PollIfReady, Pollable, SlabInv, InSlab
    <3>2. Push(Frame("poll", s, gen[s], "none"))
      BY <2>1, <2>3 DEF PollIfReady
    <3>3. \A i \in 1 .. depth' : stack'[i].at \in Glue => stack'[i].slot \in Allocated
      BY <2>2, <3>1, <3>2, SlabPush, FrameParts
    <3> QED
      BY <2>1, <3>1, <3>3, SlabStep DEF PollIfReady, purge, SlabInv, InSlab
  <2>4. CASE ~ Pollable(s)
    BY <2>1, <2>4, SlabCalm DEF PollIfReady
  <2> QED  BY <2>3, <2>4
<1> QED
  BY <1>1, <1>2, <1>3, <1>4, <1>5 DEF Driving

LEMMA SlabPolling ==
  ASSUME SlabInv, Polling
  PROVE  InSlab'
<1>0. state \in [Slots -> States]
  BY DEF SlabInv, TypeInv, TypeOK
<1>1. CASE PollPending
  <2>1. \A i \in 1 .. depth' : stack'[i].at \in Glue => stack'[i].slot \in Allocated
    BY <1>1, SlabPop DEF PollPending
  <2> QED
    BY <1>1, <2>1, SlabStep DEF PollPending, slab, lists, purge, SlabInv, InSlab
<1>2. CASE PollReady
  <2> DEFINE s == Top.slot
  <2>1. s \in Slots /\ s \in Allocated
    BY <1>2, SlabTop, TopFacts DEF PollReady, Glue, SlabInv, TypeInv, TypeOK
  <2>2. CASE detached[s]
    <3>1. \A i \in 1 .. depth' : stack'[i].at \in Glue => stack'[i].slot \in Allocated
      BY <1>2, <2>1, <2>2, SlabReplace, FrameParts DEF PollReady
    <3>2. \A x \in Slots : state'[x] # "EMPTY" => state[x] # "EMPTY" \/ x \in Allocated
      BY <1>0, <1>2, <2>1, <2>2 DEF PollReady
    <3> QED
      BY <1>2, <3>1, <3>2, SlabStep DEF PollReady, purge, SlabInv, InSlab
  <2>3. CASE ~ detached[s]
    <3>1. \A i \in 1 .. depth' : stack'[i].at \in Glue => stack'[i].slot \in Allocated
      BY <1>2, <2>3, SlabPop DEF PollReady
    <3>2. [state EXCEPT ![s] = "COMPLETE"] \in [Slots -> States]
      BY <1>0, <2>1 DEF States
    <3>3. \A x \in Slots : state'[x] # "EMPTY" => [state EXCEPT ![s] = "COMPLETE"][x] # "EMPTY"
      BY <1>2, <2>3, <3>2, SlabWake DEF PollReady
    <3>4. \A x \in Slots : state'[x] # "EMPTY" => state[x] # "EMPTY" \/ x \in Allocated
      BY <1>0, <2>1, <3>3
    <3> QED
      BY <1>2, <3>1, <3>4, SlabStep DEF PollReady, purge, SlabInv, InSlab
  <2> QED  BY <2>2, <2>3
<1>3. CASE DropReturn
  <2> DEFINE s == Top.slot
  <2>1. s \in Slots /\ s \in Allocated
    BY <1>3, SlabTop, TopFacts DEF DropReturn, Glue, SlabInv, TypeInv, TypeOK
  <2>2. \A i \in 1 .. depth' : stack'[i].at \in Glue => stack'[i].slot \in Allocated
    BY <1>3, SlabPop DEF DropReturn
  <2>3. Elems(free') \subseteq Allocated
    <3>1. free' = free \/ free' = Append(free, s)
      BY <1>3 DEF DropReturn
    <3> QED  BY <2>1, <3>1, SlabFree DEF SlabInv, InSlab
  <2>4. \A x \in Slots : state'[x] # "EMPTY" => state[x] # "EMPTY"
    BY <1>0, <1>3, <2>1 DEF DropReturn
  <2> QED
    BY <1>3, <2>2, <2>3, <2>4, SlabStep DEF DropReturn, purge, SlabInv, InSlab
<1> QED  BY <1>1, <1>2, <1>3 DEF Polling

LEMMA SlabJoining ==
  ASSUME SlabInv, NEW h \in handles, Joining(h)
  PROVE  InSlab'
<1>1. h[1] \in Slots /\ state \in [Slots -> States]
  BY DEF SlabInv, TypeInv, TypeOK, Tasks
<1>2. CASE UNCHANGED <<slab, lists, calls, purge>>
  BY <1>2, SlabCalm DEF slab, lists
<1>3. CASE JoinTake(h)
  <2>1. h[1] \in Allocated
    BY <1>1, <1>3 DEF JoinTake, SlabInv, InSlab
  <2>2. Elems(free') \subseteq Allocated
    BY <1>1, <1>3, <2>1, SlabFree DEF JoinTake
  <2> QED
    BY <1>1, <1>3, <2>2, SlabStep DEF JoinTake, calls, purge, SlabInv, InSlab
<1>4. ASSUME NEW w, JoinWait(h, w)  PROVE InSlab'
  BY <1>4, SlabCalm DEF JoinWait, lists
<1>5. CASE JoinDrop(h)
  <2>1. \/ UNCHANGED <<state, lists, calls, purge>>
        \/ DiscardResult(h[1], "none")
    BY <1>5 DEF JoinDrop, slab
  <2>2. CASE UNCHANGED <<state, lists, calls, purge>>
    BY <2>2, SlabCalm DEF lists
  <2> QED  BY <1>1, <2>1, <2>2, SlabDiscard DEF AfterDrop
<1>6. CASE Cancel(h)
  <2>1. \/ UNCHANGED <<slab, lists, calls, purge>>
        \/ CancelRunning(h[1]) \/ CancelComplete(h[1])
    BY <1>6 DEF Cancel
  <2> QED  BY <1>1, <1>2, <2>1, SlabCancel
<1> QED
  BY <1>2, <1>3, <1>4, <1>5, <1>6 DEF Joining, JoinNone

LEMMA SlabUnload ==
  ASSUME SlabInv, Unloading \/ \E p \in Plugins : UnloadBegin(p)
  PROVE  InSlab'
<1>0. state \in [Slots -> States]
  BY DEF SlabInv, TypeInv, TypeOK
<1>1. ASSUME NEW p \in Plugins, UnloadBegin(p)  PROVE InSlab'
  <2>1. TasksOf(p) \subseteq Allocated
    BY DEF TasksOf
  <2>2. HasRoomFor(1)
    BY <1>1, TopFacts, ExecutorAssumption DEF UnloadBegin, HasRoomFor, SlabInv, TypeInv, TypeOK
  <2>3. \A i \in 1 .. depth' : stack'[i].at \in Glue => stack'[i].slot \in Allocated
    BY <1>1, <2>2, SlabPush, FrameParts DEF UnloadBegin, Glue
  <2>4. \A x \in Slots : state'[x] # "EMPTY" => state[x] # "EMPTY" \/ x \in Allocated
    BY <1>0, <1>1, <2>1 DEF UnloadBegin
  <2>5. doomed' \subseteq Allocated /\ \A u \in undropped' : u[1] \in Allocated
    BY <1>1, <2>1 DEF UnloadBegin
  <2> QED
    BY <1>1, <2>3, <2>4, <2>5, SlabStep DEF UnloadBegin, SlabInv, InSlab
<1>2. ASSUME NEW s \in Slots, UnloadDrop(s)  PROVE InSlab'
  <2>1. HasRoomFor(1)
    BY <1>2, ExecutorAssumption
    DEF UnloadDrop, SlabInv, TypeInv, TypeOK, StackOK, RoomAbove, Depths, Top, Drives, HasRoomFor
  <2>2. PICK u \in undropped :
          /\ u[1] = s
          /\ undropped' = undropped \ {u}
          /\ Push(Frame(GlueFor(u[2]), s, gen[s], "none"))
    BY <1>2 DEF UnloadDrop
  <2>3. s \in Allocated
    BY <2>2 DEF SlabInv, InSlab
  <2>4. \A i \in 1 .. depth' : stack'[i].at \in Glue => stack'[i].slot \in Allocated
    BY <2>1, <2>2, <2>3, SlabPush, FrameParts
  <2> QED
    BY <1>2, <2>2, <2>4, SlabStep DEF UnloadDrop, slab, lists, SlabInv, InSlab
<1>3. ASSUME NEW s \in Slots, UnloadFree(s)  PROVE InSlab'
  <2>1. s \in Allocated
    BY <1>3 DEF UnloadFree, SlabInv, InSlab
  <2>2. Elems(free') \subseteq Allocated
    BY <1>3, <2>1, SlabFree DEF UnloadFree
  <2> QED
    BY <1>0, <1>3, <2>2, SlabStep DEF UnloadFree, calls, SlabInv, InSlab
<1>4. CASE UnloadDone
  <2>1. \A i \in 1 .. depth' : stack'[i].at \in Glue => stack'[i].slot \in Allocated
    BY <1>4, SlabPop DEF UnloadDone
  <2> QED
    BY <1>4, <2>1, SlabStep DEF UnloadDone, slab, lists, SlabInv, InSlab
<1> QED  BY <1>1, <1>2, <1>3, <1>4 DEF Unloading

LEMMA SlabInit ==
  ASSUME Init
  PROVE  SlabInv
<1>1. TypeInv
  BY InitTypes
<1>2. Elems(free) \subseteq Allocated
  <2>1. Elems(free) = {SegSize - i : i \in 1 .. SegSize} /\ Allocated = 0 .. SegSize - 1
    BY ExecutorAssumption DEF Init, Elems, Allocated
  <2> QED  BY <2>1, ExecutorAssumption
<1>3. depth = 1 /\ stack[1].at = "root"
  BY ExecutorAssumption DEF Init, Depths, Frame
<1> QED
  BY <1>1, <1>2, <1>3 DEF Init, SlabInv, InSlab, Glue

LEMMA SlabNext ==
  ASSUME SlabInv, [Next]_vars
  PROVE  SlabInv'
<1>1. TypeInv'
  BY StepTypes DEF SlabInv
<1>2. ASSUME UNCHANGED <<slab, lists, calls, purge>>  PROVE InSlab'
  BY <1>2, SlabCalm DEF slab, lists
<1>3. ASSUME NEW s \in Slots, Waking(s) \/ Abort(s) \/ HostWait(s)  PROVE InSlab'
  <2>1. CASE Wake(s)
    <3>1. \A x \in Slots : state'[x] # "EMPTY" => state[x] # "EMPTY"
      BY <2>1, SlabWake DEF Wake, SlabInv, TypeInv, TypeOK
    <3> QED  BY <2>1, <3>1, SlabCalm DEF Wake
  <2>2. CASE RemoteWake(s)
    BY <2>2, SlabCalm DEF RemoteWake, slab
  <2>3. CASE Abort(s)
    BY <2>3, SlabCancel DEF Abort
  <2>4. CASE HostWait(s)
    BY <2>4, SlabDiscard DEF HostWait, AfterDrop
  <2> QED  BY <1>3, <2>1, <2>2, <2>3, <2>4 DEF Waking
<1>4. ASSUME Sleeping \/ SpawnPanics \/ Stopped \/ UNCHANGED vars  PROVE InSlab'
  BY <1>2, <1>4 DEF Sleeping, SleepStart, SleepAgain, SleepEnd, Tick, SpawnPanics, Stopped, vars
<1>5. ASSUME NEW p \in Plugins, Tasking(p)  PROVE InSlab'
  BY <1>5, SlabSpawn, SlabUnload DEF Tasking
<1>6. InSlab'
  BY <1>3, <1>4, <1>5, SlabDriving, SlabPolling, SlabJoining, SlabUnload DEF Next
<1> QED  BY <1>1, <1>6 DEF SlabInv

-----------------------------------------------------------------------------
(* No wake is lost.                                                        *)

WakeInv == SlabInv /\ NoLostWake

\* Steps that leave what is owed alone, and the state and the place in a queue
\* of every task that lives on.
LEMMA QuietStep ==
  ASSUME WakeInv, UNCHANGED <<remote, owed>>,
         \A s \in Slots : state'[s] \in {"PENDING", "READY"} =>
            /\ state'[s] = state[s]
            /\ hot = s => hot' = s
            /\ s \in Elems(ready) => s \in Elems(ready')
  PROVE  NoLostWake'
BY DEF WakeInv, NoLostWake, Alive

\* waker_wake queues the task it makes READY, and the one it displaces.
LEMMA WakeQueues ==
  ASSUME TypeOK, NEW st \in [Slots -> States], NEW w, WakeInto(st, w),
         \A s \in Slots : st[s] = "READY" => hot = s \/ s \in Elems(ready)
  PROVE  \A s \in Slots :
           /\ state'[s] = "READY" => hot' = s \/ s \in Elems(ready')
           /\ state'[s] \in {"PENDING", "READY"} => st[s] \in {"PENDING", "READY"}
           /\ st[s] = "READY" => state'[s] = "READY"
           /\ s = w /\ st[s] \in {"PENDING", "READY"} => state'[s] = "READY"
<1>1. ready \in Seq(Slots) /\ hot \in Slots \cup {None}
  BY DEF TypeOK
<1>2. CASE Wakes(st, w)
  <2>1. /\ w \in Slots /\ st[w] = "PENDING"
        /\ state' = [st EXCEPT ![w] = "READY"]
        /\ hot' = w
        /\ ready' = IF hot # None THEN Append(ready, hot) ELSE ready
    BY <1>2 DEF WakeInto, StateAfterWake, QueueDisplaced, Wakes
  <2>2. Elems(ready) \subseteq Elems(ready') /\ (hot # None => hot \in Elems(ready'))
    BY <1>1, <2>1, AppendElems
  <2> QED  BY <2>1, <2>2, SlotFacts
<1>3. CASE ~ Wakes(st, w)
  <2>1. state' = st /\ hot' = hot /\ ready' = ready
    BY <1>3 DEF WakeInto, StateAfterWake, QueueDisplaced
  <2> QED  BY <1>3, <2>1 DEF Wakes
<1> QED  BY <1>2, <1>3

\* ... so a step that wakes w, and owes a poll to nobody else, loses none.
LEMMA WakeStep ==
  ASSUME WakeInv, NEW st \in [Slots -> States], NEW w, WakeInto(st, w),
         \A s \in Slots : st[s] \in {"PENDING", "READY"} => st[s] = state[s],
         owed' = Owing(w), UNCHANGED remote
  PROVE  NoLostWake'
<1>1. \A s \in Slots : st[s] = "READY" => hot = s \/ s \in Elems(ready)
  BY DEF WakeInv, NoLostWake
<1>2. \A s \in Slots :
        /\ state'[s] = "READY" => hot' = s \/ s \in Elems(ready')
        /\ state'[s] \in {"PENDING", "READY"} => st[s] \in {"PENDING", "READY"}
        /\ st[s] = "READY" => state'[s] = "READY"
        /\ s = w /\ st[s] \in {"PENDING", "READY"} => state'[s] = "READY"
  BY <1>1, WakeQueues DEF WakeInv, SlabInv, TypeInv
<1>3. \A s \in Slots : s # w => owed'[s] = owed[s]
  BY DEF Owing, WakeInv, SlabInv, TypeInv, TypeOK
<1> QED
  BY <1>2, <1>3 DEF WakeInv, NoLostWake, Alive

LEMMA SpawnQueues ==
  ASSUME WakeInv, NEW p \in Plugins, Spawn(p)
  PROVE  NoLostWake'
<1>1. /\ Elems(ready') = Elems(ready) \cup {NewSlot}
      /\ state' = [state EXCEPT ![NewSlot] = "READY"]
      /\ owed' = [owed EXCEPT ![NewSlot] = TRUE]
      /\ UNCHANGED <<hot, remote>>
  <2>1. NewSlot \in Slots
    BY SpawnTypes, FrontElems, SegmentFacts
    DEF Spawn, NewSlot, WakeInv, SlabInv, TypeInv, TypeOK
  <2> QED  BY <2>1, AppendElems DEF Spawn, WakeInv, SlabInv, TypeInv, TypeOK
<1> QED
  BY <1>1 DEF WakeInv, NoLostWake, Alive, SlabInv, TypeInv, TypeOK

\* Draining the remote queue turns a wake it held into a READY task, unless the
\* slot holds no task that waits.
LEMMA DrainQueues ==
  ASSUME WakeInv, Drain
  PROVE  NoLostWake'
<1> DEFINE s == Head(remote)
<1>1. /\ ready \in Seq(Slots) /\ state \in [Slots -> States]
      /\ s \in Slots
      /\ Elems(remote) = Elems(remote') \cup {s}
  BY TailElems DEF Drain, WakeInv, SlabInv, TypeInv, TypeOK
<1>2. UNCHANGED <<hot, owed>>
  BY DEF Drain, hist
<1>3. CASE Drainable(s)
  <2>1. state' = [state EXCEPT ![s] = "READY"] /\ Elems(ready') = Elems(ready) \cup {s}
    <3>1. state' = [state EXCEPT ![s] = "READY"] /\ ready' = Append(ready, s)
      BY <1>3 DEF Drain
    <3> QED  BY <1>1, <3>1, AppendElems
  <2> HIDE DEF s
  <2> QED  BY <1>1, <1>2, <1>3, <2>1 DEF WakeInv, NoLostWake, Alive, Drainable
<1>4. CASE ~ Drainable(s)
  <2>1. state[s] # "PENDING"
    BY <1>1, <1>4 DEF Drainable, WakeInv, SlabInv, InSlab
  <2>2. UNCHANGED <<state, ready>>
    BY <1>4 DEF Drain
  <2> QED  BY <1>1, <1>2, <2>1, <2>2 DEF WakeInv, NoLostWake, Alive
<1> QED  BY <1>3, <1>4

\* Phase 3 drops no entry of a READY task without polling it.
LEMMA PollQueues ==
  ASSUME WakeInv, PollHot \/ PollNext
  PROVE  NoLostWake'
<1> DEFINE s == IF hot # None THEN hot ELSE Head(ready)
<1>1. /\ s \in Slots
      /\ PollIfReady(s)
      /\ \A x \in Slots : x # s =>
           (hot = x \/ x \in Elems(ready) => hot' = x \/ x \in Elems(ready'))
  <2>1. hot \in Slots \cup {None} /\ ready \in Seq(Slots)
    BY DEF WakeInv, SlabInv, TypeInv, TypeOK
  <2>2. CASE PollHot
    BY <2>1, <2>2 DEF PollHot
  <2>3. CASE PollNext
    BY <2>1, <2>3, TailElems DEF PollNext
  <2> QED  BY <2>2, <2>3
<1> HIDE DEF s
<1>2. /\ \A x \in Slots : x # s => state'[x] = state[x] /\ owed'[x] = owed[x]
      /\ state'[s] # "READY"
      /\ owed'[s] => state'[s] = state[s] /\ owed[s]
      /\ UNCHANGED remote
  <2>1. state \in [Slots -> States] /\ owed \in [Slots -> BOOLEAN]
    BY DEF WakeInv, SlabInv, TypeInv, TypeOK
  <2>2. CASE Pollable(s)
    <3>1. /\ state' = [state EXCEPT ![s] = "PENDING"]
          /\ owed' = [owed EXCEPT ![s] = FALSE]
          /\ UNCHANGED remote
      BY <1>1, <2>2 DEF PollIfReady
    <3>2. state'[s] = "PENDING" /\ owed'[s] = FALSE
      BY <1>1, <2>1, <3>1
    <3>3. \A x \in Slots : x # s => state'[x] = state[x] /\ owed'[x] = owed[x]
      BY <1>1, <2>1, <3>1
    <3> QED  BY <3>1, <3>2, <3>3
  <2>3. CASE ~ Pollable(s)
    BY <1>1, <2>1, <2>3 DEF PollIfReady, Pollable
  <2> QED  BY <2>2, <2>3
<1> QED
  BY <1>1, <1>2 DEF WakeInv, NoLostWake, Alive

LEMMA PollReadyQueues ==
  ASSUME WakeInv, PollReady
  PROVE  NoLostWake'
<1> DEFINE s == Top.slot
           w == joinWaker[s]
<1>1. /\ s \in Slots
      /\ state \in [Slots -> States]
      /\ [state EXCEPT ![s] = "COMPLETE"] \in [Slots -> States]
  BY TopFacts DEF PollReady, Glue, WakeInv, SlabInv, TypeInv, TypeOK, States
<1>2. CASE detached[s]
  <2>1. /\ state' = [state EXCEPT ![s] = "CANCELLED"]
        /\ UNCHANGED <<hot, ready, owed, remote>>
    BY <1>2 DEF PollReady
  <2> QED  BY <1>1, <2>1, QuietStep
<1>3. CASE ~ detached[s]
  <2>1. /\ WakeInto([state EXCEPT ![s] = "COMPLETE"], w)
        /\ owed' = Owing(w)
        /\ UNCHANGED remote
    BY <1>3 DEF PollReady
  <2>2. \A x \in Slots : [state EXCEPT ![s] = "COMPLETE"][x] \in {"PENDING", "READY"}
                           => [state EXCEPT ![s] = "COMPLETE"][x] = state[x]
    BY <1>1
  <2> HIDE DEF s, w
  <2> QED  BY <1>1, <2>1, <2>2, WakeStep
<1> QED  BY <1>2, <1>3

LEMMA DiscardQueues ==
  ASSUME WakeInv, NEW s \in Slots, NEW then, DiscardResult(s, then),
         \A x \in Elems(ready) \ {s} : x \in Elems(ready')
  PROVE  NoLostWake'
<1>1. \A x \in Slots : state'[x] = IF x = s THEN "EMPTY" ELSE state[x]
  BY DEF DiscardResult, WakeInv, SlabInv, TypeInv, TypeOK
<1> QED  BY <1>1, QuietStep DEF DiscardResult

LEMMA CancelQueues ==
  ASSUME WakeInv, NEW s \in Slots, CancelRunning(s) \/ CancelComplete(s)
  PROVE  NoLostWake'
<1>1. \A x \in Elems(ready) \ {s} : x \in Elems(ready')
  BY WithoutElems
  DEF CancelRunning, CancelComplete, WakeInv, SlabInv, TypeInv, TypeOK
<1>2. CASE CancelRunning(s)
  <2>1. \A x \in Slots : state'[x] = IF x = s THEN "CANCELLED" ELSE state[x]
    BY <1>2 DEF CancelRunning, WakeInv, SlabInv, TypeInv, TypeOK
  <2> QED  BY <1>1, <1>2, <2>1, QuietStep DEF CancelRunning
<1>3. CASE CancelComplete(s)
  BY <1>1, <1>3, DiscardQueues DEF CancelComplete
<1> QED  BY <1>2, <1>3

\* drop_plugin_tasks takes only tasks of the plugin off the queues.
LEMMA UnloadQueues ==
  ASSUME WakeInv, NEW p \in Plugins, UnloadBegin(p)
  PROVE  NoLostWake'
<1>1. \A s \in Slots : state'[s] = IF s \in TasksOf(p) THEN "CANCELLED" ELSE state[s]
  BY DEF UnloadBegin
<1>2. \A s \in Slots : state[s] \in {"PENDING", "READY"} /\ owner[s] = p => s \in TasksOf(p)
  BY DEF TasksOf, WakeInv, SlabInv, InSlab
<1>3. Elems(ready') = Elems(ready) \ TasksOf(p)
  BY WithoutElems DEF UnloadBegin, WakeInv, SlabInv, TypeInv, TypeOK
<1>4. \A s \in Slots : hot = s /\ owner[s] # p => hot' = s
  BY SlotFacts DEF UnloadBegin, HotWithout
<1>5. UNCHANGED <<remote, owed>>
  BY DEF UnloadBegin
<1> QED  BY <1>1, <1>2, <1>3, <1>4, <1>5, QuietStep

LEMMA RemoteQueues ==
  ASSUME WakeInv, NEW s \in Slots, RemoteWake(s)
  PROVE  NoLostWake'
<1>1. /\ Elems(remote') = Elems(remote) \cup {s}
      /\ owed' = Owing(s)
      /\ UNCHANGED <<state, hot, ready>>
  BY AppendElems DEF RemoteWake, slab, WakeInv, SlabInv, TypeInv, TypeOK
<1>2. \A x \in Slots : x # s => owed'[x] = owed[x]
  BY <1>1 DEF Owing, WakeInv, SlabInv, TypeInv, TypeOK
<1> QED  BY <1>1, <1>2 DEF WakeInv, NoLostWake, Alive

LEMMA WakeNext ==
  ASSUME WakeInv, [Next]_vars
  PROVE  WakeInv'
<1>0. state \in [Slots -> States] /\ SlabInv'
  BY SlabNext DEF WakeInv, SlabInv, TypeInv, TypeOK
<1>1. ASSUME UNCHANGED <<state, hot, ready, remote, owed>>  PROVE NoLostWake'
  BY <1>1, QuietStep
<1>2. ASSUME Driving  PROVE NoLostWake'
  <2>1. ASSUME NEW h \in DOMAIN timers, Fire(h)  PROVE NoLostWake'
    BY <1>0, <2>1, WakeStep DEF Fire
  <2>2. ASSUME DrainDone \/ FireDone \/ DriveDone  PROVE NoLostWake'
    BY <1>1, <2>2 DEF DrainDone, FireDone, DriveDone, slab, lists, hist
  <2> QED  BY <1>2, <2>1, <2>2, DrainQueues, PollQueues DEF Driving
<1>3. ASSUME Polling  PROVE NoLostWake'
  <2>1. ASSUME DropReturn  PROVE NoLostWake'
    <3>1. Top.slot \in Slots
      BY <2>1, TopFacts DEF DropReturn, Glue, WakeInv, SlabInv, TypeInv, TypeOK
    <3>2. \A x \in Slots : state'[x] = state[x] \/ state'[x] = "EMPTY"
      BY <1>0, <2>1, <3>1 DEF DropReturn
    <3> QED  BY <2>1, <3>2, QuietStep DEF DropReturn
  <2>2. ASSUME PollPending  PROVE NoLostWake'
    BY <1>1, <2>2 DEF PollPending, slab, lists, hist
  <2> QED  BY <1>3, <2>1, <2>2, PollReadyQueues DEF Polling
<1>4. ASSUME NEW s \in Slots, Waking(s) \/ Abort(s) \/ HostWait(s)  PROVE NoLostWake'
  <2>1. ASSUME Wake(s)  PROVE NoLostWake'
    BY <1>0, <2>1, WakeStep DEF Wake
  <2>2. ASSUME Abort(s)  PROVE NoLostWake'
    BY <2>2, CancelQueues DEF Abort
  <2>3. ASSUME HostWait(s)  PROVE NoLostWake'
    BY <2>3, DiscardQueues DEF HostWait
  <2> QED  BY <1>4, <2>1, <2>2, <2>3, RemoteQueues DEF Waking
<1>5. ASSUME NEW h \in handles, Joining(h)  PROVE NoLostWake'
  <2>1. h[1] \in Slots
    BY DEF WakeInv, SlabInv, TypeInv, TypeOK, Tasks
  <2>2. ASSUME JoinTake(h)  PROVE NoLostWake'
    <3>1. \A x \in Slots : state'[x] = state[x] \/ state'[x] = "EMPTY"
      BY <1>0, <2>1, <2>2 DEF JoinTake
    <3> QED  BY <2>2, <3>1, QuietStep DEF JoinTake
  <2>3. ASSUME JoinNone(h) \/ \E w \in Wakers : JoinWait(h, w)  PROVE NoLostWake'
    BY <1>1, <2>3 DEF JoinNone, JoinWait, slab, lists, hist
  <2>4. ASSUME JoinDrop(h)  PROVE NoLostWake'
    <3>1. \/ UNCHANGED <<state, hot, ready, remote, owed>>
          \/ DiscardResult(h[1], "none") /\ UNCHANGED ready
      BY <2>4 DEF JoinDrop, slab, lists, hist
    <3> QED  BY <1>1, <2>1, <3>1, DiscardQueues
  <2>5. ASSUME Cancel(h)  PROVE NoLostWake'
    <3>1. \/ UNCHANGED <<state, hot, ready, remote, owed>>
          \/ CancelRunning(h[1]) \/ CancelComplete(h[1])
      BY <2>5 DEF Cancel, slab, lists, hist
    <3> QED  BY <1>1, <2>1, <3>1, CancelQueues
  <2> QED  BY <1>5, <2>2, <2>3, <2>4, <2>5 DEF Joining
<1>6. ASSUME Unloading  PROVE NoLostWake'
  <2>1. ASSUME NEW s \in Slots, UnloadFree(s)  PROVE NoLostWake'
    <3>1. \A x \in Slots : state'[x] = state[x] \/ state'[x] = "EMPTY"
      BY <1>0, <2>1 DEF UnloadFree
    <3> QED  BY <2>1, <3>1, QuietStep DEF UnloadFree, hist
  <2>2. ASSUME UnloadDone \/ \E s \in Slots : UnloadDrop(s)  PROVE NoLostWake'
    BY <1>1, <2>2 DEF UnloadDone, UnloadDrop, slab, lists, hist
  <2> QED  BY <1>6, <2>1, <2>2 DEF Unloading
<1>7. ASSUME Sleeping \/ SpawnPanics \/ StartDrive \/ Stopped \/ UNCHANGED vars
      PROVE  NoLostWake'
  BY <1>1, <1>7
  DEF Sleeping, SleepStart, SleepAgain, SleepEnd, Tick, SpawnPanics, StartDrive,
      Stopped, vars, slab, lists, hist
<1>8. ASSUME NEW p \in Plugins, Tasking(p)  PROVE NoLostWake'
  BY <1>8, SpawnQueues, UnloadQueues DEF Tasking
<1>9. NoLostWake'
  BY <1>2, <1>3, <1>4, <1>5, <1>6, <1>7, <1>8 DEF Next
<1> QED  BY <1>0, <1>9 DEF WakeInv

\* Whatever user code does (aborts of any task, drive cycles inside of tasks,
\* destructors that spawn, unloads), a READY task stays queued and a wake that
\* arrived while a task lived is not forgotten until the task is polled.
THEOREM NoWakeIsLost == Spec => []NoLostWake
<1>1. Init => WakeInv
  BY SlabInit DEF WakeInv, NoLostWake, Init, Alive
<1>2. WakeInv /\ [Next]_vars => WakeInv'
  BY WakeNext
<1>3. WakeInv => NoLostWake
  BY DEF WakeInv
<1> QED  BY <1>1, <1>2, <1>3, PTL DEF Spec

-----------------------------------------------------------------------------
(* The free list is exact, if no task aborts itself and only the root      *)
(* drives the executor.                                                    *)

\* drive() and drop_plugin_tasks are called from the root; the drive cycle polls.
Shape ==
  /\ \A i \in 1 .. depth : stack[i].at \in Drives => i = 2
  /\ \A i \in 1 .. depth : stack[i].at = "poll" => i = 3
  /\ \A i \in 1 .. depth : stack[i].then # "none" => stack[i].at \in {"dropFuture", "dropResult"}
  /\ \A i \in 1 .. depth : stack[i].then = "free" => stack[i].at = "dropResult"
  /\ doomed # {} => depth > 1 /\ stack[2].at = "unload"

\* The task that is being polled is alive and still in its slot.
PolledIsAlive ==
  \A i \in 1 .. depth : stack[i].at = "poll" =>
    /\ state[stack[i].slot] \in {"PENDING", "READY"}
    /\ stack[i].gen = gen[stack[i].slot]

\* cancel_task will not free the slot of a result that it drops once more: the
\* slot is still EMPTY, or belongs to a later task.
SpentFrame(f) == f.at = "dropResult" /\ f.then = "freeIfCancelled"
SpentStaysFreed ==
  \A i \in 1 .. depth : SpentFrame(stack[i]) =>
    \/ stack[i].gen < gen[stack[i].slot]
    \/ stack[i].gen = gen[stack[i].slot] /\ state[stack[i].slot] = "EMPTY"

\* No generation comes round again.
GenBound == spawns <= MaxSpawns /\ \A s \in Slots : gen[s] <= spawns

SlotInv ==
  /\ SlabInv
  /\ FreeListExact /\ ReleasedOnce
  /\ Shape /\ PolledIsAlive /\ SpentStaysFreed /\ GenBound

SlotParts ==
  /\ FreeListExact /\ ReleasedOnce
  /\ Shape /\ PolledIsAlive /\ SpentStaysFreed /\ GenBound

LEMMA GlueSlots ==
  ASSUME StackOK
  PROVE  \A i \in 1 .. depth : stack[i].at \in Glue => stack[i].slot \in Slots
BY ExecutorAssumption DEF StackOK, Depths, Glue

\* Generations, those of the slots and those the frames remember, are numbers.
LEMMA GenFacts ==
  ASSUME TypeOK
  PROVE  /\ \A s \in Slots : gen[s] \in Int
         /\ \A i \in 1 .. depth : stack[i].gen \in Int
<1>1. Gens \subseteq Int
  BY ExecutorAssumption DEF Gens
<1>2. gen \in [Slots -> Gens] /\ StackOK
  BY DEF TypeOK
<1>3. \A i \in 1 .. depth : stack[i].gen \in Gens
  BY <1>2, ExecutorAssumption DEF StackOK, Depths, Frames
<1> QED  BY <1>1, <1>2, <1>3

LEMMA PushFacts ==
  ASSUME StackOK, NEW f, HasRoomFor(1), Push(f)
  PROVE  /\ depth \in Nat \ {0} /\ depth' = depth + 1
         /\ stack'[depth + 1] = f
         /\ \A i \in 1 .. depth : stack'[i] = stack[i]
BY DEF StackOK, Depths, HasRoomFor, Push

LEMMA ReplaceFacts ==
  ASSUME StackOK, NEW f, Replace(f)
  PROVE  /\ depth \in Nat \ {0} /\ depth' = depth
         /\ stack'[depth] = f
         /\ \A i \in 1 .. depth - 1 : stack'[i] = stack[i]
BY DEF StackOK, Depths, Replace

LEMMA PopFacts ==
  ASSUME StackOK, Top.at # "root", Pop
  PROVE  /\ depth \in Nat \ {0, 1} /\ depth' = depth - 1
         /\ \A i \in 1 .. depth - 1 : stack'[i] = stack[i]
BY TopFacts DEF StackOK, Depths, Pop, Top

\* Slots change state, but none becomes free or starts to be released, and none
\* ceases to live.
Stays(s) ==
  \/ state'[s] = state[s]
  \/ state[s] \in {"PENDING", "READY"} /\ state'[s] \in {"PENDING", "READY"}

LEMMA FreeSame ==
  ASSUME FreeListExact, UNCHANGED <<free, segs>>,
         \A s \in Slots : state'[s] = "EMPTY" <=> state[s] = "EMPTY"
  PROVE  FreeListExact'
BY DEF FreeListExact, Allocated, Elems

LEMMA FreeAppend ==
  ASSUME SlabInv, FreeListExact, NEW s \in Slots, state[s] # "EMPTY",
         state' = [state EXCEPT ![s] = "EMPTY"], free' = Append(free, s), UNCHANGED segs
  PROVE  FreeListExact'
<1>1. /\ free \in Seq(Slots) /\ state \in [Slots -> States]
      /\ s \in Allocated /\ s \notin Elems(free)
      /\ Allocated' = Allocated
  BY DEF FreeListExact, SlabInv, InSlab, TypeInv, TypeOK, Allocated
<1>2. Elems(free') = Elems(free) \cup {s}
  BY <1>1, AppendElems
<1>3. \A x \in Slots : state'[x] = "EMPTY" <=> state[x] = "EMPTY" \/ x = s
  BY <1>1
<1>4. \A i, j \in DOMAIN free' : free'[i] = free'[j] => i = j
  <2>1. /\ Len(free) \in Nat /\ DOMAIN free = 1 .. Len(free)
        /\ DOMAIN free' = 1 .. Len(free) + 1
        /\ \A i \in 1 .. Len(free) : free'[i] = free[i] /\ free[i] # s
        /\ free'[Len(free) + 1] = s
    BY <1>1, AppendProperties, LenProperties DEF Elems
  <2> QED  BY <2>1 DEF FreeListExact
<1> QED  BY <1>1, <1>2, <1>3, <1>4 DEF FreeListExact

LEMMA CalmSlots ==
  ASSUME SlotInv, UNCHANGED <<calls, doomed, gen, spawns, free, segs>>,
         \A s \in Slots : Stays(s)
  PROVE  SlotParts'
<1>1. FreeListExact'
  BY FreeSame DEF SlotInv, Stays
<1>2. \A i \in 1 .. depth : stack[i].at \in Glue => stack[i].slot \in Slots
  BY GlueSlots DEF SlotInv, SlabInv, TypeInv, TypeOK
<1>3. PolledIsAlive' /\ SpentStaysFreed'
  BY <1>2 DEF SlotInv, PolledIsAlive, SpentStaysFreed, SpentFrame, Stays, calls, Glue
<1>4. ReleasedOnce'
  BY DEF SlotInv, ReleasedOnce, Releasing, Stays, calls
<1> QED
  BY <1>1, <1>3, <1>4 DEF SlotInv, SlotParts, Shape, GenBound, calls

\* A frame is pushed that will free nothing.
LEMMA PushSlots ==
  ASSUME SlotInv, NEW f, Push(f), HasRoomFor(1), f.then = "none",
         f.at \in Drives => depth = 1,
         f.at = "poll" => depth = 2 /\ f.slot \in Slots /\ f.gen = gen[f.slot]
                            /\ state[f.slot] \in {"PENDING", "READY"},
         UNCHANGED <<doomed, gen, spawns, free, segs>>,
         \A s \in Slots : Stays(s)
  PROVE  SlotParts'
<1>1. /\ depth \in Nat \ {0} /\ depth' = depth + 1
      /\ stack'[depth + 1] = f
      /\ \A i \in 1 .. depth : stack'[i] = stack[i]
  BY PushFacts DEF SlotInv, SlabInv, TypeInv, TypeOK
<1>2. FreeListExact'
  BY FreeSame DEF SlotInv, Stays
<1>3. \A i \in 1 .. depth : stack[i].at \in Glue => stack[i].slot \in Slots
  BY GlueSlots DEF SlotInv, SlabInv, TypeInv, TypeOK
<1>4. Shape'
  BY <1>1 DEF SlotInv, Shape, Drives
<1>5. PolledIsAlive'
  BY <1>1, <1>3 DEF SlotInv, PolledIsAlive, Stays, Glue
<1>6. SpentStaysFreed'
  BY <1>1, <1>3 DEF SlotInv, SpentStaysFreed, SpentFrame, Stays, Glue
<1>7. ReleasedOnce'
  <2>1. \A i \in 1 .. depth' : Releasing(i)' <=> i \in 1 .. depth /\ Releasing(i)
    BY <1>1 DEF Releasing
  <2> QED  BY <1>1, <2>1 DEF SlotInv, ReleasedOnce, Stays
<1> QED  BY <1>2, <1>4, <1>5, <1>6, <1>7 DEF SlotInv, SlotParts, GenBound

\* A frame is popped that frees nothing.
LEMMA PopSlots ==
  ASSUME SlotInv, Pop, Top.at # "root", ~ Releasing(depth),
         Top.at = "unload" => doomed = {},
         UNCHANGED <<doomed, gen, spawns, free, segs>>,
         \A s \in Slots : Stays(s)
  PROVE  SlotParts'
<1>1. /\ depth \in Nat \ {0, 1} /\ depth' = depth - 1
      /\ \A i \in 1 .. depth - 1 : stack'[i] = stack[i]
  BY PopFacts DEF SlotInv, SlabInv, TypeInv, TypeOK
<1>2. FreeListExact'
  BY FreeSame DEF SlotInv, Stays
<1>3. \A i \in 1 .. depth : stack[i].at \in Glue => stack[i].slot \in Slots
  BY GlueSlots DEF SlotInv, SlabInv, TypeInv, TypeOK
<1>4. Shape'
  BY <1>1 DEF SlotInv, Shape, Top
<1>5. PolledIsAlive'
  BY <1>1, <1>3 DEF SlotInv, PolledIsAlive, Stays, Glue
<1>6. SpentStaysFreed'
  BY <1>1, <1>3 DEF SlotInv, SpentStaysFreed, SpentFrame, Stays, Glue
<1>7. ReleasedOnce'
  <2>1. \A i \in 1 .. depth' : i \in 1 .. depth /\ (Releasing(i)' <=> Releasing(i))
                                /\ stack'[i] = stack[i]
    BY <1>1 DEF Releasing
  <2>2. \A i \in 1 .. depth : Releasing(i) => i \in 1 .. depth'
    BY <1>1
  <2> QED  BY <2>1, <2>2 DEF SlotInv, ReleasedOnce, Stays
<1> QED  BY <1>2, <1>4, <1>5, <1>6, <1>7 DEF SlotInv, SlotParts, GenBound

LEMMA DiscardSlots ==
  ASSUME SlotInv, NEW s \in Slots, NEW then \in {"none", "freeIfCancelled"},
         DiscardResult(s, then)
  PROVE  SlotParts'
<1> DEFINE f == Frame("dropResult", s, gen[s], then)
<1>1. /\ f.at = "dropResult" /\ f.slot = s /\ f.gen = gen[s] /\ f.then = then
      /\ state[s] = "COMPLETE"
      /\ \A x \in Slots : state'[x] = IF x = s THEN "EMPTY" ELSE state[x]
      /\ UNCHANGED <<gen, spawns, doomed, segs>>
  BY FrameParts DEF DiscardResult, purge, SlotInv, SlabInv, TypeInv, TypeOK
<1>2. /\ depth \in Nat \ {0} /\ depth' = depth + 1
      /\ stack'[depth + 1] = f
      /\ \A i \in 1 .. depth : stack'[i] = stack[i]
  BY PushFacts DEF DiscardResult, CallDropResult, SlotInv, SlabInv, TypeInv, TypeOK
<1> HIDE DEF f
<1>3. FreeListExact'
  BY <1>1, FreeAppend DEF DiscardResult, SlotInv
<1>4. \A i \in 1 .. depth : stack[i].at \in Glue => stack[i].slot \in Slots
  BY GlueSlots DEF SlotInv, SlabInv, TypeInv, TypeOK
<1>5. Shape'
  BY <1>1, <1>2 DEF SlotInv, Shape, Drives
<1>6. PolledIsAlive'
  BY <1>1, <1>2, <1>4 DEF SlotInv, PolledIsAlive, Glue
<1>7. SpentStaysFreed'
  <2>1. \A i \in 1 .. depth : SpentFrame(stack[i]) => stack[i].slot \in Slots
    BY <1>4 DEF SpentFrame, Glue
  <2> QED  BY <1>1, <1>2, <2>1 DEF SlotInv, SpentStaysFreed, SpentFrame
<1>8. ReleasedOnce'
  <2>1. \A i \in 1 .. depth' : Releasing(i)' <=> i \in 1 .. depth /\ Releasing(i)
    BY <1>1, <1>2 DEF Releasing
  <2> QED  BY <1>1, <1>2, <2>1 DEF SlotInv, ReleasedOnce
<1> QED  BY <1>1, <1>3, <1>5, <1>6, <1>7, <1>8 DEF SlotInv, SlotParts, GenBound

LEMMA JoinTakeSlots ==
  ASSUME SlotInv, NEW h \in handles, JoinTake(h)
  PROVE  SlotParts'
<1> DEFINE s == h[1]
<1>1. /\ s \in Slots
      /\ state[s] = "COMPLETE"
      /\ \A x \in Slots : state'[x] = IF x = s THEN "EMPTY" ELSE state[x]
      /\ UNCHANGED <<gen, spawns, doomed, segs, stack, depth>>
  BY DEF JoinTake, calls, purge, SlotInv, SlabInv, TypeInv, TypeOK, Tasks
<1>2. FreeListExact'
  BY <1>1, FreeAppend DEF JoinTake, SlotInv
<1> HIDE DEF s
<1>3. \A i \in 1 .. depth : stack[i].at \in Glue => stack[i].slot \in Slots
  BY GlueSlots DEF SlotInv, SlabInv, TypeInv, TypeOK
<1>4. Shape' /\ PolledIsAlive'
  BY <1>1, <1>3 DEF SlotInv, Shape, PolledIsAlive, Glue
<1>5. SpentStaysFreed'
  BY <1>1, <1>3 DEF SlotInv, SpentStaysFreed, SpentFrame, Glue
<1>6. ReleasedOnce'
  BY <1>1 DEF SlotInv, ReleasedOnce, Releasing
<1> QED  BY <1>1, <1>2, <1>4, <1>5, <1>6 DEF SlotInv, SlotParts, GenBound

LEMMA CancelRunningSlots ==
  ASSUME SlotInv, "abortSelf" \notin Client, NEW s \in Slots, CancelRunning(s)
  PROVE  SlotParts'
<1> DEFINE f == Frame("dropFuture", s, gen[s], "freeIfCancelled")
<1>1. /\ f.at = "dropFuture" /\ f.slot = s /\ f.gen = gen[s] /\ f.then = "freeIfCancelled"
      /\ state[s] \in {"PENDING", "READY"}
      /\ \A x \in Slots : state'[x] = IF x = s THEN "CANCELLED" ELSE state[x]
      /\ UNCHANGED <<gen, spawns, doomed, segs, free>>
      /\ \A i \in 1 .. depth : stack[i].at = "poll" => stack[i].slot # s
  BY FrameParts DEF CancelRunning, Alive, OnStack, purge, SlotInv, SlabInv, TypeInv, TypeOK
<1>2. /\ depth \in Nat \ {0} /\ depth' = depth + 1
      /\ stack'[depth + 1] = f
      /\ \A i \in 1 .. depth : stack'[i] = stack[i]
  BY PushFacts DEF CancelRunning, SlotInv, SlabInv, TypeInv, TypeOK
<1> HIDE DEF f
<1>3. FreeListExact'
  BY <1>1, FreeSame DEF SlotInv
<1>4. \A i \in 1 .. depth : stack[i].at \in Glue => stack[i].slot \in Slots
  BY GlueSlots DEF SlotInv, SlabInv, TypeInv, TypeOK
<1>5. Shape'
  BY <1>1, <1>2 DEF SlotInv, Shape, Drives
<1>6. PolledIsAlive'
  BY <1>1, <1>2, <1>4 DEF SlotInv, PolledIsAlive, Glue
<1>7. SpentStaysFreed'
  <2>1. \A i \in 1 .. depth : SpentFrame(stack[i]) => stack[i].slot \in Slots
    BY <1>4 DEF SpentFrame, Glue
  <2> QED  BY <1>1, <1>2, <2>1 DEF SlotInv, SpentStaysFreed, SpentFrame
<1>8. ReleasedOnce'
  <2>1. s \notin doomed /\ \A i \in 1 .. depth : Releasing(i) => stack[i].slot # s
    <3>1. \A i \in 1 .. depth : Releasing(i) => stack[i].at \in Glue
      BY DEF SlotInv, Shape, Releasing, Glue
    <3> QED  BY <1>1, <1>4, <3>1 DEF SlotInv, ReleasedOnce
  <2>2. /\ \A i \in 1 .. depth' : i \in 1 .. depth \/ i = depth'
        /\ depth' \in 1 .. depth' /\ stack'[depth'] = f
        /\ \A i \in 1 .. depth : i \in 1 .. depth' /\ i # depth'
    BY <1>2
  <2>3. ASSUME NEW i, i = depth'  PROVE Releasing(i)'
    BY <1>1, <2>2, <2>3 DEF Releasing
  <2>4. ASSUME NEW i \in 1 .. depth  PROVE Releasing(i)' <=> Releasing(i)
    BY <1>2 DEF Releasing
  <2>5. \A x \in Slots :
          state'[x] = "CANCELLED" <=>
            x \in doomed' \/ \E i \in 1 .. depth' : Releasing(i)' /\ stack'[i].slot = x
    <3>1. ASSUME NEW x \in Slots, x # s
          PROVE  (\E i \in 1 .. depth' : Releasing(i)' /\ stack'[i].slot = x)
                   <=> \E i \in 1 .. depth : Releasing(i) /\ stack[i].slot = x
      BY <1>1, <1>2, <2>2, <2>4, <3>1
    <3>2. \E i \in 1 .. depth' : Releasing(i)' /\ stack'[i].slot = s
      BY <1>1, <2>2, <2>3
    <3> QED  BY <1>1, <3>1, <3>2 DEF SlotInv, ReleasedOnce
  <2>6. ASSUME NEW i \in 1 .. depth', Releasing(i)'
        PROVE  /\ stack'[i].slot \notin doomed'
               /\ stack'[i].gen = gen'[stack'[i].slot]
               /\ \A j \in 1 .. depth' : Releasing(j)' /\ stack'[j].slot = stack'[i].slot => i = j
    <3>1. CASE i = depth'
      BY <1>1, <1>2, <2>1, <2>2, <2>4, <3>1
    <3>2. CASE i \in 1 .. depth
      <4>1. Releasing(i) /\ stack'[i] = stack[i] /\ stack[i].slot # s
        BY <1>2, <2>1, <2>4, <2>6, <3>2
      <4>2. /\ stack[i].slot \notin doomed
            /\ stack[i].gen = gen[stack[i].slot]
            /\ \A j \in 1 .. depth : Releasing(j) /\ stack[j].slot = stack[i].slot => i = j
        BY <3>2, <4>1 DEF SlotInv, ReleasedOnce
      <4> QED  BY <1>1, <1>2, <2>2, <2>4, <4>1, <4>2
    <3> QED  BY <2>2, <3>1, <3>2
  <2> QED  BY <2>5, <2>6 DEF ReleasedOnce
<1> QED  BY <1>1, <1>3, <1>5, <1>6, <1>7, <1>8 DEF SlotInv, SlotParts, GenBound

LEMMA UnloadFreeSlots ==
  ASSUME SlotInv, NEW s \in Slots, UnloadFree(s)
  PROVE  SlotParts'
<1>1. /\ s \in doomed /\ doomed' = doomed \ {s}
      /\ state[s] = "CANCELLED"
      /\ \A x \in Slots : state'[x] = IF x = s THEN "EMPTY" ELSE state[x]
      /\ UNCHANGED <<gen, spawns, segs, stack, depth>>
  BY DEF UnloadFree, calls, SlotInv, ReleasedOnce, SlabInv, TypeInv, TypeOK
<1>2. FreeListExact'
  BY <1>1, FreeAppend DEF UnloadFree, SlotInv
<1>3. \A i \in 1 .. depth : stack[i].at \in Glue => stack[i].slot \in Slots
  BY GlueSlots DEF SlotInv, SlabInv, TypeInv, TypeOK
<1>4. Shape' /\ PolledIsAlive'
  BY <1>1, <1>3 DEF SlotInv, Shape, PolledIsAlive, Glue
<1>5. SpentStaysFreed'
  BY <1>1, <1>3 DEF SlotInv, SpentStaysFreed, SpentFrame, Glue
<1>6. ReleasedOnce'
  BY <1>1 DEF SlotInv, ReleasedOnce, Releasing
<1> QED  BY <1>1, <1>2, <1>4, <1>5, <1>6 DEF SlotInv, SlotParts, GenBound

LEMMA UnloadBeginSlots ==
  ASSUME SlotInv, NEW p \in Plugins, UnloadBegin(p)
  PROVE  SlotParts'
<1> DEFINE f == Frame("unload", None, 0, "none")
<1>1. /\ f.at = "unload" /\ f.then = "none"
      /\ \A x \in Slots : state'[x] = IF x \in TasksOf(p) THEN "CANCELLED" ELSE state[x]
      /\ doomed' = TasksOf(p)
      /\ UNCHANGED <<gen, spawns, segs, free>>
      /\ \A x \in TasksOf(p) : state[x] \notin {"EMPTY", "CANCELLED"}
  BY FrameParts DEF UnloadBegin, TasksOf
<1>2. depth = 1 /\ HasRoomFor(1) /\ stack[1].at = "root"
  BY ExecutorAssumption DEF UnloadBegin, Top, HasRoomFor, SlotInv, SlabInv, TypeInv, TypeOK, StackOK, Depths
<1>3. /\ depth' = 2 /\ stack'[2] = f /\ stack'[1] = stack[1]
  BY <1>2, PushFacts DEF UnloadBegin, SlotInv, SlabInv, TypeInv, TypeOK
<1> HIDE DEF f
<1>4. FreeListExact'
  BY <1>1, FreeSame DEF SlotInv
<1>5. doomed = {} /\ stack[1].then = "none"
  BY <1>2 DEF SlotInv, Shape
<1>6. Shape'
  BY <1>1, <1>2, <1>3, <1>5 DEF SlotInv, Shape, Drives
<1>7. PolledIsAlive' /\ SpentStaysFreed'
  BY <1>1, <1>2, <1>3 DEF PolledIsAlive, SpentStaysFreed, SpentFrame
<1>8. ReleasedOnce'
  <2>1. \A i \in 1 .. 2 : ~ Releasing(i)'
    BY <1>1, <1>2, <1>3, <1>5 DEF Releasing
  <2>2. \A x \in Slots : state[x] # "CANCELLED"
    BY <1>2, <1>5 DEF SlotInv, ReleasedOnce, Releasing
  <2>3. doomed' \subseteq Slots
    BY <1>1, SegmentFacts DEF TasksOf, Allocated, SlotInv, SlabInv, TypeInv, TypeOK
  <2> QED  BY <1>1, <1>3, <2>1, <2>2, <2>3 DEF ReleasedOnce
<1> QED  BY <1>1, <1>4, <1>6, <1>7, <1>8 DEF SlotInv, SlotParts, GenBound

\* alloc_slot hands out a free slot and takes it, and only it, off the list; when
\* the slab grows, the rest of the new segment becomes the list.
LEMMA SpawnFree ==
  ASSUME SlotInv, NEW p \in Plugins, Spawn(p)
  PROVE  NewSlot \in Slots /\ state[NewSlot] = "EMPTY" /\ FreeListExact'
<1>1. /\ free \in Seq(Slots) /\ segs \in 1 .. MaxSegs /\ state \in [Slots -> States]
      /\ state' = [state EXCEPT ![NewSlot] = "READY"]
      /\ \A i, j \in DOMAIN free : free[i] = free[j] => i = j
      /\ \A s \in Slots : s \in Elems(free) <=> s \in Allocated /\ state[s] = "EMPTY"
      /\ \A s \in Slots : state[s] # "EMPTY" => s \in Allocated
  BY DEF Spawn, SlotInv, FreeListExact, SlabInv, InSlab, TypeInv, TypeOK
<1>2. CASE free # <<>>
  <2> DEFINE s == free[Len(free)]
  <2>1. NewSlot = s /\ free' = Front(free) /\ Allocated' = Allocated
    BY <1>2 DEF Spawn, NewSlot, Allocated
  <2>2. /\ Len(free) \in Nat \ {0} /\ DOMAIN free = 1 .. Len(free)
        /\ s \in Slots
        /\ DOMAIN Front(free) = 1 .. Len(free) - 1
        /\ \A i \in 1 .. Len(free) - 1 : Front(free)[i] = free[i]
    BY <1>1, <1>2, FrontElems, LenProperties
  <2>3. s \in Elems(free) /\ Elems(Front(free)) = Elems(free) \ {s}
    <3>1. s \in Elems(free)
      BY <2>2 DEF Elems
    <3>2. Elems(Front(free)) \subseteq Elems(free) \ {s}
      BY <1>1, <2>2 DEF Elems
    <3>3. ASSUME NEW x \in Elems(free) \ {s}  PROVE x \in Elems(Front(free))
      <4>1. PICK i \in 1 .. Len(free) : free[i] = x
        BY <2>2 DEF Elems
      <4>2. i \in 1 .. Len(free) - 1
        BY <2>2, <3>3, <4>1
      <4> QED  BY <2>2, <4>1, <4>2 DEF Elems
    <3> QED  BY <3>1, <3>2, <3>3
  <2>4. \A i, j \in DOMAIN Front(free) : Front(free)[i] = Front(free)[j] => i = j
    BY <1>1, <2>2
  <2> HIDE DEF s
  <2>5. \A x \in Slots : x \in Elems(free') <=> x \in Allocated' /\ state'[x] = "EMPTY"
    BY <1>1, <2>1, <2>2, <2>3
  <2> QED  BY <1>1, <2>1, <2>2, <2>3, <2>4, <2>5 DEF FreeListExact
<1>3. CASE free = <<>>
  <2> DEFINE base == segs * SegSize
  <2>1. /\ segs < MaxSegs /\ segs' = segs + 1 /\ free' = FreshSlots /\ NewSlot = base
        /\ Elems(free) = {}
    BY <1>3 DEF Spawn, NewSlot, Elems
  <2>2. /\ base \in Nat /\ base \in Slots
        /\ (segs + 1) * SegSize = base + SegSize
        /\ SegSize \in Nat \ {0}
    BY <1>1, <2>1, SegmentFacts, ExecutorAssumption
  <2>3. /\ Allocated = 0 .. base - 1
        /\ Allocated' = 0 .. (base + SegSize) - 1
    <3>1. Allocated' = 0 .. (segs + 1) * SegSize - 1
      BY <2>1, Zenon DEF Allocated
    <3>2. Allocated = 0 .. base - 1
      BY DEF Allocated
    <3> HIDE DEF base
    <3> QED  BY <2>2, <3>1, <3>2
  <2>4. /\ DOMAIN FreshSlots = 1 .. SegSize - 1
        /\ \A i \in 1 .. SegSize - 1 : FreshSlots[i] = (base + SegSize) - i
    <3>1. FreshSlots = [i \in 1 .. SegSize - 1 |-> (base + SegSize) - i]
      BY <2>2 DEF FreshSlots
    <3> HIDE DEF base
    <3> QED  BY <3>1
  <2> HIDE DEF base
  <2>5. \A i, j \in DOMAIN FreshSlots : FreshSlots[i] = FreshSlots[j] => i = j
    BY <2>2, <2>4
  <2>6. Elems(FreshSlots) = (base + 1) .. (base + SegSize) - 1
    <3>1. Elems(FreshSlots) \subseteq (base + 1) .. (base + SegSize) - 1
      BY <2>2, <2>4 DEF Elems
    <3>2. ASSUME NEW x \in (base + 1) .. (base + SegSize) - 1  PROVE x \in Elems(FreshSlots)
      <4>1. /\ (base + SegSize) - x \in 1 .. SegSize - 1
            /\ FreshSlots[(base + SegSize) - x] = x
        BY <2>2, <2>4
      <4> QED  BY <2>4, <4>1 DEF Elems
    <3> QED  BY <3>1, <3>2
  <2>7. \A x \in Slots : x \in Elems(free') <=> x \in Allocated' /\ state'[x] = "EMPTY"
    <3>1. \A x \in Slots : x \in Nat
      BY SlotFacts
    <3>2. \A x \in Slots : state[x] = "EMPTY" <=> x \notin Allocated
      BY <1>1, <2>1
    <3> QED  BY <1>1, <2>1, <2>2, <2>3, <2>6, <3>1, <3>2
  <2>8. state[base] = "EMPTY"
    BY <1>1, <2>2, <2>3
  <2> QED  BY <2>1, <2>2, <2>5, <2>7, <2>8 DEF FreeListExact
<1> QED  BY <1>2, <1>3

LEMMA SpawnSlots ==
  ASSUME SlotInv, NEW p \in Plugins, Spawn(p)
  PROVE  SlotParts'
<1> DEFINE s == NewSlot
<1>1. s \in Slots /\ state[s] = "EMPTY" /\ FreeListExact'
  BY SpawnFree
<1> HIDE DEF s
<1>2. /\ gen[s] \in Nat /\ gen[s] + 1 <= spawns + 1
      /\ (gen[s] + 1) % GenMod = gen[s] + 1
      /\ spawns \in Nat /\ spawns + 1 <= MaxSpawns
  <2>1. /\ gen[s] \in Nat /\ gen[s] <= spawns /\ spawns < MaxSpawns /\ spawns \in Nat
        /\ MaxSpawns \in Nat /\ MaxSpawns < GenMod /\ GenMod \in Nat
    BY <1>1, ExecutorAssumption DEF Spawn, SlotInv, GenBound, SlabInv, TypeInv, TypeOK, Gens
  <2> QED  BY <2>1
<1>3. /\ \A x \in Slots : state'[x] = IF x = s THEN "READY" ELSE state[x]
      /\ \A x \in Slots : gen'[x] = IF x = s THEN gen[s] + 1 ELSE gen[x]
      /\ spawns' = spawns + 1
      /\ UNCHANGED <<stack, depth, doomed>>
  BY <1>2 DEF s, Spawn, calls, purge, SlotInv, SlabInv, TypeInv, TypeOK
<1>4. \A i \in 1 .. depth : stack[i].at \in Glue => stack[i].slot \in Slots
  BY GlueSlots DEF SlotInv, SlabInv, TypeInv, TypeOK
<1>5. Shape'
  BY <1>3 DEF SlotInv, Shape
<1>6. PolledIsAlive'
  BY <1>1, <1>3, <1>4 DEF SlotInv, PolledIsAlive, Glue
<1>7. SpentStaysFreed'
  <2>1. \A i \in 1 .. depth : SpentFrame(stack[i]) =>
          stack[i].slot \in Slots /\ stack[i].gen <= gen[stack[i].slot]
    <3>1. /\ \A x \in Slots : gen[x] \in Int
          /\ \A i \in 1 .. depth : stack[i].gen \in Int
      BY GenFacts DEF SlotInv, SlabInv, TypeInv
    <3>2. \A i \in 1 .. depth : SpentFrame(stack[i]) => stack[i].slot \in Slots
      BY <1>4 DEF SpentFrame, Glue
    <3> QED  BY <3>1, <3>2 DEF SlotInv, SpentStaysFreed
  <2>2. \A i \in 1 .. depth : stack[i].gen \in Int
    BY GenFacts DEF SlotInv, SlabInv, TypeInv
  <2>3. ASSUME NEW i \in 1 .. depth, SpentFrame(stack[i])
        PROVE  \/ stack[i].gen < gen'[stack[i].slot]
               \/ stack[i].gen = gen'[stack[i].slot] /\ state'[stack[i].slot] = "EMPTY"
    <3>1. CASE stack[i].slot = s
      BY <1>2, <1>3, <2>1, <2>2, <2>3, <3>1
    <3>2. CASE stack[i].slot # s
      BY <1>3, <2>1, <2>3, <3>2 DEF SlotInv, SpentStaysFreed
    <3> QED  BY <3>1, <3>2
  <2> QED  BY <1>3, <2>3 DEF SpentStaysFreed
<1>8. ReleasedOnce'
  <2>1. \A i \in 1 .. depth : Releasing(i) => stack[i].slot \in Slots /\ stack[i].slot # s
    <3>1. \A i \in 1 .. depth : Releasing(i) => stack[i].at \in Glue
      BY DEF SlotInv, Shape, Releasing, Glue
    <3> QED  BY <1>1, <1>4, <3>1 DEF SlotInv, ReleasedOnce
  <2>2. \A i : Releasing(i)' <=> Releasing(i)
    BY <1>3 DEF Releasing
  <2> QED  BY <1>1, <1>3, <2>1, <2>2 DEF SlotInv, ReleasedOnce
<1>9. GenBound'
  <2>1. \A x \in Slots : gen[x] \in Nat /\ gen[x] <= spawns
    BY DEF SlotInv, GenBound, SlabInv, TypeInv, TypeOK, Gens
  <2>2. \A x \in Slots : gen'[x] <= spawns'
    BY <1>2, <1>3, <2>1
  <2>3. spawns' <= MaxSpawns
    BY <1>2, <1>3
  <2> QED  BY <2>2, <2>3 DEF GenBound
<1> QED  BY <1>1, <1>5, <1>6, <1>7, <1>8, <1>9 DEF SlotParts

\* A frame that will free its slot when it is popped.
LEMMA DropReturnSlots ==
  ASSUME SlotInv, DropReturn
  PROVE  SlotParts'
<1> DEFINE s == Top.slot
<1>0. /\ depth \in Nat \ {0, 1} /\ depth' = depth - 1
      /\ \A i \in 1 .. depth - 1 : stack'[i] = stack[i]
      /\ Top = stack[depth] /\ s \in Slots
      /\ UNCHANGED <<gen, spawns, doomed, segs>>
      /\ state \in [Slots -> States]
      /\ Top.at \in {"dropFuture", "dropResult"}
  BY PopFacts, TopFacts DEF DropReturn, Glue, Top, purge, SlotInv, SlabInv, TypeInv, TypeOK
<1>1. CASE ~ Releasing(depth)
  <2>1. ~ Frees(Top)
    <3>1. Top.then # "free" /\ (Top.then = "freeIfCancelled" => SpentFrame(Top))
      BY <1>0, <1>1 DEF Releasing, SpentFrame
    <3>2. SpentFrame(Top) => ~ (state[s] = "CANCELLED" /\ gen[s] = Top.gen)
      <4>1. gen[s] \in Int /\ Top.gen \in Int /\ depth \in 1 .. depth
        BY <1>0, GenFacts DEF SlotInv, SlabInv, TypeInv
      <4>2. SpentFrame(Top) =>
              Top.gen < gen[s] \/ (Top.gen = gen[s] /\ state[s] = "EMPTY")
        BY <1>0, <4>1 DEF SlotInv, SpentStaysFreed
      <4> QED  BY <4>1, <4>2
    <3> QED  BY <3>1, <3>2 DEF Frees
  <2>2. state' = state /\ free' = free
    BY <2>1 DEF DropReturn
  <2> QED
    BY <1>0, <1>1, <2>2, PopSlots DEF DropReturn, Stays
<1>2. CASE Releasing(depth)
  <2>1. /\ s \notin doomed
        /\ state[s] = "CANCELLED"
        /\ gen[s] = Top.gen
        /\ \A j \in 1 .. depth : Releasing(j) /\ stack[j].slot = s => j = depth
    BY <1>0, <1>2 DEF SlotInv, ReleasedOnce
  <2>2. Frees(Top)
    BY <1>0, <1>2, <2>1 DEF Frees, Releasing
  <2>3. state' = [state EXCEPT ![s] = "EMPTY"] /\ free' = Append(free, s)
    BY <2>2 DEF DropReturn
  <2>4. \A x \in Slots : state'[x] = IF x = s THEN "EMPTY" ELSE state[x]
    BY <1>0, <2>3
  <2>5. FreeListExact'
    BY <1>0, <2>1, <2>3, FreeAppend DEF SlotInv
  <2> HIDE DEF s
  <2>6. \A i \in 1 .. depth : stack[i].at \in Glue => stack[i].slot \in Slots
    BY GlueSlots DEF SlotInv, SlabInv, TypeInv, TypeOK
  <2>7. Shape'
    BY <1>0 DEF SlotInv, Shape
  <2>8. PolledIsAlive'
    BY <1>0, <2>1, <2>4, <2>6 DEF SlotInv, PolledIsAlive, Glue
  <2>9. SpentStaysFreed'
    <3>1. \A i \in 1 .. depth : SpentFrame(stack[i]) => stack[i].slot \in Slots
      BY <2>6 DEF SpentFrame, Glue
    <3> QED  BY <1>0, <2>4, <3>1 DEF SlotInv, SpentStaysFreed
  <2>10. ReleasedOnce'
    <3>1. \A i \in 1 .. depth - 1 : /\ i \in 1 .. depth /\ i # depth
                                    /\ stack'[i] = stack[i]
                                    /\ Releasing(i)' <=> Releasing(i)
      BY <1>0 DEF Releasing
    <3>2. \A i \in 1 .. depth : i \in 1 .. depth - 1 \/ i = depth
      BY <1>0
    <3>3. stack[depth].slot = s
      BY <1>0 DEF s
    <3>4. ASSUME NEW x \in Slots
          PROVE  state'[x] = "CANCELLED" <=>
                   x \in doomed' \/ \E i \in 1 .. depth' : Releasing(i)' /\ stack'[i].slot = x
      <4>1. CASE x = s
        BY <1>0, <2>1, <2>4, <3>1, <4>1
      <4>2. CASE x # s
        <5>1. (\E i \in 1 .. depth' : Releasing(i)' /\ stack'[i].slot = x)
                <=> \E i \in 1 .. depth : Releasing(i) /\ stack[i].slot = x
          BY <1>0, <3>1, <3>2, <3>3, <4>2
        <5> QED  BY <1>0, <2>4, <4>2, <5>1 DEF SlotInv, ReleasedOnce
      <4> QED  BY <4>1, <4>2
    <3>5. ASSUME NEW i \in 1 .. depth', Releasing(i)'
          PROVE  /\ stack'[i].slot \notin doomed'
                 /\ stack'[i].gen = gen'[stack'[i].slot]
                 /\ \A j \in 1 .. depth' : Releasing(j)' /\ stack'[j].slot = stack'[i].slot => i = j
      BY <1>0, <3>1, <3>5 DEF SlotInv, ReleasedOnce
    <3> QED  BY <3>4, <3>5 DEF ReleasedOnce
  <2> QED  BY <1>0, <2>5, <2>7, <2>8, <2>9, <2>10 DEF SlotInv, SlotParts, GenBound
<1> QED  BY <1>1, <1>2

\* The poll that returns Ready: the task was alive, so its slot is neither free
\* nor on its way to be.
LEMMA PollReadySlots ==
  ASSUME SlotInv, PollReady
  PROVE  SlotParts'
<1> DEFINE s == Top.slot
<1>0. /\ depth \in Nat \ {0} /\ Top = stack[depth] /\ s \in Slots /\ Top.at = "poll"
      /\ UNCHANGED <<gen, spawns, doomed, segs, free>>
      /\ state \in [Slots -> States]
  BY TopFacts DEF PollReady, Glue, Top, purge, SlotInv, SlabInv, TypeInv, TypeOK
<1>1. /\ state[s] \in {"PENDING", "READY"} /\ gen[s] = Top.gen
      /\ depth = 3 /\ stack[3].then = "none"
  BY <1>0 DEF SlotInv, PolledIsAlive, Shape
<1>2. \A i \in 1 .. depth : stack[i].at \in Glue => stack[i].slot \in Slots
  BY GlueSlots DEF SlotInv, SlabInv, TypeInv, TypeOK
<1>3. \A i \in 1 .. 2 : stack[i].at # "poll"
  BY <1>1 DEF SlotInv, Shape
<1>4. \A i \in 1 .. 3 : Releasing(i) => stack[i].slot \in Slots /\ stack[i].slot # s
  <2>1. \A i \in 1 .. depth : Releasing(i) => stack[i].at \in Glue
    BY DEF SlotInv, Shape, Releasing, Glue
  <2> QED  BY <1>0, <1>1, <1>2, <2>1 DEF SlotInv, ReleasedOnce
<1>5. s \notin doomed
  BY <1>0, <1>1 DEF SlotInv, ReleasedOnce
<1>6. \A i \in 1 .. 3 : SpentFrame(stack[i]) => stack[i].slot \in Slots
  BY <1>1, <1>2 DEF SpentFrame, Glue
<1>7. CASE detached[s]
  <2> DEFINE f == Frame("dropResult", s, Top.gen, "free")
  <2>1. /\ f.at = "dropResult" /\ f.slot = s /\ f.gen = gen[s] /\ f.then = "free"
        /\ state' = [state EXCEPT ![s] = "CANCELLED"]
        /\ Replace(f)
    BY <1>1, <1>7, FrameParts DEF PollReady
  <2>2. \A x \in Slots : state'[x] = IF x = s THEN "CANCELLED" ELSE state[x]
    BY <1>0, <2>1
  <2>3. depth' = 3 /\ stack'[3] = f /\ stack'[1] = stack[1] /\ stack'[2] = stack[2]
    BY <1>1, <2>1, ReplaceFacts DEF SlotInv, SlabInv, TypeInv, TypeOK
  <2> HIDE DEF f, s
  <2>4. \A i \in 1 .. 3 : i = 1 \/ i = 2 \/ i = 3
    OBVIOUS
  <2>5. FreeListExact'
    BY <1>0, <1>1, <2>2, FreeSame DEF SlotInv
  <2>6. Shape'
    BY <1>0, <1>1, <2>1, <2>3, <2>4 DEF SlotInv, Shape, Drives
  <2>7. PolledIsAlive'
    BY <1>3, <2>1, <2>3, <2>4 DEF PolledIsAlive
  <2>8. SpentStaysFreed'
    BY <1>0, <1>1, <1>6, <2>1, <2>2, <2>3, <2>4 DEF SlotInv, SpentStaysFreed, SpentFrame
  <2>9. ReleasedOnce'
    <3>1. /\ Releasing(1)' <=> Releasing(1)
          /\ Releasing(2)' <=> Releasing(2)
          /\ Releasing(3)' /\ ~ Releasing(3)
      BY <1>1, <2>1, <2>3 DEF Releasing
    <3>2. ASSUME NEW x \in Slots
          PROVE  state'[x] = "CANCELLED" <=>
                   x \in doomed' \/ \E i \in 1 .. depth' : Releasing(i)' /\ stack'[i].slot = x
      <4>1. CASE x = s
        BY <2>1, <2>2, <2>3, <3>1, <4>1
      <4>2. CASE x # s
        <5>1. (\E i \in 1 .. depth' : Releasing(i)' /\ stack'[i].slot = x)
                <=> \E i \in 1 .. depth : Releasing(i) /\ stack[i].slot = x
          BY <1>1, <2>1, <2>3, <2>4, <3>1, <4>2
        <5> QED  BY <1>0, <2>2, <4>2, <5>1 DEF SlotInv, ReleasedOnce
      <4> QED  BY <4>1, <4>2
    <3>3. ASSUME NEW i \in 1 .. depth', Releasing(i)'
          PROVE  /\ stack'[i].slot \notin doomed'
                 /\ stack'[i].gen = gen'[stack'[i].slot]
                 /\ \A j \in 1 .. depth' : Releasing(j)' /\ stack'[j].slot = stack'[i].slot => i = j
      <4>1. \A j \in 1 .. 2 : Releasing(j) =>
              /\ stack[j].slot \notin doomed /\ stack[j].slot # s
              /\ stack[j].gen = gen[stack[j].slot]
              /\ \A k \in 1 .. 2 : Releasing(k) /\ stack[k].slot = stack[j].slot => j = k
        BY <1>1, <1>4 DEF SlotInv, ReleasedOnce
      <4> QED  BY <1>0, <1>5, <2>1, <2>3, <2>4, <3>1, <3>3, <4>1
    <3> QED  BY <3>2, <3>3 DEF ReleasedOnce
  <2> QED  BY <1>0, <2>5, <2>6, <2>7, <2>8, <2>9 DEF SlotInv, SlotParts, GenBound
<1>8. CASE ~ detached[s]
  <2>1. /\ WakeInto([state EXCEPT ![s] = "COMPLETE"], joinWaker[s])
        /\ Pop
    BY <1>8 DEF PollReady
  <2>2. \A x \in Slots : IF x = s THEN state'[x] = "COMPLETE" ELSE Stays(x)
    BY <1>0, <2>1 DEF WakeInto, StateAfterWake, Wakes, Stays
  <2>3. depth' = 2 /\ stack'[1] = stack[1] /\ stack'[2] = stack[2]
    BY <1>0, <1>1, <2>1, PopFacts DEF SlotInv, SlabInv, TypeInv, TypeOK
  <2> HIDE DEF s
  <2>4. /\ \A i \in 1 .. 2 : i = 1 \/ i = 2
        /\ \A i \in 1 .. 3 : i = 1 \/ i = 2 \/ i = 3
    OBVIOUS
  <2>5. FreeListExact'
    BY <1>0, <1>1, <2>2, FreeSame DEF SlotInv, Stays
  <2>6. Shape'
    BY <1>0, <1>1, <2>3, <2>4 DEF SlotInv, Shape
  <2>7. PolledIsAlive'
    BY <1>3, <2>3, <2>4 DEF PolledIsAlive
  <2>8. SpentStaysFreed'
    BY <1>0, <1>1, <1>6, <2>2, <2>3, <2>4 DEF SlotInv, SpentStaysFreed, SpentFrame, Stays
  <2>9. ReleasedOnce'
    <3>1. /\ Releasing(1)' <=> Releasing(1)
          /\ Releasing(2)' <=> Releasing(2)
          /\ ~ Releasing(3)
      BY <1>0, <1>1, <2>3 DEF Releasing
    <3>2. \A x \in Slots : (state'[x] = "CANCELLED" <=> state[x] = "CANCELLED")
      BY <1>1, <2>2 DEF Stays
    <3> QED
      BY <1>0, <1>1, <2>3, <2>4, <3>1, <3>2 DEF SlotInv, ReleasedOnce
  <2> QED  BY <1>0, <2>5, <2>6, <2>7, <2>8, <2>9 DEF SlotInv, SlotParts, GenBound
<1> QED  BY <1>7, <1>8

\* The drive cycle goes to its next phase.
LEMMA PhaseSlots ==
  ASSUME SlotInv, NEW f, Replace(f),
         Top.at \in Drives \ {"unload"}, f.at \in Drives \ {"unload"}, f.then = "none",
         UNCHANGED <<state, doomed, gen, spawns, free, segs>>
  PROVE  SlotParts'
<1>1. /\ depth = 2 /\ depth' = 2 /\ stack'[2] = f /\ stack'[1] = stack[1]
      /\ stack[2].at \in Drives \ {"unload"}
  <2>1. depth \in Nat \ {0} /\ depth' = depth /\ stack'[depth] = f
        /\ \A i \in 1 .. depth - 1 : stack'[i] = stack[i]
    BY ReplaceFacts DEF SlotInv, SlabInv, TypeInv, TypeOK
  <2>2. depth = 2
    BY <2>1 DEF SlotInv, Shape, Top
  <2> QED  BY <2>1, <2>2 DEF Top
<1>2. \A i \in 1 .. 2 : i = 1 \/ i = 2
  OBVIOUS
<1>3. FreeListExact'
  BY FreeSame DEF SlotInv
<1>4. stack[2].then = "none" /\ doomed = {}
  BY <1>1 DEF SlotInv, Shape, Drives
<1>5. Shape'
  BY <1>1, <1>2, <1>4 DEF SlotInv, Shape, Drives
<1>6. PolledIsAlive'
  BY <1>1, <1>2 DEF SlotInv, PolledIsAlive, Drives
<1>7. SpentStaysFreed'
  BY <1>1, <1>2 DEF SlotInv, SpentStaysFreed, SpentFrame, Drives
<1>8. ReleasedOnce'
  <2>1. \A i \in 1 .. 2 : (Releasing(i)' <=> Releasing(i)) /\ (Releasing(i) => i = 1)
    BY <1>1, <1>2, <1>4 DEF Releasing
  <2> QED  BY <1>1, <1>2, <2>1 DEF SlotInv, ReleasedOnce
<1> QED  BY <1>3, <1>5, <1>6, <1>7, <1>8 DEF SlotInv, SlotParts, GenBound

LEMMA PollSlots ==
  ASSUME SlotInv, PollHot \/ PollNext
  PROVE  SlotParts'
<1>1. PICK s \in Slots : PollIfReady(s)
  <2>1. hot \in Slots \cup {None} /\ ready \in Seq(Slots)
    BY DEF SlotInv, SlabInv, TypeInv, TypeOK
  <2>2. ready # <<>> => Head(ready) \in Slots
    BY <2>1, HeadTailProperties
  <2> QED  BY <2>1, <2>2 DEF PollHot, PollNext
<1>2. state \in [Slots -> States]
  BY DEF SlotInv, SlabInv, TypeInv, TypeOK
<1>3. UNCHANGED <<doomed, gen, spawns, free, segs>>
  BY <1>1 DEF PollIfReady, purge
<1>4. CASE state[s] = "READY"
  <2> DEFINE f == Frame("poll", s, gen[s], "none")
  <2>1. f.at = "poll" /\ f.slot = s /\ f.gen = gen[s] /\ f.then = "none"
    BY FrameParts
  <2>2. Push(f) /\ state' = [state EXCEPT ![s] = "PENDING"]
    BY <1>1, <1>4 DEF PollIfReady, Pollable
  <2>3. depth = 2 /\ HasRoomFor(1)
    <3>1. Top.at = "select" /\ depth \in Nat \ {0}
      BY TopFacts DEF PollHot, PollNext, SlotInv, SlabInv, TypeInv, TypeOK
    <3>2. depth = 2
      BY <3>1 DEF Top, SlotInv, Shape, Drives
    <3>3. 2 < MaxDepth
      BY <3>1, <3>2 DEF Top, SlotInv, SlabInv, TypeInv, RoomAbove, Drives
    <3> QED  BY <3>2, <3>3, ExecutorAssumption DEF HasRoomFor
  <2>4. \A x \in Slots : Stays(x)
    BY <1>2, <1>4, <2>2 DEF Stays
  <2> HIDE DEF f
  <2> QED  BY <1>3, <1>4, <2>1, <2>2, <2>3, <2>4, PushSlots DEF Drives
<1>5. CASE state[s] # "READY"
  BY <1>1, <1>3, <1>5, CalmSlots DEF PollIfReady, Pollable, Stays
<1> QED  BY <1>4, <1>5

LEMMA SlotInit == Init => SlotInv
<1> SUFFICES ASSUME Init PROVE SlotInv
  OBVIOUS
<1>1. SlabInv
  BY SlabInit
<1>2. /\ Allocated = 0 .. SegSize - 1 /\ SegSize \in Nat \ {0}
      /\ state = [s \in Slots |-> "EMPTY"] /\ gen = [s \in Slots |-> 0]
      /\ free = [i \in 1 .. SegSize |-> SegSize - i]
      /\ depth = 1 /\ doomed = {} /\ spawns = 0
  BY ExecutorAssumption DEF Init, Allocated
<1>3. FreeListExact
  <2>1. DOMAIN free = 1 .. SegSize /\ \A i \in 1 .. SegSize : free[i] = SegSize - i
    BY <1>2
  <2>2. \A i, j \in DOMAIN free : free[i] = free[j] => i = j
    BY <1>2, <2>1
  <2>3. Elems(free) = 0 .. SegSize - 1
    <3>1. Elems(free) \subseteq 0 .. SegSize - 1
      BY <1>2, <2>1 DEF Elems
    <3>2. ASSUME NEW x \in 0 .. SegSize - 1  PROVE x \in Elems(free)
      <4>1. SegSize - x \in 1 .. SegSize /\ free[SegSize - x] = x
        BY <1>2, <2>1
      <4> QED  BY <2>1, <4>1 DEF Elems
    <3> QED  BY <3>1, <3>2
  <2> QED  BY <1>2, <2>2, <2>3 DEF FreeListExact
<1>4. \A i \in 1 .. depth : stack[i].at = "root" /\ stack[i].then = "none"
  <2>1. stack[1] = Frame("root", None, 0, "none")
    BY ExecutorAssumption DEF Init, Depths
  <2>2. \A i \in 1 .. depth : i = 1
    BY <1>2
  <2> QED  BY <2>1, <2>2, FrameParts
<1>5. Shape /\ PolledIsAlive /\ SpentStaysFreed
  BY <1>2, <1>4 DEF Shape, PolledIsAlive, SpentStaysFreed, SpentFrame, Drives
<1>6. ReleasedOnce
  BY <1>2, <1>4 DEF ReleasedOnce, Releasing
<1>7. GenBound
  BY <1>2, ExecutorAssumption DEF GenBound
<1> QED  BY <1>1, <1>3, <1>5, <1>6, <1>7 DEF SlotInv

LEMMA DriveSlots ==
  ASSUME SlotInv, "driveInTask" \notin Client, Driving \/ StartDrive
  PROVE  SlotParts'
<1>0. /\ state \in [Slots -> States] /\ depth \in Nat \ {0}
      /\ \A s \in Slots : UNCHANGED state => Stays(s)
  BY TopFacts DEF SlotInv, SlabInv, TypeInv, TypeOK, Stays
<1>1. CASE StartDrive
  <2> DEFINE f == Frame("drain", None, 0, "none")
  <2>1. f.at = "drain" /\ f.then = "none" /\ Push(f) /\ HasRoomFor(1)
    BY <1>1, <1>0, FrameParts, ExecutorAssumption DEF StartDrive, HasRoomFor
  <2>2. depth = 1
    <3>1. stack[depth].at = "root" /\ depth \in Depths
      BY <1>1, TopFacts DEF StartDrive, Top, SlotInv, SlabInv, TypeInv, TypeOK, StackOK
    <3> QED  BY <3>1 DEF SlotInv, SlabInv, TypeInv, TypeOK, StackOK
  <2>3. UNCHANGED <<state, doomed, gen, spawns, free, segs>>
    BY <1>1 DEF StartDrive, slab, lists, purge
  <2> HIDE DEF f
  <2> QED  BY <1>0, <2>1, <2>2, <2>3, PushSlots
<1>2. CASE DrainDone \/ FireDone
  <2>1. PICK f : Replace(f) /\ f.at \in {"fire", "select"} /\ f.then = "none"
    BY <1>2, FrameParts DEF DrainDone, FireDone
  <2>2. UNCHANGED <<state, doomed, gen, spawns, free, segs>>
    BY <1>2 DEF DrainDone, FireDone, slab, lists, purge
  <2>3. Top.at \in {"drain", "fire"}
    BY <1>2 DEF DrainDone, FireDone
  <2> QED  BY <2>1, <2>2, <2>3, PhaseSlots DEF Drives
<1>3. CASE DriveDone
  <2>1. Top.at = "select" /\ Pop /\ UNCHANGED <<state, doomed, gen, spawns, free, segs>>
    BY <1>3 DEF DriveDone, slab, lists, purge
  <2>2. ~ Releasing(depth)
    BY <1>0, <2>1 DEF Top, SlotInv, Shape, Releasing
  <2> QED  BY <1>0, <2>1, <2>2, PopSlots
<1>4. CASE Drain
  <2>1. UNCHANGED <<calls, doomed, gen, spawns, free, segs>>
    BY <1>4 DEF Drain, purge
  <2>2. \A s \in Slots : Stays(s)
    BY <1>0, <1>4 DEF Drain, Drainable, Stays
  <2> QED  BY <2>1, <2>2, CalmSlots
<1>5. CASE \E h \in DOMAIN timers : Fire(h)
  <2>1. UNCHANGED <<calls, doomed, gen, spawns, free, segs>>
    BY <1>5 DEF Fire, purge
  <2>2. \A s \in Slots : Stays(s)
    BY <1>0, <1>5 DEF Fire, WakeInto, StateAfterWake, Wakes, Stays
  <2> QED  BY <2>1, <2>2, CalmSlots
<1> QED  BY <1>1, <1>2, <1>3, <1>4, <1>5, PollSlots DEF Driving

LEMMA UnloadingSlots ==
  ASSUME SlotInv, Unloading
  PROVE  SlotParts'
<1>0. depth \in Nat \ {0} /\ \A s \in Slots : UNCHANGED state => Stays(s)
  BY TopFacts DEF SlotInv, SlabInv, TypeInv, TypeOK, Stays
<1>1. CASE UnloadDone
  <2>1. /\ Top.at = "unload" /\ Pop /\ doomed = {}
        /\ UNCHANGED <<state, doomed, gen, spawns, free, segs>>
    BY <1>1 DEF UnloadDone, slab, lists
  <2>2. ~ Releasing(depth)
    BY <1>0, <2>1 DEF Top, SlotInv, Shape, Releasing
  <2> QED  BY <1>0, <2>1, <2>2, PopSlots
<1>2. ASSUME NEW s \in Slots, UnloadDrop(s)  PROVE SlotParts'
  <2>1. PICK f : Push(f) /\ f.at \in {"dropFuture", "dropResult"} /\ f.then = "none"
    BY <1>2, FrameParts DEF UnloadDrop, GlueFor
  <2>2. UNCHANGED <<state, doomed, gen, spawns, free, segs>>
    BY <1>2 DEF UnloadDrop, slab, lists
  <2>3. HasRoomFor(1)
    <3>1. depth < MaxDepth
      BY <1>0, <1>2 DEF UnloadDrop, Top, SlotInv, SlabInv, TypeInv, RoomAbove, Drives
    <3> QED  BY <1>0, <3>1, ExecutorAssumption DEF HasRoomFor
  <2> QED  BY <1>0, <2>1, <2>2, <2>3, PushSlots DEF Drives
<1> QED  BY <1>1, <1>2, UnloadFreeSlots DEF Unloading

LEMMA CancelSlots ==
  ASSUME SlotInv, "abortSelf" \notin Client, NEW s \in Slots,
         CancelRunning(s) \/ CancelComplete(s)
  PROVE  SlotParts'
BY CancelRunningSlots, DiscardSlots DEF CancelComplete

LEMMA JoiningSlots ==
  ASSUME SlotInv, "abortSelf" \notin Client, NEW h \in handles, Joining(h)
  PROVE  SlotParts'
<1>0. h[1] \in Slots /\ \A s \in Slots : UNCHANGED state => Stays(s)
  BY DEF SlotInv, SlabInv, TypeInv, TypeOK, Tasks, Stays
<1>1. ASSUME UNCHANGED <<calls, state, doomed, gen, spawns, free, segs>>
      PROVE  SlotParts'
  BY <1>0, <1>1, CalmSlots
<1>2. CASE JoinNone(h) \/ \E w \in Wakers : JoinWait(h, w)
  BY <1>1, <1>2 DEF JoinNone, JoinWait, slab, lists, purge
<1>3. CASE JoinDrop(h)
  <2>1. \/ UNCHANGED <<calls, state, doomed, gen, spawns, free, segs>>
        \/ DiscardResult(h[1], "none")
    BY <1>3 DEF JoinDrop, slab, lists, purge
  <2> QED  BY <1>0, <1>1, <2>1, DiscardSlots
<1>4. CASE Cancel(h)
  <2>1. \/ UNCHANGED <<calls, state, doomed, gen, spawns, free, segs>>
        \/ CancelRunning(h[1]) \/ CancelComplete(h[1])
    BY <1>4 DEF Cancel, slab, lists, purge
  <2> QED  BY <1>0, <1>1, <2>1, CancelSlots
<1> QED  BY <1>2, <1>3, <1>4, JoinTakeSlots DEF Joining

LEMMA SlotNext ==
  ASSUME SlotInv, [Next]_vars, "abortSelf" \notin Client, "driveInTask" \notin Client
  PROVE  SlotInv'
<1>0. /\ SlabInv' /\ state \in [Slots -> States] /\ depth \in Nat \ {0}
  BY SlabNext, TopFacts DEF SlotInv, SlabInv, TypeInv, TypeOK
<1>s. UNCHANGED state => \A s \in Slots : Stays(s)
  BY DEF Stays
<1>1. ASSUME UNCHANGED <<calls, state, doomed, gen, spawns, free, segs>>
      PROVE  SlotParts'
  BY <1>s, <1>1, CalmSlots
<1>2. ASSUME Sleeping \/ SpawnPanics \/ Stopped \/ UNCHANGED vars  PROVE SlotParts'
  BY <1>1, <1>2
  DEF Sleeping, SleepStart, SleepAgain, SleepEnd, Tick, SpawnPanics, Stopped,
      vars, slab, lists, purge
<1>3. ASSUME Polling  PROVE SlotParts'
  <2>1. CASE PollPending
    <3>1. /\ Top.at = "poll" /\ Pop
          /\ UNCHANGED <<state, doomed, gen, spawns, free, segs>>
      BY <2>1 DEF PollPending, slab, lists, purge
    <3>2. ~ Releasing(depth)
      BY <1>0, <3>1 DEF Top, SlotInv, Shape, Releasing
    <3> QED  BY <1>s, <3>1, <3>2, PopSlots
  <2> QED  BY <1>3, <2>1, PollReadySlots, DropReturnSlots DEF Polling
<1>4. ASSUME NEW s \in Slots, Waking(s) \/ Abort(s) \/ HostWait(s)  PROVE SlotParts'
  <2>1. CASE Wake(s)
    <3>1. UNCHANGED <<calls, doomed, gen, spawns, free, segs>>
      BY <2>1 DEF Wake, purge
    <3>2. \A x \in Slots : Stays(x)
      BY <1>0, <2>1 DEF Wake, WakeInto, StateAfterWake, Wakes, Stays
    <3> QED  BY <3>1, <3>2, CalmSlots
  <2>2. CASE RemoteWake(s)
    BY <1>1, <2>2 DEF RemoteWake, slab, purge
  <2>3. CASE Abort(s)
    BY <2>3, CancelSlots DEF Abort
  <2>4. CASE HostWait(s)
    BY <2>4, DiscardSlots DEF HostWait
  <2> QED  BY <1>4, <2>1, <2>2, <2>3, <2>4 DEF Waking
<1>5. ASSUME NEW p \in Plugins, Tasking(p)  PROVE SlotParts'
  BY <1>5, SpawnSlots, UnloadBeginSlots DEF Tasking
<1>6. SlotParts'
  BY <1>2, <1>3, <1>4, <1>5, DriveSlots, UnloadingSlots, JoiningSlots DEF Next
<1> QED  BY <1>0, <1>6 DEF SlotInv, SlotParts

\* As long as no task aborts itself and no task drives the executor, the free
\* list holds exactly the empty slots, each once: whatever order polls, cancels,
\* joins, destructors that spawn and unloads free slots in, alloc_slot never hands
\* out a slot that is in use, and none leaks.
THEOREM FreeListIsExact ==
  ASSUME "abortSelf" \notin Client, "driveInTask" \notin Client
  PROVE  Spec => []FreeListExact
<1>1. Init => SlotInv
  BY SlotInit
<1>2. SlotInv /\ [Next]_vars => SlotInv'
  BY SlotNext
<1>3. SlotInv => FreeListExact
  BY DEF SlotInv
<1> QED  BY <1>1, <1>2, <1>3, PTL DEF Spec

\* Under the same assumptions, every CANCELLED slot has exactly one call in
\* progress that will free it: drive_cycle's detached result, cancel_task's or
\* drop_plugin_tasks'.  It is freed once, and it is freed.
THEOREM SlotsAreReleasedOnce ==
  ASSUME "abortSelf" \notin Client, "driveInTask" \notin Client
  PROVE  Spec => []ReleasedOnce
<1>1. Init => SlotInv
  BY SlotInit
<1>2. SlotInv /\ [Next]_vars => SlotInv'
  BY SlotNext
<1>3. SlotInv => ReleasedOnce
  BY DEF SlotInv
<1> QED  BY <1>1, <1>2, <1>3, PTL DEF Spec

-----------------------------------------------------------------------------
(* Who owns what is in a slot: the plugin that unloads, the JoinHandle     *)
(* that will take a result; and the life of a task as its handle sees it.  *)

(* No task aborts itself, and only the root drives the executor. *)
WellBehaved == "abortSelf" \notin Client /\ "driveInTask" \notin Client

-----------------------------------------------------------------------------
(* What steps do to the states of slots *)

(* A step that neither spawns nor begins or goes on with an unload, fills  *)
(* no empty slot; what it empties was complete or cancelled.               *)
Keeps(s) == state[s] = "EMPTY" => state'[s] = "EMPTY"

LEMMA DriveKeeps ==
  ASSUME SlotInv, Driving \/ StartDrive
  PROVE  UNCHANGED <<gen, detached, owner, handles, killed, store, purge>> /\ \A s \in Slots : Stays(s)
<1>0. state \in [Slots -> States]
  BY DEF SlotInv, SlabInv, TypeInv, TypeOK
<1>1. CASE StartDrive \/ DrainDone \/ FireDone \/ DriveDone
  BY <1>1 DEF StartDrive, DrainDone, FireDone, DriveDone, slab, hist, Stays
<1>2. CASE Drain
  BY <1>0, <1>2 DEF Drain, Drainable, Stays, hist
<1>3. CASE \E h \in DOMAIN timers : Fire(h)
  BY <1>0, <1>3 DEF Fire, WakeInto, StateAfterWake, Wakes, Stays
<1>4. CASE PollHot \/ PollNext
  <2>1. PICK s \in Slots : PollIfReady(s)
    <3>1. hot \in Slots \cup {None} /\ ready \in Seq(Slots)
      BY DEF SlotInv, SlabInv, TypeInv, TypeOK
    <3>2. ready # <<>> => Head(ready) \in Slots
      BY <3>1, HeadTailProperties
    <3> QED  BY <1>4, <3>1, <3>2 DEF PollHot, PollNext
  <2>2. CASE state[s] = "READY"
    BY <1>0, <2>1, <2>2 DEF PollIfReady, Pollable, Stays
  <2>3. CASE state[s] # "READY"
    BY <2>1, <2>3 DEF PollIfReady, Pollable, Stays
  <2> QED  BY <2>2, <2>3
<1> QED  BY <1>1, <1>2, <1>3, <1>4 DEF Driving

LEMMA PollReadyStates ==
  ASSUME SlotInv, PollReady
  PROVE  LET s == Top.slot IN
         /\ s \in Slots /\ state[s] \in {"PENDING", "READY"} /\ gen[s] = Top.gen
         /\ IF detached[s] THEN state'[s] = "CANCELLED" ELSE state'[s] = "COMPLETE"
         /\ \A x \in Slots \ {s} : Stays(x)
<1> DEFINE s == Top.slot
<1>0. /\ depth \in 1 .. depth /\ Top = stack[depth] /\ s \in Slots /\ Top.at = "poll"
      /\ state \in [Slots -> States]
  BY TopFacts DEF PollReady, Glue, Top, SlotInv, SlabInv, TypeInv, TypeOK
<1>1. state[s] \in {"PENDING", "READY"} /\ gen[s] = Top.gen
  BY <1>0 DEF SlotInv, PolledIsAlive
<1>2. CASE detached[s]
  <2>1. state' = [state EXCEPT ![s] = "CANCELLED"]
    BY <1>2 DEF PollReady
  <2> HIDE DEF s
  <2>2. /\ IF detached[s] THEN state'[s] = "CANCELLED" ELSE state'[s] = "COMPLETE"
        /\ \A x \in Slots \ {s} : Stays(x)
    BY <1>0, <1>2, <2>1 DEF Stays
  <2> QED  BY <1>0, <1>1, <2>2 DEF s
<1>3. CASE ~ detached[s]
  <2>1. WakeInto([state EXCEPT ![s] = "COMPLETE"], joinWaker[s])
    BY <1>3 DEF PollReady
  <2> HIDE DEF s
  <2>2. /\ IF detached[s] THEN state'[s] = "CANCELLED" ELSE state'[s] = "COMPLETE"
        /\ \A x \in Slots \ {s} : Stays(x)
    BY <1>0, <1>3, <2>1 DEF Stays, WakeInto, StateAfterWake, Wakes
  <2> QED  BY <1>0, <1>1, <2>2 DEF s
<1> QED  BY <1>2, <1>3

(* A destructor's return frees a slot that was CANCELLED, or none. *)
LEMMA DropReturnStates ==
  ASSUME SlotInv, DropReturn
  PROVE  \A x \in Slots : state'[x] = state[x] \/ (state[x] = "CANCELLED" /\ state'[x] = "EMPTY")
<1> DEFINE s == Top.slot
<1>0. /\ depth \in 1 .. depth /\ Top = stack[depth] /\ s \in Slots
      /\ Top.at \in {"dropFuture", "dropResult"} /\ state \in [Slots -> States]
  BY TopFacts DEF DropReturn, Glue, Top, SlotInv, SlabInv, TypeInv, TypeOK
<1>1. Frees(Top) => state[s] = "CANCELLED"
  <2>1. CASE Top.then = "free"
    BY <1>0, <2>1 DEF SlotInv, ReleasedOnce, Releasing
  <2>2. CASE Top.then # "free"
    BY <2>2 DEF Frees
  <2> QED  BY <2>1, <2>2
<1>2. state' = IF Frees(Top) THEN [state EXCEPT ![s] = "EMPTY"] ELSE state
  BY DEF DropReturn
<1> HIDE DEF s
<1> QED  BY <1>0, <1>1, <1>2

LEMMA DiscardStates ==
  ASSUME SlotInv, NEW s \in Slots, NEW then, DiscardResult(s, then)
  PROVE  /\ state[s] = "COMPLETE" /\ \A x \in Slots : state'[x] = IF x = s THEN "EMPTY" ELSE state[x]
         /\ UNCHANGED <<gen, detached, owner, purge, store>>
BY DEF DiscardResult, SlotInv, SlabInv, TypeInv, TypeOK

LEMMA CancelRunningStates ==
  ASSUME SlotInv, NEW s \in Slots, CancelRunning(s)
  PROVE  /\ state[s] \in {"PENDING", "READY"}
         /\ \A x \in Slots : state'[x] = IF x = s THEN "CANCELLED" ELSE state[x]
         /\ UNCHANGED <<gen, detached, owner, purge, store>>
         /\ killed' = killed \cup {<<s, gen[s]>>}
BY DEF CancelRunning, Alive, SlotInv, SlabInv, TypeInv, TypeOK

LEMMA SpawnStates ==
  ASSUME SlotInv, NEW p \in Plugins, Spawn(p)
  PROVE  /\ NewSlot \in Slots /\ state[NewSlot] = "EMPTY"
         /\ gen[NewSlot] \in Nat /\ (gen[NewSlot] + 1) % GenMod = gen[NewSlot] + 1
         /\ \A x \in Slots : state'[x] = IF x = NewSlot THEN "READY" ELSE state[x]
         /\ \A x \in Slots : gen'[x] = IF x = NewSlot THEN gen[NewSlot] + 1 ELSE gen[x]
<1> DEFINE s == NewSlot
<1>1. s \in Slots /\ state[s] = "EMPTY"
  BY SpawnFree
<1> HIDE DEF s
<1>2. /\ gen[s] \in Nat /\ gen[s] <= spawns /\ spawns < MaxSpawns /\ spawns \in Nat
      /\ MaxSpawns \in Nat /\ MaxSpawns < GenMod /\ GenMod \in Nat
  BY <1>1, ExecutorAssumption DEF Spawn, SlotInv, GenBound, SlabInv, TypeInv, TypeOK, Gens
<1>3. (gen[s] + 1) % GenMod = gen[s] + 1
  BY <1>2
<1>4. /\ \A x \in Slots : state'[x] = IF x = s THEN "READY" ELSE state[x]
      /\ \A x \in Slots : gen'[x] = IF x = s THEN gen[s] + 1 ELSE gen[x]
  BY <1>1, <1>3 DEF s, Spawn, SlotInv, SlabInv, TypeInv, TypeOK
<1> QED  BY <1>1, <1>2, <1>3, <1>4 DEF s

-----------------------------------------------------------------------------
(* An unload leaves nothing behind *)

(* What the plugin that unloads has in the slab is what drop_plugin_tasks  *)
(* is about to free.                                                       *)
UnloadCovers ==
  \A s \in Slots : owner[s] = unloading /\ state[s] # "EMPTY" => s \in doomed

LEMMA QuietCovers ==
  ASSUME UnloadCovers, UNCHANGED <<owner, unloading, doomed>>, \A s \in Slots : Keeps(s)
  PROVE  UnloadCovers'
BY DEF UnloadCovers, Keeps

LEMMA CoversNext ==
  ASSUME SlotInv, UnloadCovers, [Next]_vars,
         NoPlugin \notin Plugins, "spawnInDrop" \notin Client
  PROVE  UnloadCovers'
<1>0. state \in [Slots -> States] /\ owner \in [Slots -> Plugins]
  BY DEF SlotInv, SlabInv, TypeInv, TypeOK
<1>1. CASE Driving \/ StartDrive
  BY <1>1, DriveKeeps, QuietCovers DEF Stays, Keeps, purge
<1>2. CASE PollReady
  <2>1. \A s \in Slots : Keeps(s)
    BY <1>2, PollReadyStates DEF Stays, Keeps
  <2> QED  BY <1>2, <2>1, QuietCovers DEF PollReady, purge
<1>3. CASE DropReturn
  <2>1. \A s \in Slots : Keeps(s)
    BY <1>3, DropReturnStates DEF Keeps
  <2> QED  BY <1>3, <2>1, QuietCovers DEF DropReturn, purge
<1>4. CASE PollPending \/ Sleeping \/ SpawnPanics \/ Stopped \/ UNCHANGED vars
  <2>1. UNCHANGED <<state, owner, unloading, doomed>>
    BY <1>4 DEF PollPending, Sleeping, SleepStart, SleepAgain, SleepEnd, Tick, SpawnPanics, Stopped,
                vars, slab, purge
  <2> QED  BY <2>1, QuietCovers DEF Keeps
<1>5. ASSUME NEW s \in Slots, DiscardResult(s, "none") \/ CancelRunning(s) \/ CancelComplete(s)
      PROVE  UnloadCovers'
  <2>1. \A x \in Slots : Keeps(x)
    BY <1>5, DiscardStates, CancelRunningStates DEF Keeps, CancelComplete
  <2>2. UNCHANGED <<owner, unloading, doomed>>
    BY <1>5, DiscardStates, CancelRunningStates DEF CancelComplete, purge
  <2> QED  BY <2>1, <2>2, QuietCovers
<1>6. ASSUME NEW s \in Slots, Waking(s)  PROVE UnloadCovers'
  <2>1. \A x \in Slots : Keeps(x)
    BY <1>0, <1>6 DEF Waking, Wake, RemoteWake, WakeInto, StateAfterWake, Wakes, Keeps, slab
  <2> QED  BY <1>6, <2>1, QuietCovers DEF Waking, Wake, RemoteWake, slab, purge
<1>7. ASSUME NEW s \in Slots, Abort(s) \/ HostWait(s)  PROVE UnloadCovers'
  BY <1>5, <1>7 DEF Abort, HostWait
<1>8. ASSUME NEW h \in handles, Joining(h)  PROVE UnloadCovers'
  <2>1. h[1] \in Slots
    BY DEF SlotInv, SlabInv, TypeInv, TypeOK, Tasks
  <2>2. CASE JoinTake(h)
    <3>1. \A x \in Slots : Keeps(x)
      BY <1>0, <2>1, <2>2 DEF JoinTake, Keeps
    <3> QED  BY <2>2, <3>1, QuietCovers DEF JoinTake, purge
  <2>3. CASE JoinNone(h) \/ \E w \in Wakers : JoinWait(h, w)
    BY <2>3, QuietCovers DEF JoinNone, JoinWait, slab, purge, Keeps
  <2>4. CASE JoinDrop(h) \/ Cancel(h)
    <3>1. \/ UNCHANGED <<state, owner, unloading, doomed>>
          \/ DiscardResult(h[1], "none") \/ CancelRunning(h[1]) \/ CancelComplete(h[1])
      BY <2>4 DEF JoinDrop, Cancel, slab, purge
    <3> QED  BY <1>5, <2>1, <3>1, QuietCovers DEF Keeps
  <2> QED  BY <1>8, <2>2, <2>3, <2>4 DEF Joining
<1>9. ASSUME NEW p \in Plugins, Spawn(p)  PROVE UnloadCovers'
  <2>1. unloading = NoPlugin /\ unloading' = unloading
    BY <1>9 DEF Spawn, purge
  <2>2. owner' \in [Slots -> Plugins]
    BY <1>0, <1>9 DEF Spawn
  <2> QED  BY <2>1, <2>2 DEF UnloadCovers
<1>10. ASSUME NEW p \in Plugins, UnloadBegin(p)  PROVE UnloadCovers'
  <2>1. depth = 1 /\ stack[1].at = "root" /\ doomed = {} /\ stack[1].then = "none"
    <3>1. depth = 1 /\ stack[1].at = "root"
      BY <1>10 DEF UnloadBegin, Top, SlotInv, SlabInv, TypeInv, TypeOK, StackOK, Depths
    <3> QED  BY <3>1 DEF SlotInv, Shape
  <2>2. \A x \in Slots : state[x] # "CANCELLED"
    BY <2>1 DEF SlotInv, ReleasedOnce, Releasing
  <2>3. /\ \A x \in Slots : state'[x] = IF x \in TasksOf(p) THEN "CANCELLED" ELSE state[x]
        /\ doomed' = TasksOf(p) /\ unloading' = p /\ owner' = owner
    BY <1>10 DEF UnloadBegin
  <2>4. \A x \in Slots : owner[x] = p /\ state[x] # "EMPTY" => x \in TasksOf(p)
    BY <2>2 DEF TasksOf, SlotInv, SlabInv, InSlab
  <2> QED  BY <2>3, <2>4 DEF UnloadCovers
<1>11. CASE Unloading
  <2>1. CASE UnloadDone
    <3>1. unloading' = NoPlugin /\ owner' = owner
      BY <2>1 DEF UnloadDone, slab
    <3> QED  BY <1>0, <3>1 DEF UnloadCovers
  <2>2. ASSUME NEW s \in Slots, UnloadDrop(s)  PROVE UnloadCovers'
    BY <2>2, QuietCovers DEF UnloadDrop, slab, Keeps
  <2>3. ASSUME NEW s \in Slots, UnloadFree(s)  PROVE UnloadCovers'
    BY <1>0, <2>3 DEF UnloadFree, UnloadCovers
  <2> QED  BY <1>11, <2>1, <2>2, <2>3 DEF Unloading
<1> QED  BY <1>1, <1>2, <1>3, <1>4, <1>6, <1>7, <1>8, <1>9, <1>10, <1>11 DEF Next, Polling, Tasking

(* When drop_plugin_tasks returns and the library may be closed, no slot   *)
(* has a task of the plugin: whatever states the tasks were in, and        *)
(* whatever their destructors did, except spawn.  (With "spawnInDrop" a    *)
(* destructor that the unload runs spawns a task of the same plugin.)      *)
THEOREM UnloadLeavesNoTask ==
  ASSUME WellBehaved, NoPlugin \notin Plugins, "spawnInDrop" \notin Client
  PROVE  Spec => UnloadLeavesNothing
<1> DEFINE Leaves == UnloadDone => \A s \in Slots : owner[s] = unloading => state[s] = "EMPTY"
<1>1. Init => SlotInv /\ UnloadCovers
  BY SlotInit DEF Init, UnloadCovers
<1>2. SlotInv /\ UnloadCovers /\ [Next]_vars => SlotInv' /\ UnloadCovers'
  BY SlotNext, CoversNext DEF WellBehaved
<1>3. SlotInv /\ UnloadCovers => [Leaves]_vars
  BY DEF UnloadCovers, UnloadDone
<1> QED  BY <1>1, <1>2, <1>3, PTL DEF Spec, UnloadLeavesNothing

-----------------------------------------------------------------------------
(* Handles and results *)

(* The JoinHandle of slot s will find its task or its result there. *)
Owned(s) == state[s] = "COMPLETE" \/ (state[s] \in {"PENDING", "READY"} /\ ~ detached[s])

(* What can be taken has its handle, and no other slot has one; a handle   *)
(* names what can be taken, unless somebody ended its task.                *)
HandleInv ==
  /\ \A s \in Slots : Owned(s) => <<s, gen[s]>> \in handles
  /\ \A h \in handles : h \in killed \/ (h[2] = gen[h[1]] /\ Owned(h[1]))

(* A step leaves what the handles name, and all handles. *)
LEMMA QuietHandles ==
  ASSUME SlotInv, HandleInv, UNCHANGED <<gen, detached, handles>>, killed \subseteq killed',
         \A s \in Slots : Owned(s)' => Owned(s),
         \A s \in Slots : Owned(s) /\ ~ Owned(s)' => <<s, gen[s]>> \in killed'
  PROVE  HandleInv'
<1>1. \A h \in handles : h[1] \in Slots /\ h = <<h[1], h[2]>>
  BY DEF SlotInv, SlabInv, TypeInv, TypeOK, Tasks
<1>2. \A s \in Slots : Owned(s)' => <<s, gen'[s]>> \in handles'
  BY DEF HandleInv
<1>3. ASSUME NEW h \in handles, h \notin killed'
      PROVE  h[2] = gen'[h[1]] /\ Owned(h[1])'
  BY <1>1, <1>3 DEF HandleInv
<1> QED  BY <1>2, <1>3 DEF HandleInv

LEMMA CalmHandles ==
  ASSUME SlotInv, HandleInv, UNCHANGED <<gen, detached, handles, killed>>,
         \A s \in Slots : Stays(s)
  PROVE  HandleInv'
BY QuietHandles DEF Stays, Owned

(* A handle is given up, with what it named or when that is gone. *)
LEMMA SpendHandle ==
  ASSUME SlotInv, HandleInv, NEW h \in handles, handles' = handles \ {h},
         UNCHANGED <<gen, killed>>,
         h[2] = gen[h[1]] => ~ Owned(h[1])',
         \A s \in Slots \ {h[1]} : Owned(s)' <=> Owned(s),
         h[2] # gen[h[1]] => (Owned(h[1])' <=> Owned(h[1]))
  PROVE  HandleInv'
<1>1. \A g \in handles : g[1] \in Slots /\ g = <<g[1], g[2]>>
  BY DEF SlotInv, SlabInv, TypeInv, TypeOK, Tasks
<1>2. ASSUME NEW s \in Slots, Owned(s)'  PROVE <<s, gen'[s]>> \in handles'
  <2>1. Owned(s) /\ <<s, gen[s]>> # h
    BY <1>1, <1>2
  <2> QED  BY <2>1 DEF HandleInv
<1>3. ASSUME NEW g \in handles', g \notin killed'
      PROVE  g[2] = gen'[g[1]] /\ Owned(g[1])'
  <2>1. g \in handles /\ g # h /\ g \notin killed
    BY <1>3
  <2>2. g[2] = gen[g[1]] /\ Owned(g[1]) /\ g[1] \in Slots
    BY <1>1, <2>1 DEF HandleInv
  <2>3. CASE g[1] = h[1]
    <3>1. h[2] # gen[h[1]]
      BY <1>1, <2>1, <2>2, <2>3
    <3> QED  BY <2>2, <2>3, <3>1
  <2> QED  BY <2>2, <2>3
<1> QED  BY <1>2, <1>3 DEF HandleInv

LEMMA SpawnHandles ==
  ASSUME SlotInv, HandleInv, NEW p \in Plugins, Spawn(p)
  PROVE  HandleInv'
<1> DEFINE s == NewSlot
           g == gen[s] + 1
<1>1. /\ s \in Slots /\ state[s] = "EMPTY"
      /\ gen[s] \in Nat
      /\ \A x \in Slots : state'[x] = IF x = s THEN "READY" ELSE state[x]
      /\ \A x \in Slots : gen'[x] = IF x = s THEN g ELSE gen[x]
      /\ (gen[s] + 1) % GenMod = g
  BY SpawnStates
<1> HIDE DEF g
<1>2. handles' = handles \cup {<<s, g>>} /\ killed' = killed
  BY <1>1 DEF Spawn
<1>3. /\ detached' = [detached EXCEPT ![s] = FALSE]
      /\ detached \in [Slots -> BOOLEAN]
  BY DEF Spawn, SlotInv, SlabInv, TypeInv, TypeOK
<1> HIDE DEF s
<1>4. /\ ~ detached'[s]
      /\ \A x \in Slots \ {s} : detached'[x] = detached[x]
  BY <1>1, <1>3
<1>5. \A x \in Slots : IF x = s THEN Owned(x)' /\ ~ Owned(x) ELSE Owned(x)' <=> Owned(x)
  <2>1. ASSUME NEW x \in Slots, x = s  PROVE Owned(x)' /\ ~ Owned(x)
    <3>1. state'[x] = "READY" /\ ~ detached'[x] /\ state[x] = "EMPTY"
      BY <1>1, <1>4, <2>1
    <3> QED  BY <3>1 DEF Owned
  <2>2. ASSUME NEW x \in Slots, x # s  PROVE Owned(x)' <=> Owned(x)
    <3>1. state'[x] = state[x] /\ detached'[x] = detached[x]
      BY <1>1, <1>4, <2>2
    <3> QED  BY <3>1 DEF Owned
  <2> QED  BY <2>1, <2>2
<1>6. \A h \in handles : h[1] \in Slots
  BY DEF SlotInv, SlabInv, TypeInv, TypeOK, Tasks
<1>7. ASSUME NEW h \in handles', h \notin killed'  PROVE h[2] = gen'[h[1]] /\ Owned(h[1])'
  <2>1. CASE h = <<s, g>>
    <3>1. h[1] = s /\ h[1] \in Slots /\ h[2] = gen'[h[1]]
      BY <1>1, <2>1
    <3> QED  BY <1>5, <3>1
  <2>2. CASE h \in handles
    <3>1. h[1] \in Slots /\ h[2] = gen[h[1]] /\ Owned(h[1])
      BY <1>2, <1>6, <1>7, <2>2 DEF HandleInv
    <3> QED  BY <1>1, <1>5, <3>1
  <2> QED  BY <1>2, <2>1, <2>2
<1>8. ASSUME NEW x \in Slots, Owned(x)'  PROVE <<x, gen'[x]>> \in handles'
  BY <1>1, <1>2, <1>5, <1>8 DEF HandleInv
<1> QED  BY <1>7, <1>8 DEF HandleInv

LEMMA HandlesNext ==
  ASSUME SlotInv, HandleInv, [Next]_vars, "abortDone" \notin Client
  PROVE  HandleInv'
<1>0. /\ state \in [Slots -> States] /\ detached \in [Slots -> BOOLEAN]
      /\ UNCHANGED state => \A s \in Slots : Stays(s)
      /\ \A h \in handles : h[1] \in Slots
  BY DEF SlotInv, SlabInv, TypeInv, TypeOK, Stays, Tasks
<1>1. CASE Driving \/ StartDrive
  BY <1>1, DriveKeeps, CalmHandles
<1>2. CASE PollReady
  <2> DEFINE s == Top.slot
  <2>1. /\ s \in Slots /\ state[s] \in {"PENDING", "READY"}
        /\ IF detached[s] THEN state'[s] = "CANCELLED" ELSE state'[s] = "COMPLETE"
        /\ \A x \in Slots \ {s} : Stays(x)
    BY <1>2, PollReadyStates
  <2>2. UNCHANGED <<gen, detached, handles, killed>>
    BY <1>2 DEF PollReady
  <2> HIDE DEF s
  <2>3. \A x \in Slots : Owned(x)' <=> Owned(x)
    BY <2>1, <2>2 DEF Owned, Stays
  <2> QED  BY <2>2, <2>3, QuietHandles
<1>3. CASE DropReturn
  <2>1. \A x \in Slots : Owned(x)' <=> Owned(x)
    BY <1>3, DropReturnStates DEF Owned, DropReturn
  <2> QED  BY <1>3, <2>1, QuietHandles DEF DropReturn
<1>4. CASE PollPending \/ Sleeping \/ SpawnPanics \/ Stopped \/ UNCHANGED vars
  <2>1. UNCHANGED <<state, gen, detached, handles, killed>>
    BY <1>4 DEF PollPending, Sleeping, SleepStart, SleepAgain, SleepEnd, Tick, SpawnPanics, Stopped,
                vars, slab, hist
  <2> QED  BY <1>0, <2>1, CalmHandles
<1>5. ASSUME NEW s \in Slots, Waking(s)  PROVE HandleInv'
  <2>1. \A x \in Slots : Stays(x)
    BY <1>0, <1>5 DEF Waking, Wake, RemoteWake, WakeInto, StateAfterWake, Wakes, Stays, slab
  <2> QED  BY <1>5, <2>1, CalmHandles DEF Waking, Wake, RemoteWake, slab
<1>6. ASSUME NEW s \in Slots, Abort(s)  PROVE HandleInv'
  <2>1. CancelRunning(s) /\ UNCHANGED handles
    BY <1>6 DEF Abort
  <2>2. /\ \A x \in Slots : state'[x] = IF x = s THEN "CANCELLED" ELSE state[x]
        /\ UNCHANGED <<gen, detached>> /\ killed' = killed \cup {<<s, gen[s]>>}
    BY <2>1, CancelRunningStates
  <2> QED  BY <2>1, <2>2, QuietHandles DEF Owned
<1>7. ASSUME NEW s \in Slots, HostWait(s)  PROVE HandleInv'
  <2>1. DiscardResult(s, "none") /\ UNCHANGED handles /\ killed' = killed \cup {<<s, gen[s]>>}
    BY <1>7 DEF HostWait
  <2>2. /\ \A x \in Slots : state'[x] = IF x = s THEN "EMPTY" ELSE state[x]
        /\ UNCHANGED <<gen, detached>>
    BY <2>1, DiscardStates
  <2> QED  BY <2>1, <2>2, QuietHandles DEF Owned
<1>8. ASSUME NEW h \in handles, Joining(h)  PROVE HandleInv'
  <2>1. CASE JoinTake(h)
    <3>1. /\ \A x \in Slots : state'[x] = IF x = h[1] THEN "EMPTY" ELSE state[x]
          /\ handles' = handles \ {h} /\ h[2] = gen[h[1]] /\ UNCHANGED <<gen, detached, killed>>
      BY <1>0, <2>1 DEF JoinTake, Names
    <3>2. ~ Owned(h[1])' /\ \A x \in Slots \ {h[1]} : Owned(x)' <=> Owned(x)
      BY <1>0, <3>1 DEF Owned
    <3> QED  BY <3>1, <3>2, SpendHandle
  <2>2. CASE \E w \in Wakers : JoinWait(h, w)
    BY <1>0, <2>2, CalmHandles DEF JoinWait
  <2>3. ASSUME Gone(h), UNCHANGED <<gen, killed, state, detached>>, handles' = handles \ {h}
        PROVE  HandleInv'
    BY <2>3, SpendHandle DEF Gone, Names, Owned
  <2>4. CASE JoinNone(h)
    BY <2>3, <2>4 DEF JoinNone, slab, hist
  <2>5. ASSUME Names(h), handles' = handles \ {h}, DiscardResult(h[1], "none") \/ CancelComplete(h[1]),
               UNCHANGED killed
        PROVE  HandleInv'
    <3>1. /\ \A x \in Slots : state'[x] = IF x = h[1] THEN "EMPTY" ELSE state[x]
          /\ UNCHANGED <<gen, detached>>
      BY <1>0, <2>5, DiscardStates DEF CancelComplete
    <3>2. ~ Owned(h[1])' /\ \A x \in Slots \ {h[1]} : Owned(x)' <=> Owned(x)
      BY <1>0, <3>1 DEF Owned
    <3> QED  BY <2>5, <3>1, <3>2, SpendHandle DEF Names
  <2>6. CASE JoinDrop(h)
    <3>1. CASE /\ Gone(h)
               /\ UNCHANGED <<slab, lists, clock, calls, purge, halted, spawns, hist>>
      BY <2>3, <2>6, <3>1 DEF JoinDrop, slab, hist
    <3>2. CASE /\ Names(h) /\ detached' = [detached EXCEPT ![h[1]] = TRUE]
               /\ UNCHANGED <<state, gen, killed>> /\ Alive(h[1])
      <4>1. detached'[h[1]] /\ \A x \in Slots \ {h[1]} : detached'[x] = detached[x]
        BY <1>0, <3>2
      <4>2. ~ Owned(h[1])' /\ \A x \in Slots \ {h[1]} : Owned(x)' <=> Owned(x)
        BY <3>2, <4>1 DEF Owned, Alive
      <4> QED  BY <2>6, <3>2, <4>2, SpendHandle DEF JoinDrop, Names
    <3>3. CASE Names(h) /\ DiscardResult(h[1], "none") /\ UNCHANGED <<ready, killed>>
      BY <2>5, <2>6, <3>3 DEF JoinDrop
    <3> QED  BY <2>6, <3>1, <3>2, <3>3 DEF JoinDrop
  <2>7. CASE Cancel(h)
    <3>1. CASE /\ Gone(h)
               /\ UNCHANGED <<slab, lists, clock, calls, purge, halted, spawns, hist>>
      BY <2>3, <2>7, <3>1 DEF Cancel, slab, hist
    <3>2. CASE Names(h) /\ CancelRunning(h[1])
      <4>1. /\ \A x \in Slots : state'[x] = IF x = h[1] THEN "CANCELLED" ELSE state[x]
            /\ UNCHANGED <<gen, detached>> /\ killed' = killed \cup {<<h[1], gen[h[1]]>>}
            /\ handles' = handles \ {h}
        BY <1>0, <2>7, <3>2, CancelRunningStates DEF Cancel
      <4>2. \A x \in Slots : Owned(x)' => Owned(x) /\ x # h[1]
        BY <4>1 DEF Owned
      <4>3. \A x \in Slots \ {h[1]} : Owned(x)' <=> Owned(x)
        BY <4>1 DEF Owned
      <4>4. \A g \in handles : g[1] \in Slots /\ g = <<g[1], g[2]>>
        BY DEF SlotInv, SlabInv, TypeInv, TypeOK, Tasks
      <4>5. ASSUME NEW x \in Slots, Owned(x)'  PROVE <<x, gen'[x]>> \in handles'
        BY <4>1, <4>2, <4>4, <4>5 DEF HandleInv
      <4>6. ASSUME NEW g \in handles', g \notin killed'  PROVE g[2] = gen'[g[1]] /\ Owned(g[1])'
        <5>1. g \in handles /\ g \notin killed /\ g # <<h[1], gen[h[1]]>>
          BY <4>1, <4>6
        <5>2. g[1] \in Slots /\ g[2] = gen[g[1]] /\ Owned(g[1])
          BY <4>4, <5>1 DEF HandleInv
        <5>3. g[1] # h[1]
          BY <4>4, <5>1, <5>2
        <5> QED  BY <4>1, <4>3, <5>2, <5>3
      <4> QED  BY <4>5, <4>6 DEF HandleInv
    <3>3. CASE Names(h) /\ CancelComplete(h[1])
      BY <2>5, <2>7, <3>3 DEF Cancel, CancelComplete
    <3> QED  BY <2>7, <3>1, <3>2, <3>3 DEF Cancel
  <2> QED  BY <1>8, <2>1, <2>2, <2>4, <2>6, <2>7 DEF Joining
<1>9. ASSUME NEW p \in Plugins, UnloadBegin(p)  PROVE HandleInv'
  <2>1. /\ \A x \in Slots : state'[x] = IF x \in TasksOf(p) THEN "CANCELLED" ELSE state[x]
        /\ killed' = killed \cup {<<x, gen[x]>> : x \in TasksOf(p)}
        /\ UNCHANGED <<gen, detached, handles>>
    BY <1>9 DEF UnloadBegin
  <2> QED  BY <2>1, QuietHandles DEF Owned
<1>10. CASE Unloading
  <2>1. CASE UnloadDone
    BY <1>0, <2>1, CalmHandles DEF UnloadDone, slab, hist
  <2>2. ASSUME NEW s \in Slots, UnloadDrop(s)  PROVE HandleInv'
    BY <1>0, <2>2, CalmHandles DEF UnloadDrop, slab, hist
  <2>3. ASSUME NEW s \in Slots, UnloadFree(s)  PROVE HandleInv'
    <3>1. /\ state[s] = "CANCELLED"
          /\ \A x \in Slots : state'[x] = IF x = s THEN "EMPTY" ELSE state[x]
          /\ UNCHANGED <<gen, detached, handles, killed>>
      BY <1>0, <2>3 DEF UnloadFree, hist, SlotInv, ReleasedOnce
    <3> QED  BY <3>1, QuietHandles DEF Owned
  <2> QED  BY <1>10, <2>1, <2>2, <2>3 DEF Unloading
<1> QED  BY <1>1, <1>2, <1>3, <1>4, <1>5, <1>6, <1>7, <1>8, <1>9, <1>10, SpawnHandles
         DEF Next, Polling, Tasking

LEMMA HandlesAlways ==
  ASSUME WellBehaved, "abortDone" \notin Client
  PROVE  Spec => [](SlotInv /\ HandleInv)
<1>1. Init => SlotInv /\ HandleInv
  BY SlotInit DEF Init, HandleInv, Owned
<1>2. SlotInv /\ HandleInv /\ [Next]_vars => SlotInv' /\ HandleInv'
  BY SlotNext, HandlesNext DEF WellBehaved
<1> QED  BY <1>1, <1>2, PTL DEF Spec

(* A completed result always has its JoinHandle, which will take it or     *)
(* drop it: no result stays in the slab for ever.                          *)
THEOREM ResultsHaveOwners ==
  ASSUME WellBehaved, "abortDone" \notin Client
  PROVE  Spec => []ResultHasOwner
<1>1. SlotInv /\ HandleInv => ResultHasOwner
  BY DEF HandleInv, Owned, ResultHasOwner
<1> QED  BY <1>1, HandlesAlways, PTL

(* A JoinHandle yields None only for a task that was aborted, unloaded or  *)
(* waited for by its id: slots are reused, tasks end in any order, others  *)
(* are destroyed, and no handle loses its result.                          *)
THEOREM HandlesYieldResults ==
  ASSUME WellBehaved, "abortDone" \notin Client
  PROVE  Spec => JoinNoneMeansKilled
<1> DEFINE Kind == \A h \in handles : JoinNone(h) => h \in killed
<1>1. SlotInv /\ HandleInv => [Kind]_vars
  BY DEF HandleInv, Owned, JoinNone, Gone, Names
<1> QED  BY <1>1, HandlesAlways, PTL DEF JoinNoneMeansKilled

-----------------------------------------------------------------------------
(* The executor implements the lifecycle of tasks *)

(* A running task is detached when its handle is gone, and only then; a    *)
(* handle names a generation that its slot has reached.                    *)
LifeInv ==
  /\ \A s \in Slots : Alive(s) => (detached[s] <=> <<s, gen[s]>> \notin handles)
  /\ \A s \in Slots : state[s] # "EMPTY" => gen[s] > 0
  /\ \A h \in handles : h[2] > 0 /\ h[2] <= gen[h[1]]

LEMMA PhaseIs ==
  ASSUME NEW s
  PROVE  /\ PhaseOf(s) = IF Alive(s) THEN "running"
                         ELSE IF state[s] = "COMPLETE" THEN "done" ELSE "over"
         /\ PhaseOf(s)' = IF Alive(s)' THEN "running"
                          ELSE IF state'[s] = "COMPLETE" THEN "done" ELSE "over"
BY DEF PhaseOf, Alive

LEMMA LifeFacts ==
  ASSUME SlotInv
  PROVE  /\ state \in [Slots -> States] /\ detached \in [Slots -> BOOLEAN]
         /\ gen \in [Slots -> Gens] /\ Gens \subseteq Nat
         /\ \A h \in handles : h[1] \in Slots /\ h[2] \in Gens /\ h = <<h[1], h[2]>>
BY ExecutorAssumption DEF SlotInv, SlabInv, TypeInv, TypeOK, Tasks, Gens

LEMMA SamePhases ==
  ASSUME UNCHANGED gen, \A x \in Slots : PhaseOf(x)' = PhaseOf(x)
  PROVE  phase' = phase
<1>1. \A t \in Ids : t[1] \in Slots
  BY DEF Ids
<1> QED  BY <1>1 DEF phase

LEMMA OnePhase ==
  ASSUME SlotInv, UNCHANGED gen, NEW s \in Slots, gen[s] > 0,
         \A x \in Slots \ {s} : PhaseOf(x)' = PhaseOf(x)
  PROVE  LET t == <<s, gen[s]>>
         IN  /\ t \in Ids /\ phase[t] = PhaseOf(s)
             /\ phase' = [phase EXCEPT ![t] = PhaseOf(s)']
<1> DEFINE t == <<s, gen[s]>>
<1>1. t \in Ids /\ \A u \in Ids : u[1] \in Slots /\ u = <<u[1], u[2]>> /\ u[2] \in Nat
  BY LifeFacts DEF Ids
<1>2. \A x \in Slots : gen[x] \in Nat
  BY LifeFacts
<1>3. phase[t] = PhaseOf(s)
  BY <1>1, <1>2 DEF phase
<1>4. ASSUME NEW u \in Ids
      PROVE  phase'[u] = IF u = t THEN PhaseOf(s)' ELSE phase[u]
  <2>1. CASE u[1] # s \/ u[2] # gen[s]
    <3>1. u # t
      BY <2>1
    <3>2. phase'[u] = phase[u]
      BY <1>1, <1>2, <2>1 DEF phase
    <3> QED  BY <3>1, <3>2
  <2>2. CASE u[1] = s /\ u[2] = gen[s]
    BY <1>1, <1>2, <2>2 DEF phase
  <2> QED  BY <2>1, <2>2
<1>5. phase = [u \in Ids |-> phase[u]] /\ phase' = [u \in Ids |-> phase'[u]]
  BY DEF phase
<1> HIDE DEF t
<1>6. phase' = [phase EXCEPT ![t] = PhaseOf(s)']
  BY <1>4, <1>5
<1> QED  BY <1>1, <1>3, <1>6 DEF t

(* A step that no handle sees. *)
LEMMA QuietLife ==
  ASSUME SlotInv, LifeInv, UNCHANGED <<gen, detached, handles>>,
         \A x \in Slots : Stays(x) \/ (state[x] = "CANCELLED" /\ state'[x] = "EMPTY")
  PROVE  LifeInv' /\ UNCHANGED <<phase, handles>>
<1>1. \A x \in Slots : PhaseOf(x)' = PhaseOf(x) /\ (Alive(x)' <=> Alive(x))
  BY PhaseIs DEF Stays, Alive
<1>2. LifeInv'
  BY <1>1 DEF LifeInv, Stays
<1> QED  BY <1>1, <1>2, SamePhases

(* A step that ends a task, and leaves the other slots alone. *)
LEMMA LifeEnds ==
  ASSUME SlotInv, LifeInv, NEW s \in Slots, state[s] # "EMPTY", UNCHANGED <<gen, detached>>,
         state'[s] \in {"COMPLETE", "CANCELLED", "EMPTY"},
         \A x \in Slots \ {s} : Stays(x),
         handles' = handles \/ handles' = handles \ {<<s, gen[s]>>}
  PROVE  LET t == <<s, gen[s]>>
         IN  /\ LifeInv'
             /\ t \in Ids /\ phase[t] = PhaseOf(s)
             /\ phase' = [phase EXCEPT ![t] = PhaseOf(s)']
<1>1. gen[s] > 0 /\ ~ Alive(s)'
  BY DEF LifeInv, Alive
<1>2. \A x \in Slots \ {s} : PhaseOf(x)' = PhaseOf(x) /\ (Alive(x)' <=> Alive(x))
  BY PhaseIs DEF Stays, Alive
<1>3. LifeInv'
  <2>1. ASSUME NEW x \in Slots, Alive(x)'
        PROVE  detached'[x] <=> <<x, gen'[x]>> \notin handles'
    BY <1>1, <1>2, <2>1 DEF LifeInv
  <2>2. \A x \in Slots : state'[x] # "EMPTY" => gen'[x] > 0
    BY <1>1 DEF LifeInv, Stays
  <2>3. \A h \in handles' : h[2] > 0 /\ h[2] <= gen'[h[1]]
    BY DEF LifeInv
  <2> QED  BY <2>1, <2>2, <2>3 DEF LifeInv
<1> QED  BY <1>1, <1>2, <1>3, OnePhase

LEMMA DiscardLife ==
  ASSUME SlotInv, LifeInv, NEW s \in Slots, NEW then, DiscardResult(s, then),
         handles' = handles \/ handles' = handles \ {<<s, gen[s]>>}
  PROVE  LET t == <<s, gen[s]>>
         IN  LifeInv' /\ t \in Ids /\ phase[t] = "done" /\ phase' = [phase EXCEPT ![t] = "over"]
<1>1. /\ state[s] = "COMPLETE" /\ state'[s] = "EMPTY" /\ UNCHANGED <<gen, detached>>
      /\ \A x \in Slots \ {s} : Stays(x)
  BY DiscardStates DEF Stays
<1>2. PhaseOf(s) = "done" /\ PhaseOf(s)' = "over"
  BY <1>1, PhaseIs DEF Alive
<1> QED  BY <1>1, <1>2, LifeEnds

LEMMA CancelRunningLife ==
  ASSUME SlotInv, LifeInv, NEW s \in Slots, CancelRunning(s),
         handles' = handles \/ handles' = handles \ {<<s, gen[s]>>}
  PROVE  LET t == <<s, gen[s]>>
         IN  LifeInv' /\ t \in Ids /\ phase[t] = "running" /\ phase' = [phase EXCEPT ![t] = "over"]
<1>1. /\ state[s] \in {"PENDING", "READY"} /\ state'[s] = "CANCELLED"
      /\ UNCHANGED <<gen, detached>>
      /\ \A x \in Slots \ {s} : Stays(x)
  BY CancelRunningStates DEF Stays
<1>2. PhaseOf(s) = "running" /\ PhaseOf(s)' = "over"
  BY <1>1, PhaseIs DEF Alive
<1> QED  BY <1>1, <1>2, LifeEnds

(* The future returns: Finish. *)
LEMMA PollReadyLife ==
  ASSUME SlotInv, LifeInv, PollReady
  PROVE  LifeInv' /\ \E t \in Ids : Lifecycle!Finish(t)
<1>1. PICK s \in Slots :
        /\ state[s] \in {"PENDING", "READY"}
        /\ IF detached[s] THEN state'[s] = "CANCELLED" ELSE state'[s] = "COMPLETE"
        /\ \A x \in Slots \ {s} : Stays(x)
        /\ UNCHANGED <<gen, detached, handles>>
  BY PollReadyStates DEF PollReady
<1> DEFINE t == <<s, gen[s]>>
<1>2. PhaseOf(s) = "running" /\ PhaseOf(s)' = IF detached[s] THEN "over" ELSE "done"
  BY <1>1, PhaseIs DEF Alive
<1>3. LifeInv' /\ t \in Ids /\ phase[t] = "running" /\ phase' = [phase EXCEPT ![t] = PhaseOf(s)']
  BY <1>1, <1>2, LifeEnds
<1>4. detached[s] <=> t \notin handles
  BY <1>1 DEF LifeInv, Alive
<1>5. Lifecycle!Finish(t)
  BY <1>1, <1>2, <1>3, <1>4 DEF Lifecycle!Finish, Lifecycle!Become
<1> QED  BY <1>3, <1>5

(* A slot takes in a task: its last one stays over, its next one starts.   *)
LEMMA SpawnLife ==
  ASSUME SlotInv, LifeInv, NEW p \in Plugins, Spawn(p)
  PROVE  LifeInv' /\ \E t \in Ids : Lifecycle!Spawn(t)
<1>1. PICK s \in Slots :
        /\ state[s] = "EMPTY" /\ gen[s] \in Nat /\ s = NewSlot
        /\ (gen[s] + 1) % GenMod = gen[s] + 1
        /\ \A x \in Slots : state'[x] = IF x = s THEN "READY" ELSE state[x]
        /\ \A x \in Slots : gen'[x] = IF x = s THEN gen[s] + 1 ELSE gen[x]
  BY SpawnStates
<1> DEFINE g == gen[s] + 1
           t == <<s, g>>
<1>2. /\ handles' = handles \cup {t}
      /\ detached' = [detached EXCEPT ![s] = FALSE]
  BY <1>1 DEF Spawn
<1>3. g \in Gens \ {0} /\ t \in Ids
  BY <1>1, ExecutorAssumption DEF Gens, Ids
<1>4. \A x \in Slots : PhaseOf(x)' = IF x = s THEN "running" ELSE PhaseOf(x)
  BY <1>1, PhaseIs DEF Alive
<1>5. \A u \in Ids : u[1] \in Slots /\ u = <<u[1], u[2]>> /\ u[2] \in Nat
  BY LifeFacts DEF Ids
<1>6. \A x \in Slots : gen[x] \in Nat
  BY LifeFacts
<1>7. PhaseOf(s) = "over"
  BY <1>1, PhaseIs DEF Alive
<1>8. ASSUME NEW u \in Ids
      PROVE  phase'[u] = IF u = t THEN "running" ELSE phase[u]
  <2>1. phase'[u] = IF gen'[u[1]] < u[2] THEN "unborn"
                    ELSE IF gen'[u[1]] > u[2] THEN "over" ELSE PhaseOf(u[1])'
    BY DEF phase
  <2>2. phase[u] = IF gen[u[1]] < u[2] THEN "unborn"
                   ELSE IF gen[u[1]] > u[2] THEN "over" ELSE PhaseOf(u[1])
    BY DEF phase
  <2>3. CASE u[1] # s
    BY <1>1, <1>4, <1>5, <2>1, <2>2, <2>3
  <2>4. CASE u[1] = s
    <3>1. gen'[s] = g /\ PhaseOf(u[1])' = "running" /\ PhaseOf(u[1]) = "over"
      BY <1>1, <1>4, <1>7, <2>4
    <3> QED  BY <1>1, <1>5, <1>6, <2>1, <2>2, <2>4, <3>1
  <2> QED  BY <2>3, <2>4
<1>9. phase[t] = "unborn"
  BY <1>1, <1>3 DEF phase
<1>10. phase = [u \in Ids |-> phase[u]] /\ phase' = [u \in Ids |-> phase'[u]]
  BY DEF phase
<1>11. LifeInv'
  <2>1. ASSUME NEW x \in Slots, Alive(x)'  PROVE detached'[x] <=> <<x, gen'[x]>> \notin handles'
    BY <1>1, <1>2, <2>1, LifeFacts DEF LifeInv, Alive
  <2>2. \A x \in Slots : state'[x] # "EMPTY" => gen'[x] > 0
    BY <1>1 DEF LifeInv
  <2>3. ASSUME NEW h \in handles'  PROVE h[2] > 0 /\ h[2] <= gen'[h[1]]
    BY <1>1, <1>2, <1>6, LifeFacts DEF LifeInv
  <2> QED  BY <2>1, <2>2, <2>3 DEF LifeInv
<1> HIDE DEF t
<1>12. phase' = [phase EXCEPT ![t] = "running"]
  BY <1>8, <1>10
<1> QED  BY <1>2, <1>3, <1>9, <1>11, <1>12 DEF Lifecycle!Spawn, Lifecycle!Become

LEMMA JoiningLife ==
  ASSUME SlotInv, LifeInv, NEW h \in handles, Joining(h)
  PROVE  LifeInv' /\ [Lifecycle!Next]_<<phase, handles>>
<1>0. /\ h[1] \in Slots /\ h \in Ids /\ h = <<h[1], h[2]>> /\ h[2] \in Nat
      /\ \A s \in Slots : gen[s] \in Nat
  BY LifeFacts DEF LifeInv, Ids
<1> DEFINE s == h[1]
<1>1. ASSUME Gone(h)  PROVE phase[h] = "over"
  <2>1. CASE gen[s] # h[2]
    BY <1>0, <2>1 DEF phase, LifeInv
  <2>2. CASE gen[s] = h[2]
    <3>1. PhaseOf(s) = "over"
      BY <1>1, <2>2, PhaseIs DEF Gone, Names, Alive
    <3> QED  BY <1>0, <2>2, <3>1 DEF phase
  <2> QED  BY <2>1, <2>2
<1>2. ASSUME Gone(h), handles' = handles \ {h}, UNCHANGED <<state, gen, detached>>
      PROVE  LifeInv' /\ Lifecycle!JoinNone(h)
  <2>1. phase' = phase
    BY <1>2, SamePhases, PhaseIs DEF Alive
  <2>2. ASSUME NEW x \in Slots, Alive(x)'  PROVE detached'[x] <=> <<x, gen'[x]>> \notin handles'
    BY <1>0, <1>2, <2>2 DEF LifeInv, Gone, Names, Alive
  <2>3. LifeInv'
    BY <1>2, <2>2 DEF LifeInv
  <2> QED  BY <1>1, <1>2, <2>1, <2>3 DEF Lifecycle!JoinNone, Lifecycle!Close
<1>3. CASE JoinTake(h)
  <2>1. /\ state[s] = "COMPLETE" /\ h = <<s, gen[s]>> /\ state'[s] = "EMPTY"
        /\ UNCHANGED <<gen, detached>> /\ handles' = handles \ {h}
        /\ \A x \in Slots \ {s} : Stays(x)
    BY <1>0, <1>3, LifeFacts DEF JoinTake, Names, Stays
  <2>2. PhaseOf(s) = "done" /\ PhaseOf(s)' = "over"
    BY <2>1, PhaseIs DEF Alive
  <2>3. LifeInv' /\ phase[h] = "done" /\ phase' = [phase EXCEPT ![h] = "over"]
    BY <1>0, <2>1, <2>2, LifeEnds
  <2> QED  BY <1>0, <2>1, <2>3 DEF Lifecycle!Next, Lifecycle!Join, Lifecycle!Close, Lifecycle!Become
<1>4. CASE JoinNone(h)
  BY <1>0, <1>2, <1>4 DEF JoinNone, slab, Lifecycle!Next
<1>5. ASSUME NEW w \in Wakers, JoinWait(h, w)  PROVE LifeInv' /\ [Lifecycle!Next]_<<phase, handles>>
  <2>1. UNCHANGED <<state, gen, detached, handles>>
    BY <1>5 DEF JoinWait
  <2> QED  BY <2>1, QuietLife DEF Stays
<1>6. ASSUME Names(h), handles' = handles \ {h}, DiscardResult(s, "none") \/ CancelComplete(s)
      PROVE  LifeInv' /\ phase[h] = "done" /\ phase' = [phase EXCEPT ![h] = "over"]
  BY <1>0, <1>6, DiscardLife DEF Names, CancelComplete
<1>7. CASE JoinDrop(h)
  <2>1. CASE /\ Gone(h)
             /\ UNCHANGED <<slab, lists, clock, calls, purge, halted, spawns, hist>>
    BY <1>0, <1>2, <1>7, <2>1 DEF JoinDrop, slab, Lifecycle!Next
  <2>2. CASE Names(h) /\ Alive(s) /\ detached' = [detached EXCEPT ![s] = TRUE] /\ UNCHANGED <<state, gen>>
    <3>1. handles' = handles \ {h} /\ h = <<s, gen[s]>>
      BY <1>0, <1>7, <2>2 DEF JoinDrop, Names
    <3>2. phase' = phase
      BY <2>2, SamePhases, PhaseIs DEF Alive
    <3>3. phase[h] = "running"
      <4>1. PhaseOf(s) = "running"
        BY <2>2, PhaseIs
      <4> QED  BY <1>0, <3>1, <4>1 DEF phase
    <3>4. phase' = [phase EXCEPT ![h] = "running"]
      BY <1>0, <3>2, <3>3 DEF phase
    <3>5. LifeInv'
      <4>1. ASSUME NEW x \in Slots, Alive(x)'  PROVE detached'[x] <=> <<x, gen'[x]>> \notin handles'
        BY <1>0, <2>2, <3>1, <4>1, LifeFacts DEF LifeInv, Alive
      <4> QED  BY <2>2, <3>1, <4>1 DEF LifeInv
    <3> QED  BY <1>0, <3>1, <3>3, <3>4, <3>5 DEF Lifecycle!Next, Lifecycle!Release, Lifecycle!Close, Lifecycle!Become
  <2>3. CASE Names(h) /\ DiscardResult(s, "none")
    BY <1>0, <1>6, <1>7, <2>3
    DEF JoinDrop, Lifecycle!Next, Lifecycle!Release, Lifecycle!Close, Lifecycle!Become
  <2> QED  BY <1>7, <2>1, <2>2, <2>3 DEF JoinDrop
<1>8. CASE Cancel(h)
  <2>1. CASE /\ Gone(h)
             /\ UNCHANGED <<slab, lists, clock, calls, purge, halted, spawns, hist>>
    BY <1>0, <1>2, <1>8, <2>1 DEF Cancel, slab, Lifecycle!Next
  <2>2. CASE Names(h) /\ CancelRunning(s)
    <3>1. LifeInv' /\ phase[h] = "running" /\ phase' = [phase EXCEPT ![h] = "over"] /\ handles' = handles \ {h}
      BY <1>0, <1>8, <2>2, CancelRunningLife DEF Cancel, Names
    <3> QED  BY <1>0, <3>1 DEF Lifecycle!Next, Lifecycle!Cancel, Lifecycle!Close, Lifecycle!Become
  <2>3. CASE Names(h) /\ CancelComplete(s)
    <3>1. LifeInv' /\ phase[h] = "done" /\ phase' = [phase EXCEPT ![h] = "over"] /\ handles' = handles \ {h}
      BY <1>6, <1>8, <2>3 DEF Cancel
    <3> QED  BY <1>0, <3>1 DEF Lifecycle!Next, Lifecycle!Cancel, Lifecycle!Close, Lifecycle!Become
  <2> QED  BY <1>8, <2>1, <2>2, <2>3 DEF Cancel
<1> QED  BY <1>3, <1>4, <1>5, <1>7, <1>8 DEF Joining

LEMMA UnloadBeginLife ==
  ASSUME SlotInv, LifeInv, NEW p \in Plugins, UnloadBegin(p)
  PROVE  LifeInv' /\ \E T \in SUBSET Ids : Lifecycle!Unload(T)
<1> DEFINE T == {<<s, gen[s]>> : s \in TasksOf(p)}
<1>1. /\ \A x \in Slots : state'[x] = IF x \in TasksOf(p) THEN "CANCELLED" ELSE state[x]
      /\ UNCHANGED <<gen, detached, handles>>
  BY DEF UnloadBegin
<1>2. TasksOf(p) \subseteq Slots
  BY SegmentFacts DEF TasksOf, Allocated, SlotInv, SlabInv, TypeInv, TypeOK
<1>3. \A s \in TasksOf(p) : state[s] \in {"PENDING", "READY", "COMPLETE"} /\ gen[s] > 0
  BY <1>2, LifeFacts DEF TasksOf, LifeInv, States
<1>4. T \in SUBSET Ids
  BY <1>2, <1>3, LifeFacts DEF Ids
<1>5. \A x \in Slots : PhaseOf(x)' = IF x \in TasksOf(p) THEN "over" ELSE PhaseOf(x)
  BY <1>1, PhaseIs DEF Alive
<1>6. \A x \in TasksOf(p) : PhaseOf(x) \in {"running", "done"}
  BY <1>3, PhaseIs DEF Alive
<1>7. \A u \in Ids : u[1] \in Slots /\ u = <<u[1], u[2]>> /\ u[2] \in Nat /\ gen[u[1]] \in Nat
  BY LifeFacts DEF Ids
<1>8. ASSUME NEW u \in Ids
      PROVE  /\ phase'[u] = IF u \in T THEN "over" ELSE phase[u]
             /\ u \in T => phase[u] \in {"running", "done"}
  <2>1. phase'[u] = IF gen[u[1]] < u[2] THEN "unborn"
                    ELSE IF gen[u[1]] > u[2] THEN "over" ELSE PhaseOf(u[1])'
    BY <1>1 DEF phase
  <2>2. phase[u] = IF gen[u[1]] < u[2] THEN "unborn"
                   ELSE IF gen[u[1]] > u[2] THEN "over" ELSE PhaseOf(u[1])
    BY DEF phase
  <2>3. u \in T <=> u[1] \in TasksOf(p) /\ u[2] = gen[u[1]]
    BY <1>7
  <2> HIDE DEF T
  <2> QED  BY <1>5, <1>6, <1>7, <2>1, <2>2, <2>3
<1> HIDE DEF T
<1>9. phase' = [u \in Ids |-> IF u \in T THEN "over" ELSE phase[u]]
  <2>1. phase' = [u \in Ids |-> phase'[u]]
    BY DEF phase
  <2> QED  BY <1>8, <2>1
<1>10. \A t \in T : phase[t] \in {"running", "done"}
  BY <1>4, <1>8
<1>11. LifeInv'
  <2>1. \A x \in Slots : Alive(x)' => Alive(x)
    BY <1>1 DEF Alive
  <2>2. \A x \in Slots : state'[x] # "EMPTY" => gen'[x] > 0
    BY <1>1, <1>3 DEF LifeInv
  <2> QED  BY <1>1, <2>1, <2>2 DEF LifeInv
<1> QED  BY <1>1, <1>4, <1>9, <1>10, <1>11 DEF Lifecycle!Unload

LEMMA LifeNext ==
  ASSUME SlotInv, LifeInv, [Next]_vars
  PROVE  LifeInv' /\ [Lifecycle!Next]_<<phase, handles>>
<1>0. state \in [Slots -> States] /\ (UNCHANGED state => \A s \in Slots : Stays(s))
  BY LifeFacts DEF Stays
<1>1. CASE Driving \/ StartDrive
  BY <1>1, DriveKeeps, QuietLife
<1>2. CASE PollReady
  BY <1>2, PollReadyLife DEF Lifecycle!Next
<1>3. CASE DropReturn
  BY <1>3, DropReturnStates, QuietLife DEF DropReturn, Stays
<1>4. CASE PollPending \/ Sleeping \/ SpawnPanics \/ Stopped \/ UNCHANGED vars
  <2>1. UNCHANGED <<state, gen, detached, handles>>
    BY <1>4 DEF PollPending, Sleeping, SleepStart, SleepAgain, SleepEnd, Tick, SpawnPanics, Stopped,
                vars, slab
  <2> QED  BY <1>0, <2>1, QuietLife
<1>5. ASSUME NEW s \in Slots, Waking(s)  PROVE LifeInv' /\ [Lifecycle!Next]_<<phase, handles>>
  <2>1. \A x \in Slots : Stays(x)
    BY <1>0, <1>5 DEF Waking, Wake, RemoteWake, WakeInto, StateAfterWake, Wakes, Stays, slab
  <2> QED  BY <1>5, <2>1, QuietLife DEF Waking, Wake, RemoteWake, slab
<1>6. ASSUME NEW s \in Slots, Abort(s) \/ HostWait(s)
      PROVE  LifeInv' /\ [Lifecycle!Next]_<<phase, handles>>
  <2>1. UNCHANGED handles
    BY <1>6 DEF Abort, HostWait
  <2>2. CASE CancelRunning(s)
    BY <2>1, <2>2, CancelRunningLife DEF Lifecycle!Next, Lifecycle!Abort, Lifecycle!Become
  <2>3. CASE CancelComplete(s) \/ DiscardResult(s, "none")
    BY <2>1, <2>3, DiscardLife DEF CancelComplete, Lifecycle!Next, Lifecycle!HostTakes, Lifecycle!Become
  <2> QED  BY <1>6, <2>2, <2>3 DEF Abort, HostWait
<1>7. CASE Unloading
  <2>1. CASE UnloadDone \/ \E s \in Slots : UnloadDrop(s)
    BY <1>0, <2>1, QuietLife DEF UnloadDone, UnloadDrop, slab
  <2>2. ASSUME NEW s \in Slots, UnloadFree(s)  PROVE LifeInv' /\ [Lifecycle!Next]_<<phase, handles>>
    <3>1. /\ state[s] = "CANCELLED"
          /\ \A x \in Slots : state'[x] = IF x = s THEN "EMPTY" ELSE state[x]
          /\ UNCHANGED <<gen, detached, handles>>
      BY <1>0, <2>2 DEF UnloadFree, SlotInv, ReleasedOnce
    <3> QED  BY <3>1, QuietLife DEF Stays
  <2> QED  BY <1>7, <2>1, <2>2 DEF Unloading
<1> QED  BY <1>1, <1>2, <1>3, <1>4, <1>5, <1>6, <1>7, SpawnLife, UnloadBeginLife, JoiningLife
         DEF Next, Polling, Tasking, Lifecycle!Next

(* The executor implements the lifecycle of tasks: every step of it, of    *)
(* the drive cycle, a handle, an abort, the host or an unload, is one of a *)
(* task's life that its handle may see, or none.  Slots that are reused,   *)
(* stale handles, wakes and queues do not show.                            *)
THEOREM ExecutorImplementsLifecycle ==
  ASSUME WellBehaved
  PROVE  Spec => ImplementsLifecycle
<1>1. Init => SlotInv /\ LifeInv
  BY SlotInit DEF Init, LifeInv, Alive
<1>2. SlotInv /\ LifeInv /\ [Next]_vars => SlotInv' /\ LifeInv' /\ [Lifecycle!Next]_<<phase, handles>>
  BY SlotNext, LifeNext DEF WellBehaved
<1>3. Init => Lifecycle!Init
  <2>1. ASSUME Init  PROVE handles = {} /\ \A t \in Ids : phase[t] = "unborn"
    BY <2>1, LifeFacts, SlotInit DEF Init, Ids, phase
  <2>2. phase = [t \in Ids |-> phase[t]]
    BY DEF phase
  <2> QED  BY <2>1, <2>2 DEF Lifecycle!Init
<1> QED  BY <1>1, <1>2, <1>3, PTL DEF Spec, ImplementsLifecycle, Lifecycle!Spec, Lifecycle!vars

=============================================================================
