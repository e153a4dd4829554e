------------------------ MODULE ExecutorStorageProofs ------------------------
(***************************************************************************)
(* What is in the storage of a slot, who waits for its task, and which     *)
(* timer will wake it.                                                     *)
(***************************************************************************)
EXTENDS ExecutorProofs

-----------------------------------------------------------------------------
(* Glue finds its data *)

(* Some glue runs on the storage of slot s. *)
Held(s) == \E i \in 1 .. depth : stack[i].slot = s

FramesArePlain == \A i \in 1 .. depth : stack[i].at \notin Glue => stack[i].slot = None

(* A drop runs when its slot is CANCELLED, or on a result whose slot is    *)
(* free.                                                                   *)
DropStates ==
  \A i \in 1 .. depth :
    /\ stack[i].at = "dropFuture" => state[stack[i].slot] = "CANCELLED"
    /\ stack[i].at = "dropResult" => state[stack[i].slot] \in {"CANCELLED", "EMPTY"}

(* The data of a task that was in state st. *)
Data(st) == IF st = "COMPLETE" THEN "result" ELSE "future"

(* What an unload has yet to drop is there, and what it has dropped is     *)
(* gone before it frees a slot.                                            *)
DoomedMatch ==
  /\ \A u \in undropped :
       /\ u[1] \in doomed /\ ~ Held(u[1])
       /\ store[u[1]] = <<Data(u[2]), gen[u[1]]>>
       /\ \A v \in undropped : u[1] = v[1] => u = v
  /\ \A s \in doomed :
       (\A u \in undropped : u[1] # s) /\ ~ Held(s) => store[s][1] = "none"

StoreInv ==
  FramesArePlain /\ GlueFindsItsData /\ StorageMatchesState /\ DropStates /\ DoomedMatch

LEMMA StoreFacts ==
  ASSUME SlotInv
  PROVE  /\ depth \in Nat \ {0} /\ None \notin Slots
         /\ \A i \in 1 .. depth : stack[i].at \in Glue => stack[i].slot \in Slots
         /\ \A u \in undropped : u[1] \in Slots /\ u = <<u[1], u[2]>>
         /\ \A s \in doomed : s \in Slots /\ state[s] = "CANCELLED"
         /\ state \in [Slots -> States] /\ store \in [Slots -> Contents]
BY GlueSlots, TopFacts, SlotFacts DEF SlotInv, SlabInv, TypeInv, TypeOK, ReleasedOnce

(* Nothing runs on the storage of a slot that is alive and not polled, or  *)
(* complete.                                                               *)
LEMMA NotHeld ==
  ASSUME SlotInv, StoreInv, NEW s \in Slots,
         state[s] \in {"PENDING", "READY", "COMPLETE"}, ~ OnStack(s)
  PROVE  ~ Held(s)
BY StoreFacts DEF StoreInv, FramesArePlain, DropStates, Held, OnStack, Glue

LEMMA CompleteNotPolled ==
  ASSUME SlotInv, NEW s \in Slots, state[s] \notin {"PENDING", "READY"}
  PROVE  ~ OnStack(s)
BY DEF SlotInv, PolledIsAlive, OnStack

LEMMA CalmStore ==
  ASSUME SlotInv, StoreInv, UNCHANGED <<calls, store, gen, doomed, undropped>>,
         \A x \in Slots : Stays(x)
  PROVE  StoreInv'
<1>0. UNCHANGED <<stack, depth>> /\ \A s : Held(s)' <=> Held(s)
  BY DEF calls, Held
<1>1. FramesArePlain' /\ GlueFindsItsData'
  BY <1>0 DEF StoreInv, FramesArePlain, GlueFindsItsData
<1>2. DropStates'
  BY <1>0, StoreFacts DEF StoreInv, DropStates, Stays, Glue
<1>3. DoomedMatch'
  BY <1>0 DEF StoreInv, DoomedMatch
<1>4. StorageMatchesState'
  BY <1>0 DEF StoreInv, StorageMatchesState, Stays, Alive
<1> QED  BY <1>1, <1>2, <1>3, <1>4 DEF StoreInv

(* A frame of the executor comes or goes. *)
LEMMA PlainStore ==
  ASSUME SlotInv, StoreInv, NEW f, f.at \notin Glue, f.slot = None,
         (HasRoomFor(1) /\ Push(f)) \/ (Top.at \notin Glue /\ Replace(f))
           \/ (Top.at \notin Glue \cup {"root"} /\ Pop),
         UNCHANGED <<state, store, gen, doomed, undropped>>
  PROVE  StoreInv'
<1>1. StackOK
  BY DEF SlotInv, SlabInv, TypeInv, TypeOK
<1>2. /\ depth' \in Nat
      /\ \A i \in 1 .. depth' : \/ i \in 1 .. depth /\ stack'[i] = stack[i]
                                \/ stack'[i].at \notin Glue /\ stack'[i].slot = None
      /\ \A i \in 1 .. depth : \/ i \in 1 .. depth' /\ stack'[i] = stack[i]
                               \/ stack[i].at \notin Glue
  <2>1. CASE HasRoomFor(1) /\ Push(f)
    BY <1>1, <2>1, PushFacts
  <2>2. CASE Top.at \notin Glue /\ Replace(f)
    BY <1>1, <2>2, ReplaceFacts DEF Top
  <2>3. CASE Top.at \notin Glue \cup {"root"} /\ Pop
    BY <1>1, <2>3, PopFacts DEF Top
  <2> QED  BY <2>1, <2>2, <2>3
<1>3. \A s \in Slots : Held(s)' <=> Held(s)
  BY <1>2, StoreFacts DEF Held, StoreInv, FramesArePlain
<1>4. FramesArePlain'
  BY <1>2 DEF StoreInv, FramesArePlain
<1>5. GlueFindsItsData'
  BY <1>2 DEF StoreInv, GlueFindsItsData, Glue
<1>6. DropStates'
  BY <1>2 DEF StoreInv, DropStates, Glue
<1>7. DoomedMatch'
  BY <1>3, StoreFacts DEF StoreInv, DoomedMatch
<1>8. StorageMatchesState'
  BY <1>3 DEF StoreInv, StorageMatchesState, Alive, Held
<1> QED  BY <1>4, <1>5, <1>6, <1>7, <1>8 DEF StoreInv

(* Glue begins to run on the storage of a slot that nothing runs on.       *)
LEMMA GlueStore ==
  ASSUME SlotInv, StoreInv, NEW s \in Slots, ~ Held(s),
         NEW at \in Glue, NEW then, HasRoomFor(1), Push(Frame(at, s, gen[s], then)),
         UNCHANGED <<gen, store, doomed>>, undropped' \subseteq undropped,
         \A u \in undropped : IF u \in undropped' THEN u[1] # s ELSE u[1] = s,
         store[s] = <<IF at = "dropResult" THEN "result" ELSE "future", gen[s]>>,
         \A x \in Slots \ {s} : Stays(x),
         at = "poll" => state'[s] \in {"PENDING", "READY"},
         at = "dropFuture" => state'[s] = "CANCELLED",
         at = "dropResult" => state'[s] \in {"CANCELLED", "EMPTY"}
  PROVE  StoreInv'
<1> DEFINE f == Frame(at, s, gen[s], then)
<1>1. f.at = at /\ f.slot = s /\ f.gen = gen[s]
  BY FrameParts
<1> HIDE DEF f
<1>2. /\ depth \in Nat \ {0} /\ depth' = depth + 1 /\ stack'[depth + 1] = f
      /\ \A i \in 1 .. depth : stack'[i] = stack[i]
  BY PushFacts DEF f, SlotInv, SlabInv, TypeInv, TypeOK
<1>3. \A x \in Slots : Held(x)' <=> Held(x) \/ x = s
  BY <1>1, <1>2 DEF Held
<1>4. \A i \in 1 .. depth : stack[i].slot # s
  BY DEF Held
<1>5. s # None
  BY StoreFacts
<1>6. FramesArePlain'
  BY <1>1, <1>2 DEF StoreInv, FramesArePlain
<1>7. GlueFindsItsData'
  <2>1. ASSUME NEW i \in 1 .. depth'
        PROVE  /\ stack'[i].at \in {"poll", "dropFuture"} =>
                    store'[stack'[i].slot] = <<"future", stack'[i].gen>>
               /\ stack'[i].at = "dropResult" => store'[stack'[i].slot] = <<"result", stack'[i].gen>>
    BY <1>1, <1>2, <2>1 DEF StoreInv, GlueFindsItsData, Glue
  <2>2. ASSUME NEW i \in 1 .. depth', NEW j \in 1 .. depth',
               stack'[i].slot # None, stack'[j].slot = stack'[i].slot
        PROVE  i = j
    BY <1>1, <1>2, <1>4, <2>2 DEF StoreInv, GlueFindsItsData
  <2> QED  BY <2>1, <2>2 DEF GlueFindsItsData
<1>8. DropStates'
  <2>1. ASSUME NEW i \in 1 .. depth'
        PROVE  /\ stack'[i].at = "dropFuture" => state'[stack'[i].slot] = "CANCELLED"
               /\ stack'[i].at = "dropResult" => state'[stack'[i].slot] \in {"CANCELLED", "EMPTY"}
    <3>1. CASE i = depth + 1
      BY <1>1, <1>2, <3>1
    <3>2. CASE i \in 1 .. depth
      <4>1. stack'[i] = stack[i] /\ (stack[i].at \in Glue => stack[i].slot \in Slots \ {s})
        BY <1>2, <1>4, <3>2, StoreFacts
      <4> QED  BY <3>2, <4>1 DEF StoreInv, DropStates, Stays, Glue
    <3> QED  BY <1>2, <3>1, <3>2
  <2> QED  BY <2>1 DEF DropStates
<1>9. DoomedMatch'
  <2>1. ASSUME NEW u \in undropped'
        PROVE  /\ u[1] \in doomed' /\ ~ Held(u[1])'
               /\ store'[u[1]] = <<Data(u[2]), gen'[u[1]]>>
               /\ \A v \in undropped' : u[1] = v[1] => u = v
    BY <1>3, <2>1, StoreFacts DEF StoreInv, DoomedMatch
  <2>2. ASSUME NEW x \in doomed', \A u \in undropped' : u[1] # x, ~ Held(x)'
        PROVE  store'[x][1] = "none"
    BY <1>3, <2>2, StoreFacts DEF StoreInv, DoomedMatch
  <2> QED  BY <2>1, <2>2 DEF DoomedMatch
<1>10. StorageMatchesState'
  <2>1. ASSUME NEW x \in Slots
        PROVE  /\ Alive(x)' => store'[x] = <<"future", gen'[x]>>
               /\ state'[x] = "COMPLETE" => store'[x] = <<"result", gen'[x]>>
               /\ state'[x] = "EMPTY" /\ ~ Held(x)' => store'[x][1] = "none"
    <3>1. CASE x = s
      BY <1>3, <3>1 DEF Alive, Glue
    <3>2. CASE x # s
      BY <1>3, <3>2 DEF StoreInv, StorageMatchesState, Stays, Alive, Held
    <3> QED  BY <3>1, <3>2
  <2> QED  BY <2>1 DEF StorageMatchesState, Held
<1> QED  BY <1>6, <1>7, <1>8, <1>9, <1>10 DEF StoreInv

LEMMA DiscardStore ==
  ASSUME SlotInv, StoreInv, NEW s \in Slots, NEW then, DiscardResult(s, then)
  PROVE  StoreInv'
<1>1. /\ state[s] = "COMPLETE" /\ state'[s] = "EMPTY" /\ \A x \in Slots \ {s} : Stays(x)
      /\ UNCHANGED <<gen, store, doomed, undropped>>
  BY DiscardStates DEF Stays, purge
<1>2. ~ Held(s) /\ store[s] = <<"result", gen[s]>>
  BY <1>1, NotHeld, CompleteNotPolled DEF StoreInv, StorageMatchesState
<1>3. \A u \in undropped : u[1] # s
  BY <1>1, StoreFacts DEF StoreInv, DoomedMatch
<1>4. HasRoomFor(1) /\ Push(Frame("dropResult", s, gen[s], then))
  BY DEF DiscardResult, CallDropResult
<1> QED  BY <1>1, <1>2, <1>3, <1>4, GlueStore DEF Glue

LEMMA CancelRunningStore ==
  ASSUME SlotInv, StoreInv, "abortSelf" \notin Client, NEW s \in Slots, CancelRunning(s)
  PROVE  StoreInv'
<1>1. /\ state[s] \in {"PENDING", "READY"} /\ state'[s] = "CANCELLED"
      /\ \A x \in Slots \ {s} : Stays(x)
      /\ UNCHANGED <<gen, store, doomed, undropped>>
  BY CancelRunningStates DEF Stays, purge
<1>2. ~ Held(s) /\ store[s] = <<"future", gen[s]>>
  BY <1>1, NotHeld DEF CancelRunning, StoreInv, StorageMatchesState
<1>3. \A u \in undropped : u[1] # s
  BY <1>1, StoreFacts DEF StoreInv, DoomedMatch
<1>4. HasRoomFor(1) /\ Push(Frame("dropFuture", s, gen[s], "freeIfCancelled"))
  BY DEF CancelRunning
<1> QED  BY <1>1, <1>2, <1>3, <1>4, GlueStore DEF Glue

LEMMA PollStore ==
  ASSUME SlotInv, StoreInv, NEW s \in Slots, Top.at = "select", PollIfReady(s)
  PROVE  StoreInv'
<1>1. CASE ~ Pollable(s)
  <2>1. UNCHANGED <<state, calls>>
    BY <1>1 DEF PollIfReady
  <2> QED  BY <2>1, CalmStore DEF PollIfReady, purge, Stays
<1>2. CASE Pollable(s)
  <2>1. /\ state[s] = "READY" /\ state' = [state EXCEPT ![s] = "PENDING"]
        /\ Push(Frame("poll", s, gen[s], "none"))
        /\ UNCHANGED <<gen, store, doomed, undropped>>
    BY <1>2 DEF PollIfReady, Pollable, purge
  <2>2. ~ OnStack(s) /\ HasRoomFor(1)
    <3>1. depth = 2 /\ depth < MaxDepth
      BY StoreFacts DEF SlotInv, Shape, SlabInv, TypeInv, RoomAbove, Drives, Top
    <3> QED  BY <3>1, ExecutorAssumption DEF SlotInv, Shape, OnStack, HasRoomFor
  <2>3. ~ Held(s) /\ store[s] = <<"future", gen[s]>>
    BY <2>1, <2>2, NotHeld DEF StoreInv, StorageMatchesState, Alive
  <2>4. \A u \in undropped : u[1] # s
    BY <2>1, StoreFacts DEF StoreInv, DoomedMatch
  <2>5. state'[s] = "PENDING" /\ \A x \in Slots \ {s} : Stays(x)
    BY <2>1, StoreFacts DEF Stays
  <2> QED  BY <2>1, <2>2, <2>3, <2>4, <2>5, GlueStore DEF Glue
<1> QED  BY <1>1, <1>2

(* The glue that is on top returns.                                        *)
LEMMA PopHeld ==
  ASSUME SlotInv, StoreInv, Top.at \in Glue, Pop
  PROVE  /\ Top = stack[depth] /\ Top.slot \in Slots
         /\ depth' = depth - 1 /\ depth' \in Nat /\ \A i \in 1 .. depth' : i \in 1 .. depth /\ stack'[i] = stack[i]
         /\ \A i \in 1 .. depth' : stack[i].slot # Top.slot
         /\ \A x \in Slots : Held(x)' <=> Held(x) /\ x # Top.slot
<1>1. /\ depth \in Nat \ {0, 1} /\ depth' = depth - 1
      /\ \A i \in 1 .. depth - 1 : stack'[i] = stack[i]
  BY PopFacts DEF SlotInv, SlabInv, TypeInv, TypeOK, Glue
<1>2. Top = stack[depth] /\ Top.slot \in Slots /\ Top.slot # None
  BY <1>1, StoreFacts DEF Top
<1>3. \A i \in 1 .. depth' : stack[i].slot # Top.slot
  BY <1>1, <1>2 DEF StoreInv, GlueFindsItsData
<1>4. ASSUME NEW x \in Slots  PROVE Held(x)' <=> Held(x) /\ x # Top.slot
  <2>1. CASE x = Top.slot
    BY <1>1, <1>3, <2>1 DEF Held
  <2>2. CASE x # Top.slot
    <3>1. \A i \in 1 .. depth : stack[i].slot = x => i \in 1 .. depth'
      BY <1>1, <1>2, <2>2
    <3> QED  BY <1>1, <2>2, <3>1 DEF Held
  <2> QED  BY <2>1, <2>2
<1> QED  BY <1>1, <1>2, <1>3, <1>4

(* ... and has emptied the storage, or left the future or a result there.  *)
LEMMA ReturnStore ==
  ASSUME SlotInv, StoreInv, Top.at \in Glue, Pop,
         NEW s \in Slots, s = Top.slot, UNCHANGED <<gen, doomed, undropped>>,
         NEW c, store' = [store EXCEPT ![s] = c],
         \A x \in Slots \ {s} : Stays(x),
         \/ state'[s] = "COMPLETE" /\ c = <<"result", gen[s]>> /\ s \notin doomed
         \/ state'[s] \in {"PENDING", "READY"} /\ c = <<"future", gen[s]>> /\ s \notin doomed
         \/ state'[s] \in {"EMPTY", "CANCELLED"} /\ c[1] = "none"
  PROVE  StoreInv'
<1>1. /\ Top = stack[depth]
      /\ depth' \in Nat /\ \A i \in 1 .. depth' : i \in 1 .. depth /\ stack'[i] = stack[i]
      /\ \A i \in 1 .. depth' : stack[i].slot # s
      /\ \A x \in Slots : Held(x)' <=> Held(x) /\ x # s
  BY PopHeld
<1>2. /\ store'[s] = c /\ \A x : x # s => store'[x] = store[x]
  <2>1. store \in [Slots -> Contents]
    BY StoreFacts
  <2> QED  BY <2>1
<1>3. FramesArePlain'
  BY <1>1 DEF StoreInv, FramesArePlain
<1>4. GlueFindsItsData'
  BY <1>1, <1>2 DEF StoreInv, GlueFindsItsData
<1>5. DropStates'
  BY <1>1, StoreFacts DEF StoreInv, DropStates, Stays, Glue
<1>6. Held(s)
  BY <1>1, StoreFacts DEF Held
<1>7. DoomedMatch'
  <2>1. ASSUME NEW u \in undropped'
        PROVE  /\ u[1] \in doomed' /\ ~ Held(u[1])'
               /\ store'[u[1]] = <<Data(u[2]), gen'[u[1]]>>
               /\ \A v \in undropped' : u[1] = v[1] => u = v
    BY <1>1, <1>2, <1>6, StoreFacts DEF StoreInv, DoomedMatch
  <2>2. ASSUME NEW x \in doomed', \A u \in undropped' : u[1] # x, ~ Held(x)'
        PROVE  store'[x][1] = "none"
    BY <1>1, <1>2, <2>2, StoreFacts DEF StoreInv, DoomedMatch
  <2> QED  BY <2>1, <2>2 DEF DoomedMatch
<1>8. ASSUME NEW x \in Slots
      PROVE  /\ Alive(x)' => store'[x] = <<"future", gen'[x]>>
             /\ state'[x] = "COMPLETE" => store'[x] = <<"result", gen'[x]>>
             /\ state'[x] = "EMPTY" /\ ~ Held(x)' => store'[x][1] = "none"
  <2>1. CASE x = s
    BY <1>2, <2>1 DEF Alive
  <2>2. CASE x # s
    BY <1>1, <1>2, <2>2 DEF StoreInv, StorageMatchesState, Stays, Alive, Held
  <2> QED  BY <2>1, <2>2
<1>9. StorageMatchesState'
  BY <1>8 DEF StorageMatchesState, Held
<1> QED  BY <1>3, <1>4, <1>5, <1>7, <1>9 DEF StoreInv

LEMMA DropReturnStore ==
  ASSUME SlotInv, StoreInv, DropReturn
  PROVE  StoreInv'
<1>1. PICK s \in Slots : s = Top.slot /\ Held(s)
  BY StoreFacts DEF DropReturn, Top, Glue, Held
<1>2. /\ Top.at \in Glue /\ Pop /\ UNCHANGED <<gen, doomed, undropped>>
      /\ Top = stack[depth] /\ depth \in 1 .. depth
  BY StoreFacts DEF DropReturn, Glue, purge, Top
<1>3. store[s][2] = Top.gen /\ state[s] \in {"CANCELLED", "EMPTY"}
  <2>1. stack[depth].at \in {"dropFuture", "dropResult"} /\ stack[depth].slot = s
    BY <1>1, <1>2 DEF DropReturn
  <2>2. store[s] \in {<<"future", Top.gen>>, <<"result", Top.gen>>}
    BY <1>2, <2>1 DEF StoreInv, GlueFindsItsData
  <2>3. state[s] \in {"CANCELLED", "EMPTY"}
    BY <1>2, <2>1 DEF StoreInv, DropStates
  <2> QED  BY <2>2, <2>3
<1>4. store' = [store EXCEPT ![s] = <<"none", 0>>]
  BY <1>1, <1>3 DEF DropReturn
<1>5. state'[s] \in {"CANCELLED", "EMPTY"} /\ \A x \in Slots \ {s} : Stays(x)
  <2>1. state' = IF Frees(Top) THEN [state EXCEPT ![s] = "EMPTY"] ELSE state
    BY <1>1 DEF DropReturn
  <2> QED  BY <1>3, <2>1, StoreFacts DEF Stays
<1> QED  BY <1>1, <1>2, <1>4, <1>5, ReturnStore

LEMMA PollPendingStore ==
  ASSUME SlotInv, StoreInv, PollPending
  PROVE  StoreInv'
<1>1. PICK s \in Slots : s = Top.slot
  BY StoreFacts DEF PollPending, Top, Glue
<1>2. /\ Top.at = "poll" /\ Pop /\ UNCHANGED <<state, gen, store, doomed, undropped>>
      /\ Top = stack[depth] /\ depth \in 1 .. depth
  BY StoreFacts DEF PollPending, slab, purge, hist, Top
<1>3. state[s] \in {"PENDING", "READY"} /\ s \notin doomed
  BY <1>1, <1>2, StoreFacts DEF SlotInv, PolledIsAlive
<1>4. store[s] = <<"future", gen[s]>>
  BY <1>3 DEF StoreInv, StorageMatchesState, Alive
<1>5. store' = [store EXCEPT ![s] = <<"future", gen[s]>>]
  BY <1>2, <1>4, StoreFacts
<1> QED  BY <1>1, <1>2, <1>3, <1>5, ReturnStore DEF Glue, Stays

LEMMA PollReadyStore ==
  ASSUME SlotInv, StoreInv, PollReady
  PROVE  StoreInv'
<1>1. PICK s \in Slots :
        /\ s = Top.slot /\ state[s] \in {"PENDING", "READY"} /\ gen[s] = Top.gen
        /\ IF detached[s] THEN state'[s] = "CANCELLED" ELSE state'[s] = "COMPLETE"
        /\ \A x \in Slots \ {s} : Stays(x)
        /\ UNCHANGED <<gen, doomed, undropped>>
        /\ store' = [store EXCEPT ![s] = <<"result", gen[s]>>]
  BY PollReadyStates DEF PollReady, purge
<1>2. /\ Top.at \in Glue /\ Top = stack[depth] /\ depth \in 1 .. depth /\ s \notin doomed
  BY <1>1, StoreFacts DEF PollReady, Glue, Top
<1>3. CASE ~ detached[s]
  <2>1. Pop
    BY <1>1, <1>3 DEF PollReady
  <2> QED  BY <1>1, <1>2, <1>3, <2>1, ReturnStore
<1>4. CASE detached[s]
  <2> DEFINE f == Frame("dropResult", s, gen[s], "free")
  <2>1. Replace(f) /\ f.at = "dropResult" /\ f.slot = s /\ f.gen = gen[s]
    BY <1>1, <1>4, FrameParts DEF PollReady
  <2> HIDE DEF f
  <2>2. /\ depth \in Nat \ {0} /\ depth' = depth /\ stack'[depth] = f
        /\ \A i \in 1 .. depth - 1 : stack'[i] = stack[i]
    BY <2>1, ReplaceFacts DEF SlotInv, SlabInv, TypeInv, TypeOK
  <2>3. \A i \in 1 .. depth : stack'[i].slot = stack[i].slot
    BY <1>1, <1>2, <2>1, <2>2
  <2>4. \A x : Held(x)' <=> Held(x)
    BY <2>2, <2>3 DEF Held
  <2>5. \A i \in 1 .. depth - 1 : stack[i].slot # s
    BY <1>1, <1>2, <2>2, StoreFacts DEF StoreInv, GlueFindsItsData
  <2>6. store'[s] = <<"result", gen[s]>> /\ \A x : x # s => store'[x] = store[x]
    <3>1. store \in [Slots -> Contents]
      BY StoreFacts
    <3> QED  BY <1>1, <3>1
  <2>7. Held(s)
    BY <1>1, <1>2 DEF Held
  <2>8. FramesArePlain'
    BY <2>1, <2>2 DEF StoreInv, FramesArePlain, Glue
  <2>9. GlueFindsItsData'
    <3>1. ASSUME NEW i \in 1 .. depth'
          PROVE  /\ stack'[i].at \in {"poll", "dropFuture"} =>
                      store'[stack'[i].slot] = <<"future", stack'[i].gen>>
                 /\ stack'[i].at = "dropResult" => store'[stack'[i].slot] = <<"result", stack'[i].gen>>
      BY <2>1, <2>2, <2>5, <2>6 DEF StoreInv, GlueFindsItsData
    <3>2. \A i, j \in 1 .. depth' : stack'[i].slot # None /\ stack'[j].slot = stack'[i].slot => i = j
      BY <2>2, <2>3 DEF StoreInv, GlueFindsItsData
    <3> QED  BY <3>1, <3>2 DEF GlueFindsItsData
  <2>10. DropStates'
    <3>1. ASSUME NEW i \in 1 .. depth'
          PROVE  /\ stack'[i].at = "dropFuture" => state'[stack'[i].slot] = "CANCELLED"
                 /\ stack'[i].at = "dropResult" => state'[stack'[i].slot] \in {"CANCELLED", "EMPTY"}
      <4>1. CASE i = depth
        BY <1>1, <1>4, <2>1, <2>2, <4>1
      <4>2. CASE i # depth
        <5>1. /\ i \in 1 .. depth - 1 /\ stack'[i] = stack[i]
              /\ stack[i].at \in Glue => stack[i].slot \in Slots \ {s}
          BY <2>2, <2>5, <4>2, StoreFacts
        <5> QED  BY <1>1, <2>2, <5>1 DEF StoreInv, DropStates, Stays, Glue
      <4> QED  BY <4>1, <4>2
    <3> QED  BY <3>1 DEF DropStates
  <2>11. DoomedMatch'
    <3>1. ASSUME NEW u \in undropped'
          PROVE  /\ u[1] \in doomed' /\ ~ Held(u[1])'
                 /\ store'[u[1]] = <<Data(u[2]), gen'[u[1]]>>
                 /\ \A v \in undropped' : u[1] = v[1] => u = v
      BY <1>1, <2>4, <2>6, <2>7 DEF StoreInv, DoomedMatch
    <3>2. ASSUME NEW x \in doomed', \A u \in undropped' : u[1] # x, ~ Held(x)'
          PROVE  store'[x][1] = "none"
      BY <1>1, <1>2, <2>4, <2>6, <3>2 DEF StoreInv, DoomedMatch
    <3> QED  BY <3>1, <3>2 DEF DoomedMatch
  <2>12. ASSUME NEW x \in Slots
         PROVE  /\ Alive(x)' => store'[x] = <<"future", gen'[x]>>
                /\ state'[x] = "COMPLETE" => store'[x] = <<"result", gen'[x]>>
                /\ state'[x] = "EMPTY" /\ ~ Held(x)' => store'[x][1] = "none"
    <3>1. CASE x = s
      BY <1>1, <1>4, <3>1 DEF Alive
    <3>2. CASE x # s
      <4>1. Stays(x) /\ gen'[x] = gen[x] /\ store'[x] = store[x] /\ (Held(x)' <=> Held(x))
        BY <1>1, <2>4, <2>6, <3>2
      <4>2. /\ Alive(x) => store[x] = <<"future", gen[x]>>
            /\ state[x] = "COMPLETE" => store[x] = <<"result", gen[x]>>
            /\ state[x] = "EMPTY" /\ ~ Held(x) => store[x][1] = "none"
        BY DEF StoreInv, StorageMatchesState, Held
      <4>3. state'[x] = state[x] \/ (Alive(x) /\ state'[x] \in {"PENDING", "READY"})
        BY <4>1 DEF Stays, Alive
      <4> QED  BY <4>1, <4>2, <4>3 DEF Alive
    <3> QED  BY <3>1, <3>2
  <2>13. StorageMatchesState'
    BY <2>12 DEF StorageMatchesState, Held
  <2> QED  BY <2>8, <2>9, <2>10, <2>11, <2>13 DEF StoreInv
<1> QED  BY <1>3, <1>4

(* A slot that nothing runs on, and no unload is at, goes from a state to  *)
(* another, with the data of that.                                         *)
LEMMA SlotStore ==
  ASSUME SlotInv, StoreInv, UNCHANGED <<calls, doomed, undropped>>,
         NEW s \in Slots, ~ Held(s), s \notin doomed,
         \A x \in Slots \ {s} : Stays(x) /\ gen'[x] = gen[x] /\ store'[x] = store[x],
         \/ state'[s] \in {"PENDING", "READY"} /\ store'[s] = <<"future", gen'[s]>>
         \/ state'[s] = "EMPTY" /\ store'[s][1] = "none"
  PROVE  StoreInv'
<1>0. UNCHANGED <<stack, depth>> /\ \A x : Held(x)' <=> Held(x)
  BY DEF calls, Held
<1>1. \A i \in 1 .. depth : stack[i].at \in Glue => stack[i].slot \in Slots \ {s}
  BY StoreFacts DEF Held
<1>2. FramesArePlain'
  BY <1>0 DEF StoreInv, FramesArePlain
<1>3. GlueFindsItsData'
  BY <1>0, <1>1 DEF StoreInv, GlueFindsItsData, Glue
<1>4. DropStates'
  BY <1>0, <1>1 DEF StoreInv, DropStates, Stays, Glue
<1>5. DoomedMatch'
  <2>1. \A u \in undropped : u[1] \in Slots \ {s}
    BY StoreFacts DEF StoreInv, DoomedMatch
  <2>2. \A x \in doomed : x \in Slots \ {s}
    BY StoreFacts
  <2> QED  BY <1>0, <2>1, <2>2 DEF StoreInv, DoomedMatch
<1>6. ASSUME NEW x \in Slots
      PROVE  /\ Alive(x)' => store'[x] = <<"future", gen'[x]>>
             /\ state'[x] = "COMPLETE" => store'[x] = <<"result", gen'[x]>>
             /\ state'[x] = "EMPTY" /\ ~ Held(x)' => store'[x][1] = "none"
  <2>1. CASE x = s
    BY <2>1 DEF Alive
  <2>2. CASE x # s
    BY <1>0, <2>2 DEF StoreInv, StorageMatchesState, Stays, Alive, Held
  <2> QED  BY <2>1, <2>2
<1>7. StorageMatchesState'
  BY <1>6 DEF StorageMatchesState, Held
<1> QED  BY <1>2, <1>3, <1>4, <1>5, <1>7 DEF StoreInv

LEMMA JoinTakeStore ==
  ASSUME SlotInv, StoreInv, NEW h \in handles, JoinTake(h)
  PROVE  StoreInv'
<1>1. PICK s \in Slots : s = h[1]
  BY LifeFacts
<1>2. /\ state[s] = "COMPLETE" /\ state' = [state EXCEPT ![s] = "EMPTY"]
      /\ store' = [store EXCEPT ![s] = <<"none", 0>>]
      /\ UNCHANGED <<gen, calls, doomed, undropped>>
  BY <1>1 DEF JoinTake, purge
<1>3. ~ Held(s) /\ s \notin doomed
  BY <1>2, NotHeld, CompleteNotPolled, StoreFacts
<1>4. /\ state'[s] = "EMPTY" /\ store'[s][1] = "none"
      /\ \A x \in Slots \ {s} : Stays(x) /\ gen'[x] = gen[x] /\ store'[x] = store[x]
  BY <1>2, StoreFacts DEF Stays
<1> QED  BY <1>2, <1>3, <1>4, SlotStore

(* No destructor spawns when its slot is free, so a new task's storage is  *)
(* not in use.                                                             *)
LEMMA SpawnStore ==
  ASSUME SlotInv, StoreInv, "spawnInDrop" \notin Client, NEW p \in Plugins, Spawn(p)
  PROVE  StoreInv'
<1>1. PICK s \in Slots :
        /\ state[s] = "EMPTY" /\ s = NewSlot
        /\ (gen[s] + 1) % GenMod = gen[s] + 1
        /\ \A x \in Slots : state'[x] = IF x = s THEN "READY" ELSE state[x]
        /\ \A x \in Slots : gen'[x] = IF x = s THEN gen[s] + 1 ELSE gen[x]
  BY SpawnStates
<1>2. /\ store' = [store EXCEPT ![s] = <<"future", gen[s] + 1>>]
      /\ UNCHANGED <<calls, doomed, undropped>> /\ ~ FreedUnderDrop
  BY <1>1 DEF Spawn, purge
<1>3. ~ Held(s)
  <2>1. ASSUME NEW i \in 1 .. depth, stack[i].slot = s  PROVE FALSE
    <3>1. stack[i].at \in Glue
      BY <2>1, StoreFacts DEF StoreInv, FramesArePlain
    <3>2. stack[i].at \notin {"poll", "dropFuture"}
      BY <1>1, <2>1 DEF SlotInv, PolledIsAlive, StoreInv, DropStates
    <3>3. stack[i].at = "dropResult" /\ stack[i].then = "free"
      BY <1>2, <3>1, <3>2 DEF FreedUnderDrop, Glue
    <3>4. state[s] = "CANCELLED"
      BY <2>1, <3>3 DEF SlotInv, ReleasedOnce, Releasing
    <3> QED  BY <1>1, <3>4
  <2> QED  BY <2>1 DEF Held
<1>4. s \notin doomed
  BY <1>1, StoreFacts
<1>5. /\ state'[s] = "READY" /\ store'[s] = <<"future", gen'[s]>>
      /\ \A x \in Slots \ {s} : Stays(x) /\ gen'[x] = gen[x] /\ store'[x] = store[x]
  BY <1>1, <1>2, StoreFacts DEF Stays
<1> QED  BY <1>2, <1>3, <1>4, <1>5, SlotStore

LEMMA UnloadBeginStore ==
  ASSUME SlotInv, StoreInv, NEW p \in Plugins, UnloadBegin(p)
  PROVE  StoreInv'
<1>1. depth = 1 /\ stack[1].at = "root" /\ doomed = {} /\ stack[1].then = "none" /\ undropped = {}
  <2>1. depth = 1 /\ stack[1].at = "root"
    BY DEF UnloadBegin, Top, SlotInv, SlabInv, TypeInv, TypeOK, StackOK, Depths
  <2> QED  BY <2>1 DEF SlotInv, Shape, StoreInv, DoomedMatch
<1>2. stack[1].slot = None /\ None \notin Slots
  BY <1>1, StoreFacts DEF StoreInv, FramesArePlain, Glue
<1> DEFINE f == Frame("unload", None, 0, "none")
<1>3. /\ stack'[1] = stack[1] /\ stack'[2] = f /\ depth' = 2
      /\ f.at = "unload" /\ f.slot = None
  <2>1. HasRoomFor(1)
    BY TopFacts, ExecutorAssumption DEF UnloadBegin, HasRoomFor, SlotInv, SlabInv, TypeInv, TypeOK
  <2>2. Push(f)
    BY DEF UnloadBegin
  <2> QED  BY <1>1, <2>1, <2>2, PushFacts, FrameParts DEF SlotInv, SlabInv, TypeInv, TypeOK
<1> HIDE DEF f
<1>4. /\ \A x \in Slots : state'[x] = IF x \in TasksOf(p) THEN "CANCELLED" ELSE state[x]
      /\ undropped' = {<<x, state[x]>> : x \in TasksOf(p)} /\ doomed' = TasksOf(p)
      /\ UNCHANGED <<gen, store>>
  BY DEF UnloadBegin
<1>5. \A i \in 1 .. depth' : stack'[i].slot = None /\ stack'[i].at \notin Glue
  BY <1>1, <1>2, <1>3 DEF Glue
<1>6. \A x \in Slots : ~ Held(x)' /\ ~ Held(x)
  BY <1>1, <1>2, <1>5 DEF Held
<1>7. TasksOf(p) \subseteq Slots /\ \A x \in TasksOf(p) : state[x] \in {"PENDING", "READY", "COMPLETE"}
  BY SegmentFacts DEF TasksOf, Allocated, SlotInv, SlabInv, TypeInv, TypeOK, States
<1>8. \A x \in TasksOf(p) : store[x] = <<Data(state[x]), gen[x]>>
  BY <1>7 DEF StoreInv, StorageMatchesState, Alive, Data
<1>9. FramesArePlain' /\ GlueFindsItsData' /\ DropStates'
  BY <1>1, <1>3, <1>5 DEF FramesArePlain, GlueFindsItsData, DropStates, Glue
<1>10. DoomedMatch'
  <2>1. ASSUME NEW u \in undropped'
        PROVE  /\ u[1] \in doomed' /\ ~ Held(u[1])'
               /\ store'[u[1]] = <<Data(u[2]), gen'[u[1]]>>
               /\ \A v \in undropped' : u[1] = v[1] => u = v
    BY <1>4, <1>6, <1>7, <1>8
  <2>2. ASSUME NEW x \in doomed'  PROVE \E u \in undropped' : u[1] = x
    <3>1. <<x, state[x]>> \in undropped'
      BY <1>4, <2>2
    <3> QED  BY <3>1
  <2> QED  BY <2>1, <2>2 DEF DoomedMatch
<1>11. StorageMatchesState'
  BY <1>4, <1>6 DEF StoreInv, StorageMatchesState, Alive, Held
<1> QED  BY <1>9, <1>10, <1>11 DEF StoreInv

LEMMA UnloadDropStore ==
  ASSUME SlotInv, StoreInv, NEW s \in Slots, UnloadDrop(s)
  PROVE  StoreInv'
<1>1. PICK u \in undropped :
        /\ u[1] = s /\ undropped' = undropped \ {u}
        /\ Push(Frame(GlueFor(u[2]), s, gen[s], "none"))
  BY DEF UnloadDrop
<1>2. /\ UNCHANGED <<state, gen, store, doomed>> /\ \A x \in Slots : Stays(x)
  BY DEF UnloadDrop, slab, hist, Stays
<1>3. ~ Held(s) /\ store[s] = <<Data(u[2]), gen[s]>> /\ \A v \in undropped : s = v[1] => u = v
  BY <1>1 DEF StoreInv, DoomedMatch
<1>4. state[s] = "CANCELLED"
  BY <1>1, StoreFacts DEF StoreInv, DoomedMatch
<1>5. HasRoomFor(1)
  <2>1. depth < MaxDepth
    BY StoreFacts DEF UnloadDrop, SlotInv, SlabInv, TypeInv, RoomAbove, Drives, Top
  <2> QED  BY <2>1, StoreFacts, ExecutorAssumption DEF HasRoomFor
<1>6. GlueFor(u[2]) \in {"dropFuture", "dropResult"}
      /\ Data(u[2]) = IF GlueFor(u[2]) = "dropResult" THEN "result" ELSE "future"
  BY DEF GlueFor, Data
<1>7. \A v \in undropped : IF v \in undropped' THEN v[1] # s ELSE v[1] = s
  BY <1>1, <1>3
<1> QED  BY <1>1, <1>2, <1>3, <1>4, <1>5, <1>6, <1>7, GlueStore DEF Glue

LEMMA UnloadFreeStore ==
  ASSUME SlotInv, StoreInv, NEW s \in Slots, UnloadFree(s)
  PROVE  StoreInv'
<1>1. /\ s \in doomed /\ doomed' = doomed \ {s} /\ undropped = {} /\ undropped' = undropped
      /\ state' = [state EXCEPT ![s] = "EMPTY"]
      /\ UNCHANGED <<gen, store, stack, depth>> /\ Top.at = "unload"
  BY DEF UnloadFree, calls, hist
<1>2. depth = 2 /\ stack[2].at = "unload" /\ stack[1].at = "root"
  <2>1. depth = 2 /\ stack[2].at = "unload"
    BY <1>1, StoreFacts DEF SlotInv, Shape, Top, Drives
  <2>2. \A i \in Depths : stack[i].at = "root" <=> i = 1
    BY DEF SlotInv, SlabInv, TypeInv, TypeOK, StackOK
  <2> QED  BY <2>1, <2>2, ExecutorAssumption DEF Depths
<1>3. \A x \in Slots : ~ Held(x)
  BY <1>2, StoreFacts DEF StoreInv, FramesArePlain, Glue, Held
<1>4. \A x \in Slots : ~ Held(x)'
  BY <1>1, <1>3 DEF Held
<1>5. store[s][1] = "none"
  BY <1>1, <1>3 DEF StoreInv, DoomedMatch
<1>6. FramesArePlain' /\ GlueFindsItsData' /\ DropStates'
  BY <1>1, <1>2 DEF StoreInv, FramesArePlain, GlueFindsItsData, DropStates
<1>7. DoomedMatch'
  BY <1>1, <1>3, StoreFacts DEF StoreInv, DoomedMatch
<1>8. \A x \in Slots : state'[x] = IF x = s THEN "EMPTY" ELSE state[x]
  BY <1>1, StoreFacts
<1>9. StorageMatchesState'
  BY <1>1, <1>3, <1>4, <1>5, <1>8 DEF StoreInv, StorageMatchesState, Alive, Held
<1> QED  BY <1>6, <1>7, <1>9 DEF StoreInv

LEMMA StoreNext ==
  ASSUME SlotInv, StoreInv, [Next]_vars, WellBehaved, "spawnInDrop" \notin Client
  PROVE  StoreInv'
<1>0. UNCHANGED state => \A x \in Slots : Stays(x)
  BY DEF Stays
<1>1. CASE StartDrive \/ DrainDone \/ FireDone \/ DriveDone
  <2>1. UNCHANGED <<state, store, gen, doomed, undropped>>
    BY <1>1 DEF StartDrive, DrainDone, FireDone, DriveDone, slab, purge, hist
  <2>2. PICK at \in {"drain", "fire", "select"} : LET f == Frame(at, None, 0, "none") IN
          \/ HasRoomFor(1) /\ Push(f)
          \/ Top.at \notin Glue /\ Replace(f)
          \/ Top.at \notin Glue \cup {"root"} /\ Pop
    <3>1. HasRoomFor(2) => HasRoomFor(1)
      BY StoreFacts, ExecutorAssumption DEF HasRoomFor
    <3> QED  BY <1>1, <3>1 DEF StartDrive, DrainDone, FireDone, DriveDone, Glue
  <2> DEFINE f == Frame(at, None, 0, "none")
  <2>3. f.at \notin Glue /\ f.slot = None
    BY FrameParts DEF Glue
  <2> HIDE DEF f
  <2> QED  BY <2>1, <2>2, <2>3, PlainStore DEF f
<1>2. CASE Drain \/ \E h \in DOMAIN timers : Fire(h)
  <2>1. Driving
    BY <1>2 DEF Driving
  <2>2. UNCHANGED calls
    BY <1>2 DEF Drain, Fire
  <2> QED  BY <2>1, <2>2, DriveKeeps, CalmStore DEF purge
<1>3. CASE PollHot \/ PollNext
  <2>1. PICK s \in Slots : PollIfReady(s)
    BY <1>3, TailElems DEF PollHot, PollNext, SlotInv, SlabInv, TypeInv, TypeOK
  <2> QED  BY <1>3, <2>1, PollStore DEF PollHot, PollNext
<1>4. CASE PollPending
  BY <1>4, PollPendingStore
<1>5. CASE Sleeping \/ SpawnPanics \/ Stopped \/ UNCHANGED vars
  <2>1. UNCHANGED <<state, calls, store, gen, doomed, undropped>>
    BY <1>5 DEF Sleeping, SleepStart, SleepAgain, SleepEnd, Tick, SpawnPanics, Stopped,
                vars, slab, purge, hist
  <2> QED  BY <1>0, <2>1, CalmStore
<1>6. ASSUME NEW s \in Slots, Waking(s)  PROVE StoreInv'
  <2>1. \A x \in Slots : Stays(x)
    BY <1>6, StoreFacts DEF Waking, Wake, RemoteWake, WakeInto, StateAfterWake, Wakes, Stays, slab
  <2> QED  BY <1>6, <2>1, CalmStore DEF Waking, Wake, RemoteWake, slab, purge
<1>7. ASSUME NEW s \in Slots, Abort(s) \/ HostWait(s)  PROVE StoreInv'
  BY <1>7, CancelRunningStore, DiscardStore DEF Abort, HostWait, CancelComplete, WellBehaved
<1>8. ASSUME NEW h \in handles, Joining(h)  PROVE StoreInv'
  <2>1. h[1] \in Slots
    BY LifeFacts
  <2>2. \/ JoinTake(h)
        \/ UNCHANGED <<state, gen, calls, purge, store>>
        \/ DiscardResult(h[1], "none") \/ CancelRunning(h[1]) \/ CancelComplete(h[1])
    BY <1>8 DEF Joining, JoinNone, JoinWait, JoinDrop, Cancel, slab, hist
  <2>3. CASE UNCHANGED <<state, gen, calls, purge, store>>
    BY <1>0, <2>3, CalmStore DEF purge
  <2> QED  BY <2>1, <2>2, <2>3, JoinTakeStore, CancelRunningStore, DiscardStore DEF CancelComplete, WellBehaved
<1>9. CASE UnloadDone
  <2>1. UNCHANGED <<state, store, gen, doomed, undropped>> /\ Top.at = "unload" /\ Pop
    BY <1>9 DEF UnloadDone, slab, hist
  <2>2. NoFrame.at \notin Glue /\ NoFrame.slot = None
    BY FrameParts DEF NoFrame, Glue
  <2> QED  BY <2>1, <2>2, PlainStore DEF Glue
<1> QED  BY <1>1, <1>2, <1>3, <1>4, <1>5, <1>6, <1>7, <1>8, <1>9, SpawnStore, UnloadBeginStore,
            UnloadDropStore, UnloadFreeStore, PollReadyStore, DropReturnStore
         DEF Next, Driving, Polling, Tasking, Unloading

LEMMA StoreAlways ==
  ASSUME WellBehaved, "spawnInDrop" \notin Client
  PROVE  Spec => [](SlotInv /\ StoreInv)
<1>1. Init => SlotInv /\ StoreInv
  <2>1. ASSUME Init  PROVE StoreInv
    <3>1. /\ depth = 1 /\ stack[1] = Frame("root", None, 0, "none") /\ doomed = {} /\ undropped = {}
          /\ \A s \in Slots : state[s] = "EMPTY" /\ store[s] = <<"none", 0>>
      BY <2>1, ExecutorAssumption DEF Init, Depths
    <3>2. stack[1].at = "root" /\ stack[1].slot = None
      BY <3>1, FrameParts
    <3> QED
      BY <3>1, <3>2 DEF StoreInv, FramesArePlain, GlueFindsItsData, StorageMatchesState, DropStates,
                        DoomedMatch, Glue, Alive
  <2> QED  BY <2>1, SlotInit
<1>2. SlotInv /\ StoreInv /\ [Next]_vars => SlotInv' /\ StoreInv'
  BY SlotNext, StoreNext DEF WellBehaved
<1> QED  BY <1>1, <1>2, PTL DEF Spec

(* Poll functions and destructors find on a slot's storage what they were  *)
(* compiled for, of the task they were called for, and none runs on a      *)
(* storage that another is at: whatever finishes, is cancelled, aborted,   *)
(* discarded or unloaded while it runs.  No task aborts itself, drives the *)
(* executor, or spawns from a destructor whose slot is free already.       *)
THEOREM GlueAlwaysFindsItsData ==
  ASSUME WellBehaved, "spawnInDrop" \notin Client
  PROVE  Spec => []GlueFindsItsData
<1>1. StoreInv => GlueFindsItsData
  BY DEF StoreInv
<1> QED  BY <1>1, StoreAlways, PTL

(* A task that runs has its future, one that is complete has its result,   *)
(* and a free slot that no destructor is at has neither: every future and  *)
(* every result is dropped or taken, once.                                 *)
THEOREM StorageAlwaysMatchesState ==
  ASSUME WellBehaved, "spawnInDrop" \notin Client
  PROVE  Spec => []StorageMatchesState
<1>1. StoreInv => StorageMatchesState
  BY DEF StoreInv
<1> QED  BY <1>1, StoreAlways, PTL

-----------------------------------------------------------------------------
(* Awaiters *)

(* Even while the awaiter is polled, and goes on to do other things, what  *)
(* it awaits stays alive and keeps its waker.                              *)
AwaitInv ==
  \A s \in Slots :
    LET t == awaitedBy[s]
    IN  t # None /\ Alive(t) /\ ~ owed[t] => Alive(s) /\ joinWaker[s] = t

(* No task starts to live, or is no longer owed a poll.                    *)
NoneNew == \A x \in Slots : Alive(x)' => Alive(x) /\ (owed[x] => owed'[x])

LEMMA AwaitFacts ==
  ASSUME SlotInv
  PROVE  /\ awaitedBy \in [Slots -> Slots \cup {None}] /\ owed \in [Slots -> BOOLEAN]
         /\ joinWaker \in [Slots -> Wakers] /\ None \notin Slots /\ Noop \notin Slots
         /\ state \in [Slots -> States]
BY SlotFacts DEF SlotInv, SlabInv, TypeInv, TypeOK

LEMMA CalmAwait ==
  ASSUME SlotInv, AwaitInv, NoneNew,
         \A s, t \in Slots : awaitedBy'[s] = t =>
            /\ awaitedBy[s] = t
            /\ Alive(t)' /\ Alive(s) /\ joinWaker[s] = t => Alive(s)' /\ joinWaker'[s] = t,
         awaitedBy' \in [Slots -> Slots \cup {None}]
  PROVE  AwaitInv'
<1>1. ASSUME NEW s \in Slots, NEW t \in Slots, t = awaitedBy'[s], Alive(t)', ~ owed'[t]
      PROVE  Alive(s)' /\ joinWaker'[s] = t
  <2>1. t = awaitedBy[s] /\ Alive(t) /\ ~ owed[t] /\ t # None
    BY <1>1, AwaitFacts DEF NoneNew
  <2>2. Alive(s) /\ joinWaker[s] = t
    BY <2>1 DEF AwaitInv
  <2> QED  BY <1>1, <2>1, <2>2
<1>2. \A s \in Slots : awaitedBy'[s] \in Slots \cup {None}
  OBVIOUS
<1> QED  BY <1>1, <1>2 DEF AwaitInv

LEMMA AwaitStays ==
  ASSUME SlotInv, AwaitInv, UNCHANGED <<joinWaker, awaitedBy>>, \A x \in Slots : owed[x] => owed'[x],
         \A x \in Slots : Stays(x) \/ (~ Alive(x) /\ ~ Alive(x)')
  PROVE  AwaitInv'
<1>1. NoneNew /\ \A x \in Slots : Alive(x) => Alive(x)'
  BY DEF NoneNew, Stays, Alive
<1> QED  BY <1>1, CalmAwait, AwaitFacts

LEMMA OwingKeeps ==
  ASSUME SlotInv, NEW w, owed' = Owing(w)
  PROVE  \A x \in Slots : owed[x] => owed'[x]
BY AwaitFacts DEF Owing

LEMMA PollAwait ==
  ASSUME SlotInv, AwaitInv, NEW s \in Slots, PollIfReady(s), UNCHANGED joinWaker,
         \A x \in Slots : Stays(x)
  PROVE  AwaitInv'
<1>1. CASE ~ Pollable(s)
  BY <1>1, AwaitStays DEF PollIfReady
<1>2. CASE Pollable(s)
  <2>1. /\ awaitedBy' = [x \in Slots |-> IF awaitedBy[x] = s THEN None ELSE awaitedBy[x]]
        /\ owed' = [owed EXCEPT ![s] = FALSE]
    BY <1>2 DEF PollIfReady
  <2>2. \A x \in Slots : Alive(x)' <=> Alive(x)
    BY DEF Stays, Alive
  <2>3. ASSUME NEW x \in Slots, NEW t \in Slots, t = awaitedBy'[x], Alive(t)', ~ owed'[t]
        PROVE  Alive(x)' /\ joinWaker'[x] = t
    <3>1. t = awaitedBy[x] /\ t # s /\ t # None /\ ~ owed[t]
      BY <2>1, <2>3, AwaitFacts
    <3> QED  BY <2>2, <2>3, <3>1 DEF AwaitInv
  <2>4. \A x \in Slots : awaitedBy'[x] \in Slots \cup {None}
    BY <2>1, AwaitFacts
  <2> QED  BY <2>3, <2>4 DEF AwaitInv
<1> QED  BY <1>1, <1>2

(* Whoever awaits the task that returns is owed a poll.                    *)
LEMMA PollReadyAwait ==
  ASSUME SlotInv, AwaitInv, PollReady
  PROVE  AwaitInv'
<1>1. PICK s \in Slots :
        /\ s = Top.slot /\ state[s] \in {"PENDING", "READY"}
        /\ IF detached[s] THEN state'[s] = "CANCELLED" ELSE state'[s] = "COMPLETE"
        /\ \A x \in Slots \ {s} : Stays(x)
  BY PollReadyStates DEF PollReady
<1>2. /\ awaitedBy' = [awaitedBy EXCEPT ![s] = None]
      /\ joinWaker' = [joinWaker EXCEPT ![s] = None]
      /\ owed' = owed \/ owed' = Owing(joinWaker[s])
  BY <1>1 DEF PollReady
<1>3. NoneNew
  BY <1>1, <1>2, OwingKeeps DEF NoneNew, Stays, Alive
<1>4. \A x, t \in Slots : awaitedBy'[x] = t => x # s /\ awaitedBy[x] = t
  BY <1>2, AwaitFacts
<1>5. \A x \in Slots \ {s} : joinWaker'[x] = joinWaker[x] /\ (Alive(x)' <=> Alive(x))
  BY <1>1, <1>2, AwaitFacts DEF Stays, Alive
<1>6. awaitedBy' \in [Slots -> Slots \cup {None}]
  BY <1>2, AwaitFacts
<1> QED  BY <1>3, <1>4, <1>5, <1>6, CalmAwait

LEMMA SpawnAwait ==
  ASSUME SlotInv, AwaitInv, NEW p \in Plugins, Spawn(p)
  PROVE  AwaitInv'
<1>1. PICK s \in Slots :
        /\ state[s] = "EMPTY" /\ s = NewSlot
        /\ \A x \in Slots : state'[x] = IF x = s THEN "READY" ELSE state[x]
  BY SpawnStates
<1>2. /\ awaitedBy' = [awaitedBy EXCEPT ![s] = None]
      /\ joinWaker' = [joinWaker EXCEPT ![s] = None]
      /\ owed' = [owed EXCEPT ![s] = TRUE]
  BY <1>1 DEF Spawn
<1>3. ASSUME NEW x \in Slots, NEW t \in Slots, t = awaitedBy'[x], Alive(t)', ~ owed'[t]
      PROVE  Alive(x)' /\ joinWaker'[x] = t
  <2>1. t # s /\ x # s /\ t = awaitedBy[x] /\ ~ owed[t] /\ t # None
    BY <1>2, <1>3, AwaitFacts
  <2>2. Alive(t) /\ joinWaker'[x] = joinWaker[x] /\ (Alive(x)' <=> Alive(x))
    BY <1>1, <1>2, <1>3, <2>1, AwaitFacts DEF Alive
  <2> QED  BY <2>1, <2>2 DEF AwaitInv
<1>4. \A x \in Slots : awaitedBy'[x] \in Slots \cup {None}
  BY <1>2, AwaitFacts
<1> QED  BY <1>3, <1>4 DEF AwaitInv

LEMMA DiscardAwait ==
  ASSUME SlotInv, AwaitInv, NEW s \in Slots, state[s] \notin {"PENDING", "READY"},
         state'[s] \notin {"PENDING", "READY"}, \A x \in Slots \ {s} : Stays(x),
         joinWaker' = [joinWaker EXCEPT ![s] = None], UNCHANGED <<awaitedBy, owed>>
  PROVE  AwaitInv'
<1>1. NoneNew
  BY DEF NoneNew, Stays, Alive
<1>2. \A x \in Slots : Alive(x) => x # s /\ Alive(x)' /\ joinWaker'[x] = joinWaker[x]
  BY AwaitFacts DEF Stays, Alive
<1> QED  BY <1>1, <1>2, CalmAwait, AwaitFacts

(* An abort or an unload ends what is not awaited, or only by what it ends.*)
LEMMA EndAwait ==
  ASSUME SlotInv, AwaitInv, NEW T \in SUBSET Slots,
         \A x \in Slots : IF x \in T THEN state'[x] = "CANCELLED" ELSE state'[x] = state[x],
         \A x \in Slots \ T : joinWaker'[x] = joinWaker[x],
         \A x \in T : awaitedBy[x] \in T \cup {None},
         UNCHANGED <<awaitedBy, owed>>
  PROVE  AwaitInv'
<1>1. NoneNew
  BY DEF NoneNew, Alive
<1>2. \A x \in T : ~ Alive(x)'
  BY DEF Alive
<1>3. \A x \in Slots \ T : Alive(x)' <=> Alive(x)
  BY DEF Alive
<1>4. ASSUME NEW x \in Slots, NEW t \in Slots, awaitedBy'[x] = t, Alive(t)', Alive(x), joinWaker[x] = t
      PROVE  Alive(x)' /\ joinWaker'[x] = t
  <2>1. t \notin T /\ x \notin T
    BY <1>2, <1>4, AwaitFacts
  <2> QED  BY <1>3, <1>4, <2>1
<1> QED  BY <1>1, <1>4, CalmAwait, AwaitFacts

LEMMA AbortAwait ==
  ASSUME SlotInv, AwaitInv, "abortAwaited" \notin Client, NEW s \in Slots, CancelRunning(s)
  PROVE  AwaitInv'
<1>1. /\ \A x \in Slots : state'[x] = IF x = s THEN "CANCELLED" ELSE state[x]
      /\ awaitedBy[s] = None /\ joinWaker' = [joinWaker EXCEPT ![s] = None]
      /\ UNCHANGED <<awaitedBy, owed>>
  BY CancelRunningStates DEF CancelRunning
<1>2. \A x \in Slots \ {s} : joinWaker'[x] = joinWaker[x]
  BY <1>1, AwaitFacts
<1> DEFINE T == {s}
<1>3. /\ T \in SUBSET Slots
      /\ \A x \in Slots : IF x \in T THEN state'[x] = "CANCELLED" ELSE state'[x] = state[x]
      /\ \A x \in Slots \ T : joinWaker'[x] = joinWaker[x]
      /\ \A x \in T : awaitedBy[x] \in T \cup {None}
  BY <1>1, <1>2
<1> QED  BY <1>1, <1>3, EndAwait

LEMMA JoiningAwait ==
  ASSUME SlotInv, AwaitInv, WellBehaved, "abortAwaited" \notin Client, NEW h \in handles, Joining(h)
  PROVE  AwaitInv'
<1>1. PICK s \in Slots : s = h[1]
  BY LifeFacts
<1>2. CASE JoinTake(h)
  <2>1. /\ state[s] = "COMPLETE" /\ state' = [state EXCEPT ![s] = "EMPTY"]
        /\ joinWaker' = [joinWaker EXCEPT ![s] = None] /\ UNCHANGED <<awaitedBy, owed>>
    BY <1>1, <1>2 DEF JoinTake
  <2> QED  BY <2>1, DiscardAwait, AwaitFacts DEF Stays
<1>3. CASE UNCHANGED <<state, joinWaker, awaitedBy, owed>>
  BY <1>3, AwaitStays DEF Stays
<1>4. ASSUME NEW w \in Wakers, JoinWait(h, w)  PROVE AwaitInv'
  <2>1. /\ Alive(s) /\ w \in {Noop, Top.slot}
        /\ joinWaker' = [joinWaker EXCEPT ![s] = w]
        /\ awaitedBy' = [awaitedBy EXCEPT ![s] = IF w = Noop THEN None ELSE w]
        /\ UNCHANGED <<state, owed>>
    BY <1>1, <1>4 DEF JoinWait, WakerToStore, MyWakers
  <2>2. w = Noop \/ w \in Slots
    <3>1. CASE Top.at = "root"
      BY <1>4, <3>1 DEF JoinWait, MyWakers
    <3>2. CASE Top.at = "poll"
      BY <2>1, <3>2, StoreFacts DEF Top, Glue
    <3> QED  BY <1>4, <3>1, <3>2 DEF JoinWait
  <2>3. ASSUME NEW x \in Slots, NEW t \in Slots, t = awaitedBy'[x], Alive(t)', ~ owed'[t]
        PROVE  Alive(x)' /\ joinWaker'[x] = t
    <3>1. Alive(t) /\ ~ owed[t] /\ t # None /\ (Alive(x)' <=> Alive(x))
      BY <2>1, <2>3, AwaitFacts DEF Alive
    <3>2. CASE x = s
      BY <2>1, <2>2, <2>3, <3>1, <3>2, AwaitFacts
    <3>3. CASE x # s
      BY <2>1, <2>3, <3>1, <3>3, AwaitFacts DEF AwaitInv
    <3> QED  BY <3>2, <3>3
  <2>4. \A x \in Slots : awaitedBy'[x] \in Slots \cup {None}
    BY <2>1, <2>2, AwaitFacts
  <2> QED  BY <2>3, <2>4 DEF AwaitInv
<1>5. CASE DiscardResult(s, "none") \/ CancelComplete(s)
  <2>1. /\ state[s] = "COMPLETE" /\ state' = [state EXCEPT ![s] = "EMPTY"]
        /\ joinWaker' = [joinWaker EXCEPT ![s] = None] /\ UNCHANGED <<awaitedBy, owed>>
    BY <1>5 DEF CancelComplete, DiscardResult
  <2> QED  BY <2>1, DiscardAwait, AwaitFacts DEF Stays
<1>6. CASE CancelRunning(s)
  BY <1>6, AbortAwait
<1>7. CASE JoinDrop(h) /\ Names(h) /\ Alive(s) /\ awaitedBy' = [awaitedBy EXCEPT ![s] = None]
           /\ joinWaker' = [joinWaker EXCEPT ![s] = None] /\ UNCHANGED <<state, owed>>
  <2>1. NoneNew
    BY <1>7 DEF NoneNew, Alive
  <2>2. \A x, t \in Slots : awaitedBy'[x] = t => x # s /\ awaitedBy[x] = t
    BY <1>7, AwaitFacts
  <2>3. \A x \in Slots \ {s} : joinWaker'[x] = joinWaker[x] /\ (Alive(x)' <=> Alive(x))
    BY <1>7, AwaitFacts DEF Alive
  <2>4. awaitedBy' \in [Slots -> Slots \cup {None}]
    BY <1>7, AwaitFacts
  <2> QED  BY <2>1, <2>2, <2>3, <2>4, CalmAwait
<1>8. JoinDrop(h) => \/ UNCHANGED <<state, joinWaker, awaitedBy, owed>>
                     \/ DiscardResult(s, "none")
                     \/ /\ JoinDrop(h) /\ Names(h) /\ Alive(s) /\ awaitedBy' = [awaitedBy EXCEPT ![s] = None]
                        /\ joinWaker' = [joinWaker EXCEPT ![s] = None] /\ UNCHANGED <<state, owed>>
  BY <1>1 DEF JoinDrop, slab, hist
<1>9. Cancel(h) => \/ UNCHANGED <<state, joinWaker, awaitedBy, owed>>
                   \/ CancelRunning(s) \/ CancelComplete(s)
  BY <1>1 DEF Cancel, slab, hist
<1>10. JoinNone(h) => UNCHANGED <<state, joinWaker, awaitedBy, owed>>
  BY DEF JoinNone, slab, hist
<1> QED  BY <1>2, <1>3, <1>4, <1>5, <1>6, <1>7, <1>8, <1>9, <1>10 DEF Joining

LEMMA AwaitNext ==
  ASSUME SlotInv, AwaitInv, [Next]_vars, WellBehaved, "abortAwaited" \notin Client
  PROVE  AwaitInv'
<1>1. CASE PollHot \/ PollNext
  <2>1. PICK s \in Slots : PollIfReady(s)
    BY <1>1, TailElems DEF PollHot, PollNext, SlotInv, SlabInv, TypeInv, TypeOK
  <2>2. \A x \in Slots : Stays(x)
    BY <1>1, DriveKeeps DEF Driving
  <2> QED  BY <2>1, <2>2, PollAwait DEF PollIfReady
<1>2. CASE StartDrive \/ DrainDone \/ FireDone \/ DriveDone \/ Drain \/ \E h \in DOMAIN timers : Fire(h)
  <2>1. \A x \in Slots : Stays(x)
    BY <1>2, DriveKeeps DEF Driving
  <2>2. UNCHANGED <<joinWaker, awaitedBy>> /\ \A x \in Slots : owed[x] => owed'[x]
    BY <1>2, OwingKeeps DEF StartDrive, DrainDone, FireDone, DriveDone, Drain, Fire, slab, hist
  <2> QED  BY <2>1, <2>2, AwaitStays
<1>3. CASE PollPending \/ Sleeping \/ SpawnPanics \/ Stopped \/ UNCHANGED vars \/ UnloadDone
           \/ \E s \in Slots : UnloadDrop(s)
  <2>1. UNCHANGED <<state, joinWaker, awaitedBy, owed>>
    BY <1>3 DEF PollPending, Sleeping, SleepStart, SleepAgain, SleepEnd, Tick, SpawnPanics, Stopped,
                UnloadDone, UnloadDrop, vars, slab, hist
  <2> QED  BY <2>1, AwaitStays DEF Stays
<1>4. CASE DropReturn
  <2>1. UNCHANGED <<joinWaker, awaitedBy, owed>>
    BY <1>4 DEF DropReturn
  <2>2. \A x \in Slots : Stays(x) \/ (~ Alive(x) /\ ~ Alive(x)')
    BY <1>4, DropReturnStates DEF Stays, Alive
  <2> QED  BY <2>1, <2>2, AwaitStays
<1>5. ASSUME NEW s \in Slots, Waking(s)  PROVE AwaitInv'
  <2>1. \A x \in Slots : Stays(x)
    BY <1>5, AwaitFacts DEF Waking, Wake, RemoteWake, WakeInto, StateAfterWake, Wakes, Stays, slab
  <2>2. UNCHANGED <<joinWaker, awaitedBy>> /\ \A x \in Slots : owed[x] => owed'[x]
    BY <1>5, OwingKeeps DEF Waking, Wake, RemoteWake, slab
  <2> QED  BY <2>1, <2>2, AwaitStays
<1>6. ASSUME NEW s \in Slots, Abort(s) \/ HostWait(s)  PROVE AwaitInv'
  <2>1. CASE CancelRunning(s)
    BY <2>1, AbortAwait
  <2>2. CASE CancelComplete(s) \/ DiscardResult(s, "none")
    <3>1. /\ state[s] = "COMPLETE" /\ state' = [state EXCEPT ![s] = "EMPTY"]
          /\ joinWaker' = [joinWaker EXCEPT ![s] = None] /\ UNCHANGED <<awaitedBy, owed>>
      BY <2>2 DEF CancelComplete, DiscardResult
    <3> QED  BY <3>1, DiscardAwait, AwaitFacts DEF Stays
  <2> QED  BY <1>6, <2>1, <2>2 DEF Abort, HostWait
<1>7. ASSUME NEW p \in Plugins, UnloadBegin(p)  PROVE AwaitInv'
  <2>1. TasksOf(p) \in SUBSET Slots
    BY SegmentFacts DEF TasksOf, Allocated, SlotInv, SlabInv, TypeInv, TypeOK
  <2>2. /\ \A x \in Slots : IF x \in TasksOf(p) THEN state'[x] = "CANCELLED" ELSE state'[x] = state[x]
        /\ \A x \in Slots \ TasksOf(p) : joinWaker'[x] = joinWaker[x]
        /\ \A x \in TasksOf(p) : awaitedBy[x] \in TasksOf(p) \cup {None}
        /\ UNCHANGED <<awaitedBy, owed>>
    BY <1>7 DEF UnloadBegin
  <2> QED  BY <2>1, <2>2, EndAwait
<1>8. ASSUME NEW s \in Slots, UnloadFree(s)  PROVE AwaitInv'
  <2>1. state[s] = "CANCELLED" /\ state' = [state EXCEPT ![s] = "EMPTY"]
        /\ UNCHANGED <<joinWaker, awaitedBy, owed>>
    BY <1>8, StoreFacts DEF UnloadFree, hist
  <2>2. \A x \in Slots : Stays(x) \/ (~ Alive(x) /\ ~ Alive(x)')
    BY <2>1, AwaitFacts DEF Stays, Alive
  <2> QED  BY <2>1, <2>2, AwaitStays
<1> QED  BY <1>1, <1>2, <1>3, <1>4, <1>5, <1>6, <1>7, <1>8, PollReadyAwait, SpawnAwait, JoiningAwait
         DEF Next, Driving, Polling, Tasking, Unloading

(* A task that awaits a JoinHandle is polled again, or what it awaits      *)
(* still runs and holds its waker: nobody takes the waker, or ends the     *)
(* task, in between.  No task that another awaits is aborted.              *)
THEOREM AwaitersAreNotForgotten ==
  ASSUME WellBehaved, "abortAwaited" \notin Client
  PROVE  Spec => []AwaiterNotForgotten
<1>1. Init => SlotInv /\ AwaitInv
  BY SlotInit DEF Init, AwaitInv
<1>2. SlotInv /\ AwaitInv /\ [Next]_vars => SlotInv' /\ AwaitInv'
  BY SlotNext, AwaitNext DEF WellBehaved
<1>3. AwaitInv => AwaiterNotForgotten
  BY DEF AwaitInv, AwaiterNotForgotten
<1> QED  BY <1>1, <1>2, <1>3, PTL DEF Spec

-----------------------------------------------------------------------------
(* Timers *)

(* A task has the handle of one timer if it sleeps; nobody else has it.    *)
HandlesAreOwn ==
  \A t \in Slots :
    /\ sleep[t].due = 0 <=> sleep[t].handle = 0
    /\ sleep[t].handle < nextTimer
    /\ sleep[t].handle \in DOMAIN timers => timers[sleep[t].handle].waker = t

(* What a detached task leaves does not sleep.                             *)
SpentSleepNot ==
  \A i \in 1 .. depth : stack[i].at = "dropResult" /\ stack[i].then = "free"
                          => sleep[stack[i].slot].due = 0

(* An entry is late by what the conversion of the deadline costs.          *)
OnTime == \A h \in DOMAIN timers : timers[h].due - sleep[timers[h].waker].due \in Slips

TimerInv == TimersOwned /\ HandlesAreOwn /\ SpentSleepNot /\ OnTime

LEMMA TimerFacts ==
  ASSUME SlotInv
  PROVE  /\ nextTimer \in Nat \ {0} /\ now \in Nat
         /\ \A h \in DOMAIN timers : h \in 1 .. nextTimer - 1 /\ timers[h].waker \in Slots /\ timers[h].due \in Nat
         /\ sleep \in [Slots -> [due : Nat, handle : Nat]]
         /\ \A t \in Slots : sleep[t].due \in Nat /\ sleep[t].handle \in Nat
BY DEF SlotInv, SlabInv, TypeInv, TypeOK

(* Who has a timer sleeps.                                                 *)
LEMMA TimedSleeps ==
  ASSUME SlotInv, TimerInv, NEW h \in DOMAIN timers
  PROVE  sleep[timers[h].waker].due # 0
BY TimerFacts DEF TimerInv, TimersOwned, HandlesAreOwn

(* The frames that free a detached task's slot are not new.                *)
NoneSpent ==
  \A i \in 1 .. depth' : \/ i \in 1 .. depth /\ stack'[i] = stack[i]
                         \/ stack'[i].at # "dropResult" \/ stack'[i].then # "free"

LEMMA StackSpent ==
  ASSUME SlotInv, NEW f, f.at # "dropResult" \/ f.then # "free",
         \/ UNCHANGED calls \/ (Top.at # "root" /\ Pop) \/ Replace(f) \/ (HasRoomFor(1) /\ Push(f))
  PROVE  NoneSpent
<1>1. StackOK
  BY DEF SlotInv, SlabInv, TypeInv, TypeOK
<1>2. CASE UNCHANGED calls
  BY <1>2 DEF NoneSpent, calls
<1>3. CASE Top.at # "root" /\ Pop
  BY <1>1, <1>3, PopFacts DEF NoneSpent
<1>4. CASE Replace(f)
  BY <1>1, <1>4, ReplaceFacts DEF NoneSpent
<1>5. CASE HasRoomFor(1) /\ Push(f)
  BY <1>1, <1>5, PushFacts DEF NoneSpent
<1> QED  BY <1>2, <1>3, <1>4, <1>5

(* Timers go, and nobody's sleep changes.                                  *)
LEMMA FewerTimers ==
  ASSUME SlotInv, TimerInv, UNCHANGED <<sleep, nextTimer>>, NoneSpent,
         NEW H, timers' = TimersWithout(H),
         \A h \in DOMAIN timers' : state'[timers[h].waker] \in {"PENDING", "READY", "CANCELLED"}
  PROVE  TimerInv'
<1>1. DOMAIN timers' = DOMAIN timers \ H /\ \A h \in DOMAIN timers' : timers'[h] = timers[h]
  BY DEF TimersWithout
<1>2. TimersOwned' /\ OnTime'
  BY <1>1 DEF TimerInv, TimersOwned, OnTime
<1>3. HandlesAreOwn'
  BY <1>1 DEF TimerInv, HandlesAreOwn
<1>4. SpentSleepNot'
  BY DEF TimerInv, SpentSleepNot, NoneSpent
<1> QED  BY <1>2, <1>3, <1>4 DEF TimerInv

LEMMA SameTimers ==
  ASSUME SlotInv, TimerInv, UNCHANGED <<timers, sleep, nextTimer>>, NoneSpent \/ SpentSleepNot',
         \A x \in Slots : state[x] \in {"PENDING", "READY", "CANCELLED"} /\ sleep[x].due # 0
                            => state'[x] \in {"PENDING", "READY", "CANCELLED"}
  PROVE  TimerInv'
<1>1. \A h \in DOMAIN timers : state'[timers[h].waker] \in {"PENDING", "READY", "CANCELLED"}
  BY TimerFacts, TimedSleeps DEF TimerInv, TimersOwned
<1>2. TimersOwned' /\ OnTime' /\ HandlesAreOwn'
  BY <1>1 DEF TimerInv, TimersOwned, OnTime, HandlesAreOwn
<1>3. SpentSleepNot'
  BY DEF TimerInv, SpentSleepNot, NoneSpent
<1> QED  BY <1>2, <1>3 DEF TimerInv

(* A task's sleep ends with its timer.                                     *)
LEMMA SleepEnds ==
  ASSUME SlotInv, TimerInv, UNCHANGED nextTimer, NoneSpent, NEW s \in Slots,
         DOMAIN timers' = DOMAIN timers \ {sleep[s].handle},
         \A h \in DOMAIN timers' : timers'[h] = timers[h],
         sleep' = [sleep EXCEPT ![s] = NoSleep],
         \A x \in Slots \ {s} : state'[x] = state[x]
  PROVE  TimerInv'
<1>1. /\ DOMAIN timers' = DOMAIN timers \ {sleep[s].handle}
      /\ \A h \in DOMAIN timers' : timers'[h] = timers[h]
  OBVIOUS
<1>2. \A x \in Slots : sleep'[x] = IF x = s THEN NoSleep ELSE sleep[x]
  BY TimerFacts
<1>3. \A h \in DOMAIN timers' : timers[h].waker \in Slots \ {s}
  BY <1>1, TimerFacts DEF TimerInv, TimersOwned
<1>4. ASSUME NEW h \in DOMAIN timers'
      PROVE  LET w == timers'[h].waker
             IN  /\ sleep'[w].handle = h /\ state'[w] \in {"PENDING", "READY", "CANCELLED"}
                 /\ timers'[h].due - sleep'[w].due \in Slips
  <2>1. PICK w \in Slots \ {s} : w = timers[h].waker
    BY <1>3, <1>4
  <2>2. timers'[h] = timers[h] /\ sleep'[w] = sleep[w] /\ state'[w] = state[w] /\ h \in DOMAIN timers
    BY <1>1, <1>2, <1>4, <2>1
  <2>3. sleep[w].handle = h /\ state[w] \in {"PENDING", "READY", "CANCELLED"} /\ timers[h].due - sleep[w].due \in Slips
    BY <2>1, <2>2 DEF TimerInv, TimersOwned, OnTime
  <2> QED  BY <2>1, <2>2, <2>3
<1>5. HandlesAreOwn'
  <2>1. 0 \notin DOMAIN timers' /\ NoSleep.due = 0 /\ NoSleep.handle = 0 /\ 0 < nextTimer
    BY <1>1, TimerFacts DEF NoSleep
  <2>2. ASSUME NEW t \in Slots
        PROVE  /\ sleep'[t].due = 0 <=> sleep'[t].handle = 0
               /\ sleep'[t].handle < nextTimer'
               /\ sleep'[t].handle \in DOMAIN timers' => timers'[sleep'[t].handle].waker = t
    <3>1. CASE t = s
      BY <1>2, <2>1, <3>1
    <3>2. CASE t # s
      BY <1>1, <1>2, <3>2 DEF TimerInv, HandlesAreOwn
    <3> QED  BY <3>1, <3>2
  <2> QED  BY <2>2 DEF HandlesAreOwn
<1>6. SpentSleepNot'
  <2>1. NoSleep.due = 0
    BY DEF NoSleep
  <2>2. \A i \in 1 .. depth : stack[i].at = "dropResult" => stack[i].slot \in Slots
    BY StoreFacts DEF Glue
  <2> QED  BY <1>2, <2>1, <2>2 DEF TimerInv, SpentSleepNot, NoneSpent
<1>7. TimersOwned' /\ OnTime'
  BY <1>4 DEF TimersOwned, OnTime
<1> QED  BY <1>5, <1>6, <1>7 DEF TimerInv

(* The task that is polled has a timer put into the map: it has none.      *)
LEMMA RegisterTimers ==
  ASSUME SlotInv, TimerInv, NEW t \in Slots, NEW due \in Nat \ {0}, NEW slip \in Slips, Register(t, due, slip),
         sleep[t].handle \notin DOMAIN timers, state[t] \in {"PENDING", "READY"},
         UNCHANGED <<state, stack, depth>>
  PROVE  TimerInv'
<1> DEFINE n == nextTimer
<1>0. n \in Nat \ {0} /\ n \notin DOMAIN timers /\ slip \in {0, 1}
  BY TimerFacts DEF Slips
<1>1. /\ DOMAIN timers' = DOMAIN timers \cup {n} /\ nextTimer' = n + 1
      /\ timers'[n].due = due + slip /\ timers'[n].waker = t
      /\ \A h \in DOMAIN timers : timers'[h] = timers[h]
  BY <1>0 DEF Register
<1>2. /\ \A x \in Slots \ {t} : sleep'[x] = sleep[x]
      /\ sleep'[t].due = due /\ sleep'[t].handle = n
  BY TimerFacts DEF Register
<1>3. \A h \in DOMAIN timers : timers[h].waker \in Slots \ {t}
  BY TimerFacts DEF TimerInv, TimersOwned
<1> HIDE DEF n
<1>4. ASSUME NEW h \in DOMAIN timers'
      PROVE  LET w == timers'[h].waker
             IN  /\ sleep'[w].handle = h /\ state'[w] \in {"PENDING", "READY", "CANCELLED"}
                 /\ timers'[h].due - sleep'[w].due \in Slips
  <2>1. CASE h = n
    <3>1. due + slip - due = slip
      BY <1>0
    <3>2. /\ timers'[h].waker = t /\ timers'[h].due = due + slip
          /\ sleep'[t].handle = h /\ sleep'[t].due = due /\ state'[t] \in {"PENDING", "READY"}
      BY <1>1, <1>2, <2>1
    <3>3. timers'[h].due - sleep'[t].due = slip
      <4> DEFINE a == timers'[h].due
                 b == sleep'[t].due
      <4>1. a = due + slip /\ b = due
        BY <3>2
      <4> HIDE DEF a, b
      <4>2. a - b = slip
        BY <1>0, <4>1
      <4> QED  BY <4>2 DEF a, b
    <3>4. timers'[h].due - sleep'[t].due \in Slips
      BY <3>3
    <3> QED  BY <3>2, <3>4
  <2>2. CASE h \in DOMAIN timers
    BY <1>1, <1>2, <1>3, <2>2 DEF TimerInv, TimersOwned, OnTime
  <2> QED  BY <1>1, <2>1, <2>2
<1>5. TimersOwned' /\ OnTime'
  BY <1>4 DEF TimersOwned, OnTime
<1>6. ASSUME NEW x \in Slots
      PROVE  /\ sleep'[x].due = 0 <=> sleep'[x].handle = 0
             /\ sleep'[x].handle < nextTimer'
             /\ sleep'[x].handle \in DOMAIN timers' => timers'[sleep'[x].handle].waker = x
  <2>1. CASE x = t
    BY <1>0, <1>1, <1>2, <2>1
  <2>2. CASE x # t
    <3>1. /\ sleep'[x] = sleep[x] /\ sleep[x].handle \in Nat /\ sleep[x].handle < n
          /\ sleep[x].due = 0 <=> sleep[x].handle = 0
          /\ sleep[x].handle \in DOMAIN timers => timers[sleep[x].handle].waker = x
      BY <1>2, <2>2, TimerFacts DEF n, TimerInv, HandlesAreOwn
    <3> QED  BY <1>0, <1>1, <3>1
  <2> QED  BY <2>1, <2>2
<1>7. SpentSleepNot'
  <2>1. ASSUME NEW i \in 1 .. depth, stack[i].at = "dropResult", stack[i].then = "free"
        PROVE  sleep'[stack[i].slot].due = 0
    <3>1. stack[i].slot \in Slots /\ state[stack[i].slot] = "CANCELLED"
      BY <2>1, StoreFacts DEF Glue, SlotInv, ReleasedOnce, Releasing
    <3> QED  BY <1>2, <2>1, <3>1 DEF TimerInv, SpentSleepNot
  <2> QED  BY <2>1 DEF SpentSleepNot
<1> QED  BY <1>5, <1>6, <1>7 DEF TimerInv, HandlesAreOwn

-----------------------------------------------------------------------------

(* Neither timers nor sleeps change, and the stack only as in StackSpent.  *)
LEMMA StaysTimers ==
  ASSUME SlotInv, TimerInv, UNCHANGED <<timers, sleep, nextTimer>>, NoneSpent,
         \A x \in Slots : Stays(x) \/ state'[x] = "CANCELLED"
                          \/ state[x] \notin {"PENDING", "READY", "CANCELLED"}
  PROVE  TimerInv'
BY SameTimers DEF Stays

LEMMA DriveTimers ==
  ASSUME SlotInv, TimerInv, Driving \/ StartDrive
  PROVE  TimerInv'
<1>0. \A x \in Slots : Stays(x)
  BY DriveKeeps
<1>1. NoneSpent
  <2>1. CASE StartDrive \/ DrainDone \/ FireDone
    <3>1. PICK at \in {"drain", "fire", "select"} : LET f == Frame(at, None, 0, "none") IN
             (HasRoomFor(1) /\ Push(f)) \/ Replace(f)
      <4>1. StartDrive => HasRoomFor(1)
        BY TopFacts, ExecutorAssumption DEF StartDrive, HasRoomFor, SlotInv, SlabInv, TypeInv, TypeOK
      <4> QED  BY <2>1, <4>1 DEF StartDrive, DrainDone, FireDone
    <3>2. Frame(at, None, 0, "none").at # "dropResult"
      BY FrameParts
    <3> QED  BY <3>1, <3>2, StackSpent
  <2> DEFINE f == Frame("poll", None, 0, "none")
  <2>2. f.at # "dropResult"
    BY FrameParts
  <2>3. CASE DriveDone
    <3>1. Top.at # "root" /\ Pop
      BY <2>3 DEF DriveDone
    <3> QED  BY <2>2, <3>1, StackSpent
  <2>4. CASE UNCHANGED calls
    BY <2>2, <2>4, StackSpent
  <2>5. CASE PollHot \/ PollNext
    <3>1. PICK s : PollIfReady(s)
      BY <2>5 DEF PollHot, PollNext
    <3>2. HasRoomFor(1)
      BY <2>5, ExecutorAssumption
      DEF PollHot, PollNext, SlotInv, SlabInv, TypeInv, TypeOK, StackOK, RoomAbove, Depths, Top, Drives, HasRoomFor
    <3>3. Frame("poll", s, gen[s], "none").at # "dropResult"
      BY FrameParts
    <3>4. UNCHANGED calls \/ Push(Frame("poll", s, gen[s], "none"))
      BY <3>1 DEF PollIfReady
    <3> QED  BY <3>2, <3>3, <3>4, StackSpent
  <2>6. Drain \/ (\E h \in DOMAIN timers : Fire(h)) => UNCHANGED calls
    BY DEF Drain, Fire
  <2> QED  BY <2>1, <2>3, <2>4, <2>5, <2>6 DEF Driving
<1>2. CASE \E h \in DOMAIN timers : Fire(h)
  <2>1. PICK h \in DOMAIN timers : timers' = TimersWithout({h}) /\ UNCHANGED <<sleep, nextTimer>>
    BY <1>2 DEF Fire, TakeDue
  <2>2. \A k \in DOMAIN timers' : k \in DOMAIN timers
    BY <2>1 DEF TimersWithout
  <2>3. \A k \in DOMAIN timers' : state'[timers[k].waker] \in {"PENDING", "READY", "CANCELLED"}
    BY <1>0, <2>2, TimerFacts DEF TimerInv, TimersOwned, Stays
  <2> QED  BY <1>1, <2>1, <2>3, FewerTimers
<1>3. CASE ~ \E h \in DOMAIN timers : Fire(h)
  <2>1. UNCHANGED <<timers, sleep, nextTimer>>
    BY <1>3 DEF Driving, StartDrive, DrainDone, FireDone, DriveDone, Drain, PollHot, PollNext, PollIfReady, clock
  <2> QED  BY <1>0, <1>1, <2>1, StaysTimers
<1> QED  BY <1>2, <1>3

LEMMA PollReadyTimers ==
  ASSUME SlotInv, TimerInv, PollReady
  PROVE  TimerInv'
<1>1. PICK s \in Slots :
        /\ s = Top.slot /\ state[s] \in {"PENDING", "READY"} /\ gen[s] = Top.gen
        /\ \A x \in Slots \ {s} : Stays(x)
  BY PollReadyStates DEF PollReady
<1>2. sleep[s].due = 0 /\ UNCHANGED <<timers, sleep, nextTimer>>
  BY <1>1 DEF PollReady, clock
<1>3. SpentSleepNot'
  <2> DEFINE f == Frame("dropResult", s, Top.gen, "free")
  <2>1. CASE Replace(f)
    <3>1. /\ depth \in Nat \ {0} /\ depth' = depth /\ stack'[depth] = f
          /\ \A i \in 1 .. depth - 1 : stack'[i] = stack[i]
      BY <2>1, ReplaceFacts, StoreFacts DEF SlotInv, SlabInv, TypeInv, TypeOK
    <3>2. f.slot = s
      BY FrameParts
    <3> HIDE DEF f
    <3>3. ASSUME NEW i \in 1 .. depth', stack'[i].at = "dropResult", stack'[i].then = "free"
          PROVE  sleep'[stack'[i].slot].due = 0
      <4>1. CASE i = depth
        BY <1>2, <3>1, <3>2, <4>1
      <4>2. CASE i \in 1 .. depth - 1
        BY <1>2, <3>1, <3>3, <4>2 DEF TimerInv, SpentSleepNot
      <4> QED  BY <3>1, <4>1, <4>2
    <3> QED  BY <3>3 DEF SpentSleepNot
  <2>2. CASE Pop
    <3>1. \A i \in 1 .. depth' : i \in 1 .. depth /\ stack'[i] = stack[i]
      BY <2>2, PopFacts DEF PollReady, SlotInv, SlabInv, TypeInv, TypeOK
    <3> QED  BY <1>2, <3>1 DEF TimerInv, SpentSleepNot
  <2>3. Replace(f) \/ Pop
    BY <1>1 DEF PollReady
  <2> QED  BY <2>1, <2>2, <2>3
<1> QED  BY <1>1, <1>2, <1>3, SameTimers DEF Stays

LEMMA DropReturnTimers ==
  ASSUME SlotInv, TimerInv, DropReturn
  PROVE  TimerInv'
<1>1. PICK s \in Slots : s = Top.slot
  BY StoreFacts DEF DropReturn, Top, Glue
<1>2. /\ state' = IF Frees(Top) THEN [state EXCEPT ![s] = "EMPTY"] ELSE state
      /\ Top.at \in {"dropFuture", "dropResult"} /\ UNCHANGED nextTimer
      /\ IF Top.at = "dropFuture"
         THEN timers' = TimersWithout({sleep[s].handle}) /\ sleep' = [sleep EXCEPT ![s] = NoSleep]
         ELSE UNCHANGED <<timers, sleep>>
  BY <1>1 DEF DropReturn, CancelTimer
<1>3. NoneSpent
  <2>1. Top.at # "root" /\ Pop
    BY DEF DropReturn
  <2>2. Frame("poll", None, 0, "none").at # "dropResult"
    BY FrameParts
  <2> QED  BY <2>1, <2>2, StackSpent
<1>4. \A x \in Slots \ {s} : state'[x] = state[x]
  BY <1>2, StoreFacts
<1>5. CASE Top.at = "dropFuture"
  <2>1. /\ DOMAIN timers' = DOMAIN timers \ {sleep[s].handle}
        /\ \A h \in DOMAIN timers' : timers'[h] = timers[h]
        /\ sleep' = [sleep EXCEPT ![s] = NoSleep]
    BY <1>2, <1>5 DEF TimersWithout
  <2> QED  BY <1>2, <1>3, <1>4, <2>1, SleepEnds
<1>6. CASE Top.at = "dropResult"
  <2>1. Top = stack[depth] /\ depth \in 1 .. depth
    BY StoreFacts DEF Top
  <2>2. sleep[s].due = 0 \/ state'[s] = state[s]
    <3>1. CASE Top.then = "free"
      BY <1>1, <1>6, <2>1, <3>1 DEF TimerInv, SpentSleepNot
    <3>2. CASE Top.then # "free"
      <4>1. Frees(Top) => SpentFrame(Top) /\ state[s] = "CANCELLED" /\ gen[s] = Top.gen
        BY <1>1, <1>6, <3>2 DEF Frees, SpentFrame
      <4>2. SpentFrame(Top) => Top.gen < gen[s] \/ state[s] = "EMPTY"
        BY <1>1, <2>1 DEF SlotInv, SpentStaysFreed
      <4>3. gen[s] \in Nat
        BY SlotFacts DEF SlotInv, SlabInv, TypeInv, TypeOK, Gens
      <4> QED  BY <1>2, <4>1, <4>2, <4>3
    <3> QED  BY <3>1, <3>2
  <2> QED  BY <1>2, <1>3, <1>4, <1>6, <2>2, SameTimers
<1> QED  BY <1>2, <1>5, <1>6

LEMMA SpawnTimers ==
  ASSUME SlotInv, TimerInv, NEW p \in Plugins, Spawn(p)
  PROVE  TimerInv'
<1>1. PICK s \in Slots :
        /\ state[s] = "EMPTY" /\ s = NewSlot
        /\ \A x \in Slots : state'[x] = IF x = s THEN "READY" ELSE state[x]
  BY SpawnStates
<1>2. UNCHANGED <<timers, nextTimer, calls>> /\ sleep' = [sleep EXCEPT ![s] = NoSleep]
  BY <1>1 DEF Spawn
<1>3. sleep[s].handle \notin DOMAIN timers
  BY <1>1 DEF TimerInv, TimersOwned, HandlesAreOwn
<1>4. NoneSpent
  BY <1>2 DEF NoneSpent, calls
<1> QED  BY <1>1, <1>2, <1>3, <1>4, SleepEnds

LEMMA SleepingTimers ==
  ASSUME SlotInv, TimerInv, Sleeping
  PROVE  TimerInv'
<1>0. UNCHANGED <<state, stack, depth>> /\ NoneSpent
  BY DEF Sleeping, SleepStart, SleepAgain, SleepEnd, Tick, slab, calls, NoneSpent
<1>1. CASE Tick
  BY <1>0, <1>1, StaysTimers DEF Tick, Stays
<1>2. CASE Top.at = "poll"
  <2>1. PICK t \in Slots : t = Top.slot /\ state[t] \in {"PENDING", "READY"}
    BY <1>2, StoreFacts DEF Top, Glue, SlotInv, PolledIsAlive
  <2>2. CASE SleepEnd
    <3>1. /\ DOMAIN timers' = DOMAIN timers \ {sleep[t].handle} /\ UNCHANGED nextTimer
          /\ \A h \in DOMAIN timers' : timers'[h] = timers[h]
          /\ sleep' = [sleep EXCEPT ![t] = NoSleep]
      BY <2>1, <2>2 DEF SleepEnd, Sleeper, CancelTimer, TimersWithout
    <3> QED  BY <1>0, <3>1, SleepEnds
  <2>3. ASSUME NEW slip \in Slips, SleepAgain(slip)  PROVE TimerInv'
    <3>1. /\ sleep[t].due \in Nat \ {0} /\ sleep[t].handle \notin DOMAIN timers
          /\ Register(t, sleep[t].due, slip)
      BY <2>1, <2>3, TimerFacts DEF SleepAgain, Sleeper
    <3> QED  BY <1>0, <2>1, <3>1, RegisterTimers
  <2>4. ASSUME NEW slip \in Slips, NEW d \in 1 .. MaxTime, SleepStart(d, slip)  PROVE TimerInv'
    <3>1. now + d \in Nat \ {0}
      BY TimerFacts, ExecutorAssumption
    <3>2. sleep[t].handle \notin DOMAIN timers
      BY <2>1, <2>4, TimerFacts DEF SleepStart, Sleeper, TimerInv, HandlesAreOwn
    <3>3. Register(t, now + d, slip)
      BY <2>1, <2>4 DEF SleepStart, Sleeper
    <3> QED  BY <1>0, <2>1, <3>1, <3>2, <3>3, RegisterTimers
  <2> QED  BY <1>1, <2>2, <2>3, <2>4 DEF Sleeping
<1>3. Sleeping => Tick \/ Top.at = "poll"
  BY DEF Sleeping, SleepStart, SleepAgain, SleepEnd
<1> QED  BY <1>1, <1>2, <1>3

LEMMA EndTimers ==
  ASSUME SlotInv, TimerInv, NEW s \in Slots,
         CancelRunning(s) \/ CancelComplete(s) \/ DiscardResult(s, "none")
  PROVE  TimerInv'
<1>1. UNCHANGED <<timers, sleep, nextTimer>>
  BY DEF CancelRunning, CancelComplete, DiscardResult, clock
<1>2. CASE CancelRunning(s)
  <2>1. NoneSpent
    <3>1. HasRoomFor(1) /\ Push(Frame("dropFuture", s, gen[s], "freeIfCancelled"))
      BY <1>2 DEF CancelRunning
    <3>2. Frame("dropFuture", s, gen[s], "freeIfCancelled").at # "dropResult"
      BY FrameParts
    <3> QED  BY <3>1, <3>2, StackSpent
  <2> QED  BY <1>1, <1>2, <2>1, CancelRunningStates, StaysTimers DEF Stays
<1>3. CASE CancelComplete(s) \/ DiscardResult(s, "none")
  <2>1. PICK then \in {"none", "freeIfCancelled"} : DiscardResult(s, then)
    BY <1>3 DEF CancelComplete
  <2>2. NoneSpent
    <3>1. HasRoomFor(1) /\ Push(Frame("dropResult", s, gen[s], then))
      BY <2>1 DEF DiscardResult, CallDropResult
    <3>2. Frame("dropResult", s, gen[s], then).then # "free"
      BY <2>1, FrameParts
    <3> QED  BY <3>1, <3>2, StackSpent
  <2> QED  BY <1>1, <2>1, <2>2, DiscardStates, StaysTimers DEF Stays
<1> QED  BY <1>2, <1>3

LEMMA JoiningTimers ==
  ASSUME SlotInv, TimerInv, NEW h \in handles, Joining(h)
  PROVE  TimerInv'
<1>1. PICK s \in Slots : s = h[1]
  BY LifeFacts
<1>2. CASE CancelRunning(s) \/ CancelComplete(s) \/ DiscardResult(s, "none")
  BY <1>2, EndTimers
<1>3. CASE UNCHANGED <<state, clock, calls>>
  BY <1>3, StaysTimers DEF Stays, clock, calls, NoneSpent
<1>4. CASE JoinTake(h)
  <2>1. /\ state[s] = "COMPLETE" /\ state' = [state EXCEPT ![s] = "EMPTY"]
        /\ UNCHANGED <<timers, sleep, nextTimer>> /\ NoneSpent
    BY <1>1, <1>4 DEF JoinTake, clock, calls, NoneSpent
  <2>2. \A x \in Slots : state'[x] = state[x] \/ state[x] = "COMPLETE"
    BY <2>1, StoreFacts
  <2> QED  BY <2>1, <2>2, StaysTimers DEF Stays
<1>5. JoinDrop(h) => UNCHANGED <<state, clock, calls>> \/ DiscardResult(s, "none")
  BY <1>1 DEF JoinDrop, slab
<1>6. Cancel(h) => UNCHANGED <<state, clock, calls>> \/ CancelRunning(s) \/ CancelComplete(s)
  BY <1>1 DEF Cancel, slab
<1>7. ASSUME NEW w \in Wakers, JoinWait(h, w)  PROVE UNCHANGED <<state, clock, calls>>
  BY <1>7 DEF JoinWait
<1>8. JoinNone(h) => UNCHANGED <<state, clock, calls>>
  BY DEF JoinNone, slab
<1> QED  BY <1>2, <1>3, <1>4, <1>5, <1>6, <1>7, <1>8 DEF Joining

LEMMA UnloadTimers ==
  ASSUME SlotInv, TimerInv, Unloading \/ \E p \in Plugins : UnloadBegin(p)
  PROVE  TimerInv'
<1>1. CASE UnloadDone
  <2>1. /\ UNCHANGED <<state, timers, sleep, nextTimer>> /\ Top.at # "root" /\ Pop
    BY <1>1 DEF UnloadDone, slab, clock
  <2>2. Frame("poll", None, 0, "none").at # "dropResult"
    BY FrameParts
  <2>3. NoneSpent
    BY <2>1, <2>2, StackSpent
  <2> QED  BY <2>1, <2>3, StaysTimers DEF Stays
<1>2. ASSUME NEW s \in Slots, UnloadDrop(s)  PROVE TimerInv'
  <2>1. PICK u \in undropped : Push(Frame(GlueFor(u[2]), s, gen[s], "none"))
    BY <1>2 DEF UnloadDrop
  <2>2. Frame(GlueFor(u[2]), s, gen[s], "none").then # "free"
    BY FrameParts
  <2>3. UNCHANGED <<state, timers, sleep, nextTimer>> /\ HasRoomFor(1)
    BY <1>2, ExecutorAssumption
    DEF UnloadDrop, slab, clock, SlotInv, SlabInv, TypeInv, TypeOK, StackOK, RoomAbove, Depths, Top, Drives, HasRoomFor
  <2>4. NoneSpent
    BY <2>1, <2>2, <2>3, StackSpent
  <2> QED  BY <2>3, <2>4, StaysTimers DEF Stays
<1>3. ASSUME NEW s \in Slots, UnloadFree(s)  PROVE TimerInv'
  <2>1. timers' = TimersWithout(DOMAIN timers) /\ UNCHANGED <<sleep, nextTimer>> /\ NoneSpent
    BY <1>3 DEF UnloadFree, calls, NoneSpent
  <2>2. DOMAIN timers' = {}
    BY <2>1 DEF TimersWithout
  <2> QED  BY <2>1, <2>2, FewerTimers
<1>4. ASSUME NEW p \in Plugins, UnloadBegin(p)  PROVE TimerInv'
  <2>1. /\ \A x \in Slots : state'[x] = "CANCELLED" \/ Stays(x)
        /\ UNCHANGED <<timers, sleep, nextTimer>>
    BY <1>4 DEF UnloadBegin, clock, Stays
  <2>2. HasRoomFor(1) /\ Push(Frame("unload", None, 0, "none"))
    BY <1>4, StoreFacts, ExecutorAssumption DEF UnloadBegin, HasRoomFor
  <2>3. Frame("unload", None, 0, "none").at # "dropResult"
    BY FrameParts
  <2>4. NoneSpent
    BY <2>2, <2>3, StackSpent
  <2> QED  BY <2>1, <2>4, StaysTimers
<1> QED  BY <1>1, <1>2, <1>3, <1>4 DEF Unloading

LEMMA TimerNext ==
  ASSUME SlotInv, TimerInv, [Next]_vars
  PROVE  TimerInv'
<1>1. CASE PollPending
  <2>1. /\ UNCHANGED <<state, timers, sleep, nextTimer>> /\ Top.at # "root" /\ Pop
    BY <1>1 DEF PollPending, slab, clock
  <2>2. Frame("poll", None, 0, "none").at # "dropResult"
    BY FrameParts
  <2>3. NoneSpent
    BY <2>1, <2>2, StackSpent
  <2> QED  BY <2>1, <2>3, StaysTimers DEF Stays
<1>2. CASE SpawnPanics \/ Stopped \/ UNCHANGED vars
  <2>1. UNCHANGED <<state, timers, sleep, nextTimer>> /\ NoneSpent
    BY <1>2 DEF SpawnPanics, Stopped, vars, slab, clock, calls, NoneSpent
  <2> QED  BY <2>1, StaysTimers DEF Stays
<1>3. ASSUME NEW s \in Slots, Waking(s)  PROVE TimerInv'
  <2>1. \A x \in Slots : Stays(x)
    BY <1>3, AwaitFacts DEF Waking, Wake, RemoteWake, WakeInto, StateAfterWake, Wakes, Stays, slab
  <2>2. UNCHANGED <<timers, sleep, nextTimer>> /\ NoneSpent
    BY <1>3 DEF Waking, Wake, RemoteWake, clock, calls, NoneSpent
  <2> QED  BY <2>1, <2>2, StaysTimers
<1>4. ASSUME NEW s \in Slots, Abort(s) \/ HostWait(s)  PROVE TimerInv'
  BY <1>4, EndTimers DEF Abort, HostWait
<1> QED  BY <1>1, <1>2, <1>3, <1>4, DriveTimers, PollReadyTimers, DropReturnTimers, SpawnTimers,
            SleepingTimers, JoiningTimers, UnloadTimers
         DEF Next, Polling, Tasking

LEMMA TimerAlways ==
  ASSUME WellBehaved
  PROVE  Spec => [](SlotInv /\ TimerInv)
<1>1. Init => SlotInv /\ TimerInv
  <2>1. ASSUME Init  PROVE TimerInv
    <3>1. /\ DOMAIN timers = {} /\ nextTimer = 1 /\ depth = 1 /\ stack[1] = Frame("root", None, 0, "none")
          /\ \A s \in Slots : sleep[s].due = 0 /\ sleep[s].handle = 0
      BY <2>1, ExecutorAssumption DEF Init, Depths, NoSleep
    <3>2. stack[1].at = "root"
      BY <3>1, FrameParts
    <3> QED  BY <3>1, <3>2 DEF TimerInv, TimersOwned, HandlesAreOwn, SpentSleepNot, OnTime
  <2> QED  BY <2>1, SlotInit
<1>2. SlotInv /\ TimerInv /\ [Next]_vars => SlotInv' /\ TimerInv'
  BY SlotNext, TimerNext DEF WellBehaved
<1> QED  BY <1>1, <1>2, PTL DEF Spec

(* A timer in the map belongs to a task that sleeps on it, whose future is *)
(* not dropped yet: a sleep that ends or is dropped takes its timer along. *)
THEOREM TimersHaveTheirTask ==
  ASSUME WellBehaved
  PROVE  Spec => []TimersOwned
<1>1. TimerInv => TimersOwned
  BY DEF TimerInv
<1> QED  BY <1>1, TimerAlways, PTL

-----------------------------------------------------------------------------
(* Sleepers are covered *)

(* Nothing is unloaded, and whoever sleeps without a poll in view has its  *)
(* handle in the map.                                                      *)
CoverInv ==
  /\ doomed = {}
  /\ \A t \in Slots : Asleep(t) => sleep[t].handle \in DOMAIN timers

LEMMA PolledStay ==
  ASSUME SlotInv, NEW f,
         \/ UNCHANGED calls \/ (Top.at \notin {"root", "poll"} /\ Pop)
         \/ (Top.at # "poll" /\ Replace(f)) \/ (HasRoomFor(1) /\ Push(f))
  PROVE  \A t \in Slots : OnStack(t) => OnStack(t)'
<1>0. StackOK /\ depth \in Nat \ {0} /\ Top = stack[depth]
  BY StoreFacts DEF SlotInv, SlabInv, TypeInv, TypeOK, Top
<1>1. CASE UNCHANGED calls
  BY <1>1 DEF OnStack, calls
<1>2. CASE Top.at \notin {"root", "poll"} /\ Pop
  <2>1. depth' = depth - 1 /\ \A i \in 1 .. depth - 1 : stack'[i] = stack[i]
    BY <1>0, <1>2, PopFacts
  <2> QED  BY <1>0, <1>2, <2>1 DEF OnStack
<1>3. CASE Top.at # "poll" /\ Replace(f)
  <2>1. depth' = depth /\ \A i \in 1 .. depth - 1 : stack'[i] = stack[i]
    BY <1>0, <1>3, ReplaceFacts
  <2> QED  BY <1>0, <1>3, <2>1 DEF OnStack
<1>4. CASE HasRoomFor(1) /\ Push(f)
  <2>1. depth' = depth + 1 /\ \A i \in 1 .. depth : stack'[i] = stack[i]
    BY <1>0, <1>4, PushFacts
  <2> QED  BY <1>0, <2>1 DEF OnStack
<1> QED  BY <1>1, <1>2, <1>3, <1>4

(* No task is polled below the one that is polled.                         *)
LEMMA OnePolled ==
  ASSUME SlotInv, Top.at = "poll", NEW t \in Slots, OnStack(t)
  PROVE  t = Top.slot
<1>1. depth \in 1 .. depth /\ Top = stack[depth]
  BY StoreFacts DEF Top
<1> QED  BY <1>1 DEF SlotInv, Shape, OnStack

(* Nobody falls asleep, and those who sleep keep their handles.            *)
LEMMA QuietCover ==
  ASSUME CoverInv, doomed' = {}, NEW s,
         \A t \in Slots \ {s} :
            /\ sleep'[t] = sleep[t]
            /\ Alive(t)' => Alive(t)
            /\ OnStack(t) => OnStack(t)'
            /\ owed[t] => owed'[t]
            /\ Asleep(t)' /\ sleep[t].handle \in DOMAIN timers => sleep[t].handle \in DOMAIN timers',
         s \in Slots /\ Asleep(s)' => sleep'[s].handle \in DOMAIN timers'
  PROVE  CoverInv'
<1>1. ASSUME NEW t \in Slots \ {s}, Asleep(t)'  PROVE sleep'[t].handle \in DOMAIN timers'
  <2>1. Asleep(t) /\ sleep'[t] = sleep[t]
    BY <1>1 DEF Asleep
  <2> QED  BY <1>1, <2>1 DEF CoverInv
<1>2. \A t \in Slots : Asleep(t)' => sleep'[t].handle \in DOMAIN timers'
  <2> TAKE t \in Slots
  <2>1. CASE t = s
    BY <2>1
  <2>2. CASE t # s
    BY <1>1, <2>2
  <2> QED  BY <2>1, <2>2
<1> QED  BY <1>2 DEF CoverInv

LEMMA CalmCover ==
  ASSUME CoverInv, UNCHANGED <<timers, sleep, doomed>>,
         \A x \in Slots : Alive(x)' => Alive(x),
         \A x \in Slots : OnStack(x) => OnStack(x)',
         \A x \in Slots : owed[x] => owed'[x]
  PROVE  CoverInv'
<1>1. doomed' = {}
  BY DEF CoverInv
<1>2. \A t \in Slots :
        /\ sleep'[t] = sleep[t]
        /\ Alive(t)' => Alive(t)
        /\ OnStack(t) => OnStack(t)'
        /\ owed[t] => owed'[t]
        /\ Asleep(t)' /\ sleep[t].handle \in DOMAIN timers => sleep[t].handle \in DOMAIN timers'
  OBVIOUS
<1>3. None \notin Slots
  BY SlotFacts
<1> QED  BY <1>1, <1>2, <1>3, QuietCover

LEMMA StayAlive ==
  ASSUME NEW x \in Slots, Stays(x) \/ state'[x] \notin {"PENDING", "READY"}
  PROVE  Alive(x)' => Alive(x)
BY DEF Stays, Alive

LEMMA PollCover ==
  ASSUME SlotInv, CoverInv, NEW s \in Slots, PollIfReady(s), HasRoomFor(1), \A x \in Slots : Stays(x)
  PROVE  CoverInv'
<1>1. UNCHANGED <<timers, sleep, doomed>>
  BY DEF PollIfReady, clock, purge
<1>2. CASE ~ Pollable(s)
  <2>1. UNCHANGED <<calls, owed>>
    BY <1>2 DEF PollIfReady
  <2> QED  BY <1>1, <2>1, StayAlive, CalmCover DEF calls, OnStack
<1>3. CASE Pollable(s)
  <2> DEFINE f == Frame("poll", s, gen[s], "none")
  <2>1. Push(f) /\ owed' = [owed EXCEPT ![s] = FALSE]
    BY <1>3 DEF PollIfReady
  <2>2. OnStack(s)'
    <3>1. depth \in Nat \ {0} /\ depth' = depth + 1 /\ stack'[depth + 1] = f
      BY <2>1, StoreFacts, PushFacts DEF SlotInv, SlabInv, TypeInv, TypeOK
    <3>2. f.at = "poll" /\ f.slot = s
      BY FrameParts
    <3> HIDE DEF f
    <3>3. depth + 1 \in 1 .. depth'
      BY <3>1
    <3> QED  BY <3>1, <3>2, <3>3 DEF OnStack
  <2> HIDE DEF f
  <2>3. \A t \in Slots : OnStack(t) => OnStack(t)'
    BY <2>1, PolledStay
  <2>4. \A t \in Slots \ {s} : owed'[t] = owed[t]
    BY <2>1, AwaitFacts
  <2>5. ~ Asleep(s)'
    BY <2>2 DEF Asleep
  <2>6. doomed' = {}
    BY <1>1 DEF CoverInv
  <2> QED  BY <1>1, <2>3, <2>4, <2>5, <2>6, StayAlive, QuietCover
<1> QED  BY <1>2, <1>3

(* A timer that fires owes its task a poll.                                *)
LEMMA FireCover ==
  ASSUME SlotInv, TimerInv, CoverInv, NEW h \in DOMAIN timers, Fire(h), \A x \in Slots : Stays(x)
  PROVE  CoverInv'
<1>1. PICK s \in Slots : s = timers[h].waker
  BY TimerFacts
<1>2. /\ timers' = TimersWithout({h}) /\ owed' = Owing(s)
      /\ UNCHANGED <<sleep, doomed, calls>>
  BY <1>1 DEF Fire, TakeDue, purge
<1>3. DOMAIN timers' = DOMAIN timers \ {h}
  BY <1>2 DEF TimersWithout
<1>4. Alive(s) => owed'[s]
  BY <1>2, AwaitFacts DEF Owing
<1>5. ~ Asleep(s)'
  BY <1>4, StayAlive DEF Asleep
<1>6. \A t \in Slots \ {s} : sleep[t].handle # h
  BY <1>1 DEF TimerInv, HandlesAreOwn
<1>7. \A t \in Slots : (OnStack(t) => OnStack(t)') /\ (Alive(t)' => Alive(t))
  BY <1>2, StayAlive DEF OnStack, calls
<1>8. doomed' = {}
  BY <1>2 DEF CoverInv
<1> QED  BY <1>2, <1>3, <1>5, <1>6, <1>7, <1>8, OwingKeeps, QuietCover

LEMMA DriveCover ==
  ASSUME SlotInv, TimerInv, CoverInv, Driving \/ StartDrive
  PROVE  CoverInv'
<1>0. \A x \in Slots : Stays(x)
  BY DriveKeeps
<1>1. CASE PollHot \/ PollNext
  <2>1. PICK s \in Slots : PollIfReady(s)
    BY <1>1, TailElems DEF PollHot, PollNext, SlotInv, SlabInv, TypeInv, TypeOK
  <2>2. HasRoomFor(1)
    BY <1>1, ExecutorAssumption
    DEF PollHot, PollNext, SlotInv, SlabInv, TypeInv, TypeOK, StackOK, RoomAbove, Depths, Top, Drives, HasRoomFor
  <2> QED  BY <1>0, <2>1, <2>2, PollCover
<1>2. ASSUME NEW h \in DOMAIN timers, Fire(h)  PROVE CoverInv'
  BY <1>0, <1>2, FireCover
<1>3. CASE StartDrive \/ DrainDone \/ FireDone \/ DriveDone \/ Drain
  <2>1. UNCHANGED <<timers, sleep, doomed, owed>>
    BY <1>3 DEF StartDrive, DrainDone, FireDone, DriveDone, Drain, clock, purge, hist
  <2>2. StartDrive => HasRoomFor(1)
    BY TopFacts, ExecutorAssumption DEF StartDrive, HasRoomFor, SlotInv, SlabInv, TypeInv, TypeOK
  <2>3. \E f : \/ UNCHANGED calls \/ (Top.at \notin {"root", "poll"} /\ Pop)
               \/ (Top.at # "poll" /\ Replace(f)) \/ (HasRoomFor(1) /\ Push(f))
    BY <1>3, <2>2 DEF StartDrive, DrainDone, FireDone, DriveDone, Drain
  <2>4. \A x \in Slots : OnStack(x) => OnStack(x)'
    BY <2>3, PolledStay
  <2> QED  BY <1>0, <2>1, <2>4, StayAlive, CalmCover
<1> QED  BY <1>1, <1>2, <1>3 DEF Driving

LEMMA PollingCover ==
  ASSUME SlotInv, TimerInv, CoverInv, PollPending \/ PollReady
  PROVE  CoverInv'
<1>1. PICK s \in Slots : s = Top.slot /\ Top.at = "poll"
  BY StoreFacts DEF PollPending, PollReady, Top, Glue
<1>2. \A t \in Slots \ {s} : ~ OnStack(t)
  BY <1>1, OnePolled
<1>3. UNCHANGED <<timers, sleep, doomed>>
  BY DEF PollPending, PollReady, clock, purge
<1>4. doomed' = {}
  BY <1>3 DEF CoverInv
<1>5. CASE PollPending
  <2>1. sleep[s].due # 0 => sleep[s].handle \in DOMAIN timers
    BY <1>1, <1>5 DEF PollPending
  <2>2. Asleep(s)' => sleep'[s].handle \in DOMAIN timers'
    BY <1>3, <2>1 DEF Asleep
  <2>3. UNCHANGED <<state, owed>>
    BY <1>5 DEF PollPending, slab, hist
  <2>4. \A t \in Slots : Alive(t)' => Alive(t)
    BY <2>3 DEF Alive
  <2> QED  BY <1>2, <1>3, <1>4, <2>2, <2>3, <2>4, QuietCover
<1>6. CASE PollReady
  <2>1. /\ \A x \in Slots \ {s} : Stays(x)
        /\ state'[s] \in {"CANCELLED", "COMPLETE"}
    BY <1>1, <1>6, PollReadyStates
  <2>2. ~ Asleep(s)'
    BY <2>1 DEF Asleep, Alive
  <2>3. owed' = owed \/ owed' = Owing(joinWaker[s])
    BY <1>1, <1>6 DEF PollReady
  <2>4. \A x \in Slots : owed[x] => owed'[x]
    BY <2>3, OwingKeeps
  <2>5. \A t \in Slots \ {s} : Alive(t)' => Alive(t)
    BY <2>1, StayAlive
  <2> QED  BY <1>2, <1>3, <1>4, <2>2, <2>4, <2>5, QuietCover
<1> QED  BY <1>5, <1>6

(* The sleep that ends takes its own timer along and no other.             *)
LEMMA EndCover ==
  ASSUME SlotInv, TimerInv, CoverInv, NEW s \in Slots, UNCHANGED <<doomed, owed>>,
         timers' = TimersWithout({sleep[s].handle}), sleep' = [sleep EXCEPT ![s] = NoSleep],
         \A x \in Slots : Alive(x)' => Alive(x),
         \A x \in Slots : OnStack(x) => OnStack(x)'
  PROVE  CoverInv'
<1>1. /\ DOMAIN timers' = DOMAIN timers \ {sleep[s].handle}
      /\ \A t \in Slots \ {s} : sleep'[t] = sleep[t]
      /\ sleep'[s].due = 0
  BY TimerFacts DEF TimersWithout, NoSleep
<1>2. \A t \in Slots \ {s} : sleep[t].handle \in DOMAIN timers => sleep[t].handle # sleep[s].handle
  BY DEF TimerInv, HandlesAreOwn
<1>3. ~ Asleep(s)' /\ doomed' = {}
  BY <1>1 DEF Asleep, CoverInv
<1> QED  BY <1>1, <1>2, <1>3, QuietCover

LEMMA DropReturnCover ==
  ASSUME SlotInv, TimerInv, CoverInv, DropReturn
  PROVE  CoverInv'
<1>1. PICK s \in Slots : s = Top.slot
  BY StoreFacts DEF DropReturn, Top, Glue
<1>2. UNCHANGED <<doomed, owed>> /\ Top.at \in {"dropFuture", "dropResult"} /\ Pop
  BY DEF DropReturn, purge
<1>3. \A x \in Slots : Alive(x)' => Alive(x)
  BY DropReturnStates DEF Alive
<1>4. \A x \in Slots : OnStack(x) => OnStack(x)'
  BY <1>2, PolledStay
<1>5. CASE Top.at = "dropFuture"
  <2>1. timers' = TimersWithout({sleep[s].handle}) /\ sleep' = [sleep EXCEPT ![s] = NoSleep]
    BY <1>1, <1>5 DEF DropReturn, CancelTimer
  <2> QED  BY <1>2, <1>3, <1>4, <2>1, EndCover
<1>6. CASE Top.at = "dropResult"
  <2>1. UNCHANGED <<timers, sleep>>
    BY <1>6 DEF DropReturn
  <2> QED  BY <1>2, <1>3, <1>4, <2>1, CalmCover
<1> QED  BY <1>2, <1>5, <1>6

LEMMA SleepingCover ==
  ASSUME SlotInv, TimerInv, CoverInv, Sleeping
  PROVE  CoverInv'
<1>0. UNCHANGED <<state, calls, doomed, owed>>
  BY DEF Sleeping, SleepStart, SleepAgain, SleepEnd, Tick, slab, purge, hist
<1>1. \A x \in Slots : (Alive(x)' => Alive(x)) /\ (OnStack(x) => OnStack(x)')
  BY <1>0 DEF Alive, OnStack, calls
<1>2. CASE Tick
  BY <1>0, <1>1, <1>2, CalmCover DEF Tick
<1>3. CASE Top.at = "poll"
  <2>1. PICK s \in Slots : s = Top.slot /\ OnStack(s)
    <3>1. depth \in 1 .. depth /\ Top = stack[depth]
      BY StoreFacts DEF Top
    <3> QED  BY <1>3, <3>1, StoreFacts DEF Glue, OnStack
  <2>2. CASE SleepEnd
    <3>1. timers' = TimersWithout({sleep[s].handle}) /\ sleep' = [sleep EXCEPT ![s] = NoSleep]
      BY <2>1, <2>2 DEF SleepEnd, Sleeper, CancelTimer
    <3> QED  BY <1>0, <1>1, <3>1, EndCover
  <2>3. ASSUME NEW slip \in Slips, NEW due, Register(s, due, slip)  PROVE CoverInv'
    <3>1. /\ DOMAIN timers' = DOMAIN timers \cup {nextTimer}
          /\ \A t \in Slots \ {s} : sleep'[t] = sleep[t]
      BY <2>3, TimerFacts DEF Register
    <3>2. ~ Asleep(s)' /\ doomed' = {}
      BY <1>0, <1>1, <2>1 DEF Asleep, CoverInv
    <3> QED  BY <1>0, <1>1, <3>1, <3>2, QuietCover
  <2>4. ASSUME NEW slip \in Slips, SleepAgain(slip)  PROVE CoverInv'
    BY <2>1, <2>3, <2>4 DEF SleepAgain, Sleeper
  <2>5. ASSUME NEW slip \in Slips, NEW d \in 1 .. MaxTime, SleepStart(d, slip)  PROVE CoverInv'
    BY <2>1, <2>3, <2>5 DEF SleepStart, Sleeper
  <2> QED  BY <1>2, <2>2, <2>4, <2>5 DEF Sleeping
<1>4. Tick \/ Top.at = "poll"
  BY DEF Sleeping, SleepStart, SleepAgain, SleepEnd
<1> QED  BY <1>2, <1>3, <1>4

LEMMA EndsCover ==
  ASSUME SlotInv, CoverInv, NEW s \in Slots,
         CancelRunning(s) \/ CancelComplete(s) \/ DiscardResult(s, "none")
  PROVE  CoverInv'
<1>1. UNCHANGED <<timers, sleep, doomed, owed>>
  BY DEF CancelRunning, CancelComplete, DiscardResult, clock, purge
<1>2. \A x \in Slots : Alive(x)' => Alive(x)
  BY CancelRunningStates, DiscardStates DEF CancelComplete, Alive
<1>3. \E f : HasRoomFor(1) /\ Push(f)
  BY DEF CancelRunning, CancelComplete, DiscardResult, CallDropResult
<1>4. \A x \in Slots : OnStack(x) => OnStack(x)'
  BY <1>3, PolledStay
<1> QED  BY <1>1, <1>2, <1>4, CalmCover

LEMMA JoiningCover ==
  ASSUME SlotInv, CoverInv, NEW h \in handles, Joining(h)
  PROVE  CoverInv'
<1>1. PICK s \in Slots : s = h[1]
  BY LifeFacts
<1>2. CASE CancelRunning(s) \/ CancelComplete(s) \/ DiscardResult(s, "none")
  BY <1>2, EndsCover
<1>3. CASE UNCHANGED <<state, clock, calls, doomed, owed>>
  BY <1>3, CalmCover DEF clock, calls, Alive, OnStack
<1>4. CASE JoinTake(h)
  <2>1. state' = [state EXCEPT ![s] = "EMPTY"] /\ UNCHANGED <<timers, sleep, calls, doomed, owed>>
    BY <1>1, <1>4 DEF JoinTake, clock, purge
  <2>2. \A x \in Slots : (Alive(x)' => Alive(x)) /\ (OnStack(x) => OnStack(x)')
    BY <2>1, StoreFacts DEF Alive, OnStack, calls
  <2> QED  BY <2>1, <2>2, CalmCover
<1>5. JoinDrop(h) => UNCHANGED <<state, clock, calls, doomed, owed>> \/ DiscardResult(s, "none")
  BY <1>1 DEF JoinDrop, slab, purge, hist
<1>6. Cancel(h) => \/ UNCHANGED <<state, clock, calls, doomed, owed>>
                   \/ CancelRunning(s) \/ CancelComplete(s)
  BY <1>1 DEF Cancel, slab, purge, hist
<1>7. ASSUME NEW w \in Wakers, JoinWait(h, w)  PROVE UNCHANGED <<state, clock, calls, doomed, owed>>
  BY <1>7 DEF JoinWait, purge
<1>8. JoinNone(h) => UNCHANGED <<state, clock, calls, doomed, owed>>
  BY DEF JoinNone, slab, purge, hist
<1> QED  BY <1>2, <1>3, <1>4, <1>5, <1>6, <1>7, <1>8 DEF Joining

LEMMA CoverNext ==
  ASSUME SlotInv, TimerInv, CoverInv, [Next]_vars, "unload" \notin Client
  PROVE  CoverInv'
<1>1. ASSUME NEW p \in Plugins, Spawn(p)  PROVE CoverInv'
  <2>1. PICK s \in Slots : s = NewSlot /\ \A x \in Slots : state'[x] = IF x = s THEN "READY" ELSE state[x]
    BY <1>1, SpawnStates
  <2>2. /\ sleep' = [sleep EXCEPT ![s] = NoSleep] /\ owed' = [owed EXCEPT ![s] = TRUE]
        /\ UNCHANGED <<timers, calls, doomed>>
    BY <1>1, <2>1 DEF Spawn, purge
  <2>3. \A t \in Slots \ {s} : /\ sleep'[t] = sleep[t] /\ owed'[t] = owed[t]
                               /\ Alive(t)' => Alive(t)
                               /\ OnStack(t) => OnStack(t)'
    BY <2>1, <2>2 DEF Alive, OnStack, calls
  <2>4. ~ Asleep(s)' /\ doomed' = {}
    BY <2>2, TimerFacts DEF Asleep, NoSleep, CoverInv
  <2> QED  BY <2>2, <2>3, <2>4, QuietCover
<1>2. CASE SpawnPanics \/ Stopped \/ UNCHANGED vars
  <2>1. UNCHANGED <<state, timers, sleep, calls, doomed, owed>>
    BY <1>2 DEF SpawnPanics, Stopped, vars, slab, clock, purge, hist
  <2> QED  BY <2>1, CalmCover DEF calls, Alive, OnStack
<1>3. ASSUME NEW s \in Slots, Waking(s)  PROVE CoverInv'
  <2>1. \A x \in Slots : Stays(x)
    BY <1>3, AwaitFacts DEF Waking, Wake, RemoteWake, WakeInto, StateAfterWake, Wakes, Stays, slab
  <2>2. UNCHANGED <<timers, sleep, doomed, calls>> /\ owed' = Owing(s)
    BY <1>3 DEF Waking, Wake, RemoteWake, clock, purge
  <2>3. \A x \in Slots : OnStack(x) => OnStack(x)'
    BY <2>2 DEF OnStack, calls
  <2> QED  BY <2>1, <2>2, <2>3, StayAlive, OwingKeeps, CalmCover
<1>4. ASSUME NEW s \in Slots, Abort(s) \/ HostWait(s)  PROVE CoverInv'
  BY <1>4, EndsCover DEF Abort, HostWait
<1>5. CASE Unloading
  <2>1. \/ UnloadDone \/ \E s \in Slots : UnloadDrop(s)
    BY <1>5 DEF Unloading, UnloadFree, CoverInv
  <2>2. UNCHANGED <<state, timers, sleep, doomed, owed>> /\ Top.at = "unload"
    BY <2>1 DEF UnloadDone, UnloadDrop, slab, clock, purge, hist
  <2>3. HasRoomFor(1) \/ UnloadDone
    BY <2>1, <2>2, ExecutorAssumption
    DEF SlotInv, SlabInv, TypeInv, TypeOK, StackOK, RoomAbove, Depths, Top, Drives, HasRoomFor
  <2>4. \E f : (Top.at \notin {"root", "poll"} /\ Pop) \/ (HasRoomFor(1) /\ Push(f))
    BY <2>1, <2>2, <2>3 DEF UnloadDone, UnloadDrop
  <2>5. \A x \in Slots : OnStack(x) => OnStack(x)'
    BY <2>4, PolledStay
  <2> QED  BY <2>2, <2>5, CalmCover DEF Alive
<1>6. ~ \E p \in Plugins : UnloadBegin(p)
  BY DEF UnloadBegin
<1> QED  BY <1>1, <1>2, <1>3, <1>4, <1>5, <1>6, DriveCover, PollingCover, DropReturnCover, SleepingCover,
            JoiningCover
         DEF Next, Polling, Tasking

(* Who sleeps has a timer in the map that will wake it, not before its     *)
(* deadline: no other sleep's end, drop or abort removes it.  Plugins are  *)
(* not unloaded, which clears the map whoever has timers in it.            *)
THEOREM SleepersAreCovered ==
  ASSUME WellBehaved, "unload" \notin Client
  PROVE  Spec => []SleepCovered
<1>1. Init => CoverInv
  BY DEF Init, CoverInv, Asleep, NoSleep
<1>2. SlotInv /\ TimerInv /\ CoverInv /\ [Next]_vars => CoverInv'
  BY CoverNext
<1>3. SlotInv /\ TimerInv /\ CoverInv => SleepCovered
  <2>1. ASSUME SlotInv, TimerInv, CoverInv, NEW t \in Slots, Asleep(t)
        PROVE  \E h \in DOMAIN timers : timers[h].waker = t /\ timers[h].due - sleep[t].due \in Slips
    <3>1. sleep[t].handle \in DOMAIN timers /\ timers[sleep[t].handle].waker = t
      BY <2>1 DEF CoverInv, TimerInv, HandlesAreOwn
    <3>2. timers[sleep[t].handle].due - sleep[t].due \in Slips
      BY <2>1, <3>1, Zenon DEF TimerInv, OnTime
    <3> QED  BY <3>1, <3>2
  <2> QED  BY <2>1 DEF SleepCovered
<1> QED  BY <1>1, <1>2, <1>3, TimerAlways, PTL DEF Spec

=============================================================================
