----------------------------- MODULE HostProofs ------------------------------
(***************************************************************************)
(* What the host and its edges promise, for any number of libraries,       *)
(* names, values and threads: values end once, and no pointer to code      *)
(* outlives its library, but for named exceptions; and for any tasks,      *)
(* descriptors, children, outputs, sources and environments: whoever waits *)
(* for the kernel is registered, but for named exceptions; the output of a *)
(* child is complete and gets on; and what the compiler loads as up to     *)
(* date is fresh.                                                          *)
(***************************************************************************)
EXTENDS MCHost, FiniteSetTheorems, TLAPS

-----------------------------------------------------------------------------
(* The storage of a task *)

(* While the slot is in use exactly one of future and result is there, and *)
(* a box if one was made.                                                  *)
StorageInv ==
  /\ Storage!TypeOK /\ mem.sound
  /\ mem.empty => "live" \notin {mem.future, mem.value, mem.box}
  /\ ~mem.empty => /\ mem.future = "live" <=> mem.value # "live"
                   /\ mem.how = "boxed" => mem.box = "live"
                   /\ mem.how = "inline" => mem.box = "none"

LEMMA StorageInit == Storage!Init => StorageInv
BY DEF Storage!Init, StorageInv, Storage!TypeOK, Storage!MemType, Storage!Contents

(* Glue that finds what it ends leaves nothing behind. *)
LEMMA StorageNext ==
  ASSUME ~AwaitBoxed, StorageInv, [Storage!Next]_mem
  PROVE  StorageInv'
<1> USE DEF Storage!TypeOK, Storage!MemType, Storage!Contents
<1>1. ASSUME NEW how \in {"inline", "boxed"}, Storage!Spawn(how)
      PROVE  StorageInv'
  BY <1>1 DEF StorageInv, Storage!Spawn
<1>2. CASE Storage!PollReady
  BY <1>2 DEF StorageInv, Storage!PollReady, Storage!Ended
<1>3. CASE Storage!Cancel
  BY <1>3 DEF StorageInv, Storage!Cancel, Storage!CancelGlue, Storage!Unboxed, Storage!Free, Storage!Deref,
              Storage!Ended
<1>4. CASE Storage!DropResult
  BY <1>4 DEF StorageInv, Storage!DropResult, Storage!Unboxed, Storage!Free, Storage!Deref, Storage!Ended
<1>5. CASE Storage!Take
  BY <1>5 DEF StorageInv, Storage!Take, Storage!Read, Storage!Unboxed, Storage!Free, Storage!Deref,
              Storage!Ended
<1>6. CASE UNCHANGED mem
  BY <1>6 DEF StorageInv
<1> QED  BY <1>1, <1>2, <1>3, <1>4, <1>5, <1>6 DEF Storage!Next

-----------------------------------------------------------------------------
(* The registry of resources *)

Doing(r, t) == r.hand[t].doing

(* The values that thread t has taken out of the registry to drop them, or *)
(* is about to put into it.                                                *)
Held(r, t) ==
  IF Doing(r, t) = "replace" THEN {r.hand[t].value, r.hand[t].old} \cap Registry!Ids
  ELSE IF Doing(r, t) = "sweep" THEN r.hand[t].left ELSE {}

Stored(r, v) == \E n \in Names : r.entry[n] = v
IsHeld(r, v) == \E t \in Threads : v \in Held(r, t)

(* A value that was put is stored, or held, or has ended. *)
InOnePlace(r) ==
  \A v \in Registry!Ids :
    /\ Stored(r, v) => ~IsHeld(r, v)
    /\ Stored(r, v) \/ IsHeld(r, v) \/ v > r.puts => r.ended[v] = 0
    /\ ~Stored(r, v) /\ ~IsHeld(r, v) /\ v <= r.puts => r.ended[v] = 1
    /\ v > r.puts => ~Stored(r, v) /\ ~IsHeld(r, v)

(* ... under one name, or by one thread; and the new one of a replacement  *)
(* is not the old one.                                                     *)
Once(r) ==
  /\ \A n, m \in Names : r.entry[n] = r.entry[m] => n = m \/ r.entry[n] = Registry!NoId
  /\ \A t, u \in Threads : t # u => Held(r, t) \cap Held(r, u) = {}
  /\ \A t \in Threads : Doing(r, t) = "replace" => r.hand[t].value # r.hand[t].old

(* Who replaces a value has the lock, and the name is vacant. *)
ReplacesLocked(r) ==
  \A t \in Threads : Doing(r, t) = "replace" =>
    r.lock = t /\ r.entry[r.hand[t].name] = Registry!NoId

(* What is being cloned stays where it is. *)
ClonedIsStored(r) == \A t \in Threads : Doing(r, t) = "clone" => Stored(r, r.hand[t].value)

RegistryInv(r) ==
  /\ r \in Registry!RegType /\ ~r.stray
  /\ InOnePlace(r) /\ Once(r) /\ ReplacesLocked(r) /\ ClonedIsStored(r)

LEMMA HandFacts ==
  ASSUME Registry!TypeOK, NEW t \in Threads
  PROVE  /\ Doing(reg, t) \in {"idle", "clone", "replace", "sweep"}
         /\ reg.hand[t] = Registry!Idle <=> Doing(reg, t) = "idle"
         /\ Doing(reg, t) = "clone" => reg.hand[t] = [doing |-> "clone", value |-> reg.hand[t].value]
                                  /\ reg.hand[t].value \in Registry!Ids
         /\ Doing(reg, t) = "replace" =>
              /\ reg.hand[t].value \in Registry!Ids /\ reg.hand[t].old \in Registry!Ids \cup {Registry!NoId}
              /\ reg.hand[t].name \in Names
         /\ Doing(reg, t) = "sweep" => reg.hand[t] = [doing |-> "sweep", left |-> reg.hand[t].left]
                                  /\ reg.hand[t].left \subseteq Registry!Ids
<1>1. reg.hand[t] \in Registry!Hand
  BY DEF Registry!TypeOK, Registry!RegType
<1> QED  BY <1>1 DEF Registry!Hand, Registry!Idle, Doing

LEMMA RegistryFacts ==
  ASSUME Registry!TypeOK
  PROVE  /\ MaxPuts \in Nat /\ "free" \notin Threads /\ Registry!NoId \notin Registry!Ids
         /\ \A v \in Registry!Ids : v \in Nat \ {0}
         /\ reg.puts \in 0 .. MaxPuts
         /\ reg.entry \in [Names -> Registry!Ids \cup {Registry!NoId}]
         /\ reg.ended \in [Registry!Ids -> 0 .. 2]
         /\ \A t \in Threads : Held(reg, t) \subseteq Registry!Ids
<1>1. MaxPuts \in Nat /\ "free" \notin Threads
  BY HostAssumption DEF HostAssumption, Registry!ResourceAssumption
<1>2. \A t \in Threads : Held(reg, t) \subseteq Registry!Ids
  BY HandFacts DEF Held
<1> QED  BY <1>1, <1>2 DEF Registry!TypeOK, Registry!RegType, Registry!Ids, Registry!NoId

LEMMA RegistryInit ==
  ASSUME Registry!Init
  PROVE  RegistryInv(reg)
<1>1. MaxPuts \in Nat
  BY HostAssumption DEF HostAssumption, Registry!ResourceAssumption
<1>2. Registry!TypeOK
  BY <1>1 DEF Registry!Init, Registry!TypeOK, Registry!RegType, Registry!Hand, Registry!Ids
<1>3. /\ \A t \in Threads : Doing(reg, t) = "idle" /\ Held(reg, t) = {}
      /\ \A n \in Names : reg.entry[n] = 0
      /\ \A v \in Registry!Ids : reg.ended[v] = 0 /\ v # 0 /\ v > 0 /\ ~(v <= 0)
      /\ reg.puts = 0 /\ ~reg.stray
  BY <1>1 DEF Registry!Init, Registry!Idle, Doing, Held, Registry!Ids, Registry!NoId
<1>4. \A v \in Registry!Ids : ~Stored(reg, v) /\ ~IsHeld(reg, v)
  BY <1>3 DEF Stored, IsHeld
<1>5. InOnePlace(reg)
  BY <1>3, <1>4 DEF InOnePlace
<1> QED  BY <1>2, <1>3, <1>5 DEF RegistryInv, Registry!TypeOK, Once, ReplacesLocked, ClonedIsStored, Registry!NoId

LEMMA PutKeeps ==
  ASSUME RegistryInv(reg), NEW t \in Threads, NEW n \in Names, Registry!Put(t, n)
  PROVE  RegistryInv(reg')
<1> DEFINE r == reg.puts + 1
           h == [doing |-> "replace", value |-> r, old |-> reg.entry[n], name |-> n]
<1>0. Registry!TypeOK /\ MaxPuts \in Nat
  BY RegistryFacts DEF RegistryInv, Registry!TypeOK
<1>1. r \in Registry!Ids /\ r \in 0 .. MaxPuts /\ r # reg.entry[n] /\ Doing(reg, t) = "idle" /\ r \notin {0}
  <2>1. r \in Registry!Ids /\ r \in 0 .. MaxPuts /\ Doing(reg, t) = "idle"
    BY <1>0, RegistryFacts DEF Registry!Put, Registry!Ids, Registry!Locks, Registry!Idle, Doing
  <2>2. ~Stored(reg, r)
    BY <2>1, RegistryFacts, <1>0 DEF RegistryInv, Registry!TypeOK, InOnePlace
  <2> QED  BY <2>1, <2>2 DEF Stored, Registry!Ids
<1>2. /\ reg'.hand = [reg.hand EXCEPT ![t] = h] /\ reg'.entry = [reg.entry EXCEPT ![n] = Registry!NoId]
      /\ reg'.puts = r /\ reg'.lock = t /\ reg.lock = "free"
      /\ reg'.ended = reg.ended /\ reg'.stray = reg.stray
  BY <1>0 DEF Registry!Put, Registry!Locks, Registry!TypeOK, Registry!RegType
<1>3. Registry!TypeOK'
  <2>1. h \in Registry!Hand
    BY <1>0, <1>1 DEF Registry!Hand, Registry!TypeOK, Registry!RegType
  <2> HIDE DEF Registry!Hand, r, h
  <2> QED  BY <1>0, <1>1, <1>2, <2>1 DEF Registry!Put, Registry!TypeOK, Registry!RegType, r, h
<1>4. /\ \A u \in Threads \ {t} : Doing(reg', u) = Doing(reg, u) /\ Held(reg', u) = Held(reg, u) /\ reg'.hand[u] = reg.hand[u]
      /\ Doing(reg', t) = "replace" /\ Held(reg', t) = {r, reg.entry[n]} \cap Registry!Ids /\ Held(reg, t) = {}
      /\ reg'.hand[t] = h
  BY <1>0, <1>1, <1>2 DEF Doing, Held, Registry!TypeOK, Registry!RegType
<1>5. \A m \in Names : reg'.entry[m] = IF m = n THEN 0 ELSE reg.entry[m]
  BY <1>0, <1>2 DEF Registry!TypeOK, Registry!RegType, Registry!NoId
<1>6. \A u \in Threads : Doing(reg, u) # "replace"
  BY <1>2, RegistryFacts, <1>0 DEF RegistryInv, ReplacesLocked, Registry!Put, Registry!Locks, Registry!TypeOK
<1>7. \A v \in Registry!Ids :
        /\ Stored(reg', v) <=> Stored(reg, v) /\ v # reg.entry[n]
        /\ IsHeld(reg', v) <=> IsHeld(reg, v) \/ v = reg.entry[n] \/ v = r
  BY <1>0, <1>4, <1>5, RegistryFacts DEF RegistryInv, Registry!TypeOK, Once, Stored, IsHeld, Registry!NoId
<1>8. InOnePlace(reg')
  <2>1. /\ \A v \in Registry!Ids : (v > r => v > reg.puts) /\ (v <= r => v <= reg.puts \/ v = r) /\ ~(v > r /\ v <= r)
        /\ r > reg.puts
    BY <1>0, <1>1, RegistryFacts
  <2>2. \A v \in Registry!Ids : v = reg.entry[n] => Stored(reg, v)
    BY DEF Stored
  <2>3. ~Stored(reg, r) /\ ~IsHeld(reg, r) /\ reg.ended[r] = 0 /\ ~(r > r)
    BY <1>0, <1>1, <2>1, RegistryFacts DEF RegistryInv, InOnePlace
  <2> HIDE DEF r, h
  <2> QED  BY <1>1, <1>2, <1>7, <2>1, <2>2, <2>3 DEF RegistryInv, InOnePlace
<1>9. Once(reg')
  <2>1. \A u \in Threads : r \notin Held(reg, u) /\ reg.entry[n] \notin Held(reg, u)
    <3>1. \A v \in Registry!Ids : v = r \/ v = reg.entry[n] => ~IsHeld(reg, v)
      BY <1>0, <1>1, RegistryFacts DEF RegistryInv, Registry!TypeOK, InOnePlace, Stored
    <3> QED  BY <1>0, <1>1, <3>1, RegistryFacts DEF IsHeld
  <2> QED  BY <1>1, <1>4, <1>5, <2>1 DEF RegistryInv, Registry!TypeOK, Once, Registry!NoId
<1>10. ReplacesLocked(reg')
  BY <1>2, <1>4, <1>5, <1>6 DEF ReplacesLocked, Registry!NoId
<1>11. ClonedIsStored(reg')
  <2>1. ASSUME NEW u \in Threads, Doing(reg', u) = "clone"  PROVE Stored(reg', reg'.hand[u].value)
    <3>1. u # t /\ Doing(reg, u) = "clone" /\ Stored(reg, reg.hand[u].value) /\ reg.hand[u].value \in Registry!Ids
      BY <1>0, <1>4, <2>1, HandFacts DEF RegistryInv, Registry!TypeOK, ClonedIsStored
    <3>2. Registry!Cloning(reg.hand[u].value)
      BY <1>0, <3>1, HandFacts DEF Registry!Cloning, Doing
    <3>3. reg.hand[u].value # reg.entry[n]
      BY <3>1, <3>2 DEF Registry!Put, Registry!MayEnd
    <3> QED  BY <1>4, <1>7, <3>1, <3>3
  <2> QED  BY <2>1 DEF ClonedIsStored
<1> QED  BY <1>2, <1>3, <1>8, <1>9, <1>10, <1>11 DEF RegistryInv, Registry!TypeOK

(* Ending a value for the first time. *)
LEMMA EndOnce ==
  ASSUME NEW r \in Registry!RegType, NEW v \in Registry!Ids, r.ended[v] = 0
  PROVE  LET s == Registry!Ended(r, v)
         IN  /\ s \in Registry!RegType
             /\ s.hand = r.hand /\ s.entry = r.entry /\ s.puts = r.puts /\ s.lock = r.lock /\ s.stray = r.stray
             /\ s.ended = [r.ended EXCEPT ![v] = 1]
BY DEF Registry!Ended, Registry!RegType

LEMMA FinishPutKeeps ==
  ASSUME RegistryInv(reg), NEW t \in Threads, Registry!FinishPut(t)
  PROVE  RegistryInv(reg')
<1> DEFINE n == reg.hand[t].name
           r == reg.hand[t].value
           old == reg.hand[t].old
<1>0. Registry!TypeOK
  BY DEF RegistryInv, Registry!TypeOK
<1>1. /\ Doing(reg, t) = "replace" /\ r \in Registry!Ids /\ n \in Names /\ r # old /\ reg.entry[n] = Registry!NoId
      /\ old \in Registry!Ids \cup {Registry!NoId} /\ Held(reg, t) = {r, old} \cap Registry!Ids
      /\ \A u \in Threads \ {t} : Doing(reg, u) # "replace"
  <2>1. Doing(reg, t) = "replace"
    BY DEF Registry!FinishPut, Doing
  <2> QED  BY <1>0, <2>1, HandFacts DEF RegistryInv, Once, ReplacesLocked, Held
<1>2. \A v \in Held(reg, t) : v \in Registry!Ids /\ reg.ended[v] = 0 /\ ~Stored(reg, v) /\ v <= reg.puts
  <2>1. \A v \in Held(reg, t) : v \in Registry!Ids /\ IsHeld(reg, v)
    BY <1>0, RegistryFacts DEF IsHeld
  <2>2. \A v \in Registry!Ids : v > reg.puts \/ v <= reg.puts
    BY <1>0, RegistryFacts
  <2> QED  BY <2>1, <2>2 DEF RegistryInv, InOnePlace
<1>3. /\ reg'.hand = [reg.hand EXCEPT ![t] = Registry!Idle] /\ reg'.entry = [reg.entry EXCEPT ![n] = r]
      /\ reg'.puts = reg.puts /\ reg'.lock = "free" /\ reg'.stray = reg.stray
      /\ \A v \in Registry!Ids : reg'.ended[v] = IF v = old THEN 1 ELSE reg.ended[v]
      /\ reg' \in Registry!RegType
  <2> DEFINE s == [reg EXCEPT !.lock = "free", !.hand[t] = Registry!Idle, !.entry[n] = r]
  <2>1. /\ s \in Registry!RegType /\ s.ended = reg.ended /\ s.puts = reg.puts /\ s.stray = reg.stray
        /\ s.lock = "free" /\ s.hand = [reg.hand EXCEPT ![t] = Registry!Idle] /\ s.entry = [reg.entry EXCEPT ![n] = r]
    BY <1>0, <1>1 DEF Registry!TypeOK, Registry!RegType, Registry!Hand
  <2>2. reg' = IF old = Registry!NoId THEN s ELSE Registry!Ended(s, old)
    BY DEF Registry!FinishPut
  <2> HIDE DEF s, n, r
  <2>3. CASE old = Registry!NoId
    BY <2>1, <2>2, <2>3, <1>0, RegistryFacts
  <2>4. CASE old # Registry!NoId
    <3>1. old \in Registry!Ids /\ reg.ended[old] = 0
      BY <1>1, <1>2, <2>4
    <3>2. /\ reg' \in Registry!RegType /\ reg'.ended = [s.ended EXCEPT ![old] = 1]
          /\ reg'.hand = s.hand /\ reg'.entry = s.entry /\ reg'.puts = s.puts /\ reg'.lock = s.lock
          /\ reg'.stray = s.stray
      BY <2>1, <2>2, <2>4, <3>1, EndOnce
    <3> QED  BY <2>1, <3>1, <3>2, <1>0, RegistryFacts
  <2> QED  BY <2>3, <2>4
<1>5. /\ \A u \in Threads \ {t} : Doing(reg', u) = Doing(reg, u) /\ Held(reg', u) = Held(reg, u) /\ reg'.hand[u] = reg.hand[u]
      /\ Doing(reg', t) = "idle" /\ Held(reg', t) = {}
  BY <1>0, <1>3 DEF Doing, Held, Registry!Idle, Registry!TypeOK, Registry!RegType
<1>6. \A m \in Names : reg'.entry[m] = IF m = n THEN r ELSE reg.entry[m]
  BY <1>0, <1>3 DEF Registry!TypeOK, Registry!RegType
<1> HIDE DEF n, r, old
<1>7. \A v \in Registry!Ids :
        /\ Stored(reg', v) <=> Stored(reg, v) \/ v = r
        /\ IsHeld(reg', v) <=> IsHeld(reg, v) /\ v # r /\ v # old
  BY <1>0, <1>1, <1>5, <1>6, RegistryFacts DEF RegistryInv, Once, Stored, IsHeld
<1>8. InOnePlace(reg')
  BY <1>1, <1>2, <1>3, <1>7 DEF RegistryInv, InOnePlace
<1>9. Once(reg')
  <2>1. \A m \in Names : reg.entry[m] # r
    BY <1>1, <1>2 DEF Stored
  <2> QED  BY <1>1, <1>5, <1>6, <2>1 DEF RegistryInv, Once
<1>10. ReplacesLocked(reg') /\ ClonedIsStored(reg')
  <2>1. ASSUME NEW u \in Threads, Doing(reg, u) = "clone"
        PROVE  reg.hand[u].value \in Registry!Ids /\ Stored(reg, reg.hand[u].value)
    BY <1>0, <2>1, HandFacts DEF RegistryInv, ClonedIsStored
  <2> QED  BY <1>1, <1>5, <1>7, <2>1 DEF ReplacesLocked, ClonedIsStored
<1> QED  BY <1>3, <1>8, <1>9, <1>10 DEF RegistryInv

LEMMA ReenterKeeps ==
  ASSUME RegistryInv(reg), NEW t \in Threads, Registry!Reenter(t)
  PROVE  RegistryInv(reg')
<1>0. Registry!TypeOK
  BY DEF RegistryInv, Registry!TypeOK
<1>1. /\ reg'.hand = reg.hand /\ reg'.entry = reg.entry /\ reg'.puts = reg.puts /\ reg'.lock = reg.lock
      /\ reg'.ended = reg.ended /\ reg'.stray = reg.stray /\ Registry!TypeOK'
  BY <1>0 DEF Registry!Reenter, Registry!TypeOK, Registry!RegType
<1> QED  BY <1>1 DEF RegistryInv, Registry!TypeOK, InOnePlace, Once, ReplacesLocked, ClonedIsStored, Stored, IsHeld,
                     Held, Doing

LEMMA GetKeeps ==
  ASSUME RegistryInv(reg), NEW t \in Threads, NEW n \in Names, NEW ty \in Types, Registry!Get(t, n, ty)
  PROVE  RegistryInv(reg')
<1>0. Registry!TypeOK
  BY DEF RegistryInv, Registry!TypeOK
<1>1. CASE ~Registry!Fits(n, ty)
  BY <1>1 DEF Registry!Get
<1>2. CASE Registry!Fits(n, ty)
  <2> DEFINE h == [doing |-> "clone", value |-> reg.entry[n]]
  <2>1. reg.entry[n] \in Registry!Ids /\ Doing(reg, t) = "idle" /\ reg' = [reg EXCEPT !.hand[t] = h]
    BY <1>0, <1>2, RegistryFacts DEF Registry!Get, Registry!Fits, Registry!Locks, Registry!Idle, Doing
  <2>2. h \in Registry!Hand
    BY <2>1 DEF Registry!Hand
  <2>3. /\ reg'.entry = reg.entry /\ reg'.puts = reg.puts /\ reg'.lock = reg.lock
        /\ reg'.ended = reg.ended /\ reg'.stray = reg.stray
        /\ \A u \in Threads : reg'.hand[u] = IF u = t THEN h ELSE reg.hand[u]
    BY <1>0, <2>1 DEF Registry!TypeOK, Registry!RegType
  <2>4. Registry!TypeOK'
    <3> HIDE DEF h
    <3> QED  BY <1>0, <2>1, <2>2 DEF Registry!TypeOK, Registry!RegType
  <2>5. /\ \A u \in Threads : Held(reg', u) = Held(reg, u)
        /\ \A u \in Threads : Doing(reg', u) = IF u = t THEN "clone" ELSE Doing(reg, u)
    BY <2>1, <2>3 DEF Doing, Held
  <2>6. \A v \in Registry!Ids : (Stored(reg', v) <=> Stored(reg, v)) /\ (IsHeld(reg', v) <=> IsHeld(reg, v))
    BY <2>3, <2>5 DEF Stored, IsHeld
  <2>7. InOnePlace(reg')
    BY <2>3, <2>6 DEF RegistryInv, InOnePlace
  <2>8. Once(reg') /\ ReplacesLocked(reg')
    BY <2>3, <2>5 DEF RegistryInv, Once, ReplacesLocked
  <2>9. ClonedIsStored(reg')
    BY <2>3, <2>5 DEF RegistryInv, ClonedIsStored, Stored
  <2> QED  BY <2>3, <2>4, <2>7, <2>8, <2>9 DEF RegistryInv, Registry!TypeOK
<1> QED  BY <1>1, <1>2

LEMMA CloneValueKeeps ==
  ASSUME RegistryInv(reg), NEW t \in Threads, Registry!CloneValue(t)
  PROVE  RegistryInv(reg')
<1>0. Registry!TypeOK
  BY DEF RegistryInv, Registry!TypeOK
<1>1. Doing(reg, t) = "clone" /\ reg.hand[t].value \in Registry!Ids /\ reg.ended[reg.hand[t].value] = 0
  <2>1. Doing(reg, t) = "clone"
    BY DEF Registry!CloneValue, Doing
  <2> QED  BY <1>0, <2>1, HandFacts DEF RegistryInv, InOnePlace, ClonedIsStored
<1>2. /\ reg'.entry = reg.entry /\ reg'.puts = reg.puts /\ reg'.lock = reg.lock
      /\ reg'.ended = reg.ended /\ ~reg'.stray /\ reg' \in Registry!RegType
      /\ \A u \in Threads : reg'.hand[u] = IF u = t THEN Registry!Idle ELSE reg.hand[u]
  <2>1. ~reg.stray /\ Registry!Idle \in Registry!Hand
    BY DEF RegistryInv, Registry!Hand
  <2>2. (reg.stray \/ reg.ended[reg.hand[t].value] > 0) = FALSE
    BY <1>1, <2>1
  <2>3. reg' = [reg EXCEPT !.hand[t] = Registry!Idle, !.stray = FALSE]
    BY <2>2 DEF Registry!CloneValue
  <2> QED  BY <1>0, <1>1, <2>1, <2>3 DEF Registry!TypeOK, Registry!RegType
<1>3. /\ \A u \in Threads : Held(reg', u) = Held(reg, u)
      /\ \A u \in Threads : Doing(reg', u) = IF u = t THEN "idle" ELSE Doing(reg, u)
  BY <1>1, <1>2 DEF Doing, Held, Registry!Idle
<1>4. \A v \in Registry!Ids : (Stored(reg', v) <=> Stored(reg, v)) /\ (IsHeld(reg', v) <=> IsHeld(reg, v))
  BY <1>2, <1>3 DEF Stored, IsHeld
<1>5. InOnePlace(reg')
  BY <1>2, <1>4 DEF RegistryInv, InOnePlace
<1>6. Once(reg') /\ ReplacesLocked(reg') /\ ClonedIsStored(reg')
  BY <1>2, <1>3 DEF RegistryInv, Once, ReplacesLocked, ClonedIsStored, Stored
<1> QED  BY <1>2, <1>5, <1>6 DEF RegistryInv

LEMMA TakeKeeps ==
  ASSUME RegistryInv(reg), NEW t \in Threads, NEW n \in Names, NEW ty \in Types, Registry!Take(t, n, ty)
  PROVE  RegistryInv(reg')
<1>0. Registry!TypeOK
  BY DEF RegistryInv, Registry!TypeOK
<1>1. CASE ~Registry!Fits(n, ty)
  BY <1>1 DEF Registry!Take
<1>2. CASE Registry!Fits(n, ty)
  <2> DEFINE v == reg.entry[n]
  <2>1. v \in Registry!Ids /\ reg.lock = "free" /\ Stored(reg, v) /\ reg.ended[v] = 0 /\ ~IsHeld(reg, v)
        /\ v <= reg.puts
    <3>1. v \in Registry!Ids /\ reg.lock = "free" /\ Stored(reg, v)
      BY <1>0, <1>2, RegistryFacts DEF Registry!Take, Registry!Fits, Registry!Locks, Stored
    <3>2. v > reg.puts \/ v <= reg.puts
      BY <1>0, <3>1, RegistryFacts
    <3> QED  BY <3>1, <3>2 DEF RegistryInv, InOnePlace
  <2>2. reg' = [Registry!Ended(reg, v) EXCEPT !.entry[n] = Registry!NoId]
    BY <1>2 DEF Registry!Take, Registry!Removed
  <2>3. reg \in Registry!RegType
    BY <1>0 DEF Registry!TypeOK
  <2> HIDE DEF v
  <2>4. /\ reg'.hand = reg.hand /\ reg'.entry = [reg.entry EXCEPT ![n] = Registry!NoId]
        /\ reg'.puts = reg.puts /\ reg'.lock = "free" /\ reg'.stray = reg.stray
        /\ reg'.ended = [reg.ended EXCEPT ![v] = 1] /\ reg' \in Registry!RegType
    <3>1. PICK s : s = Registry!Ended(reg, v)
      OBVIOUS
    <3>2. /\ s \in Registry!RegType
          /\ s.hand = reg.hand /\ s.entry = reg.entry /\ s.puts = reg.puts /\ s.lock = reg.lock /\ s.stray = reg.stray
          /\ s.ended = [reg.ended EXCEPT ![v] = 1]
      BY <2>1, <2>3, <3>1, EndOnce
    <3> QED  BY <2>1, <2>2, <3>1, <3>2 DEF Registry!RegType
  <2>5. /\ \A m \in Names : reg'.entry[m] = IF m = n THEN Registry!NoId ELSE reg.entry[m]
        /\ \A u \in Threads : Doing(reg', u) = Doing(reg, u) /\ Held(reg', u) = Held(reg, u)
        /\ \A w \in Registry!Ids : reg'.ended[w] = IF w = v THEN 1 ELSE reg.ended[w]
    BY <1>0, <2>1, <2>4 DEF Doing, Held, Registry!TypeOK, Registry!RegType
  <2>6. \A w \in Registry!Ids : /\ Stored(reg', w) <=> Stored(reg, w) /\ w # v
                                /\ IsHeld(reg', w) <=> IsHeld(reg, w)
    BY <1>0, <2>1, <2>5, RegistryFacts DEF RegistryInv, Once, Stored, IsHeld, v
  <2>7. InOnePlace(reg')
    <3>1. ~(v > reg.puts)
      BY <1>0, <2>1, RegistryFacts
    <3> QED  BY <2>1, <2>4, <2>5, <2>6, <3>1 DEF RegistryInv, InOnePlace
  <2>8. Once(reg')
    BY <2>4, <2>5 DEF RegistryInv, Once
  <2>9. ReplacesLocked(reg')
    BY <1>0, <2>1, <2>4, <2>5, RegistryFacts DEF RegistryInv, ReplacesLocked
  <2>10. ClonedIsStored(reg')
    <3>1. ASSUME NEW u \in Threads, Doing(reg', u) = "clone"  PROVE Stored(reg', reg'.hand[u].value)
      <4>1. Doing(reg, u) = "clone" /\ Stored(reg, reg.hand[u].value) /\ reg.hand[u].value \in Registry!Ids
        BY <1>0, <2>5, <3>1, HandFacts DEF RegistryInv, ClonedIsStored
      <4>2. Registry!Cloning(reg.hand[u].value)
        BY <1>0, <4>1, HandFacts DEF Registry!Cloning, Doing
      <4>3. reg.hand[u].value # v
        BY <4>1, <4>2 DEF Registry!Take, Registry!MayEnd, v
      <4> QED  BY <2>4, <2>6, <4>1, <4>3
    <3> QED  BY <3>1 DEF ClonedIsStored
  <2> QED  BY <2>4, <2>7, <2>8, <2>9, <2>10 DEF RegistryInv
<1> QED  BY <1>1, <1>2

LEMMA DropPluginKeeps ==
  ASSUME RegistryInv(reg), NEW t \in Threads, NEW p \in Plugins, Registry!DropPlugin(t, p)
  PROVE  RegistryInv(reg')
<1> DEFINE O == Registry!OwnedBy(p)
           L == {reg.entry[n] : n \in O}
           h == [doing |-> "sweep", left |-> L]
<1>0. Registry!TypeOK
  BY DEF RegistryInv, Registry!TypeOK
<1>1. /\ O \subseteq Names /\ L \subseteq Registry!Ids /\ \A n \in O : reg.entry[n] \in L
      /\ \A v \in L : \E n \in O : v = reg.entry[n]
      /\ Doing(reg, t) = "idle" /\ reg.lock = "free"
  BY <1>0, RegistryFacts DEF Registry!OwnedBy, Registry!DropPlugin, Registry!Locks, Registry!Idle, Doing
<1>2. /\ reg' = [reg EXCEPT !.entry = [n \in Names |-> IF n \in O THEN Registry!NoId ELSE @[n]], !.hand[t] = h]
      /\ Registry!MayEnd(L)
  BY DEF Registry!DropPlugin
<1>3. h \in Registry!Hand
  BY <1>1 DEF Registry!Hand
<1> HIDE DEF O, L
<1>4. /\ reg'.puts = reg.puts /\ reg'.lock = "free" /\ reg'.stray = reg.stray /\ reg'.ended = reg.ended
      /\ reg' \in Registry!RegType
      /\ \A u \in Threads : reg'.hand[u] = IF u = t THEN h ELSE reg.hand[u]
      /\ \A m \in Names : reg'.entry[m] = IF m \in O THEN Registry!NoId ELSE reg.entry[m]
  <2> HIDE DEF h
  <2> QED  BY <1>0, <1>1, <1>2, <1>3 DEF Registry!TypeOK, Registry!RegType
<1>5. /\ \A u \in Threads \ {t} : Doing(reg', u) = Doing(reg, u) /\ Held(reg', u) = Held(reg, u)
      /\ Doing(reg', t) = "sweep" /\ Held(reg', t) = L /\ Held(reg, t) = {}
  <2>1. Held(reg, t) = {}
    BY <1>1 DEF Held
  <2>2. reg'.hand[t].doing = "sweep" /\ reg'.hand[t].left = L
    BY <1>4
  <2>3. \A u \in Threads \ {t} : reg'.hand[u] = reg.hand[u]
    BY <1>4
  <2> QED  BY <2>1, <2>2, <2>3 DEF Doing, Held
<1>6. \A v \in L : v \in Registry!Ids /\ Stored(reg, v) /\ ~IsHeld(reg, v)
  BY <1>1 DEF RegistryInv, InOnePlace, Stored
<1>7. \A v \in Registry!Ids :
        /\ Stored(reg', v) <=> Stored(reg, v) /\ v \notin L
        /\ IsHeld(reg', v) <=> IsHeld(reg, v) \/ v \in L
  <2>1. ASSUME NEW v \in Registry!Ids  PROVE Stored(reg', v) <=> Stored(reg, v) /\ v \notin L
    <3>1. v # Registry!NoId
      BY <1>0, RegistryFacts
    <3>2. ASSUME NEW n \in Names, v = reg.entry[n], n \notin O  PROVE v \notin L
      BY <1>1, <3>1, <3>2 DEF RegistryInv, Once
    <3> QED  BY <1>1, <1>4, <3>1, <3>2 DEF Stored
  <2>2. ASSUME NEW v \in Registry!Ids  PROVE IsHeld(reg', v) <=> IsHeld(reg, v) \/ v \in L
    BY <1>5 DEF IsHeld
  <2> QED  BY <2>1, <2>2
<1>8. InOnePlace(reg')
  BY <1>4, <1>6, <1>7 DEF RegistryInv, InOnePlace
<1>9. Once(reg')
  <2>1. \A u \in Threads : Held(reg, u) \cap L = {}
    BY <1>6 DEF IsHeld
  <2> QED  BY <1>4, <1>5, <2>1 DEF RegistryInv, Once
<1>10. ReplacesLocked(reg')
  BY <1>0, <1>1, <1>4, <1>5, RegistryFacts DEF RegistryInv, ReplacesLocked
<1>11. ClonedIsStored(reg')
  <2>1. ASSUME NEW u \in Threads, Doing(reg', u) = "clone"  PROVE Stored(reg', reg'.hand[u].value)
    <3>1. u # t /\ Doing(reg, u) = "clone" /\ Stored(reg, reg.hand[u].value) /\ reg.hand[u].value \in Registry!Ids
      BY <1>0, <1>5, <2>1, HandFacts DEF RegistryInv, ClonedIsStored
    <3>2. Registry!Cloning(reg.hand[u].value)
      BY <1>0, <3>1, HandFacts DEF Registry!Cloning, Doing
    <3>3. reg.hand[u].value \notin L
      BY <1>2, <3>1, <3>2 DEF Registry!MayEnd
    <3> QED  BY <1>4, <1>7, <3>1, <3>3
  <2> QED  BY <2>1 DEF ClonedIsStored
<1> QED  BY <1>0, <1>4, <1>8, <1>9, <1>10, <1>11 DEF RegistryInv

LEMMA SweepKeeps ==
  ASSUME RegistryInv(reg), NEW t \in Threads, NEW v \in Registry!Ids, Registry!Sweep(t, v)
  PROVE  RegistryInv(reg')
<1> DEFINE L == reg.hand[t].left
<1>0. Registry!TypeOK
  BY DEF RegistryInv, Registry!TypeOK
<1>1. /\ Doing(reg, t) = "sweep" /\ L \subseteq Registry!Ids /\ v \in L /\ Held(reg, t) = L
      /\ reg.hand[t] = [doing |-> "sweep", left |-> L]
  BY <1>0, HandFacts DEF Registry!Sweep, Doing, Held
<1>2. /\ IsHeld(reg, v) /\ ~Stored(reg, v) /\ reg.ended[v] = 0 /\ ~(v > reg.puts)
  <2>1. IsHeld(reg, v)
    BY <1>1 DEF IsHeld
  <2> QED  BY <1>0, <2>1, RegistryFacts DEF RegistryInv, InOnePlace
<1>3. /\ reg'.puts = reg.puts /\ reg'.lock = reg.lock /\ reg'.stray = reg.stray /\ reg'.entry = reg.entry
      /\ reg'.ended = [reg.ended EXCEPT ![v] = 1] /\ reg' \in Registry!RegType
      /\ \A u \in Threads : reg'.hand[u] = IF u = t THEN [doing |-> "sweep", left |-> L \ {v}] ELSE reg.hand[u]
  <2>1. PICK s : s = Registry!Ended(reg, v)
    OBVIOUS
  <2>2. /\ s \in Registry!RegType
        /\ s.hand = reg.hand /\ s.entry = reg.entry /\ s.puts = reg.puts /\ s.lock = reg.lock /\ s.stray = reg.stray
        /\ s.ended = [reg.ended EXCEPT ![v] = 1]
    BY <1>0, <1>2, <2>1, EndOnce DEF Registry!TypeOK
  <2>3. reg' = [s EXCEPT !.hand[t].left = @ \ {v}]
    BY <2>1 DEF Registry!Sweep
  <2>4. [doing |-> "sweep", left |-> L \ {v}] \in Registry!Hand
    BY <1>1 DEF Registry!Hand
  <2>5. reg' = [s EXCEPT !.hand[t] = [doing |-> "sweep", left |-> L \ {v}]]
    <3>1. s.hand[t] = [doing |-> "sweep", left |-> L]
      BY <1>1, <2>2
    <3> HIDE DEF L
    <3>2. [s.hand[t] EXCEPT !.left = @ \ {v}] = [doing |-> "sweep", left |-> L \ {v}]
      BY <3>1
    <3>3. reg' = [s EXCEPT !.hand[t] = [s.hand[t] EXCEPT !.left = @ \ {v}]]
      BY <2>3
    <3> QED  BY <3>2, <3>3
  <2> HIDE DEF L
  <2> QED  BY <2>2, <2>4, <2>5 DEF Registry!RegType
<1>4. /\ \A u \in Threads : Doing(reg', u) = Doing(reg, u)
      /\ \A u \in Threads : Held(reg', u) = IF u = t THEN Held(reg, u) \ {v} ELSE Held(reg, u)
  <2>1. reg'.hand[t].doing = "sweep" /\ reg'.hand[t].left = L \ {v}
    BY <1>3
  <2>2. \A u \in Threads \ {t} : reg'.hand[u] = reg.hand[u]
    BY <1>3
  <2> HIDE DEF L
  <2> QED  BY <1>1, <2>1, <2>2 DEF Doing, Held
<1> HIDE DEF L
<1>5. \A w \in Registry!Ids : /\ Stored(reg', w) <=> Stored(reg, w)
                              /\ IsHeld(reg', w) <=> IsHeld(reg, w) /\ w # v
                              /\ reg'.ended[w] = IF w = v THEN 1 ELSE reg.ended[w]
  BY <1>0, <1>1, <1>3, <1>4, RegistryFacts DEF RegistryInv, Once, Stored, IsHeld
<1>6. InOnePlace(reg')
  BY <1>2, <1>3, <1>5 DEF RegistryInv, InOnePlace
<1>7. Once(reg')
  BY <1>1, <1>3, <1>4 DEF RegistryInv, Once
<1>8. ReplacesLocked(reg') /\ ClonedIsStored(reg')
  BY <1>1, <1>3, <1>4 DEF RegistryInv, ReplacesLocked, ClonedIsStored, Stored
<1> QED  BY <1>3, <1>6, <1>7, <1>8 DEF RegistryInv

LEMMA EndSweepKeeps ==
  ASSUME RegistryInv(reg), NEW t \in Threads, Registry!EndSweep(t)
  PROVE  RegistryInv(reg')
<1>0. Registry!TypeOK
  BY DEF RegistryInv, Registry!TypeOK
<1>1. Doing(reg, t) = "sweep" /\ Held(reg, t) = {}
  BY DEF Registry!EndSweep, Doing, Held
<1>2. /\ reg'.entry = reg.entry /\ reg'.puts = reg.puts /\ reg'.lock = reg.lock
      /\ reg'.ended = reg.ended /\ reg'.stray = reg.stray /\ reg' \in Registry!RegType
      /\ \A u \in Threads : reg'.hand[u] = IF u = t THEN Registry!Idle ELSE reg.hand[u]
  BY <1>0 DEF Registry!EndSweep, Registry!TypeOK, Registry!RegType, Registry!Hand
<1>3. /\ \A u \in Threads : Held(reg', u) = Held(reg, u)
      /\ \A u \in Threads : Doing(reg', u) = IF u = t THEN "idle" ELSE Doing(reg, u)
  <2>1. reg'.hand[t].doing = "idle"
    BY <1>2 DEF Registry!Idle
  <2>2. \A u \in Threads \ {t} : reg'.hand[u] = reg.hand[u]
    BY <1>2
  <2> QED  BY <1>1, <2>1, <2>2 DEF Doing, Held
<1>4. \A v \in Registry!Ids : (Stored(reg', v) <=> Stored(reg, v)) /\ (IsHeld(reg', v) <=> IsHeld(reg, v))
  BY <1>2, <1>3 DEF Stored, IsHeld
<1>5. InOnePlace(reg')
  BY <1>2, <1>4 DEF RegistryInv, InOnePlace
<1>6. Once(reg') /\ ReplacesLocked(reg') /\ ClonedIsStored(reg')
  BY <1>2, <1>3 DEF RegistryInv, Once, ReplacesLocked, ClonedIsStored, Stored
<1> QED  BY <1>2, <1>5, <1>6 DEF RegistryInv

LEMMA RegistryNext ==
  ASSUME RegistryInv(reg), [Registry!Next]_reg
  PROVE  RegistryInv(reg')
<1>1. CASE UNCHANGED reg
  BY <1>1
<1> QED  BY <1>1, PutKeeps, GetKeeps, TakeKeeps, DropPluginKeeps, SweepKeeps, FinishPutKeeps, ReenterKeeps,
            CloneValueKeeps, EndSweepKeeps DEF Registry!Next

(* Places are counted by the sets of names and of threads.                 *)
LEMMA PlacesCount ==
  ASSUME RegistryInv(reg)
  PROVE  Registry!ValuesEndOnce
<1>0. Registry!TypeOK /\ ~reg.stray
  BY DEF RegistryInv, Registry!TypeOK
<1>1. ASSUME NEW S, NEW P, P = (S # {}), \A x, y \in S : x = y
      PROVE  Cardinality(S) = IF P THEN 1 ELSE 0
  <2>1. CASE S = {}
    BY <1>1, <2>1, FS_EmptySet
  <2>2. CASE S # {}
    <3>1. PICK x : S = {x}
      BY <1>1, <2>2
    <3> QED  BY <1>1, <2>2, <3>1, FS_Singleton
  <2> QED  BY <2>1, <2>2
<1>2. ASSUME NEW v \in Registry!Ids
      PROVE  Cardinality(Registry!InRegistry(v)) + Cardinality(Registry!InHands(v)) + reg.ended[v]
               = IF v <= reg.puts THEN 1 ELSE 0
  <2>1. Registry!InHands(v) = {t \in Threads : v \in Held(reg, t)}
    <3>1. v \in Registry!Ids /\ v # Registry!NoId
      BY <1>0, RegistryFacts
    <3>2. ASSUME NEW t \in Threads
          PROVE  v \in Held(reg, t) <=> 
                 reg.hand[t] # Registry!Idle /\
                   \/ reg.hand[t].doing = "replace" /\ v \in {reg.hand[t].value, reg.hand[t].old}
                   \/ reg.hand[t].doing = "sweep" /\ v \in reg.hand[t].left
      BY <1>0, <3>1, HandFacts DEF Held, Doing
    <3> QED  BY <3>2 DEF Registry!InHands
  <2>2. /\ \A m, n \in Registry!InRegistry(v) : m = n
        /\ Registry!InRegistry(v) # {} <=> Stored(reg, v)
    BY <1>0, RegistryFacts DEF RegistryInv, Once, Stored, Registry!InRegistry
  <2>3. /\ \A t, u \in Registry!InHands(v) : t = u
        /\ Registry!InHands(v) # {} <=> IsHeld(reg, v)
    BY <2>1 DEF RegistryInv, Once, IsHeld
  <2>4. Cardinality(Registry!InRegistry(v)) = IF Stored(reg, v) THEN 1 ELSE 0
    <3>1. Cardinality(Registry!InRegistry(v)) = IF Registry!InRegistry(v) # {} THEN 1 ELSE 0
      BY <1>1, <2>2
    <3> QED  BY <2>2, <3>1
  <2>5. Cardinality(Registry!InHands(v)) = IF IsHeld(reg, v) THEN 1 ELSE 0
    <3>1. Cardinality(Registry!InHands(v)) = IF Registry!InHands(v) # {} THEN 1 ELSE 0
      BY <1>1, <2>3
    <3> QED  BY <2>3, <3>1
  <2>6. reg.puts \in Nat /\ v \in Nat
    BY <1>0, RegistryFacts
  <2> QED  BY <2>4, <2>5, <2>6 DEF RegistryInv, InOnePlace
<1>3. \A S : Registry!Cardinality(S) = Cardinality(S)
  BY DEF Registry!Cardinality, Cardinality
<1> QED  BY <1>0, <1>2, <1>3 DEF Registry!ValuesEndOnce

(* A stored resource and a task's future, result and box end once, in one  *)
(* place, and are not used afterwards: however puts, takes, clones and     *)
(* unloads of any threads fall, as long as no value is ended under a       *)
(* clone, and no handle of a boxed task is awaited.                        *)
THEOREM StoredValuesEndOnce ==
  ASSUME ~AwaitBoxed
  PROVE  Spec => []ValuesEndOnce
<1> DEFINE I == /\ which = "resources" => RegistryInv(reg)
                /\ which = "storage" => StorageInv
<1>1. Init => I
  BY RegistryInit, StorageInit DEF Init
<1>2. I /\ [Next]_<<which, host, grd, reg, mem, io, child, cc, lay, strip>> => I'
  <2>1. ASSUME I, Next  PROVE I'
    <3>1. (which = "resources" => [Registry!Next]_reg) /\ (which = "storage" => [Storage!Next]_mem) /\ which' = which
      BY <2>1 DEF Next
    <3>2. which = "resources" => RegistryInv(reg')
      BY <2>1, <3>1, RegistryNext
    <3>3. which = "storage" => StorageInv'
      BY <2>1, <3>1, StorageNext
    <3> QED  BY <3>1, <3>2, <3>3 DEF RegistryInv
  <2>2. ASSUME I, UNCHANGED <<which, host, grd, reg, mem, io, child, cc, lay, strip>>  PROVE I'
    BY <2>2 DEF StorageInv, Storage!TypeOK
  <2> QED  BY <2>1, <2>2
<1>3. I => ValuesEndOnce
  BY PlacesCount DEF ValuesEndOnce, StorageInv, Storage!PayloadsEndOnce
<1> QED  BY <1>1, <1>2, <1>3, PTL DEF Spec

-----------------------------------------------------------------------------
(* Plugins and their libraries *)

(* The plugins that are loaded, waited for or being unloaded. *)
Used(h) == ({h.table[n] : n \in Names} \cup {h.plugin}) \ {Host!NoId}

OnlyOnce(h, id) == h.lib[id] \notin h.again

(* With the plugins in U in use: a library that was never loaded twice is  *)
(* open, once, for the one of them that is its.                            *)
OpenForOne(h, U) ==
  /\ \A id \in U : OnlyOnce(h, id) => h.count[h.lib[id]] = 1
  /\ \A id, jd \in U : OnlyOnce(h, id) /\ h.lib[id] = h.lib[jd] => id = jd
  /\ \A l \in Libs \ h.again : h.count[l] \in {0, 1}
                                 /\ (h.count[l] = 1 => \E id \in U : h.lib[id] = l)

(* What lives is of a plugin in use or was left behind, and only what was  *)
(* left behind was used after its time.                                    *)
LiveIsUsed(h, U) ==
  /\ \A v \in h.live : v.of <= Len(h.lib) /\ (OnlyOnce(h, v.of) => v.of \in U \cup h.left)
  /\ \A id \in h.stray : id <= Len(h.lib) /\ (OnlyOnce(h, id) => id \in h.left)

CoreInv(h, U) ==
  /\ h \in Host!HostType /\ Len(h.lib) <= MaxLoads /\ U \subseteq 1 .. Len(h.lib)
  /\ OpenForOne(h, U) /\ LiveIsUsed(h, U)

(* A plugin is under one name, and under none while it is unloaded; what   *)
(* it has after destroy() was left behind.                                 *)
NamedOnce(h) ==
  /\ \A n, m \in Names : h.table[n] = h.table[m] => n = m \/ h.table[n] = Host!NoId
  /\ \A n \in Names : h.table[n] = h.plugin => h.doing = "wait" \/ h.table[n] = Host!NoId
  /\ h.doing = "wait" => \E n \in Names : h.table[n] = h.plugin
  /\ h.plugin = Host!NoId <=> h.doing \in {"commands", "end"}

DestroyLeaves(h) ==
  h.doing \in {"tasks", "resources", "close"} => \A v \in h.live : v.of = h.plugin => v.of \in h.left

PluginInv(h) == CoreInv(h, Used(h)) /\ NamedOnce(h) /\ DestroyLeaves(h)

LEMMA HostFacts ==
  ASSUME NEW h \in Host!HostType
  PROVE  /\ MaxLoads \in Nat /\ Host!NoId \notin Host!Ids /\ \A id \in Host!Ids : id \in Nat
         /\ h.lib \in Seq(Libs) /\ Len(h.lib) \in Nat /\ \A id \in 1 .. Len(h.lib) : h.lib[id] \in Libs
         /\ h.count \in [Libs -> Nat] /\ h.guard \in [Libs -> BOOLEAN]
         /\ h.table \in [Names -> Host!Ids \cup {Host!NoId}] /\ h.plugin \in Host!Ids \cup {Host!NoId}
         /\ h.live \subseteq Host!Values /\ \A v \in h.live : v.of \in Host!Ids
         /\ h.stray \subseteq Host!Ids /\ h.left \subseteq Host!Ids /\ h.again \subseteq Libs
<1>1. MaxLoads \in Nat
  BY HostAssumption DEF HostAssumption, Host!HostAssumption
<1> QED  BY <1>1 DEF Host!HostType, Host!Ids, Host!NoId, Host!Values

LEMMA PluginInit ==
  ASSUME Host!Init
  PROVE  PluginInv(host)
<1>1. MaxLoads \in Nat
  BY HostAssumption DEF HostAssumption, Host!HostAssumption
<1>2. \A mode \in {"test", "run", "reload"} : Host!Script(mode) \in Seq({"load", "send", "unload"})
  <2> DEFINE W == {"load", "send", "unload"}
             once == <<"load", "send", "send", "send", "unload">>
  <2>1. once \in Seq(W) /\ << >> \in Seq(W) /\ Host!RunScript \in Seq(W)
    BY DEF Host!RunScript
  <2>2. Host!ReloadScript = once \o once
    BY DEF Host!ReloadScript
  <2> HIDE DEF once, W
  <2>3. Host!ReloadScript \in Seq(W)
    BY <2>1, <2>2
  <2> QED  BY <2>1, <2>3 DEF Host!Script, W
<1>3. host \in Host!HostType
  BY <1>1, <1>2 DEF Host!Init, Host!HostType, Host!Ids, Host!NoId
<1>4. /\ \A l \in Libs : host.count[l] = 0
      /\ \A n \in Names : host.table[n] = 0
      /\ host.plugin = 0 /\ host.lib = << >> /\ host.live = {} /\ host.doing = "commands" /\ host.stray = {}
  BY DEF Host!Init, Host!NoId
<1>5. Used(host) = {}
  BY <1>4 DEF Used, Host!NoId
<1> QED  BY <1>1, <1>3, <1>4, <1>5 DEF PluginInv, CoreInv, OpenForOne, NamedOnce, LiveIsUsed, DestroyLeaves, Host!NoId

(* Steps that change none of libraries, handles, values and history. *)
LEMMA CoreSame ==
  ASSUME NEW h, NEW U, CoreInv(h, U), NEW g \in Host!HostType,
         g.lib = h.lib, g.count = h.count, g.live = h.live,
         g.stray = h.stray, g.left = h.left, g.again = h.again
  PROVE  CoreInv(g, U)
<1>1. \A id : OnlyOnce(g, id) <=> OnlyOnce(h, id)
  BY DEF OnlyOnce
<1>2. OpenForOne(g, U)
  BY <1>1 DEF CoreInv, OpenForOne
<1>3. LiveIsUsed(g, U)
  BY <1>1 DEF CoreInv, LiveIsUsed
<1> QED  BY <1>2, <1>3 DEF CoreInv

(* What a call into a plugin does to the rest of the state. *)
LEMMA CallFacts ==
  ASSUME NEW h \in Host!HostType, NEW id \in Host!Ids, NEW c \in Host!Calls(h, id)
  PROVE  /\ c \in Host!HostType
         /\ c.lib = h.lib /\ c.count = h.count /\ c.table = h.table /\ c.plugin = h.plugin /\ c.doing = h.doing
         /\ c.guard = h.guard /\ c.mode = h.mode /\ c.todo = h.todo /\ c.left = h.left /\ c.again = h.again
         /\ Host!Mapped(h, id) => c.stray = h.stray
         /\ ~Host!Mapped(h, id) => c.stray = h.stray \cup {id}
         /\ \A v \in c.live : v \in h.live \/ v.of = id
<1> DEFINE s == IF Host!Mapped(h, id) THEN h.stray ELSE h.stray \cup {id}
<1>1. PICK kept \in SUBSET Host!Made(id) :
        c = [h EXCEPT !.live = (@ \ Host!Of(h, id)) \cup kept, !.stray = s]
  BY DEF Host!Calls
<1>2. \A v \in kept : v \in Host!Values /\ v.of = id
  BY HostFacts DEF Host!Made, Host!Tag, Host!Values, Host!Kinds
<1>3. (h.live \ Host!Of(h, id)) \cup kept \subseteq Host!Values /\ s \subseteq Host!Ids
  BY <1>2, HostFacts
<1> DEFINE L == (h.live \ Host!Of(h, id)) \cup kept
<1>5. c = [h EXCEPT !.live = L, !.stray = s]
  BY <1>1
<1>6. \A v \in L : v \in h.live \/ v.of = id
  BY <1>2
<1>7. L \subseteq Host!Values /\ s \subseteq Host!Ids
  BY <1>3
<1>8. c.stray = s
  <2> HIDE DEF s, L
  <2> QED  BY <1>5 DEF Host!HostType
<1>9. \A v \in c.live : v \in h.live \/ v.of = id
  <2>1. c.live = L
    <3> HIDE DEF s, L
    <3> QED  BY <1>5 DEF Host!HostType
  <2> QED  BY <1>6, <2>1
<1>10. /\ c \in Host!HostType
       /\ c.lib = h.lib /\ c.count = h.count /\ c.table = h.table /\ c.plugin = h.plugin /\ c.doing = h.doing
       /\ c.guard = h.guard /\ c.mode = h.mode /\ c.todo = h.todo /\ c.left = h.left /\ c.again = h.again
  <2> HIDE DEF s, L
  <2> QED  BY <1>5, <1>7 DEF Host!HostType
<1> QED  BY <1>8, <1>9, <1>10

(* A call into a plugin that is in use, was left behind or is of a library *)
(* that was loaded twice keeps the invariant.                              *)
LEMMA CallKeeps ==
  ASSUME NEW h, NEW U, CoreInv(h, U), NEW id \in 1 .. Len(h.lib), NEW c \in Host!Calls(h, id),
         OnlyOnce(h, id) => id \in U \cup h.left
  PROVE  CoreInv(c, U)
<1>1. h \in Host!HostType /\ id \in Host!Ids /\ id \in Nat /\ id <= Len(h.lib)
  BY HostFacts DEF CoreInv, Host!Ids
<1>2. /\ c \in Host!HostType
      /\ c.lib = h.lib /\ c.count = h.count /\ c.left = h.left /\ c.again = h.again
      /\ Host!Mapped(h, id) => c.stray = h.stray
      /\ ~Host!Mapped(h, id) => c.stray = h.stray \cup {id}
      /\ \A v \in c.live : v \in h.live \/ v.of = id
  BY <1>1, CallFacts
<1>3. \A jd : OnlyOnce(c, jd) <=> OnlyOnce(h, jd)
  BY <1>2 DEF OnlyOnce
<1>4. OpenForOne(c, U)
  BY <1>2, <1>3 DEF CoreInv, OpenForOne
<1>5. \A v \in c.live : v.of <= Len(c.lib) /\ (OnlyOnce(c, v.of) => v.of \in U \cup c.left)
  BY <1>1, <1>2, <1>3 DEF CoreInv, LiveIsUsed
<1>6. OnlyOnce(h, id) /\ ~Host!Mapped(h, id) => id \in h.left
  <2>1. OnlyOnce(h, id) /\ id \in U => Host!Mapped(h, id)
    BY DEF CoreInv, OpenForOne, Host!Mapped
  <2> QED  BY <2>1
<1>7. \A jd \in c.stray : jd <= Len(c.lib) /\ (OnlyOnce(c, jd) => jd \in c.left)
  BY <1>1, <1>2, <1>3, <1>6 DEF CoreInv, LiveIsUsed
<1> QED  BY <1>2, <1>4, <1>5, <1>7 DEF CoreInv, LiveIsUsed

LEMMA ClosedFacts ==
  ASSUME NEW h \in Host!HostType, NEW id \in Host!Ids, id <= Len(h.lib)
  PROVE  LET c == Host!Closed(h, id)
         IN  /\ c \in Host!HostType
             /\ c.lib = h.lib /\ c.table = h.table /\ c.plugin = h.plugin /\ c.doing = h.doing
             /\ c.guard = h.guard /\ c.mode = h.mode /\ c.live = h.live /\ c.todo = h.todo
             /\ c.left = h.left /\ c.again = h.again
             /\ Host!Mapped(h, id) => c.stray = h.stray /\ c.count = [h.count EXCEPT ![h.lib[id]] = @ - 1]
             /\ ~Host!Mapped(h, id) => c.stray = h.stray \cup {id} /\ c.count = h.count
<1> DEFINE l == h.lib[id]
<1>1. l \in Libs /\ h.count \in [Libs -> Nat] /\ h.stray \cup {id} \subseteq Host!Ids
  BY HostFacts DEF Host!Ids
<1>2. CASE Host!Mapped(h, id)
  <2>1. [h.count EXCEPT ![l] = @ - 1] \in [Libs -> Nat]
    BY <1>1, <1>2 DEF Host!Mapped
  <2>2. Host!Closed(h, id) = [h EXCEPT !.count = [h.count EXCEPT ![l] = @ - 1]]
    BY <1>2 DEF Host!Closed, Host!HostType
  <2> DEFINE k == [h.count EXCEPT ![l] = @ - 1]
  <2>3. k \in [Libs -> Nat] /\ Host!Closed(h, id) = [h EXCEPT !.count = k]
    BY <2>1, <2>2
  <2>4. PICK d : d = k
    OBVIOUS
  <2> HIDE DEF k
  <2>5. LET c == Host!Closed(h, id)
        IN  /\ c \in Host!HostType /\ c.count = k /\ c.stray = h.stray
            /\ c.lib = h.lib /\ c.table = h.table /\ c.plugin = h.plugin /\ c.doing = h.doing
            /\ c.guard = h.guard /\ c.mode = h.mode /\ c.live = h.live /\ c.todo = h.todo
            /\ c.left = h.left /\ c.again = h.again
    BY <2>3 DEF Host!HostType
  <2> QED  BY <1>2, <2>5 DEF k
<1>3. CASE ~Host!Mapped(h, id)
  <2>1. Host!Closed(h, id) = [h EXCEPT !.stray = h.stray \cup {id}]
    BY <1>3 DEF Host!Closed
  <2> QED  BY <1>1, <1>3, <2>1 DEF Host!HostType
<1> QED  BY <1>2, <1>3

(* A library that was loaded twice may lose handles as it may; otherwise a *)
(* plugin's own handle is closed once, when it is used no longer.          *)
LEMMA ClosedKeeps ==
  ASSUME NEW h, NEW U, CoreInv(h, U), NEW id \in U,
         \A v \in h.live : v.of = id => id \in h.left
  PROVE  CoreInv(Host!Closed(h, id), U \ {id})
<1> DEFINE l == h.lib[id]
<1>1. PICK c : c = Host!Closed(h, id)
  OBVIOUS
<1>2. h \in Host!HostType /\ id \in Host!Ids /\ id \in 1 .. Len(h.lib) /\ l \in Libs /\ h.count \in [Libs -> Nat]
  BY HostFacts DEF CoreInv, Host!Ids
<1>3. /\ c \in Host!HostType /\ c.lib = h.lib /\ c.live = h.live /\ c.left = h.left /\ c.again = h.again
      /\ Host!Mapped(h, id) => c.stray = h.stray /\ c.count = [h.count EXCEPT ![l] = @ - 1]
      /\ ~Host!Mapped(h, id) => c.stray = h.stray \cup {id} /\ c.count = h.count
  BY <1>1, <1>2, ClosedFacts
<1>4. \A jd : OnlyOnce(c, jd) <=> OnlyOnce(h, jd)
  BY <1>3 DEF OnlyOnce
<1>5. OnlyOnce(h, id) => Host!Mapped(h, id) /\ h.count[l] = 1
  BY DEF CoreInv, OpenForOne, Host!Mapped
<1>6. \A k \in Libs \ h.again : c.count[k] = IF k = l THEN 0 ELSE h.count[k]
  <2>1. CASE Host!Mapped(h, id)
    BY <1>2, <1>3, <1>5, <2>1 DEF OnlyOnce
  <2>2. CASE ~Host!Mapped(h, id)
    BY <1>3, <1>5, <2>2 DEF OnlyOnce
  <2> QED  BY <2>1, <2>2
<1>7. \A jd \in U : h.lib[jd] \in Libs /\ (OnlyOnce(h, jd) => h.lib[jd] \in Libs \ h.again)
  BY <1>2, HostFacts DEF CoreInv, OnlyOnce
<1> HIDE DEF l
<1>8. ASSUME NEW jd \in U \ {id}, OnlyOnce(c, jd)  PROVE c.count[c.lib[jd]] = 1
  <2>1. h.lib[jd] # l /\ h.count[h.lib[jd]] = 1 /\ h.lib[jd] \in Libs \ h.again
    BY <1>4, <1>7, <1>8 DEF CoreInv, OpenForOne, l
  <2> QED  BY <1>3, <1>6, <2>1
<1>9. ASSUME NEW k \in Libs \ c.again
      PROVE  c.count[k] \in {0, 1} /\ (c.count[k] = 1 => \E jd \in U \ {id} : c.lib[jd] = k)
  <2>1. h.count[k] \in {0, 1} /\ (h.count[k] = 1 => \E jd \in U : h.lib[jd] = k)
    BY <1>3, <1>9 DEF CoreInv, OpenForOne
  <2>2. c.count[k] = IF k = l THEN 0 ELSE h.count[k]
    BY <1>3, <1>6, <1>9
  <2> QED  BY <1>3, <2>1, <2>2 DEF l
<1>10. OpenForOne(c, U \ {id})
  <2>1. \A jd, kd \in U \ {id} : OnlyOnce(c, jd) /\ c.lib[jd] = c.lib[kd] => jd = kd
    BY <1>3, <1>4 DEF CoreInv, OpenForOne
  <2> QED  BY <1>8, <1>9, <2>1 DEF OpenForOne
<1>11. LiveIsUsed(c, U \ {id})
  <2>1. \A v \in c.live : v.of <= Len(c.lib) /\ (OnlyOnce(c, v.of) => v.of \in (U \ {id}) \cup c.left)
    BY <1>3, <1>4 DEF CoreInv, LiveIsUsed
  <2>2. \A jd \in c.stray : jd <= Len(c.lib) /\ (OnlyOnce(c, jd) => jd \in c.left)
    BY <1>2, <1>3, <1>4, <1>5 DEF CoreInv, LiveIsUsed
  <2> QED  BY <2>1, <2>2 DEF LiveIsUsed
<1>12. CoreInv(c, U \ {id})
  BY <1>3, <1>10, <1>11 DEF CoreInv
<1> QED  BY <1>1, <1>12

LEMMA ClosedTwice ==
  ASSUME NEW h, NEW U, CoreInv(h, U), NEW id \in 1 .. Len(h.lib), ~OnlyOnce(h, id)
  PROVE  CoreInv(Host!Closed(h, id), U)
<1> DEFINE l == h.lib[id]
<1>1. PICK c : c = Host!Closed(h, id)
  OBVIOUS
<1>2. h \in Host!HostType /\ id \in Host!Ids /\ id <= Len(h.lib) /\ l \in h.again /\ h.count \in [Libs -> Nat]
  BY HostFacts DEF CoreInv, Host!Ids, OnlyOnce
<1>3. /\ c \in Host!HostType /\ c.lib = h.lib /\ c.live = h.live /\ c.left = h.left /\ c.again = h.again
      /\ Host!Mapped(h, id) => c.stray = h.stray /\ c.count = [h.count EXCEPT ![l] = @ - 1]
      /\ ~Host!Mapped(h, id) => c.stray = h.stray \cup {id} /\ c.count = h.count
  BY <1>1, <1>2, ClosedFacts
<1>4. \A jd : OnlyOnce(c, jd) <=> OnlyOnce(h, jd)
  BY <1>3 DEF OnlyOnce
<1>5. \A k \in Libs \ h.again : c.count[k] = h.count[k]
  BY <1>2, <1>3
<1>6. \A jd \in U : OnlyOnce(h, jd) => h.lib[jd] \in Libs \ h.again
  BY <1>2, HostFacts DEF CoreInv, OnlyOnce
<1>7. OpenForOne(c, U)
  <2>1. ASSUME NEW jd \in U, OnlyOnce(c, jd)  PROVE c.count[c.lib[jd]] = 1
    BY <1>3, <1>4, <1>5, <1>6, <2>1 DEF CoreInv, OpenForOne
  <2>2. \A jd, kd \in U : OnlyOnce(c, jd) /\ c.lib[jd] = c.lib[kd] => jd = kd
    BY <1>3, <1>4 DEF CoreInv, OpenForOne
  <2>3. ASSUME NEW k \in Libs \ c.again
        PROVE  c.count[k] \in {0, 1} /\ (c.count[k] = 1 => \E jd \in U : c.lib[jd] = k)
    BY <1>3, <1>5, <2>3 DEF CoreInv, OpenForOne
  <2> QED  BY <2>1, <2>2, <2>3 DEF OpenForOne
<1>8. LiveIsUsed(c, U)
  <2>1. \A v \in c.live : v.of <= Len(c.lib) /\ (OnlyOnce(c, v.of) => v.of \in U \cup c.left)
    BY <1>3, <1>4 DEF CoreInv, LiveIsUsed
  <2>2. \A jd \in c.stray : jd <= Len(c.lib) /\ (OnlyOnce(c, jd) => jd \in c.left)
    BY <1>2, <1>3, <1>4 DEF CoreInv, LiveIsUsed
  <2> QED  BY <2>1, <2>2 DEF LiveIsUsed
<1>9. CoreInv(c, U)
  BY <1>3, <1>7, <1>8 DEF CoreInv
<1> QED  BY <1>1, <1>9

(* What a plugin has at its end is counted as left behind. *)
LEMMA LeavesKeeps ==
  ASSUME NEW h, NEW U, CoreInv(h, U), NEW id \in Host!Ids
  PROVE  LET c == Host!Leaves(h, id)
         IN  /\ CoreInv(c, U) /\ \A v \in c.live : v.of = id => id \in c.left
             /\ c.lib = h.lib /\ c.table = h.table /\ c.plugin = h.plugin /\ c.doing = h.doing
<1> DEFINE L == IF Host!Of(h, id) = {} THEN h.left ELSE h.left \cup {id}
<1>1. h \in Host!HostType /\ L \subseteq Host!Ids /\ h.left \subseteq L
  BY HostFacts DEF CoreInv
<1>2. Host!Leaves(h, id) = [h EXCEPT !.left = L]
  BY DEF Host!Leaves
<1>3. \A v \in h.live : v.of = id => id \in L
  BY DEF Host!Of
<1> HIDE DEF L
<1>4. PICK c : c = Host!Leaves(h, id)
  OBVIOUS
<1>5. /\ c \in Host!HostType /\ c.left = L /\ c.lib = h.lib /\ c.table = h.table /\ c.plugin = h.plugin
      /\ c.doing = h.doing /\ c.count = h.count /\ c.live = h.live /\ c.stray = h.stray /\ c.again = h.again
  BY <1>1, <1>2, <1>4 DEF Host!HostType
<1>6. \A jd : OnlyOnce(c, jd) <=> OnlyOnce(h, jd)
  BY <1>5 DEF OnlyOnce
<1>7. OpenForOne(c, U)
  BY <1>5, <1>6 DEF CoreInv, OpenForOne
<1>8. LiveIsUsed(c, U)
  BY <1>1, <1>5, <1>6 DEF CoreInv, LiveIsUsed
<1>9. CoreInv(c, U)
  BY <1>5, <1>7, <1>8 DEF CoreInv
<1>10. \A v \in c.live : v.of = id => id \in c.left
  BY <1>3, <1>5
<1> QED  BY <1>4, <1>5, <1>9, <1>10

(* Loading a library that is not open makes it the new plugin's; one that  *)
(* is open has been loaded twice.                                          *)
LEMMA OpenedKeeps ==
  ASSUME NEW U, CoreInv(host, U), NEW l \in Libs, Len(host.lib) < MaxLoads
  PROVE  LET h  == [Host!Opened(host, l) EXCEPT !.lib = Append(@, l)]
             id == Len(host.lib) + 1
         IN  /\ CoreInv(h, U \cup {id}) /\ Len(h.lib) = id /\ h.lib[id] = l
             /\ OnlyOnce(h, id) => ~h.guard[l]
             /\ h.table = host.table /\ h.plugin = host.plugin /\ h.doing = host.doing
<1> DEFINE id == Len(host.lib) + 1
           o == Host!Opened(host, l)
           k == [host.count EXCEPT ![l] = @ + 1]
           a == IF host.count[l] > 0 THEN host.again \cup {l} ELSE host.again
           d == [host.guard EXCEPT ![l] = @ /\ host.count[l] > 0]
           s == Append(host.lib, l)
<1>1. /\ host \in Host!HostType /\ host.lib \in Seq(Libs) /\ Len(host.lib) \in Nat /\ MaxLoads \in Nat
      /\ host.count \in [Libs -> Nat] /\ host.guard \in [Libs -> BOOLEAN] /\ host.again \subseteq Libs
  BY HostFacts DEF CoreInv
<1>2. o = [host EXCEPT !.count = k, !.guard = d, !.again = a]
  BY <1>1 DEF Host!Opened, Host!HostType
<1>3. k \in [Libs -> Nat] /\ d \in [Libs -> BOOLEAN] /\ a \subseteq Libs /\ s \in Seq(Libs)
  BY <1>1
<1>4. /\ \A j \in Libs : k[j] = IF j = l THEN host.count[l] + 1 ELSE host.count[j]
      /\ d[l] => host.count[l] > 0
      /\ host.again \subseteq a /\ a \subseteq host.again \cup {l} /\ (l \notin a => host.count[l] = 0)
      /\ Len(s) = id /\ s[id] = l /\ \A j \in 1 .. Len(host.lib) : s[j] = host.lib[j]
  <2>1. \A j \in Libs : k[j] = IF j = l THEN host.count[l] + 1 ELSE host.count[j]
    BY <1>1
  <2>2. d[l] => host.count[l] > 0
    BY <1>1
  <2>3. host.again \subseteq a /\ a \subseteq host.again \cup {l} /\ (l \notin a => host.count[l] = 0)
    BY <1>1
  <2>4. Len(s) = id /\ s[id] = l /\ \A j \in 1 .. Len(host.lib) : s[j] = host.lib[j]
    BY <1>1
  <2> QED  BY <2>1, <2>2, <2>3, <2>4
<1> HIDE DEF k, d, a, s
<1>5. PICK h : h = [o EXCEPT !.lib = Append(@, l)]
  OBVIOUS
<1>6. o.lib = host.lib /\ o \in Host!HostType
  BY <1>1, <1>2, <1>3 DEF Host!HostType
<1>7. h = [host EXCEPT !.count = k, !.guard = d, !.again = a, !.lib = s]
  <2>1. h = [o EXCEPT !.lib = s]
    BY <1>5, <1>6 DEF s
  <2> QED  BY <1>1, <1>2, <2>1 DEF Host!HostType
<1> HIDE DEF o
<1>8. /\ h \in Host!HostType /\ h.count = k /\ h.guard = d /\ h.again = a /\ h.lib = s
      /\ h.table = host.table /\ h.plugin = host.plugin /\ h.doing = host.doing
      /\ h.live = host.live /\ h.stray = host.stray /\ h.left = host.left
  BY <1>1, <1>3, <1>7 DEF Host!HostType
<1>9. \A jd \in 1 .. Len(host.lib) : h.lib[jd] = host.lib[jd] /\ (OnlyOnce(h, jd) => OnlyOnce(host, jd))
  BY <1>4, <1>8 DEF OnlyOnce
<1>10. U \subseteq 1 .. Len(host.lib)
  BY DEF CoreInv
<1>11. \A jd \in U : h.lib[jd] \in Libs /\ (OnlyOnce(h, jd) => h.lib[jd] # l)
  <2>1. ASSUME NEW jd \in U, OnlyOnce(h, jd), h.lib[jd] = l  PROVE FALSE
    <3>1. OnlyOnce(host, jd) /\ host.lib[jd] = l /\ l \notin a
      BY <1>8, <1>9, <1>10, <2>1 DEF OnlyOnce
    <3>2. host.count[l] = 1
      BY <3>1 DEF CoreInv, OpenForOne
    <3> QED  BY <1>4, <3>1, <3>2
  <2>2. \A jd \in U : h.lib[jd] \in Libs
    BY <1>1, <1>9, <1>10, HostFacts
  <2> QED  BY <2>1, <2>2
<1>12. h.lib[id] = l /\ Len(h.lib) = id /\ id \notin U /\ id \in Nat
  BY <1>1, <1>4, <1>8, <1>10
<1>13. OnlyOnce(h, id) => host.count[l] = 0 /\ h.count[l] = 1 /\ ~h.guard[l]
  <2>1. OnlyOnce(h, id) => host.count[l] = 0
    BY <1>4, <1>8, <1>12 DEF OnlyOnce
  <2>2. k[l] = host.count[l] + 1
    BY <1>4
  <2> QED  BY <1>4, <1>8, <2>1, <2>2
<1> HIDE DEF id
<1>14. \A jd \in U \cup {id} : OnlyOnce(h, jd) => h.count[h.lib[jd]] = 1
  <2>1. ASSUME NEW jd \in U, OnlyOnce(h, jd)  PROVE h.count[h.lib[jd]] = 1
    <3>1. host.count[host.lib[jd]] = 1 /\ h.lib[jd] = host.lib[jd]
      BY <1>9, <1>10, <2>1 DEF CoreInv, OpenForOne
    <3>2. k[h.lib[jd]] = host.count[h.lib[jd]]
      BY <1>4, <1>11, <2>1
    <3> QED  BY <1>8, <3>1, <3>2
  <2> QED  BY <1>12, <1>13, <2>1
<1>15. \A jd, kd \in U \cup {id} : OnlyOnce(h, jd) /\ h.lib[jd] = h.lib[kd] => jd = kd
  <2>1. ASSUME NEW jd \in U, NEW kd \in U, OnlyOnce(h, jd), h.lib[jd] = h.lib[kd]  PROVE jd = kd
    BY <1>9, <1>10, <2>1 DEF CoreInv, OpenForOne
  <2>2. \A jd \in U : h.lib[jd] = l => ~OnlyOnce(h, jd)
    BY <1>11
  <2>3. \A jd, kd : h.lib[jd] = h.lib[kd] => (OnlyOnce(h, jd) <=> OnlyOnce(h, kd))
    BY DEF OnlyOnce
  <2> QED  BY <1>12, <2>1, <2>2, <2>3
<1>16. ASSUME NEW j \in Libs \ h.again
       PROVE  h.count[j] \in {0, 1} /\ (h.count[j] = 1 => \E jd \in U \cup {id} : h.lib[jd] = j)
  <2>1. CASE j = l
    BY <1>4, <1>8, <1>12, <1>16, <2>1
  <2>2. CASE j # l
    <3>1. h.count[j] = host.count[j] /\ j \in Libs \ host.again
      BY <1>4, <1>8, <1>16, <2>2
    <3>2. host.count[j] \in {0, 1} /\ (host.count[j] = 1 => \E jd \in U : host.lib[jd] = j)
      BY <3>1 DEF CoreInv, OpenForOne
    <3>3. \A jd \in U : h.lib[jd] = host.lib[jd]
      BY <1>9, <1>10
    <3> QED  BY <3>1, <3>2, <3>3
  <2> QED  BY <2>1, <2>2
<1>17. OpenForOne(h, U \cup {id})
  BY <1>14, <1>15, <1>16 DEF OpenForOne
<1>18. LiveIsUsed(h, U \cup {id})
  <2>1. \A v \in host.live : v.of \in 1 .. Len(host.lib) /\ v.of <= id
    BY <1>1, HostFacts DEF CoreInv, LiveIsUsed, Host!Ids, id
  <2>2. \A jd \in host.stray : jd \in 1 .. Len(host.lib) /\ jd <= id
    BY <1>1, HostFacts DEF CoreInv, LiveIsUsed, Host!Ids, id
  <2>3. \A v \in h.live : v.of <= Len(h.lib) /\ (OnlyOnce(h, v.of) => v.of \in (U \cup {id}) \cup h.left)
    BY <1>8, <1>9, <1>12, <2>1 DEF CoreInv, LiveIsUsed
  <2>4. \A jd \in h.stray : jd <= Len(h.lib) /\ (OnlyOnce(h, jd) => jd \in h.left)
    BY <1>8, <1>9, <1>12, <2>2 DEF CoreInv, LiveIsUsed
  <2> QED  BY <2>3, <2>4 DEF LiveIsUsed
<1>19. CoreInv(h, U \cup {id})
  <2>1. id <= MaxLoads /\ Len(host.lib) <= id /\ id \in 1 .. id
    BY <1>1 DEF id
  <2>2. U \cup {id} \subseteq 1 .. id
    BY <1>1, <1>10, <1>12, <2>1
  <2> QED  BY <1>8, <1>12, <1>17, <1>18, <2>1, <2>2 DEF CoreInv
<1> QED  BY <1>5, <1>8, <1>12, <1>13, <1>19 DEF id, o

(* The first guard of a library stays; a later one closes a handle.        *)
LEMMA GuardKeeps ==
  ASSUME NEW h, NEW U, CoreInv(h, U), NEW id \in 1 .. Len(h.lib), OnlyOnce(h, id) => ~h.guard[h.lib[id]]
  PROVE  LET g == Host!GuardKept(h, id)
         IN  CoreInv(g, U) /\ g.lib = h.lib /\ g.table = h.table /\ g.plugin = h.plugin /\ g.doing = h.doing
<1>1. PICK g : g = Host!GuardKept(h, id)
  OBVIOUS
<1>2. h \in Host!HostType /\ id \in Host!Ids /\ id <= Len(h.lib)
  BY HostFacts DEF CoreInv, Host!Ids
<1>3. CASE h.guard[h.lib[id]]
  <2>1. g = Host!Closed(h, id) /\ ~OnlyOnce(h, id)
    BY <1>1, <1>3 DEF Host!GuardKept
  <2>2. CoreInv(g, U)
    BY <2>1, ClosedTwice
  <2>3. g.lib = h.lib /\ g.table = h.table /\ g.plugin = h.plugin /\ g.doing = h.doing
    BY <1>2, <2>1, ClosedFacts
  <2> QED  BY <1>1, <2>2, <2>3
<1>4. CASE ~h.guard[h.lib[id]]
  <2>1. g = [h EXCEPT !.guard[h.lib[id]] = TRUE]
    BY <1>1, <1>4 DEF Host!GuardKept
  <2>2. /\ g \in Host!HostType /\ g.lib = h.lib /\ g.count = h.count /\ g.live = h.live /\ g.stray = h.stray
        /\ g.left = h.left /\ g.again = h.again
        /\ g.table = h.table /\ g.plugin = h.plugin /\ g.doing = h.doing
    BY <1>2, <2>1 DEF Host!HostType
  <2>3. CoreInv(g, U)
    BY <2>2, CoreSame
  <2> QED  BY <1>1, <2>2, <2>3
<1> QED  BY <1>3, <1>4

LEMMA LoadFacts ==
  ASSUME NEW U, CoreInv(host, U), Len(host.lib) < MaxLoads, NEW l \in Libs, NEW g \in Host!Initialised(l)
  PROVE  /\ CoreInv(g, U \cup {Len(host.lib) + 1}) /\ Len(g.lib) = Len(host.lib) + 1
         /\ g.table = host.table /\ g.plugin = host.plugin /\ g.doing = host.doing
<1> DEFINE id == Len(host.lib) + 1
           x == [Host!Opened(host, l) EXCEPT !.lib = Append(@, l)]
<1>1. PICK h : h = x
  OBVIOUS
<1>2. /\ CoreInv(h, U \cup {id}) /\ Len(h.lib) = id /\ h.lib[id] = l
      /\ OnlyOnce(h, id) => ~h.guard[l]
      /\ h.table = host.table /\ h.plugin = host.plugin /\ h.doing = host.doing
  BY <1>1, OpenedKeeps
<1>3. PICK c \in Host!Calls(h, id) : g = Host!GuardKept(c, id)
  <2>1. Host!Initialised(l) = {Host!GuardKept(c, Len(h.lib)) : c \in Host!Calls(h, Len(h.lib))}
    BY <1>1 DEF Host!Initialised
  <2> HIDE DEF x
  <2> QED  BY <1>2, <2>1
<1> HIDE DEF x
<1>4. id \in 1 .. Len(h.lib) /\ id \in Host!Ids /\ h \in Host!HostType
  <2>1. host \in Host!HostType /\ Len(host.lib) \in Nat /\ MaxLoads \in Nat
    BY HostFacts DEF CoreInv
  <2> QED  BY <1>2, <2>1 DEF CoreInv, Host!Ids
<1> HIDE DEF id
<1>5. CoreInv(c, U \cup {id})
  BY <1>2, <1>3, <1>4, CallKeeps
<1>6. /\ c.lib = h.lib /\ c.guard = h.guard /\ c.again = h.again
      /\ c.table = h.table /\ c.plugin = h.plugin /\ c.doing = h.doing
  BY <1>3, <1>4, CallFacts
<1>7. OnlyOnce(c, id) => ~c.guard[c.lib[id]]
  BY <1>2, <1>6 DEF OnlyOnce
<1>8. id \in 1 .. Len(c.lib)
  BY <1>4, <1>6
<1>9. CoreInv(g, U \cup {id}) /\ g.lib = c.lib /\ g.table = c.table /\ g.plugin = c.plugin /\ g.doing = c.doing
  BY <1>3, <1>5, <1>7, <1>8, GuardKeeps
<1> QED  BY <1>2, <1>6, <1>9 DEF id

(* The words of a fixed program are taken in turn. *)
LEMMA RestFacts ==
  ASSUME NEW h \in Host!HostType
  PROVE  LET r == Host!Rest(h)
         IN  /\ r \in Host!HostType
             /\ r.lib = h.lib /\ r.count = h.count /\ r.table = h.table /\ r.plugin = h.plugin /\ r.doing = h.doing
             /\ r.guard = h.guard /\ r.mode = h.mode /\ r.live = h.live
             /\ r.stray = h.stray /\ r.left = h.left /\ r.again = h.again
<1>1. (IF h.todo = << >> THEN h.todo ELSE Tail(h.todo)) \in Seq({"load", "send", "unload"})
  BY DEF Host!HostType
<1> DEFINE w == IF h.todo = << >> THEN h.todo ELSE Tail(h.todo)
<1>2. Host!Rest(h) = [h EXCEPT !.todo = w] /\ w \in Seq({"load", "send", "unload"})
  BY <1>1 DEF Host!Rest
<1> HIDE DEF w
<1> QED  BY <1>2 DEF Host!HostType

LEMMA RestKeeps ==
  ASSUME NEW h, NEW U, CoreInv(h, U)
  PROVE  LET r == Host!Rest(h)
         IN  CoreInv(r, U) /\ r.table = h.table /\ r.plugin = h.plugin /\ r.doing = h.doing /\ r.live = h.live
                           /\ r.left = h.left
<1>1. PICK r : r = Host!Rest(h)
  OBVIOUS
<1>2. /\ r \in Host!HostType
      /\ r.lib = h.lib /\ r.count = h.count /\ r.table = h.table /\ r.plugin = h.plugin /\ r.doing = h.doing
      /\ r.live = h.live /\ r.stray = h.stray /\ r.left = h.left /\ r.again = h.again
  BY <1>1, RestFacts DEF CoreInv
<1>3. CoreInv(r, U)
  BY <1>2, CoreSame
<1> QED  BY <1>1, <1>2, <1>3

LEMMA UsedFacts ==
  ASSUME PluginInv(host)
  PROVE  /\ host \in Host!HostType /\ CoreInv(host, Used(host))
         /\ MaxLoads \in Nat /\ Len(host.lib) \in Nat /\ Host!NoId \notin Host!Ids
         /\ host.table \in [Names -> Host!Ids \cup {Host!NoId}] /\ host.plugin \in Host!Ids \cup {Host!NoId}
         /\ Used(host) \subseteq 1 .. Len(host.lib) /\ Used(host) \subseteq Host!Ids
         /\ \A n \in Names : host.table[n] # Host!NoId => host.table[n] \in Used(host)
         /\ host.plugin # Host!NoId => host.plugin \in Used(host)
         /\ host.plugin = Host!NoId <=> host.doing \in {"commands", "end"}
<1>1. host \in Host!HostType /\ CoreInv(host, Used(host))
  BY DEF PluginInv, CoreInv
<1>2. /\ MaxLoads \in Nat /\ Len(host.lib) \in Nat /\ Host!NoId \notin Host!Ids
      /\ host.table \in [Names -> Host!Ids \cup {Host!NoId}] /\ host.plugin \in Host!Ids \cup {Host!NoId}
  BY <1>1, HostFacts
<1>3. Used(host) \subseteq Host!Ids
  BY <1>2 DEF Used
<1> QED  BY <1>1, <1>2, <1>3 DEF CoreInv, Used, PluginInv, NamedOnce

LEMMA LoadKeeps ==
  ASSUME PluginInv(host), NEW n \in Names, NEW l \in Libs, Host!Load(n, l)
  PROVE  PluginInv(host')
<1> DEFINE id == Len(host.lib) + 1
           old == host.table[n]
           U == Used(host)
<1>1. PICK g \in Host!Initialised(l) : host' = Host!Rest(Host!Insert(g, n))
  BY DEF Host!Load
<1>2. Len(host.lib) < MaxLoads /\ host.doing = "commands" /\ host.plugin = Host!NoId
  BY UsedFacts DEF Host!Load, Host!Commands
<1>3. /\ CoreInv(g, U \cup {id}) /\ Len(g.lib) = id
      /\ g.table = host.table /\ g.plugin = host.plugin /\ g.doing = host.doing
  BY <1>1, <1>2, UsedFacts, LoadFacts
<1>4. g \in Host!HostType /\ id \in Host!Ids /\ id # Host!NoId /\ id \notin U /\ old \in Host!Ids \cup {Host!NoId}
  BY <1>2, <1>3, UsedFacts DEF CoreInv, Host!Ids, Host!NoId
<1>5. PICK h : h = Host!Insert(g, n)
  OBVIOUS
<1> DEFINE new == [g EXCEPT !.table[n] = id]
           doing == IF old = Host!NoId THEN "commands" ELSE "destroy"
<1>6. h = IF old = Host!NoId THEN new ELSE [new EXCEPT !.doing = "destroy", !.plugin = old]
  BY <1>3, <1>5 DEF Host!Insert
<1>7. /\ new \in Host!HostType /\ new.lib = g.lib /\ new.count = g.count /\ new.table = [g.table EXCEPT ![n] = id]
      /\ new.plugin = g.plugin /\ new.doing = g.doing /\ new.stray = g.stray /\ new.live = g.live
      /\ new.left = g.left /\ new.again = g.again
  <2> HIDE DEF id
  <2> QED  BY <1>3, <1>4 DEF Host!HostType
<1> HIDE DEF new, old, id, U
<1>8. /\ h \in Host!HostType /\ h.lib = g.lib /\ h.count = g.count /\ h.stray = g.stray /\ h.live = g.live
      /\ h.left = g.left /\ h.again = g.again
      /\ h.plugin = old /\ h.doing = doing /\ h.table = [host.table EXCEPT ![n] = id]
  <2>1. CASE old = Host!NoId
    BY <1>2, <1>3, <1>6, <1>7, <2>1
  <2>2. CASE old # Host!NoId
    BY <1>3, <1>4, <1>6, <1>7, <2>2 DEF Host!HostType
  <2> QED  BY <2>1, <2>2
<1>9. CoreInv(h, U \cup {id})
  BY <1>3, <1>8, CoreSame
<1>10. \A m \in Names : h.table[m] = IF m = n THEN id ELSE host.table[m]
  BY <1>8, UsedFacts
<1>11. Used(h) = U \cup {id}
  <2>1. \A x : x \in Used(h) <=> x # Host!NoId /\ (x = old \/ \E m \in Names : x = h.table[m])
    BY <1>8 DEF Used
  <2>2. \A x : x \in U <=> x # Host!NoId /\ \E m \in Names : x = host.table[m]
    BY <1>2 DEF Used, U
  <2>3. ASSUME NEW x, x \in Used(h)  PROVE x \in U \cup {id}
    BY <1>10, <2>1, <2>2, <2>3 DEF old
  <2>4. ASSUME NEW x, x \in U \cup {id}  PROVE x \in Used(h)
    <3>1. CASE x = id
      BY <1>4, <1>10, <2>1, <3>1
    <3>2. CASE x # id
      <4>1. PICK m \in Names : x = host.table[m] /\ x # Host!NoId
        BY <2>2, <2>4, <3>2
      <4>2. CASE m = n
        BY <2>1, <4>1, <4>2 DEF old
      <4>3. CASE m # n
        BY <1>10, <2>1, <4>1, <4>3
      <4> QED  BY <4>2, <4>3
    <3> QED  BY <3>1, <3>2
  <2> QED  BY <2>3, <2>4
<1>12. NamedOnce(h)
  <2>1. \A m \in Names : host.table[m] # id
    BY <1>4, UsedFacts DEF U
  <2>2. \A m, k \in Names : host.table[m] = host.table[k] => m = k \/ host.table[m] = Host!NoId
    BY DEF PluginInv, NamedOnce
  <2>3. \A m, k \in Names : h.table[m] = h.table[k] => m = k \/ h.table[m] = Host!NoId
    BY <1>10, <2>1, <2>2
  <2>4. \A m \in Names : h.table[m] = h.plugin => h.table[m] = Host!NoId
    BY <1>8, <1>10, <2>1, <2>2 DEF old
  <2>5. h.plugin = Host!NoId <=> h.doing \in {"commands", "end"}
    BY <1>8
  <2> QED  BY <1>8, <2>3, <2>4, <2>5 DEF NamedOnce
<1>13. PICK r : r = Host!Rest(h)
  OBVIOUS
<1>14. CoreInv(r, U \cup {id}) /\ r.table = h.table /\ r.plugin = h.plugin /\ r.doing = h.doing
  BY <1>9, <1>13, RestKeeps
<1>15. Used(r) = U \cup {id} /\ NamedOnce(r) /\ DestroyLeaves(r)
  BY <1>8, <1>11, <1>12, <1>14 DEF Used, NamedOnce, DestroyLeaves
<1> QED  BY <1>1, <1>5, <1>13, <1>14, <1>15 DEF PluginInv

LEMMA LoadFailsKeeps ==
  ASSUME PluginInv(host), NEW l \in Libs, Host!LoadFails(l)
  PROVE  PluginInv(host')
<1> DEFINE id == Len(host.lib) + 1
           U == Used(host)
<1>1. PICK g \in Host!Initialised(l) :
        host' = Host!Rest(Host!Closed(Host!Leaves(g, Len(g.lib)), Len(g.lib)))
  BY DEF Host!LoadFails
<1>2. Len(host.lib) < MaxLoads /\ host.doing = "commands"
  BY DEF Host!LoadFails, Host!Commands
<1>3. /\ CoreInv(g, U \cup {id}) /\ Len(g.lib) = id
      /\ g.table = host.table /\ g.plugin = host.plugin /\ g.doing = host.doing
  BY <1>1, <1>2, UsedFacts, LoadFacts
<1>4. id \in Host!Ids /\ id \notin U
  BY <1>2, UsedFacts DEF Host!Ids
<1> HIDE DEF id, U
<1>5. PICK k : k = Host!Leaves(g, id)
  OBVIOUS
<1>6. /\ CoreInv(k, U \cup {id}) /\ \A v \in k.live : v.of = id => id \in k.left
      /\ k.lib = g.lib /\ k.table = g.table /\ k.plugin = g.plugin /\ k.doing = g.doing
  <2>1. /\ CoreInv(k, U \cup {id}) /\ \A v \in k.live : v.of = id => id \in k.left
        /\ k.lib = g.lib /\ k.table = g.table /\ k.plugin = g.plugin /\ k.doing = g.doing
    BY <1>3, <1>4, <1>5, LeavesKeeps
  <2> QED  BY <2>1
<1>7. PICK h : h = Host!Closed(k, id)
  OBVIOUS
<1>8. CoreInv(h, U)
  <2>1. CoreInv(h, (U \cup {id}) \ {id})
    BY <1>6, <1>7, ClosedKeeps
  <2>2. (U \cup {id}) \ {id} = U
    BY <1>4
  <2> QED  BY <2>1, <2>2
<1>9. h.table = host.table /\ h.plugin = host.plugin /\ h.doing = host.doing
  <2>1. k \in Host!HostType /\ id <= Len(k.lib)
    BY <1>3, <1>4, <1>6 DEF CoreInv, Host!Ids
  <2>2. h.table = k.table /\ h.plugin = k.plugin /\ h.doing = k.doing
    BY <1>4, <1>7, <2>1, ClosedFacts
  <2> QED  BY <1>3, <1>6, <2>2
<1>10. PICK r : r = Host!Rest(h)
  OBVIOUS
<1>11. CoreInv(r, U) /\ r.table = host.table /\ r.plugin = host.plugin /\ r.doing = host.doing
  BY <1>8, <1>9, <1>10, RestKeeps
<1>12. Used(r) = U /\ NamedOnce(r) /\ DestroyLeaves(r)
  BY <1>2, <1>11 DEF Used, U, NamedOnce, DestroyLeaves, PluginInv
<1> QED  BY <1>1, <1>3, <1>5, <1>7, <1>10, <1>11, <1>12 DEF PluginInv

LEMMA SendKeeps ==
  ASSUME PluginInv(host), NEW n \in Names, Host!Send(n)
  PROVE  PluginInv(host')
<1> DEFINE id == host.table[n]
           U == Used(host)
<1>1. PICK c \in Host!Calls(host, id), waits \in BOOLEAN :
        host' = IF waits THEN [Host!Rest(c) EXCEPT !.doing = "wait", !.plugin = id] ELSE Host!Rest(c)
  BY DEF Host!Send
<1>2. /\ host.doing = "commands" /\ host.plugin = Host!NoId /\ id \in Host!Ids /\ id # Host!NoId /\ id \in U
      /\ CoreInv(host, U) /\ id \in 1 .. Len(host.lib) /\ host \in Host!HostType
  BY UsedFacts DEF Host!Send, Host!Commands
<1> HIDE DEF id
<1>3. CoreInv(c, U) /\ c.table = host.table /\ c.plugin = host.plugin /\ c.doing = host.doing
  BY <1>1, <1>2, CallKeeps, CallFacts
<1>4. PICK r : r = Host!Rest(c)
  OBVIOUS
<1>5. CoreInv(r, U) /\ r.table = host.table /\ r.plugin = host.plugin /\ r.doing = host.doing
  BY <1>3, <1>4, RestKeeps
<1>6. CASE waits
  <2> DEFINE w == [r EXCEPT !.doing = "wait", !.plugin = id]
  <2>1. /\ w \in Host!HostType /\ w.doing = "wait" /\ w.plugin = id /\ w.lib = r.lib /\ w.count = r.count
        /\ w.table = r.table /\ w.stray = r.stray /\ w.live = r.live /\ w.left = r.left /\ w.again = r.again
        /\ host' = w
    BY <1>1, <1>2, <1>4, <1>5, <1>6 DEF CoreInv, Host!HostType
  <2> HIDE DEF w
  <2>2. CoreInv(w, U)
    BY <1>5, <2>1, CoreSame
  <2>3. Used(w) = U
    BY <1>2, <1>5, <2>1 DEF Used, U
  <2>4. NamedOnce(w)
    BY <1>2, <1>5, <2>1 DEF PluginInv, NamedOnce, id
  <2>5. DestroyLeaves(w)
    BY <2>1 DEF DestroyLeaves
  <2> QED  BY <2>1, <2>2, <2>3, <2>4, <2>5 DEF PluginInv
<1>7. CASE ~waits
  <2>1. Used(r) = U /\ NamedOnce(r) /\ DestroyLeaves(r)
    BY <1>2, <1>5 DEF Used, U, NamedOnce, DestroyLeaves, PluginInv
  <2> QED  BY <1>1, <1>4, <1>5, <1>7, <2>1 DEF PluginInv
<1> QED  BY <1>6, <1>7

LEMMA PollTaskKeeps ==
  ASSUME PluginInv(host), NEW id \in Host!Ids, Host!PollTask(id)
  PROVE  PluginInv(host')
<1> DEFINE U == Used(host)
<1>1. PICK v \in host.live : v.of = id
  BY DEF Host!PollTask, Host!TasksOf, Host!Of
<1>2. CoreInv(host, U) /\ host.doing \in {"wait", "commands"} /\ host \in Host!HostType
  BY UsedFacts DEF Host!PollTask
<1>3. id \in 1 .. Len(host.lib) /\ (OnlyOnce(host, id) => id \in U \cup host.left)
  BY <1>1, <1>2, UsedFacts DEF CoreInv, LiveIsUsed, Host!Ids
<1>4. PICK c \in Host!Calls(host, id) : host' = c
  BY DEF Host!PollTask
<1>5. CoreInv(c, U)
  BY <1>2, <1>3, <1>4, CallKeeps
<1>6. c.table = host.table /\ c.plugin = host.plugin /\ c.doing = host.doing
  BY <1>2, <1>4, CallFacts
<1>7. Used(c) = U /\ NamedOnce(c) /\ DestroyLeaves(c)
  BY <1>2, <1>6 DEF Used, U, NamedOnce, DestroyLeaves, PluginInv
<1> QED  BY <1>4, <1>5, <1>7 DEF PluginInv

(* Steps that change which plugin is waited for or torn down only. *)
LEMMA TurnKeeps ==
  ASSUME NEW h, PluginInv(h), NEW g \in Host!HostType,
         g.lib = h.lib, g.count = h.count, g.live = h.live,
         g.stray = h.stray, g.left = h.left, g.again = h.again,
         Used(g) = Used(h), NamedOnce(g), g.doing \notin {"tasks", "resources", "close"}
  PROVE  PluginInv(g)
<1>1. CoreInv(g, Used(h))
  BY CoreSame DEF PluginInv
<1> QED  BY <1>1 DEF PluginInv, DestroyLeaves

LEMMA WaitEndsKeeps ==
  ASSUME PluginInv(host), Host!WaitEnds \/ Host!EndOfScript
  PROVE  PluginInv(host')
<1>1. host \in Host!HostType
  BY UsedFacts
<1>2. /\ host' \in Host!HostType /\ host'.plugin = Host!NoId /\ host'.doing \in {"commands", "end"}
      /\ host'.lib = host.lib /\ host'.count = host.count /\ host'.table = host.table
      /\ host'.stray = host.stray /\ host'.live = host.live /\ host'.left = host.left /\ host'.again = host.again
      /\ host.doing \in {"wait", "commands"}
  <2>1. CASE Host!WaitEnds
    BY <1>1, <2>1 DEF Host!WaitEnds, Host!HostType, Host!NoId
  <2>2. CASE Host!EndOfScript
    BY <1>1, <2>2, UsedFacts DEF Host!EndOfScript, Host!HostType
  <2> QED  BY <2>1, <2>2
<1>3. Used(host') = Used(host)
  BY <1>2 DEF Used, PluginInv, NamedOnce
<1>4. NamedOnce(host')
  BY <1>2 DEF PluginInv, NamedOnce
<1> QED  BY <1>2, <1>3, <1>4, TurnKeeps

LEMMA UnloadKeeps ==
  ASSUME PluginInv(host), NEW n \in Names, Host!Unload(n) \/ Host!Cleanup(n)
  PROVE  PluginInv(host')
<1> DEFINE id == host.table[n]
<1>1. PICK h : h = IF Host!Unload(n) THEN Host!Rest(host) ELSE [host EXCEPT !.mode = "over"]
  OBVIOUS
<1>2. host \in Host!HostType /\ host.plugin = Host!NoId /\ id \in Host!Ids /\ Host!NoId \notin Host!Ids
  BY UsedFacts DEF Host!Unload, Host!Cleanup, Host!Commands
<1>3. /\ h \in Host!HostType /\ h.lib = host.lib /\ h.count = host.count /\ h.table = host.table
      /\ h.stray = host.stray /\ h.live = host.live /\ h.left = host.left /\ h.again = host.again
  <2>1. CASE Host!Unload(n)
    BY <1>1, <1>2, <2>1, RestFacts
  <2>2. CASE ~Host!Unload(n)
    BY <1>1, <1>2, <2>2 DEF Host!HostType
  <2> QED  BY <2>1, <2>2
<1>4. host' = [h EXCEPT !.doing = "destroy", !.plugin = id, !.table[n] = Host!NoId]
  <2>1. CASE Host!Unload(n)
    BY <1>1, <2>1 DEF Host!Unload
  <2>2. CASE ~Host!Unload(n)
    BY <1>1, <1>2, <2>2 DEF Host!Cleanup, Host!HostType
  <2> QED  BY <2>1, <2>2
<1> HIDE DEF id
<1>5. /\ host' \in Host!HostType /\ host'.plugin = id /\ host'.doing = "destroy"
      /\ host'.lib = host.lib /\ host'.count = host.count /\ host'.stray = host.stray /\ host'.live = host.live
      /\ host'.left = host.left /\ host'.again = host.again
      /\ \A m \in Names : host'.table[m] = IF m = n THEN Host!NoId ELSE host.table[m]
  BY <1>2, <1>3, <1>4 DEF Host!HostType
<1>6. Used(host') = Used(host)
  <2>1. \A x : x \in Used(host') <=> x # Host!NoId /\ (x = id \/ \E m \in Names : x = host'.table[m])
    BY <1>5 DEF Used
  <2>2. \A x : x \in Used(host) <=> x # Host!NoId /\ \E m \in Names : x = host.table[m]
    BY <1>2 DEF Used
  <2>3. ASSUME NEW x, x \in Used(host')  PROVE x \in Used(host)
    BY <1>5, <2>1, <2>2, <2>3 DEF id
  <2>4. ASSUME NEW x, x \in Used(host)  PROVE x \in Used(host')
    <3>1. PICK m \in Names : x = host.table[m] /\ x # Host!NoId
      BY <2>2, <2>4
    <3>2. CASE m = n
      BY <2>1, <3>1, <3>2 DEF id
    <3>3. CASE m # n
      BY <1>5, <2>1, <3>1, <3>3
    <3> QED  BY <3>2, <3>3
  <2> QED  BY <2>3, <2>4
<1>7. NamedOnce(host')
  BY <1>2, <1>5 DEF PluginInv, NamedOnce, id
<1> QED  BY <1>5, <1>6, <1>7, TurnKeeps

LEMMA DestroyKeeps ==
  ASSUME PluginInv(host), Host!Destroy
  PROVE  PluginInv(host')
<1> DEFINE id == host.plugin
           U == Used(host)
<1>1. PICK c \in Host!Calls(host, id) : host' = [Host!Leaves(c, id) EXCEPT !.doing = "tasks"]
  BY DEF Host!Destroy
<1>2. /\ host \in Host!HostType /\ host.doing = "destroy" /\ id # Host!NoId /\ id \in Host!Ids /\ id \in U
      /\ CoreInv(host, U) /\ id \in 1 .. Len(host.lib)
  BY UsedFacts DEF Host!Destroy
<1>3. CoreInv(c, U) /\ c.plugin = id /\ c.table = host.table
  BY <1>1, <1>2, CallKeeps, CallFacts
<1>4. PICK k : k = Host!Leaves(c, id)
  OBVIOUS
<1> HIDE DEF id, U
<1>5. /\ CoreInv(k, U) /\ \A v \in k.live : v.of = id => id \in k.left
      /\ k.table = c.table /\ k.plugin = c.plugin
  BY <1>2, <1>3, <1>4, LeavesKeeps
<1>6. /\ host' \in Host!HostType /\ host'.plugin = id /\ host'.doing = "tasks" /\ host'.table = host.table
      /\ host'.lib = k.lib /\ host'.count = k.count /\ host'.stray = k.stray /\ host'.live = k.live
      /\ host'.left = k.left /\ host'.again = k.again
  BY <1>1, <1>3, <1>4, <1>5 DEF CoreInv, Host!HostType
<1>7. CoreInv(host', U)
  BY <1>5, <1>6, CoreSame
<1>8. Used(host') = U
  BY <1>6 DEF Used, U, id
<1>9. NamedOnce(host')
  BY <1>2, <1>6 DEF PluginInv, NamedOnce, id
<1>10. DestroyLeaves(host')
  BY <1>5, <1>6 DEF DestroyLeaves
<1> QED  BY <1>7, <1>8, <1>9, <1>10 DEF PluginInv

(* Dropping what is tagged removes it; a destructor that is no longer      *)
(* mapped is one of a value that was left behind.                          *)
LEMMA DropKeeps ==
  ASSUME PluginInv(host), Host!DropTasks \/ Host!DropResources
  PROVE  PluginInv(host')
<1> DEFINE U == Used(host)
<1>1. PICK kind \in {"task", "resource"}, next \in {"resources", "close"} :
        host.doing \in {"tasks", "resources"} /\ Host!Drop(kind, next)
  BY DEF Host!DropTasks, Host!DropResources
<1>2. host \in Host!HostType /\ CoreInv(host, U)
  BY UsedFacts
<1> DEFINE L == host.live \ Host!Tagged(kind)
           D == {v.of : v \in {w \in Host!Tagged(kind) : ~Host!Mapped(host, w.of)}}
           S == host.stray \cup D
<1>3. \A id \in D : \E v \in host.live : id = v.of /\ ~Host!Mapped(host, id)
  BY DEF Host!Tagged
<1>4. S \subseteq Host!Ids
  BY <1>2, <1>3, HostFacts
<1>5. host' = [host EXCEPT !.live = L, !.doing = next, !.stray = S] /\ L \subseteq host.live
  BY <1>1 DEF Host!Drop
<1> HIDE DEF L, S
<1>6. /\ host' \in Host!HostType /\ host'.plugin = host.plugin /\ host'.doing = next /\ host'.table = host.table
      /\ host'.lib = host.lib /\ host'.count = host.count /\ host'.stray = S /\ host'.live = L
      /\ host'.left = host.left /\ host'.again = host.again
  BY <1>1, <1>2, <1>4, <1>5 DEF Host!HostType
<1>7. \A id : OnlyOnce(host', id) <=> OnlyOnce(host, id)
  BY <1>6 DEF OnlyOnce
<1>8. OpenForOne(host', U)
  BY <1>2, <1>6, <1>7 DEF CoreInv, OpenForOne
<1>9. ASSUME NEW id \in D  PROVE id <= Len(host.lib) /\ (OnlyOnce(host, id) => id \in host.left)
  <2>1. PICK v \in host.live : id = v.of /\ ~Host!Mapped(host, id)
    BY <1>3
  <2>2. v.of <= Len(host.lib) /\ (OnlyOnce(host, id) => id \in U \cup host.left)
    BY <1>2, <2>1 DEF CoreInv, LiveIsUsed
  <2>3. OnlyOnce(host, id) /\ id \in U => Host!Mapped(host, id)
    BY <1>2 DEF CoreInv, OpenForOne, Host!Mapped
  <2> QED  BY <2>1, <2>2, <2>3
<1>10. LiveIsUsed(host', U)
  <2>1. \A v \in host'.live : v.of <= Len(host'.lib) /\ (OnlyOnce(host', v.of) => v.of \in U \cup host'.left)
    BY <1>2, <1>5, <1>6, <1>7 DEF CoreInv, LiveIsUsed
  <2>2. \A id \in S : id <= Len(host.lib) /\ (OnlyOnce(host, id) => id \in host.left)
    BY <1>2, <1>9 DEF CoreInv, LiveIsUsed, S
  <2> HIDE DEF U, D
  <2> QED  BY <1>6, <1>7, <2>1, <2>2 DEF LiveIsUsed
<1>11. CoreInv(host', U)
  BY <1>2, <1>6, <1>8, <1>10 DEF CoreInv
<1>12. Used(host') = U
  BY <1>6 DEF Used
<1>13. NamedOnce(host')
  <2>1. host.plugin # Host!NoId /\ host'.doing \notin {"wait", "commands", "end"} /\ host.doing # "wait"
    BY <1>1, <1>6, UsedFacts
  <2> QED  BY <1>6, <2>1 DEF PluginInv, NamedOnce
<1>14. DestroyLeaves(host')
  BY <1>1, <1>5, <1>6 DEF PluginInv, DestroyLeaves
<1> QED  BY <1>11, <1>12, <1>13, <1>14 DEF PluginInv

LEMMA CloseKeeps ==
  ASSUME PluginInv(host), Host!Close
  PROVE  PluginInv(host')
<1> DEFINE id == host.plugin
           U == Used(host)
           next == IF host.mode = "over" THEN "end" ELSE "commands"
<1>1. PICK c : c = Host!Closed(host, id)
  OBVIOUS
<1>2. /\ host \in Host!HostType /\ host.doing = "close" /\ id # Host!NoId /\ id \in Host!Ids /\ id \in U
      /\ Host!NoId \notin Host!Ids /\ CoreInv(host, U) /\ id <= Len(host.lib)
  BY UsedFacts DEF Host!Close
<1>3. \A v \in host.live : v.of = id => id \in host.left
  BY <1>2 DEF PluginInv, DestroyLeaves
<1>4. CoreInv(c, U \ {id})
  BY <1>1, <1>2, <1>3, ClosedKeeps
<1>5. c.table = host.table
  BY <1>1, <1>2, ClosedFacts
<1>6. host' = [c EXCEPT !.doing = next, !.plugin = Host!NoId]
  BY <1>1 DEF Host!Close
<1> HIDE DEF id, next
<1>7. /\ host' \in Host!HostType /\ host'.plugin = Host!NoId /\ host'.doing \in {"end", "commands"}
      /\ host'.lib = c.lib /\ host'.count = c.count /\ host'.stray = c.stray /\ host'.live = c.live
      /\ host'.left = c.left /\ host'.again = c.again /\ host'.table = host.table
  <2>1. next \in {"end", "commands"}
    BY DEF next
  <2>2. c \in Host!HostType
    BY <1>4 DEF CoreInv
  <2> QED  BY <1>5, <1>6, <2>1, <2>2 DEF Host!HostType
<1>8. CoreInv(host', U \ {id})
  BY <1>4, <1>7, CoreSame
<1>9. \A n \in Names : host.table[n] # id
  BY <1>2 DEF PluginInv, NamedOnce, id
<1>10. Used(host') = U \ {id}
  BY <1>7, <1>9 DEF Used, id
<1>11. NamedOnce(host')
  BY <1>7 DEF PluginInv, NamedOnce
<1>12. DestroyLeaves(host')
  BY <1>7 DEF DestroyLeaves
<1> QED  BY <1>8, <1>10, <1>11, <1>12 DEF PluginInv

LEMMA PluginNext ==
  ASSUME PluginInv(host), [Host!Next]_host
  PROVE  PluginInv(host')
<1>1. CASE UNCHANGED host
  BY <1>1
<1> QED  BY <1>1, LoadKeeps, LoadFailsKeeps, SendKeeps, UnloadKeeps, PollTaskKeeps, WaitEndsKeeps, DestroyKeeps,
            DropKeeps, CloseKeeps DEF Host!Next

LEMMA AtMostOneCount ==
  ASSUME NEW S, NEW P, P = (S # {}), \A x, y \in S : x = y
  PROVE  Cardinality(S) = IF P THEN 1 ELSE 0
<1>1. CASE S = {}
  BY <1>1, FS_EmptySet
<1>2. CASE S # {}
  <2>1. PICK x : S = {x}
    BY <1>2
  <2> QED  BY <1>2, <2>1, FS_Singleton
<1> QED  BY <1>1, <1>2

LEMMA PluginsAreSafe ==
  ASSUME PluginInv(host)
  PROVE  Host!OnlyLeftoversDangle /\ Host!HandlesAreExact
<1> DEFINE U == Used(host)
<1>1. CoreInv(host, U) /\ Host!InUse \ {Host!NoId} = U
  BY UsedFacts DEF Host!InUse, Used
<1>2. \A id : Host!Once(id) <=> OnlyOnce(host, id)
  BY DEF Host!Once, OnlyOnce
<1> HIDE DEF U
<1>3. Host!OnlyLeftoversDangle
  <2>1. \A id \in U : OnlyOnce(host, id) => Host!Mapped(host, id)
    BY <1>1 DEF CoreInv, OpenForOne, Host!Mapped
  <2>2. \A v \in host.live : OnlyOnce(host, v.of) => v.of \in U \cup host.left
    BY <1>1 DEF CoreInv, LiveIsUsed
  <2>3. \A id \in host.stray : OnlyOnce(host, id) => id \in host.left
    BY <1>1 DEF CoreInv, LiveIsUsed
  <2> QED  BY <1>1, <1>2, <2>1, <2>2, <2>3 DEF Host!OnlyLeftoversDangle
<1>4. ASSUME NEW l \in Libs \ host.again
      PROVE  host.count[l] = Cardinality({id \in Host!InUse \ {Host!NoId} : host.lib[id] = l})
  <2> DEFINE S == {id \in Host!InUse \ {Host!NoId} : host.lib[id] = l}
  <2>1. \A id : id \in S <=> id \in U /\ host.lib[id] = l
    BY <1>1
  <2> HIDE DEF S
  <2>5. \A id \in S : id \in U /\ OnlyOnce(host, id) /\ host.lib[id] = l
    BY <2>1 DEF OnlyOnce
  <2>2. ASSUME NEW id \in S, NEW jd \in S  PROVE id = jd
    <3>1. OnlyOnce(host, id) /\ host.lib[id] = host.lib[jd] /\ id \in U /\ jd \in U
      BY <2>5
    <3> QED  BY <1>1, <3>1 DEF CoreInv, OpenForOne
  <2>3. host.count[l] = IF S # {} THEN 1 ELSE 0
    <3>1. host.count[l] \in {0, 1} /\ (host.count[l] = 1 => S # {})
      BY <1>1, <2>1 DEF CoreInv, OpenForOne
    <3>2. ASSUME NEW id \in S  PROVE host.count[l] = 1
      <4>1. OnlyOnce(host, id) /\ host.lib[id] = l /\ id \in U
        BY <2>5
      <4> QED  BY <1>1, <4>1 DEF CoreInv, OpenForOne
    <3> QED  BY <3>1, <3>2
  <2>4. Cardinality(S) = IF S # {} THEN 1 ELSE 0
    BY <2>2, AtMostOneCount
  <2> QED  BY <2>3, <2>4 DEF S
<1>5. \A S : Host!Cardinality(S) = Cardinality(S)
  BY DEF Host!Cardinality, Cardinality
<1> QED  BY <1>3, <1>4, <1>5 DEF Host!HandlesAreExact

-----------------------------------------------------------------------------
(* Guards of libraries *)

Given(g, v) == g.value[v] # Guards!None /\ g.value[v].clones > 0
Busy(g, t)  == g.thread[t] # Guards!None

(* The threads that hold the guard of a clone they took apart, and the     *)
(* clones that are there.                                                  *)
Dropping(g, l) == {t \in Threads : Busy(g, t) /\ g.thread[t].of = l /\ g.thread[t].doing # "call"}
Clones(g, l) == {p \in Guarded \X (1 .. MaxClones) :
                   g.value[p[1]] # Guards!None /\ g.value[p[1]].of = l /\ p[2] <= g.value[p[1]].clones}

UsedIn(g, l) ==
  \/ \E v \in Guarded : Given(g, v) /\ g.value[v].of = l
  \/ \E t \in Threads : Busy(g, t) /\ g.thread[t].of = l

Counted(g, l) ==
  g.refs[l] = (IF l \in Loaded /\ l \in g.opened THEN 1 ELSE 0) + g.loose[l]
                + Cardinality(Dropping(g, l)) + Cardinality(Clones(g, l))

(* The last guard closes a library that the host did not load; the host    *)
(* one of its own, once, and early if it is used then.                     *)
ClosedRight(g, l) ==
  /\ l \notin g.opened => g.refs[l] = 0 /\ g.closes[l] = 0 /\ ~UsedIn(g, l)
  /\ l \in g.opened /\ l \notin Loaded => g.closes[l] = IF g.refs[l] = 0 THEN 1 ELSE 0
  /\ l \in Loaded => g.closes[l] <= 1 /\ (UsedIn(g, l) => g.closes[l] = 0 \/ l \in g.early)

(* A call borrows a clone. *)
CallBorrows(g) ==
  \A t \in Threads : Busy(g, t) /\ g.thread[t].doing = "call" =>
    Given(g, g.thread[t].value) /\ g.value[g.thread[t].value].of = g.thread[t].of

GuardInv(g) ==
  /\ g \in Guards!GuardType /\ g.stray \subseteq g.early /\ CallBorrows(g)
  /\ \A l \in Libs : Counted(g, l) /\ ClosedRight(g, l)

LEMMA GuardFacts ==
  ASSUME NEW g \in Guards!GuardType
  PROVE  /\ MaxClones \in Nat \ {0} /\ IsFiniteSet(Guarded) /\ IsFiniteSet(Threads)
         /\ g.refs \in [Libs -> Nat] /\ g.closes \in [Libs -> 0 .. 2] /\ g.loose \in [Libs -> Nat]
         /\ g.opened \subseteq Libs /\ g.stray \subseteq Libs /\ g.early \subseteq Libs
         /\ \A v \in Guarded : g.value[v] # Guards!None =>
              /\ g.value[v] \in [of : Libs, kind : Guards!Kinds, clones : 0 .. MaxClones]
              /\ g.value[v].of \in Libs /\ g.value[v].clones \in 0 .. MaxClones
         /\ \A t \in Threads : Busy(g, t) =>
              /\ g.thread[t] \in [of : Libs, value : Guarded, doing : {"call", "code", "guard"}]
              /\ g.thread[t].of \in Libs /\ g.thread[t].value \in Guarded
              /\ g.thread[t].doing \in {"call", "code", "guard"}
<1>1. \A S : Guards!IsFiniteSet(S) <=> IsFiniteSet(S)
  BY DEF Guards!IsFiniteSet, IsFiniteSet
<1>2. MaxClones \in Nat \ {0} /\ IsFiniteSet(Guarded) /\ IsFiniteSet(Threads)
  BY <1>1, HostAssumption DEF HostAssumption, Guards!GuardAssumption
<1>3. /\ g.refs \in [Libs -> Nat] /\ g.closes \in [Libs -> 0 .. 2] /\ g.loose \in [Libs -> Nat]
      /\ g.opened \subseteq Libs /\ g.stray \subseteq Libs /\ g.early \subseteq Libs
  BY DEF Guards!GuardType
<1>4. \A v \in Guarded : g.value[v] # Guards!None =>
        g.value[v] \in [of : Libs, kind : Guards!Kinds, clones : 0 .. MaxClones]
  BY DEF Guards!GuardType
<1>5. \A t \in Threads : Busy(g, t) =>
        g.thread[t] \in [of : Libs, value : Guarded, doing : {"call", "code", "guard"}]
  BY DEF Guards!GuardType, Busy
<1> QED  BY <1>2, <1>3, <1>4, <1>5

LEMMA SetsAreFinite ==
  ASSUME NEW g \in Guards!GuardType, NEW l
  PROVE  /\ IsFiniteSet(Dropping(g, l)) /\ IsFiniteSet(Clones(g, l))
         /\ Cardinality(Dropping(g, l)) \in Nat /\ Cardinality(Clones(g, l)) \in Nat
<1>1. IsFiniteSet(Dropping(g, l))
  BY GuardFacts, FS_Subset DEF Dropping
<1>2. IsFiniteSet(Clones(g, l))
  <2>1. IsFiniteSet(1 .. MaxClones)
    BY GuardFacts, FS_Interval
  <2>2. IsFiniteSet(Guarded \X (1 .. MaxClones))
    BY <2>1, GuardFacts, FS_Product
  <2> QED  BY <2>2, FS_Subset DEF Clones
<1> QED  BY <1>1, <1>2, FS_CardinalityType

(* A library that is used has a counted guard, and is mapped or was        *)
(* unloaded early.                                                         *)
LEMMA UsedIsCounted ==
  ASSUME NEW g, GuardInv(g), NEW l \in Libs, UsedIn(g, l)
  PROVE  /\ l \in g.opened /\ (g.closes[l] = 0 \/ (l \in Loaded /\ l \in g.early))
         /\ g.refs[l] > (IF l \in Loaded THEN 1 ELSE 0) + g.loose[l]
<1>1. g \in Guards!GuardType
  BY DEF GuardInv
<1>2. l \in g.opened
  BY DEF GuardInv, ClosedRight
<1>3. Dropping(g, l) # {} \/ Clones(g, l) # {}
  <2>1. ASSUME NEW v \in Guarded, Given(g, v), g.value[v].of = l  PROVE Clones(g, l) # {}
    <3>1. <<v, 1>> \in Clones(g, l)
      BY <1>1, <2>1, GuardFacts DEF Clones, Given
    <3> QED  BY <3>1
  <2>2. ASSUME NEW t \in Threads, Busy(g, t), g.thread[t].of = l, g.thread[t].doing = "call"
        PROVE  Clones(g, l) # {}
    BY <1>1, <2>1, <2>2, GuardFacts DEF GuardInv, CallBorrows
  <2> QED  BY <2>1, <2>2 DEF UsedIn, Dropping
<1>4. Cardinality(Dropping(g, l)) + Cardinality(Clones(g, l)) > 0
  BY <1>1, <1>3, SetsAreFinite, FS_EmptySet
<1>5. g.refs[l] > (IF l \in Loaded THEN 1 ELSE 0) + g.loose[l]
  BY <1>1, <1>2, <1>4, SetsAreFinite, GuardFacts DEF GuardInv, Counted
<1> QED  BY <1>1, <1>2, <1>5, GuardFacts DEF GuardInv, ClosedRight

LEMMA GuardInit ==
  ASSUME Guards!Init
  PROVE  GuardInv(grd)
<1>1. grd \in Guards!GuardType /\ grd.stray \subseteq grd.early
  BY DEF Guards!Init, Guards!GuardType
<1>2. /\ \A l \in Libs : grd.refs[l] = 0 /\ grd.closes[l] = 0 /\ grd.loose[l] = 0
      /\ \A v \in Guarded : grd.value[v] = Guards!None
      /\ \A t \in Threads : grd.thread[t] = Guards!None
      /\ grd.opened = {}
  BY DEF Guards!Init
<1>3. \A l : Dropping(grd, l) = {} /\ Clones(grd, l) = {} /\ ~UsedIn(grd, l)
  BY <1>2 DEF Dropping, Clones, UsedIn, Busy, Given
<1>4. CallBorrows(grd)
  BY <1>2 DEF CallBorrows, Busy
<1> QED  BY <1>1, <1>2, <1>3, <1>4, FS_EmptySet DEF GuardInv, Counted, ClosedRight

(* Dropping a guard that is counted closes the library at most once. *)
LEMMA DecrementFacts ==
  ASSUME NEW g \in Guards!GuardType, NEW l \in Libs, g.refs[l] > 0, g.refs[l] = 1 => g.closes[l] = 0
  PROVE  LET d == Guards!Decremented(g, l)
         IN  /\ d \in Guards!GuardType
             /\ d.refs = [g.refs EXCEPT ![l] = @ - 1]
             /\ d.closes = [g.closes EXCEPT ![l] = IF g.refs[l] = 1 THEN 1 ELSE @]
             /\ d.opened = g.opened /\ d.loose = g.loose /\ d.value = g.value /\ d.thread = g.thread
             /\ d.stray = g.stray /\ d.early = g.early
<1> DEFINE R == [g.refs EXCEPT ![l] = @ - 1]
           C == [g.closes EXCEPT ![l] = IF g.refs[l] = 1 THEN 1 ELSE @]
<1>1. R \in [Libs -> Nat] /\ C \in [Libs -> 0 .. 2]
  BY GuardFacts
<1>2. Guards!Decremented(g, l) = [g EXCEPT !.refs = R, !.closes = C]
  <2>1. (IF g.refs[l] = 1 THEN g.closes[l] + 1 ELSE g.closes[l]) = IF g.refs[l] = 1 THEN 1 ELSE g.closes[l]
    OBVIOUS
  <2> QED  BY <2>1 DEF Guards!Decremented, Guards!GuardType
<1> HIDE DEF R, C
<1>3. /\ Guards!Decremented(g, l) \in Guards!GuardType
      /\ Guards!Decremented(g, l).refs = R /\ Guards!Decremented(g, l).closes = C
  BY <1>1, <1>2 DEF Guards!GuardType
<1>4. LET d == Guards!Decremented(g, l)
      IN  /\ d.opened = g.opened /\ d.loose = g.loose /\ d.value = g.value /\ d.thread = g.thread
          /\ d.stray = g.stray /\ d.early = g.early
  BY <1>2 DEF Guards!GuardType
<1> QED  BY <1>3, <1>4 DEF R, C

LEMMA SameValues ==
  ASSUME NEW g, NEW h, g.value = h.value, g.thread = h.thread
  PROVE  /\ \A l : Dropping(g, l) = Dropping(h, l) /\ Clones(g, l) = Clones(h, l) /\ (UsedIn(g, l) <=> UsedIn(h, l))
         /\ CallBorrows(g) <=> CallBorrows(h)
BY DEF Dropping, Clones, UsedIn, Given, Busy, CallBorrows

(* Steps on the guards of a library that no value has. *)
LEMMA OpenKeeps ==
  ASSUME GuardInv(grd), NEW l \in Libs, Guards!Open(l)
  PROVE  GuardInv(grd')
<1>1. grd \in Guards!GuardType
  BY DEF GuardInv
<1>2. /\ grd' \in Guards!GuardType /\ grd'.value = grd.value /\ grd'.thread = grd.thread /\ grd'.stray = grd.stray /\ grd'.early = grd.early
      /\ grd'.opened = grd.opened \cup {l} /\ grd'.closes = grd.closes
      /\ grd'.refs = [grd.refs EXCEPT ![l] = 1]
      /\ grd'.loose = [grd.loose EXCEPT ![l] = IF l \in Loaded THEN 0 ELSE 1]
  BY <1>1 DEF Guards!Open, Guards!GuardType
<1>3. l \notin grd.opened
  BY DEF Guards!Open
<1>4. CallBorrows(grd')
  BY <1>2, SameValues DEF GuardInv
<1>5. \A k : Dropping(grd', k) = Dropping(grd, k) /\ Clones(grd', k) = Clones(grd, k) /\ (UsedIn(grd', k) <=> UsedIn(grd, k))
  BY <1>2, SameValues
<1>6. ASSUME NEW k \in Libs, k # l
      PROVE  Counted(grd', k) /\ ClosedRight(grd', k)
  BY <1>1, <1>2, <1>5, <1>6, GuardFacts DEF GuardInv, Counted, ClosedRight
<1>7. Counted(grd', l) /\ ClosedRight(grd', l)
  <2>1. ~UsedIn(grd, l) /\ grd.refs[l] = 0 /\ grd.closes[l] = 0
    BY <1>3 DEF GuardInv, ClosedRight
  <2>2. Dropping(grd, l) = {}
    BY <2>1 DEF UsedIn, Dropping
  <2>3. Clones(grd, l) = {}
    <3>1. ASSUME NEW p \in Clones(grd, l)  PROVE FALSE
      <4>1. PICK v \in Guarded, i \in 1 .. MaxClones : p = <<v, i>>
        BY DEF Clones
      <4>2. grd.value[v] # Guards!None /\ grd.value[v].of = l /\ i <= grd.value[v].clones
        BY <4>1 DEF Clones
      <4>3. Given(grd, v)
        BY <1>1, <4>2, GuardFacts DEF Given
      <4> QED  BY <2>1, <4>2, <4>3 DEF UsedIn
    <3> QED  BY <3>1
  <2>4. Cardinality(Dropping(grd', l)) = 0 /\ Cardinality(Clones(grd', l)) = 0
    BY <1>5, <2>2, <2>3, FS_EmptySet
  <2>5. l \in grd'.opened /\ grd'.refs[l] = 1 /\ grd'.closes[l] = 0 /\ grd'.loose[l] = IF l \in Loaded THEN 0 ELSE 1
    BY <1>1, <1>2, <2>1, GuardFacts
  <2> QED  BY <1>5, <2>1, <2>4, <2>5 DEF Counted, ClosedRight
<1> QED  BY <1>2, <1>4, <1>6, <1>7 DEF GuardInv

LEMMA CloneGuardKeeps ==
  ASSUME GuardInv(grd), NEW l \in Libs, Guards!CloneGuard(l)
  PROVE  GuardInv(grd')
<1>1. grd \in Guards!GuardType /\ grd.refs[l] > 0
  BY DEF GuardInv, Guards!CloneGuard
<1>2. /\ grd' \in Guards!GuardType /\ grd'.value = grd.value /\ grd'.thread = grd.thread /\ grd'.stray = grd.stray /\ grd'.early = grd.early
      /\ grd'.opened = grd.opened /\ grd'.closes = grd.closes
      /\ grd'.refs = [grd.refs EXCEPT ![l] = @ + 1]
      /\ grd'.loose = [grd.loose EXCEPT ![l] = @ + 1]
  <2> DEFINE R == [grd.refs EXCEPT ![l] = @ + 1]
             L == [grd.loose EXCEPT ![l] = @ + 1]
  <2>1. R \in [Libs -> Nat] /\ L \in [Libs -> Nat]
    BY <1>1, GuardFacts
  <2>2. grd' = [grd EXCEPT !.refs = R, !.loose = L]
    BY <1>1 DEF Guards!CloneGuard, Guards!GuardType
  <2> HIDE DEF R, L
  <2>3. /\ grd' \in Guards!GuardType /\ grd'.refs = R /\ grd'.loose = L
        /\ grd'.value = grd.value /\ grd'.thread = grd.thread /\ grd'.stray = grd.stray /\ grd'.early = grd.early
        /\ grd'.opened = grd.opened /\ grd'.closes = grd.closes
    BY <1>1, <2>1, <2>2 DEF Guards!GuardType
  <2> QED  BY <2>3 DEF R, L
<1>3. \A k : Dropping(grd', k) = Dropping(grd, k) /\ Clones(grd', k) = Clones(grd, k) /\ (UsedIn(grd', k) <=> UsedIn(grd, k))
  BY <1>2, SameValues
<1>4. CallBorrows(grd')
  BY <1>2, SameValues DEF GuardInv
<1>5. ASSUME NEW k \in Libs
      PROVE  Counted(grd', k) /\ ClosedRight(grd', k)
  <2>1. Cardinality(Dropping(grd, k)) \in Nat /\ Cardinality(Clones(grd, k)) \in Nat
    BY <1>1, SetsAreFinite
  <2>2. /\ grd.refs[k] \in Nat /\ grd.loose[k] \in Nat
        /\ grd'.refs[k] = IF k = l THEN grd.refs[k] + 1 ELSE grd.refs[k]
        /\ grd'.loose[k] = IF k = l THEN grd.loose[k] + 1 ELSE grd.loose[k]
    BY <1>1, <1>2, GuardFacts
  <2>3. Counted(grd', k)
    BY <1>2, <1>3, <2>1, <2>2 DEF GuardInv, Counted
  <2>4. ClosedRight(grd', k)
    BY <1>1, <1>2, <1>3, <2>2 DEF GuardInv, ClosedRight
  <2> QED  BY <2>3, <2>4
<1> QED  BY <1>2, <1>4, <1>5 DEF GuardInv

(* What is left of the invariant for library k when a guard of l goes, if  *)
(* one that counts went before.                                            *)
LEMMA GuardGoes ==
  ASSUME NEW g, GuardInv(g), NEW h \in Guards!GuardType, NEW l \in Libs, g.refs[l] > 0,
         l \in Loaded => g.refs[l] > 1,
         h.refs = [g.refs EXCEPT ![l] = @ - 1],
         h.closes = [g.closes EXCEPT ![l] = IF g.refs[l] = 1 THEN 1 ELSE @],
         h.opened = g.opened, h.early = g.early, NEW k \in Libs, UsedIn(h, k) => UsedIn(g, k)
  PROVE  ClosedRight(h, k)
<1>1. g \in Guards!GuardType
  BY DEF GuardInv
<1>2. /\ g.refs[k] \in Nat /\ g.closes[k] \in 0 .. 2
      /\ h.refs[k] = IF k = l THEN g.refs[k] - 1 ELSE g.refs[k]
      /\ h.closes[k] = IF k = l /\ g.refs[k] = 1 THEN 1 ELSE g.closes[k]
  BY <1>1, GuardFacts
<1> QED  BY <1>2 DEF GuardInv, ClosedRight

LEMMA DropGuardKeeps ==
  ASSUME GuardInv(grd), NEW l \in Libs, Guards!DropGuard(l)
  PROVE  GuardInv(grd')
<1>1. grd \in Guards!GuardType /\ grd.loose[l] > 0
  BY DEF GuardInv, Guards!DropGuard
<1> DEFINE m == [grd EXCEPT !.loose[l] = @ - 1]
<1>2. /\ m \in Guards!GuardType /\ m.value = grd.value /\ m.thread = grd.thread /\ m.stray = grd.stray /\ m.early = grd.early
      /\ m.opened = grd.opened /\ m.closes = grd.closes /\ m.refs = grd.refs
      /\ m.loose = [grd.loose EXCEPT ![l] = @ - 1]
  <2>1. [grd.loose EXCEPT ![l] = @ - 1] \in [Libs -> Nat]
    BY <1>1, GuardFacts
  <2> QED  BY <1>1, <2>1 DEF Guards!GuardType
<1>3. /\ grd.refs[l] > 0 /\ (l \in Loaded => grd.refs[l] > 1) /\ (grd.refs[l] = 1 => grd.closes[l] = 0)
  <2>1. Cardinality(Dropping(grd, l)) \in Nat /\ Cardinality(Clones(grd, l)) \in Nat
    BY <1>1, SetsAreFinite
  <2>2. grd.refs[l] \in Nat /\ grd.loose[l] \in Nat /\ grd.refs[l] > 0
    BY <1>1, <2>1, GuardFacts DEF GuardInv, Counted
  <2>3. l \in grd.opened
    BY <2>2 DEF GuardInv, ClosedRight
  <2>4. l \in Loaded => grd.refs[l] > 1
    BY <1>1, <2>1, <2>2, <2>3 DEF GuardInv, Counted
  <2> QED  BY <2>2, <2>3, <2>4 DEF GuardInv, ClosedRight
<1>4. grd' = Guards!Decremented(m, l)
  BY DEF Guards!DropGuard
<1> HIDE DEF m
<1>5. /\ grd' \in Guards!GuardType /\ grd'.value = grd.value /\ grd'.thread = grd.thread /\ grd'.stray = grd.stray /\ grd'.early = grd.early
      /\ grd'.opened = grd.opened /\ grd'.loose = m.loose
      /\ grd'.refs = [grd.refs EXCEPT ![l] = @ - 1]
      /\ grd'.closes = [grd.closes EXCEPT ![l] = IF grd.refs[l] = 1 THEN 1 ELSE @]
  <2>1. m.refs[l] > 0 /\ (m.refs[l] = 1 => m.closes[l] = 0)
    BY <1>2, <1>3
  <2>2. /\ grd' \in Guards!GuardType /\ grd'.value = m.value /\ grd'.thread = m.thread /\ grd'.stray = m.stray /\ grd'.early = m.early
        /\ grd'.opened = m.opened /\ grd'.loose = m.loose
        /\ grd'.refs = [m.refs EXCEPT ![l] = @ - 1]
        /\ grd'.closes = [m.closes EXCEPT ![l] = IF m.refs[l] = 1 THEN 1 ELSE @]
    BY <1>2, <1>4, <2>1, DecrementFacts
  <2> QED  BY <1>2, <2>2
<1>6. \A k : Dropping(grd', k) = Dropping(grd, k) /\ Clones(grd', k) = Clones(grd, k) /\ (UsedIn(grd', k) <=> UsedIn(grd, k))
  BY <1>5, SameValues
<1>7. CallBorrows(grd')
  BY <1>5, SameValues DEF GuardInv
<1>8. ASSUME NEW k \in Libs
      PROVE  Counted(grd', k)
  <2>1. Cardinality(Dropping(grd, k)) \in Nat /\ Cardinality(Clones(grd, k)) \in Nat
    BY <1>1, SetsAreFinite
  <2>2. /\ grd.refs[k] \in Nat /\ grd.loose[k] \in Nat
        /\ grd'.refs[k] = IF k = l THEN grd.refs[k] - 1 ELSE grd.refs[k]
        /\ grd'.loose[k] = IF k = l THEN grd.loose[k] - 1 ELSE grd.loose[k]
    BY <1>1, <1>2, <1>5, GuardFacts
  <2> QED  BY <1>5, <1>6, <2>1, <2>2 DEF GuardInv, Counted
<1>9. \A k \in Libs : ClosedRight(grd', k)
  BY <1>3, <1>5, <1>6, GuardGoes
<1> QED  BY <1>5, <1>7, <1>8, <1>9 DEF GuardInv

LEMMA UnloadGuardKeeps ==
  ASSUME GuardInv(grd), NEW l \in Libs, Guards!Unload(l)
  PROVE  GuardInv(grd')
<1>1. grd \in Guards!GuardType /\ l \in Loaded /\ l \in grd.opened /\ grd.closes[l] = 0
  BY DEF GuardInv, Guards!Unload, Guards!Mapped
<1>2. Guards!InUse(l) <=> UsedIn(grd, l)
  BY DEF Guards!InUse, Guards!Exists, UsedIn, Given, Busy
<1>3. /\ grd' \in Guards!GuardType /\ grd'.value = grd.value /\ grd'.thread = grd.thread /\ grd'.stray = grd.stray
      /\ grd'.opened = grd.opened /\ grd'.refs = grd.refs /\ grd'.loose = grd.loose
      /\ grd'.early = (IF UsedIn(grd, l) THEN grd.early \cup {l} ELSE grd.early)
      /\ \A k \in Libs : grd'.closes[k] = IF k = l THEN 1 ELSE grd.closes[k]
  <2> DEFINE C == [grd.closes EXCEPT ![l] = 1]
             E == IF UsedIn(grd, l) THEN grd.early \cup {l} ELSE grd.early
  <2>1. /\ C \in [Libs -> 0 .. 2] /\ \A k \in Libs : C[k] = IF k = l THEN 1 ELSE grd.closes[k]
        /\ E \subseteq Libs
    BY <1>1, GuardFacts
  <2>2. grd' = [grd EXCEPT !.closes = C, !.early = E]
    <3>1. grd' = [grd EXCEPT !.closes[l] = @ + 1, !.early = E]
      BY <1>2 DEF Guards!Unload
    <3>2. grd.closes[l] + 1 = 1
      BY <1>1
    <3> HIDE DEF E
    <3> QED  BY <1>1, <3>1, <3>2 DEF Guards!GuardType
  <2>3. PICK e : e = E
    OBVIOUS
  <2> HIDE DEF C, E
  <2>4. grd' = [grd EXCEPT !.closes = C, !.early = e] /\ e \subseteq Libs
    BY <2>1, <2>2, <2>3
  <2>5. /\ grd' \in Guards!GuardType /\ grd'.value = grd.value /\ grd'.thread = grd.thread /\ grd'.stray = grd.stray
        /\ grd'.opened = grd.opened /\ grd'.refs = grd.refs /\ grd'.loose = grd.loose
        /\ grd'.early = e /\ grd'.closes = C
    BY <1>1, <2>1, <2>4 DEF Guards!GuardType
  <2> QED  BY <2>1, <2>3, <2>5 DEF E
<1>4. \A k : Dropping(grd', k) = Dropping(grd, k) /\ Clones(grd', k) = Clones(grd, k) /\ (UsedIn(grd', k) <=> UsedIn(grd, k))
  BY <1>3, SameValues
<1>5. CallBorrows(grd')
  BY <1>3, SameValues DEF GuardInv
<1>6. \A k \in Libs : Counted(grd', k)
  BY <1>3, <1>4 DEF GuardInv, Counted
<1>7. ASSUME NEW k \in Libs  PROVE ClosedRight(grd', k)
  <2>1. CASE k = l
    BY <1>1, <1>3, <1>4, <2>1 DEF ClosedRight
  <2>2. CASE k # l
    BY <1>3, <1>4, <2>2 DEF GuardInv, ClosedRight
  <2> QED  BY <2>1, <2>2
<1>8. grd'.stray \subseteq grd'.early
  BY <1>3 DEF GuardInv
<1> QED  BY <1>3, <1>5, <1>6, <1>7, <1>8 DEF GuardInv

LEMMA CountOneMore ==
  ASSUME NEW S, NEW T, NEW x, IsFiniteSet(S), x \notin S, T = S \cup {x}
  PROVE  Cardinality(T) = Cardinality(S) + 1
<1>1. Cardinality(S \cup {x}) = Cardinality(S) + 1
  BY FS_AddElement
<1> QED  BY <1>1

(* Taken one way this is a clone that is made, the other way one that goes.*)
LEMMA OneMoreClone ==
  ASSUME NEW g \in Guards!GuardType, NEW h \in Guards!GuardType, NEW v \in Guarded, NEW l \in Libs, NEW c \in Nat,
         \A u \in Guarded \ {v} : h.value[u] = g.value[u],
         h.value[v] # Guards!None, h.value[v].of = l, h.value[v].clones = c + 1,
         \/ g.value[v] = Guards!None /\ c = 0
         \/ g.value[v] # Guards!None /\ g.value[v].of = l /\ g.value[v].clones = c
  PROVE  /\ Cardinality(Clones(h, l)) = Cardinality(Clones(g, l)) + 1
         /\ \A k : k # l => Clones(h, k) = Clones(g, k)
<1>1. c + 1 \in 1 .. MaxClones
  BY GuardFacts
<1>2. \A u \in Guarded : g.value[u] # Guards!None => g.value[u].clones \in Nat
  BY GuardFacts
<1>3. <<v, c + 1>> \in Guarded \X (1 .. MaxClones)
  BY <1>1
<1>4. <<v, c + 1>> \notin Clones(g, l)
  BY DEF Clones
<1>5. Clones(h, l) = Clones(g, l) \cup {<<v, c + 1>>}
  <2>1. ASSUME NEW u \in Guarded, NEW i \in 1 .. MaxClones
        PROVE  <<u, i>> \in Clones(h, l) <=> <<u, i>> \in Clones(g, l) \/ (u = v /\ i = c + 1)
    <3>1. i \in Nat /\ i >= 1
      BY GuardFacts
    <3> QED  BY <3>1 DEF Clones
  <2>2. ASSUME NEW p \in Guarded \X (1 .. MaxClones)
        PROVE  p \in Clones(h, l) <=> p \in Clones(g, l) \/ p = <<v, c + 1>>
    <3>1. PICK u \in Guarded, i \in 1 .. MaxClones : p = <<u, i>>
      OBVIOUS
    <3> QED  BY <2>1, <3>1
  <2>3. \A p \in Clones(g, l) \cup Clones(h, l) : p \in Guarded \X (1 .. MaxClones)
    BY DEF Clones
  <2> QED  BY <1>3, <2>2, <2>3
<1>6. IsFiniteSet(Clones(g, l)) /\ Cardinality(Clones(g, l)) \in Nat
  BY SetsAreFinite
<1>7. Cardinality(Clones(h, l)) = Cardinality(Clones(g, l)) + 1
  BY <1>4, <1>5, <1>6, CountOneMore
<1>8. ASSUME NEW k, k # l
      PROVE  Clones(h, k) = Clones(g, k)
  <2>1. ASSUME NEW p \in Guarded \X (1 .. MaxClones)
        PROVE  p \in Clones(h, k) <=> p \in Clones(g, k)
    <3>1. PICK u \in Guarded, i \in 1 .. MaxClones : p = <<u, i>>
      OBVIOUS
    <3>2. i \in Nat /\ i >= 1
      BY GuardFacts
    <3> QED  BY <1>8, <3>1, <3>2 DEF Clones
  <2>2. \A p \in Clones(g, k) \cup Clones(h, k) : p \in Guarded \X (1 .. MaxClones)
    BY DEF Clones
  <2> QED  BY <2>1, <2>2
<1> QED  BY <1>7, <1>8

(* The same for a thread that comes to hold a guard, or lets go of it.     *)
LEMMA OneMoreDropping ==
  ASSUME NEW g \in Guards!GuardType, NEW h \in Guards!GuardType, NEW t \in Threads, NEW l \in Libs,
         \A u \in Threads \ {t} : h.thread[u] = g.thread[u],
         Busy(h, t), h.thread[t].of = l, h.thread[t].doing # "call", ~Busy(g, t)
  PROVE  /\ Cardinality(Dropping(h, l)) = Cardinality(Dropping(g, l)) + 1
         /\ \A k : k # l => Dropping(h, k) = Dropping(g, k)
<1>1. t \notin Dropping(g, l) /\ Dropping(h, l) = Dropping(g, l) \cup {t}
  BY DEF Dropping, Busy
<1>2. \A k : k # l => Dropping(h, k) = Dropping(g, k)
  BY DEF Dropping, Busy
<1> QED  BY <1>1, <1>2, SetsAreFinite, CountOneMore

(* A reference more for a clone more. *)
LEMMA RefAdded ==
  ASSUME NEW g, GuardInv(g), NEW h \in Guards!GuardType, NEW l \in Libs,
         h.refs = [g.refs EXCEPT ![l] = @ + 1], h.loose = g.loose, h.opened = g.opened,
         h.thread = g.thread, Cardinality(Clones(h, l)) = Cardinality(Clones(g, l)) + 1,
         \A k : k # l => Clones(h, k) = Clones(g, k), NEW k \in Libs
  PROVE  Counted(h, k)
<1>1. g \in Guards!GuardType
  BY DEF GuardInv
<1>2. Cardinality(Dropping(g, k)) \in Nat /\ Cardinality(Clones(g, k)) \in Nat
  BY <1>1, SetsAreFinite
<1>3. Dropping(h, k) = Dropping(g, k)
  BY DEF Dropping, Busy
<1>4. g.refs[k] \in Nat /\ g.loose[k] \in Nat /\ h.refs[k] = IF k = l THEN g.refs[k] + 1 ELSE g.refs[k]
  BY <1>1, GuardFacts
<1> QED  BY <1>2, <1>3, <1>4 DEF GuardInv, Counted

LEMMA NewKeeps ==
  ASSUME GuardInv(grd), NEW v \in Guarded, NEW l \in Libs, NEW kind \in Guards!Kinds, Guards!New(v, l, kind)
  PROVE  GuardInv(grd')
<1> DEFINE w == [of |-> l, kind |-> kind, clones |-> 1]
<1>1. /\ grd \in Guards!GuardType /\ grd.value[v] = Guards!None /\ grd.refs[l] > 0
      /\ l \in grd.opened /\ grd.closes[l] = 0
  BY DEF GuardInv, Guards!New, Guards!Mapped
<1>2. w \in [of : Libs, kind : Guards!Kinds, clones : 0 .. MaxClones] /\ w # Guards!None
  <2>1. 1 \in 0 .. MaxClones
    BY <1>1, GuardFacts
  <2>2. w # Guards!None
    BY DEF Guards!None
  <2> QED  BY <2>1, <2>2
<1>3. /\ grd' \in Guards!GuardType /\ grd'.stray = grd.stray /\ grd'.early = grd.early /\ grd'.thread = grd.thread
      /\ grd'.opened = grd.opened /\ grd'.closes = grd.closes /\ grd'.loose = grd.loose
      /\ grd'.refs = [grd.refs EXCEPT ![l] = @ + 1] /\ grd'.value[v] = w
      /\ \A u \in Guarded \ {v} : grd'.value[u] = grd.value[u]
  <2> DEFINE R == [grd.refs EXCEPT ![l] = @ + 1]
             V == [grd.value EXCEPT ![v] = w]
  <2>1. R \in [Libs -> Nat]
    BY <1>1, GuardFacts
  <2>2. grd' = [grd EXCEPT !.value = V, !.refs = R]
    BY <1>1 DEF Guards!New, Guards!GuardType
  <2> HIDE DEF w
  <2>3. V \in [Guarded -> {Guards!None} \cup [of : Libs, kind : Guards!Kinds, clones : 0 .. MaxClones]]
    BY <1>1, <1>2 DEF Guards!GuardType
  <2>5. V[v] = w /\ \A u \in Guarded \ {v} : V[u] = grd.value[u]
    BY <1>1, <1>2 DEF Guards!GuardType
  <2> HIDE DEF R, V
  <2>4. /\ grd' \in Guards!GuardType /\ grd'.stray = grd.stray /\ grd'.early = grd.early /\ grd'.thread = grd.thread
        /\ grd'.opened = grd.opened /\ grd'.closes = grd.closes /\ grd'.loose = grd.loose
        /\ grd'.refs = R /\ grd'.value = V
    BY <1>1, <2>1, <2>2, <2>3 DEF Guards!GuardType
  <2> QED  BY <2>4, <2>5 DEF R, V
<1>4. w.of = l /\ w.clones = 1
  OBVIOUS
<1> HIDE DEF w
<1>5. PICK h : h = grd'
  OBVIOUS
<1>6. /\ h \in Guards!GuardType /\ h.stray = grd.stray /\ h.early = grd.early /\ h.thread = grd.thread
      /\ h.opened = grd.opened /\ h.closes = grd.closes /\ h.loose = grd.loose
      /\ h.refs = [grd.refs EXCEPT ![l] = @ + 1] /\ h.value[v] = w
      /\ \A u \in Guarded \ {v} : h.value[u] = grd.value[u]
  BY <1>3, <1>5
<1>7. /\ Cardinality(Clones(h, l)) = Cardinality(Clones(grd, l)) + 1
      /\ \A k : k # l => Clones(h, k) = Clones(grd, k)
  <2>1. h.value[v].clones = 0 + 1
    BY <1>4, <1>6
  <2> QED  BY <1>1, <1>2, <1>3, <1>4, <1>5, <1>6, <2>1, OneMoreClone
<1>8. \A k \in Libs : Counted(h, k)
  BY <1>6, <1>7, RefAdded
<1>9. CallBorrows(h)
  <2>1. \A t \in Threads : Busy(grd, t) => grd.thread[t].value \in Guarded
    BY <1>1, GuardFacts
  <2> QED  BY <1>1, <1>6, <2>1 DEF GuardInv, CallBorrows, Busy, Given
<1>10. \A k \in Libs : ClosedRight(h, k)
  <2>1. \A k : k # l => (UsedIn(h, k) <=> UsedIn(grd, k))
    BY <1>1, <1>3, <1>4, <1>5, <1>6 DEF UsedIn, Given, Busy
  <2>2. \A k \in Libs : grd.refs[k] \in Nat /\ h.refs[k] = IF k = l THEN grd.refs[k] + 1 ELSE grd.refs[k]
    BY <1>1, <1>6, GuardFacts
  <2> QED  BY <1>1, <1>6, <2>1, <2>2 DEF GuardInv, ClosedRight
<1> QED  BY <1>5, <1>6, <1>8, <1>9, <1>10 DEF GuardInv

LEMMA CloneKeeps ==
  ASSUME GuardInv(grd), NEW v \in Guarded, Guards!Clone(v)
  PROVE  GuardInv(grd')
<1> DEFINE l == grd.value[v].of
           c == grd.value[v].clones
           w == [grd.value[v] EXCEPT !.clones = c + 1]
<1>1. /\ grd \in Guards!GuardType /\ grd.value[v] # Guards!None /\ Given(grd, v) /\ c < MaxClones
  BY DEF GuardInv, Guards!Clone, Guards!Exists, Given
<1>2. l \in Libs /\ c \in Nat /\ c + 1 \in 0 .. MaxClones
  BY <1>1, GuardFacts
<1>3. /\ w \in [of : Libs, kind : Guards!Kinds, clones : 0 .. MaxClones] /\ w # Guards!None
      /\ w.of = l /\ w.clones = c + 1
  <2>1. grd.value[v] \in [of : Libs, kind : Guards!Kinds, clones : 0 .. MaxClones]
    BY <1>1, GuardFacts
  <2>2. w \in [of : Libs, kind : Guards!Kinds, clones : 0 .. MaxClones] /\ w.of = l /\ w.clones = c + 1
    BY <1>2, <2>1
  <2>3. \A x \in [of : Libs, kind : Guards!Kinds, clones : 0 .. MaxClones] : x # Guards!None
    BY DEF Guards!None
  <2> QED  BY <2>2, <2>3
<1>4. /\ grd' \in Guards!GuardType /\ grd'.stray = grd.stray /\ grd'.early = grd.early /\ grd'.thread = grd.thread
      /\ grd'.opened = grd.opened /\ grd'.closes = grd.closes /\ grd'.loose = grd.loose
      /\ grd'.refs = [grd.refs EXCEPT ![l] = @ + 1] /\ grd'.value[v] = w
      /\ \A u \in Guarded \ {v} : grd'.value[u] = grd.value[u]
  <2> DEFINE R == [grd.refs EXCEPT ![l] = @ + 1]
             V == [grd.value EXCEPT ![v] = w]
  <2>1. R \in [Libs -> Nat]
    BY <1>1, GuardFacts
  <2>2. grd' = [grd EXCEPT !.value = V, !.refs = R]
    BY <1>1 DEF Guards!Clone, Guards!GuardType
  <2> HIDE DEF w, l, c
  <2>3. V \in [Guarded -> {Guards!None} \cup [of : Libs, kind : Guards!Kinds, clones : 0 .. MaxClones]]
    BY <1>1, <1>3 DEF Guards!GuardType
  <2>5. V[v] = w /\ \A u \in Guarded \ {v} : V[u] = grd.value[u]
    BY <1>1, <1>3 DEF Guards!GuardType
  <2> HIDE DEF R, V
  <2>4. /\ grd' \in Guards!GuardType /\ grd'.stray = grd.stray /\ grd'.early = grd.early /\ grd'.thread = grd.thread
        /\ grd'.opened = grd.opened /\ grd'.closes = grd.closes /\ grd'.loose = grd.loose
        /\ grd'.refs = R /\ grd'.value = V
    BY <1>1, <2>1, <2>2, <2>3 DEF Guards!GuardType
  <2> QED  BY <2>4, <2>5 DEF R, V
<1> HIDE DEF w
<1>5. PICK h : h = grd'
  OBVIOUS
<1>6. /\ h \in Guards!GuardType /\ h.stray = grd.stray /\ h.early = grd.early /\ h.thread = grd.thread
      /\ h.opened = grd.opened /\ h.closes = grd.closes /\ h.loose = grd.loose
      /\ h.refs = [grd.refs EXCEPT ![l] = @ + 1] /\ h.value[v] = w
      /\ \A u \in Guarded \ {v} : h.value[u] = grd.value[u]
  BY <1>4, <1>5
<1>7. /\ Cardinality(Clones(h, l)) = Cardinality(Clones(grd, l)) + 1
      /\ \A k : k # l => Clones(h, k) = Clones(grd, k)
  BY <1>1, <1>2, <1>3, <1>6, OneMoreClone
<1>8. \A k \in Libs : Counted(h, k)
  BY <1>2, <1>6, <1>7, RefAdded
<1>9. \A u \in Guarded : (Given(h, u) <=> Given(grd, u)) /\ (Given(h, u) => h.value[u].of = grd.value[u].of)
  BY <1>1, <1>2, <1>3, <1>6 DEF Given
<1>10. CallBorrows(h)
  <2>1. \A t \in Threads : Busy(grd, t) => grd.thread[t].value \in Guarded
    BY <1>1, GuardFacts
  <2> QED  BY <1>6, <1>9, <2>1 DEF GuardInv, CallBorrows, Busy
<1>11. \A k \in Libs : ClosedRight(h, k)
  <2>1. \A k : UsedIn(h, k) <=> UsedIn(grd, k)
    BY <1>6, <1>9 DEF UsedIn, Busy
  <2>2. \A k \in Libs : grd.refs[k] \in Nat /\ h.refs[k] = IF k = l THEN grd.refs[k] + 1 ELSE grd.refs[k]
    BY <1>1, <1>2, <1>6, GuardFacts
  <2>3. UsedIn(grd, l)
    BY <1>1 DEF UsedIn
  <2>4. l \in grd.opened /\ (l \notin Loaded => grd.closes[l] = 0)
    BY <1>2, <2>3, UsedIsCounted
  <2> QED  BY <1>6, <2>1, <2>2, <2>4 DEF GuardInv, ClosedRight
<1> QED  BY <1>5, <1>6, <1>8, <1>10, <1>11 DEF GuardInv

LEMMA CallKeepsGuards ==
  ASSUME GuardInv(grd), NEW t \in Threads, NEW v \in Guarded, Guards!Call(t, v)
  PROVE  GuardInv(grd')
<1> DEFINE w == [of |-> grd.value[v].of, value |-> v, doing |-> "call"]
<1>1. /\ grd \in Guards!GuardType /\ grd.value[v] # Guards!None /\ Given(grd, v) /\ ~Busy(grd, t)
  BY DEF GuardInv, Guards!Call, Guards!Exists, Given, Busy
<1>2. /\ w \in [of : Libs, value : Guarded, doing : {"call", "code", "guard"}] /\ w # Guards!None
      /\ w.of = grd.value[v].of /\ w.value = v /\ w.doing = "call"
  BY <1>1, GuardFacts DEF Guards!None
<1>3. /\ grd' \in Guards!GuardType /\ grd'.stray = grd.stray /\ grd'.early = grd.early /\ grd'.value = grd.value
      /\ grd'.opened = grd.opened /\ grd'.closes = grd.closes /\ grd'.loose = grd.loose /\ grd'.refs = grd.refs
      /\ grd'.thread[t] = w /\ \A u \in Threads \ {t} : grd'.thread[u] = grd.thread[u]
  <2> DEFINE T == [grd.thread EXCEPT ![t] = w]
  <2>1. grd' = [grd EXCEPT !.thread = T]
    BY <1>1 DEF Guards!Call, Guards!Does, Guards!GuardType
  <2> HIDE DEF w
  <2>2. T \in [Threads -> {Guards!None} \cup [of : Libs, value : Guarded, doing : {"call", "code", "guard"}]]
    BY <1>1, <1>2 DEF Guards!GuardType
  <2>3. T[t] = w /\ \A u \in Threads \ {t} : T[u] = grd.thread[u]
    BY <1>1 DEF Guards!GuardType
  <2> HIDE DEF T
  <2> QED  BY <1>1, <2>1, <2>2, <2>3 DEF Guards!GuardType
<1> HIDE DEF w
<1>4. PICK h : h = grd'
  OBVIOUS
<1>5. /\ h \in Guards!GuardType /\ h.stray = grd.stray /\ h.early = grd.early /\ h.value = grd.value
      /\ h.opened = grd.opened /\ h.closes = grd.closes /\ h.loose = grd.loose /\ h.refs = grd.refs
      /\ h.thread[t] = w /\ \A u \in Threads \ {t} : h.thread[u] = grd.thread[u]
  BY <1>3, <1>4
<1>6. \A k : Dropping(h, k) = Dropping(grd, k)
  BY <1>1, <1>2, <1>5 DEF Dropping, Busy
<1>7. \A k : Clones(h, k) = Clones(grd, k)
  BY <1>5 DEF Clones
<1>8. \A k : UsedIn(h, k) <=> UsedIn(grd, k)
  BY <1>1, <1>2, <1>5 DEF UsedIn, Busy, Given
<1>9. CallBorrows(h)
  BY <1>1, <1>2, <1>5 DEF GuardInv, CallBorrows, Busy, Given
<1>10. \A k \in Libs : Counted(h, k) /\ ClosedRight(h, k)
  BY <1>5, <1>6, <1>7, <1>8 DEF GuardInv, Counted, ClosedRight
<1> QED  BY <1>4, <1>5, <1>9, <1>10 DEF GuardInv

LEMMA TakeApartKeeps ==
  ASSUME GuardInv(grd), NEW t \in Threads, NEW v \in Guarded, NEW once \in BOOLEAN, Guards!TakeApart(t, v, once)
  PROVE  GuardInv(grd')
<1> DEFINE l == grd.value[v].of
           c == grd.value[v].clones - 1
           x == [grd.value[v] EXCEPT !.clones = c]
           step == IF once \/ (grd.value[v].clones = 1 /\ grd.value[v].kind # "fn") THEN "code" ELSE "guard"
           w == [of |-> l, value |-> v, doing |-> step]
<1>1. /\ grd \in Guards!GuardType /\ grd.value[v] # Guards!None /\ Given(grd, v) /\ ~Busy(grd, t)
      /\ grd.value[v] \in [of : Libs, kind : Guards!Kinds, clones : 0 .. MaxClones]
  BY GuardFacts DEF GuardInv, Guards!TakeApart, Guards!Free, Guards!Exists, Given, Busy
<1>2. l \in Libs /\ c \in Nat /\ c \in 0 .. MaxClones /\ grd.value[v].clones = c + 1
  BY <1>1, GuardFacts DEF Given
<1>3. step \in {"code", "guard"}
  OBVIOUS
<1> HIDE DEF c, step
<1>4. /\ x \in [of : Libs, kind : Guards!Kinds, clones : 0 .. MaxClones] /\ x # Guards!None
      /\ x.of = l /\ x.clones = c
  <2>1. x \in [of : Libs, kind : Guards!Kinds, clones : 0 .. MaxClones] /\ x.of = l /\ x.clones = c
    BY <1>1, <1>2
  <2>2. \A y \in [of : Libs, kind : Guards!Kinds, clones : 0 .. MaxClones] : y # Guards!None
    BY DEF Guards!None
  <2> QED  BY <2>1, <2>2
<1>5. /\ w \in [of : Libs, value : Guarded, doing : {"call", "code", "guard"}] /\ w # Guards!None
      /\ w.of = l /\ w.value = v /\ w.doing # "call"
  BY <1>2, <1>3 DEF Guards!None
<1>6. /\ grd' \in Guards!GuardType /\ grd'.stray = grd.stray /\ grd'.early = grd.early
      /\ grd'.opened = grd.opened /\ grd'.closes = grd.closes /\ grd'.loose = grd.loose /\ grd'.refs = grd.refs
      /\ grd'.thread[t] = w /\ \A u \in Threads \ {t} : grd'.thread[u] = grd.thread[u]
      /\ grd'.value[v] = x /\ \A u \in Guarded \ {v} : grd'.value[u] = grd.value[u]
  <2> DEFINE T == [grd.thread EXCEPT ![t] = w]
             V == [grd.value EXCEPT ![v] = x]
  <2>1. grd' = [grd EXCEPT !.value = V, !.thread = T]
    BY <1>1 DEF Guards!TakeApart, Guards!Apart, Guards!Does, Guards!GuardType, c, step
  <2> HIDE DEF w, x
  <2>2. T \in [Threads -> {Guards!None} \cup [of : Libs, value : Guarded, doing : {"call", "code", "guard"}]]
    BY <1>1, <1>5 DEF Guards!GuardType
  <2>3. V \in [Guarded -> {Guards!None} \cup [of : Libs, kind : Guards!Kinds, clones : 0 .. MaxClones]]
    BY <1>1, <1>4 DEF Guards!GuardType
  <2>4. /\ T[t] = w /\ \A u \in Threads \ {t} : T[u] = grd.thread[u]
        /\ V[v] = x /\ \A u \in Guarded \ {v} : V[u] = grd.value[u]
    BY <1>1 DEF Guards!GuardType
  <2> HIDE DEF T, V
  <2>5. /\ grd' \in Guards!GuardType /\ grd'.stray = grd.stray /\ grd'.early = grd.early
        /\ grd'.opened = grd.opened /\ grd'.closes = grd.closes /\ grd'.loose = grd.loose /\ grd'.refs = grd.refs
        /\ grd'.thread = T /\ grd'.value = V
    BY <1>1, <2>1, <2>2, <2>3 DEF Guards!GuardType
  <2> QED  BY <2>4, <2>5
<1>7. \A u \in Threads : Busy(grd, u) /\ grd.thread[u].doing = "call" /\ grd.thread[u].value = v => c > 0
  BY <1>2 DEF Guards!TakeApart, Guards!Free, Guards!Callers, Busy
<1> HIDE DEF w, x
<1>8. PICK h : h = grd'
  OBVIOUS
<1>9. /\ h \in Guards!GuardType /\ h.stray = grd.stray /\ h.early = grd.early
      /\ h.opened = grd.opened /\ h.closes = grd.closes /\ h.loose = grd.loose /\ h.refs = grd.refs
      /\ h.thread[t] = w /\ \A u \in Threads \ {t} : h.thread[u] = grd.thread[u]
      /\ h.value[v] = x /\ \A u \in Guarded \ {v} : h.value[u] = grd.value[u]
  BY <1>6, <1>8
<1>10. /\ Cardinality(Clones(grd, l)) = Cardinality(Clones(h, l)) + 1
       /\ \A k : k # l => Clones(grd, k) = Clones(h, k)
  <2>1. \A u \in Guarded \ {v} : grd.value[u] = h.value[u]
    BY <1>9
  <2>2. h.value[v] # Guards!None /\ h.value[v].of = l /\ h.value[v].clones = c
    BY <1>4, <1>9
  <2> HIDE DEF l
  <2>3. grd.value[v].of = l
    BY DEF l
  <2> QED  BY <1>1, <1>2, <1>9, <2>1, <2>2, <2>3, OneMoreClone
<1>11. /\ Cardinality(Dropping(h, l)) = Cardinality(Dropping(grd, l)) + 1
       /\ \A k : k # l => Dropping(h, k) = Dropping(grd, k)
  <2>1. Busy(h, t) /\ h.thread[t].of = l /\ h.thread[t].doing # "call"
    BY <1>5, <1>9 DEF Busy
  <2> HIDE DEF l
  <2> QED  BY <1>1, <1>2, <1>9, <2>1, OneMoreDropping
<1>12. ASSUME NEW k \in Libs  PROVE Counted(h, k)
  <2>1. /\ Cardinality(Dropping(grd, k)) \in Nat /\ Cardinality(Clones(grd, k)) \in Nat
        /\ Cardinality(Dropping(h, k)) \in Nat /\ Cardinality(Clones(h, k)) \in Nat
    BY <1>1, <1>9, SetsAreFinite
  <2>2. Cardinality(Dropping(h, k)) + Cardinality(Clones(h, k))
          = Cardinality(Dropping(grd, k)) + Cardinality(Clones(grd, k))
    BY <1>10, <1>11, <2>1
  <2>3. h.refs[k] \in Nat /\ h.loose[k] \in Nat
    BY <1>9, GuardFacts
  <2> QED  BY <1>9, <2>1, <2>2, <2>3 DEF GuardInv, Counted
<1>13. CallBorrows(h)
  <2>1. ASSUME NEW u \in Threads, Busy(h, u), h.thread[u].doing = "call"
        PROVE  Given(h, h.thread[u].value) /\ h.value[h.thread[u].value].of = h.thread[u].of
    <3>1. u # t /\ h.thread[u] = grd.thread[u] /\ Busy(grd, u)
      BY <1>5, <1>9, <2>1 DEF Busy
    <3>2. /\ Given(grd, h.thread[u].value) /\ grd.value[h.thread[u].value].of = h.thread[u].of
          /\ h.thread[u].value \in Guarded
      BY <1>1, <2>1, <3>1, GuardFacts DEF GuardInv, CallBorrows
    <3>3. CASE h.thread[u].value = v
      BY <1>2, <1>4, <1>7, <1>9, <2>1, <3>1, <3>2, <3>3 DEF Given
    <3>4. CASE h.thread[u].value # v
      BY <1>9, <3>2, <3>4 DEF Given
    <3> QED  BY <3>3, <3>4
  <2> QED  BY <2>1 DEF CallBorrows
<1>14. \A k \in Libs : UsedIn(h, k) => UsedIn(grd, k)
  <2>1. \A u \in Guarded : Given(h, u) => Given(grd, u) /\ h.value[u].of = grd.value[u].of
    BY <1>1, <1>4, <1>9 DEF Given
  <2>2. \A u \in Threads : Busy(h, u) => u = t \/ (Busy(grd, u) /\ h.thread[u].of = grd.thread[u].of)
    BY <1>9 DEF Busy
  <2>3. UsedIn(grd, l) /\ h.thread[t].of = l
    BY <1>1, <1>5, <1>9 DEF UsedIn
  <2> HIDE DEF l
  <2> QED  BY <2>1, <2>2, <2>3 DEF UsedIn
<1>15. \A k \in Libs : ClosedRight(h, k)
  BY <1>9, <1>14 DEF GuardInv, ClosedRight
<1> QED  BY <1>8, <1>9, <1>12, <1>13, <1>15 DEF GuardInv

(* What a thread runs code of is used, so it is mapped, or was unloaded    *)
(* early.                                                                  *)
LEMMA RunCodeKeeps ==
  ASSUME GuardInv(grd), NEW t \in Threads, Guards!RunCode(t)
  PROVE  GuardInv(grd')
<1> DEFINE l == grd.thread[t].of
           w == IF grd.thread[t].doing = "call" THEN Guards!None ELSE [grd.thread[t] EXCEPT !.doing = "guard"]
<1>1. /\ grd \in Guards!GuardType /\ Busy(grd, t) /\ grd.stray \subseteq grd.early /\ l \in Libs
      /\ grd.thread[t] \in [of : Libs, value : Guarded, doing : {"call", "code", "guard"}]
      /\ grd.thread[t].doing \in {"call", "code"}
  BY GuardFacts DEF GuardInv, Guards!RunCode, Busy
<1>2. Guards!Mapped(l) \/ l \in grd.early
  <2>1. UsedIn(grd, l)
    BY <1>1 DEF UsedIn
  <2> QED  BY <1>1, <2>1, UsedIsCounted DEF Guards!Mapped
<1>3. w # Guards!None =>
        /\ w \in [of : Libs, value : Guarded, doing : {"call", "code", "guard"}]
        /\ w.of = l /\ w.doing = "guard" /\ grd.thread[t].doing = "code"
  BY <1>1
<1>4. grd.thread[t].doing = "code" => w # Guards!None
  BY <1>1 DEF Guards!None
<1>5. /\ grd' \in Guards!GuardType /\ grd'.stray \subseteq grd'.early /\ grd'.early = grd.early /\ grd'.value = grd.value
      /\ grd'.opened = grd.opened /\ grd'.closes = grd.closes /\ grd'.loose = grd.loose /\ grd'.refs = grd.refs
      /\ grd'.thread[t] = w /\ \A u \in Threads \ {t} : grd'.thread[u] = grd.thread[u]
  <2> DEFINE T == [grd.thread EXCEPT ![t] = w]
  <2> DEFINE S == IF Guards!Mapped(l) THEN grd.stray ELSE grd.stray \cup {l}
             g == [grd EXCEPT !.stray = IF Guards!Mapped(l) THEN @ ELSE @ \cup {l}]
  <2>1. S \subseteq grd.early /\ S \subseteq Libs
    BY <1>1, <1>2, GuardFacts
  <2>2. g = [grd EXCEPT !.stray = S]
    OBVIOUS
  <2> HIDE DEF S
  <2>3. grd' = IF grd.thread[t].doing = "call" THEN [g EXCEPT !.thread[t] = Guards!None]
               ELSE [g EXCEPT !.thread[t].doing = "guard"]
    BY DEF Guards!RunCode
  <2>4. grd' = [grd EXCEPT !.stray = S, !.thread = T]
    <3> HIDE DEF g
    <3>1. CASE grd.thread[t].doing = "call"
      BY <1>1, <2>2, <2>3, <3>1 DEF Guards!GuardType
    <3>2. CASE grd.thread[t].doing # "call"
      BY <1>1, <2>2, <2>3, <3>2 DEF Guards!GuardType
    <3> QED  BY <3>1, <3>2
  <2> HIDE DEF w
  <2>5. T \in [Threads -> {Guards!None} \cup [of : Libs, value : Guarded, doing : {"call", "code", "guard"}]]
    BY <1>1, <1>3 DEF Guards!GuardType
  <2>6. T[t] = w /\ \A u \in Threads \ {t} : T[u] = grd.thread[u]
    BY <1>1 DEF Guards!GuardType
  <2> HIDE DEF T
  <2> QED  BY <1>1, <2>1, <2>4, <2>5, <2>6 DEF Guards!GuardType
<1> HIDE DEF w
<1>6. PICK h : h = grd'
  OBVIOUS
<1>7. /\ h \in Guards!GuardType /\ h.stray \subseteq h.early /\ h.early = grd.early /\ h.value = grd.value
      /\ h.opened = grd.opened /\ h.closes = grd.closes /\ h.loose = grd.loose /\ h.refs = grd.refs
      /\ h.thread[t] = w /\ \A u \in Threads \ {t} : h.thread[u] = grd.thread[u]
  BY <1>5, <1>6
<1>8. Busy(h, t) <=> grd.thread[t].doing = "code"
  BY <1>3, <1>4, <1>7 DEF Busy
<1>9. \A k : Dropping(h, k) = Dropping(grd, k)
  <2>1. \A k : t \in Dropping(h, k) <=> t \in Dropping(grd, k)
    BY <1>1, <1>3, <1>7, <1>8 DEF Dropping, Busy
  <2>2. \A k : \A u \in Threads \ {t} : u \in Dropping(h, k) <=> u \in Dropping(grd, k)
    BY <1>7 DEF Dropping, Busy
  <2>3. \A k : Dropping(h, k) \subseteq Threads /\ Dropping(grd, k) \subseteq Threads
    BY DEF Dropping
  <2> QED  BY <2>1, <2>2, <2>3
<1>10. \A k : Clones(h, k) = Clones(grd, k)
  BY <1>7 DEF Clones
<1>11. \A k : UsedIn(h, k) => UsedIn(grd, k)
  BY <1>1, <1>3, <1>7, <1>8 DEF UsedIn, Busy, Given
<1>12. CallBorrows(h)
  BY <1>3, <1>7 DEF GuardInv, CallBorrows, Busy, Given
<1>13. \A k \in Libs : Counted(h, k) /\ ClosedRight(h, k)
  BY <1>7, <1>9, <1>10, <1>11 DEF GuardInv, Counted, ClosedRight
<1> QED  BY <1>6, <1>7, <1>12, <1>13 DEF GuardInv

LEMMA FinishDropKeeps ==
  ASSUME GuardInv(grd), NEW t \in Threads, Guards!FinishDrop(t)
  PROVE  GuardInv(grd')
<1> DEFINE l == grd.thread[t].of
           m == [grd EXCEPT !.thread[t] = Guards!None]
<1>1. /\ grd \in Guards!GuardType /\ Busy(grd, t) /\ l \in Libs /\ grd.thread[t].doing = "guard"
      /\ grd' = Guards!Decremented(m, l) /\ grd.stray \subseteq grd.early
  BY GuardFacts DEF GuardInv, Guards!FinishDrop, Busy
<1>2. /\ m \in Guards!GuardType /\ m.refs = grd.refs /\ m.closes = grd.closes /\ m.loose = grd.loose
      /\ m.opened = grd.opened /\ m.value = grd.value /\ m.stray = grd.stray /\ m.early = grd.early
      /\ m.thread[t] = Guards!None /\ \A u \in Threads \ {t} : m.thread[u] = grd.thread[u]
  BY <1>1 DEF Guards!GuardType
<1> HIDE DEF m
<1>3. /\ Cardinality(Dropping(grd, l)) = Cardinality(Dropping(m, l)) + 1
      /\ \A k : k # l => Dropping(grd, k) = Dropping(m, k)
  <2>1. \A u \in Threads \ {t} : grd.thread[u] = m.thread[u]
    BY <1>2
  <2>2. ~Busy(m, t) /\ grd.thread[t].doing # "call"
    BY <1>1, <1>2 DEF Busy
  <2> DEFINE k == l
  <2>3. grd.thread[t].of = k /\ k \in Libs
    BY <1>1
  <2> HIDE DEF k
  <2>4. /\ Cardinality(Dropping(grd, k)) = Cardinality(Dropping(m, k)) + 1
        /\ \A j : j # k => Dropping(grd, j) = Dropping(m, j)
    BY <1>1, <1>2, <2>1, <2>2, <2>3, OneMoreDropping
  <2> QED  BY <2>4 DEF k
<1>4. \A k : Clones(m, k) = Clones(grd, k)
  BY <1>2 DEF Clones
<1>5. /\ grd.refs[l] > 0 /\ (l \in Loaded => grd.refs[l] > 1) /\ (grd.refs[l] = 1 => grd.closes[l] = 0)
  <2>1. UsedIn(grd, l)
    BY <1>1 DEF UsedIn
  <2>2. /\ l \in grd.opened /\ (l \notin Loaded => grd.closes[l] = 0)
        /\ grd.refs[l] > (IF l \in Loaded THEN 1 ELSE 0) + grd.loose[l]
    <3> DEFINE j == l
    <3>1. j \in Libs /\ UsedIn(grd, j)
      BY <1>1, <2>1
    <3> HIDE DEF j
    <3>2. /\ j \in grd.opened /\ (j \notin Loaded => grd.closes[j] = 0)
          /\ grd.refs[j] > (IF j \in Loaded THEN 1 ELSE 0) + grd.loose[j]
      BY <3>1, UsedIsCounted
    <3> QED  BY <3>2 DEF j
  <2>3. grd.refs[l] \in Nat /\ grd.loose[l] \in Nat
    BY <1>1, GuardFacts
  <2> QED  BY <2>2, <2>3
<1>6. /\ grd' \in Guards!GuardType /\ grd'.stray \subseteq grd'.early /\ grd'.early = grd.early /\ grd'.value = grd.value /\ grd'.thread = m.thread
      /\ grd'.opened = grd.opened /\ grd'.loose = grd.loose
      /\ grd'.refs = [grd.refs EXCEPT ![l] = @ - 1]
      /\ grd'.closes = [grd.closes EXCEPT ![l] = IF grd.refs[l] = 1 THEN 1 ELSE @]
  <2>1. m.refs[l] > 0 /\ (m.refs[l] = 1 => m.closes[l] = 0)
    BY <1>2, <1>5
  <2>2. /\ grd' \in Guards!GuardType /\ grd'.value = m.value /\ grd'.thread = m.thread /\ grd'.stray = m.stray /\ grd'.early = m.early
        /\ grd'.opened = m.opened /\ grd'.loose = m.loose
        /\ grd'.refs = [m.refs EXCEPT ![l] = @ - 1]
        /\ grd'.closes = [m.closes EXCEPT ![l] = IF m.refs[l] = 1 THEN 1 ELSE @]
    <3> DEFINE j == l
    <3>1. j \in Libs /\ m.refs[j] > 0 /\ (m.refs[j] = 1 => m.closes[j] = 0) /\ grd' = Guards!Decremented(m, j)
      BY <1>1, <2>1
    <3> HIDE DEF j
    <3>2. /\ grd' \in Guards!GuardType /\ grd'.value = m.value /\ grd'.thread = m.thread
          /\ grd'.stray = m.stray /\ grd'.early = m.early /\ grd'.opened = m.opened /\ grd'.loose = m.loose
          /\ grd'.refs = [m.refs EXCEPT ![j] = @ - 1]
          /\ grd'.closes = [m.closes EXCEPT ![j] = IF m.refs[j] = 1 THEN 1 ELSE @]
      BY <1>2, <3>1, DecrementFacts
    <3> QED  BY <3>2 DEF j
  <2> QED  BY <1>1, <1>2, <2>2
<1>7. PICK h : h = grd'
  OBVIOUS
<1>8. /\ h \in Guards!GuardType /\ h.stray \subseteq h.early /\ h.early = grd.early /\ h.value = grd.value /\ h.thread = m.thread
      /\ h.opened = grd.opened /\ h.loose = grd.loose
      /\ h.refs = [grd.refs EXCEPT ![l] = @ - 1]
      /\ h.closes = [grd.closes EXCEPT ![l] = IF grd.refs[l] = 1 THEN 1 ELSE @]
  BY <1>6, <1>7
<1>9. \A k : Dropping(h, k) = Dropping(m, k) /\ Clones(h, k) = Clones(grd, k)
  BY <1>8 DEF Dropping, Clones, Busy
<1>10. ASSUME NEW k \in Libs  PROVE Counted(h, k)
  <2>1. Cardinality(Dropping(m, k)) \in Nat /\ Cardinality(Dropping(grd, k)) \in Nat /\ Cardinality(Clones(grd, k)) \in Nat
    BY <1>1, <1>2, SetsAreFinite
  <2>2. Cardinality(Dropping(grd, k)) = IF k = l THEN Cardinality(Dropping(m, k)) + 1 ELSE Cardinality(Dropping(m, k))
    BY <1>3
  <2>3. grd.refs[k] \in Nat /\ grd.loose[k] \in Nat /\ h.refs[k] = IF k = l THEN grd.refs[k] - 1 ELSE grd.refs[k]
    BY <1>1, <1>8, GuardFacts
  <2> QED  BY <1>8, <1>9, <2>1, <2>2, <2>3 DEF GuardInv, Counted
<1>11. \A u \in Threads : Busy(h, u) => u # t /\ Busy(grd, u) /\ h.thread[u] = grd.thread[u]
  BY <1>2, <1>8 DEF Busy
<1>12. \A k \in Libs : UsedIn(h, k) => UsedIn(grd, k)
  BY <1>8, <1>11 DEF UsedIn, Given
<1>13. CallBorrows(h)
  BY <1>8, <1>11 DEF GuardInv, CallBorrows, Given
<1>14. \A k \in Libs : ClosedRight(h, k)
  <2> DEFINE j == l
  <2>1. /\ grd.refs[j] > 0 /\ (j \in Loaded => grd.refs[j] > 1) /\ j \in Libs
        /\ h.refs = [grd.refs EXCEPT ![j] = @ - 1]
        /\ h.closes = [grd.closes EXCEPT ![j] = IF grd.refs[j] = 1 THEN 1 ELSE @]
    BY <1>1, <1>5, <1>8
  <2> HIDE DEF j
  <2> QED  BY <1>8, <1>12, <2>1, GuardGoes
<1> QED  BY <1>7, <1>8, <1>10, <1>13, <1>14 DEF GuardInv

LEMMA GuardNext ==
  ASSUME GuardInv(grd), [Guards!Next]_grd
  PROVE  GuardInv(grd')
<1>1. CASE UNCHANGED grd
  BY <1>1
<1> QED  BY <1>1, OpenKeeps, CloneGuardKeeps, DropGuardKeeps, UnloadGuardKeeps, NewKeeps, CloneKeeps,
            CallKeepsGuards, TakeApartKeeps, RunCodeKeeps, FinishDropKeeps DEF Guards!Next

LEMMA GuardsAreKept ==
  ASSUME GuardInv(grd)
  PROVE  Guards!GuardsAreExact
<1>1. grd \in Guards!GuardType /\ grd.stray \subseteq grd.early
  BY DEF GuardInv
<1>2. ASSUME NEW l \in Libs
      PROVE  /\ Guards!InUse(l) /\ l \notin grd.early => Guards!Mapped(l)
             /\ grd.closes[l] <= 1
  <2>1. Guards!InUse(l) => UsedIn(grd, l)
    BY DEF Guards!InUse, Guards!Exists, UsedIn, Given, Busy
  <2>2. UsedIn(grd, l) /\ l \notin grd.early => Guards!Mapped(l)
    BY UsedIsCounted DEF Guards!Mapped
  <2>3. grd.closes[l] <= 1
    BY <1>1, GuardFacts DEF GuardInv, ClosedRight
  <2> QED  BY <2>1, <2>2, <2>3
<1>3. \A S : Guards!Cardinality(S) = Cardinality(S)
  BY DEF Guards!Cardinality, Cardinality
<1>4. ASSUME NEW l \in Libs
      PROVE  grd.refs[l] = Guards!Static(l) + grd.loose[l]
               + Guards!Cardinality(Dropping(grd, l)) + Guards!Cardinality(Clones(grd, l))
  BY <1>3 DEF GuardInv, Counted, Guards!Static
<1> QED  BY <1>1, <1>2, <1>4 DEF Guards!GuardsAreExact, Dropping, Clones, Busy

(* Whatever plugins a script or program loads, asks and unloads, whatever  *)
(* their destroy and their failed init leave behind, however often a       *)
(* library is loaded, and whatever threads make, call and drop of their    *)
(* values while the host unloads: no code of an unmapped library is left   *)
(* or runs, other than what destroy or a failed init left, what is of a    *)
(* library that was loaded while it was loaded, and what the host's unload *)
(* cut off of the values it does not wait for; and the loader's handles    *)
(* and the guards are counted right.                                       *)
THEOREM CodeStaysMapped == Spec => []NothingElseDangles
<1> DEFINE I == /\ which = "plugins" => PluginInv(host)
                /\ which = "guards" => GuardInv(grd)
<1>1. Init => I
  BY PluginInit, GuardInit DEF Init
<1>2. I /\ [Next]_<<which, host, grd, reg, mem, io, child, cc, lay, strip>> => I'
  <2>1. ASSUME I, Next  PROVE I'
    <3>1. (which = "plugins" => [Host!Next]_host) /\ (which = "guards" => [Guards!Next]_grd) /\ which' = which
      BY <2>1 DEF Next
    <3>2. which = "plugins" => PluginInv(host')
      BY <2>1, <3>1, PluginNext
    <3>3. which = "guards" => GuardInv(grd')
      BY <2>1, <3>1, GuardNext
    <3> QED  BY <3>1, <3>2, <3>3
  <2>2. ASSUME I, UNCHANGED <<which, host, grd, reg, mem, io, child, cc, lay, strip>>  PROVE I'
    BY <2>2
  <2> QED  BY <2>1, <2>2
<1>3. I => NothingElseDangles
  BY PluginsAreSafe, GuardsAreKept DEF NothingElseDangles
<1> QED  BY <1>1, <1>2, <1>3, PTL DEF Spec

-----------------------------------------------------------------------------
(* The reactor *)

(* Who is using the descriptor uses what it may and what is there. *)
UsersAreThere ==
  \A t \in Tasks : io.at[t] # "idle" =>
    /\ DirOf[t] \notin io.dropped
    /\ io.kind = "listener" => io.at[t] = "try"
    /\ io.kind = "connect" => DirOf[t] = "write"

(* Of one direction there is one user, if the descriptor is used           *)
(* exclusively.                                                            *)
OneUser ==
  io.kind \notin React!Shared \cup {"listener"} =>
    \A t, u \in Tasks : t # u /\ DirOf[t] = DirOf[u] => "idle" \in {io.at[t], io.at[u]}

(* The registration goes with the descriptor, with its read half, or when  *)
(* it is connected.                                                        *)
GoneWhenUnused ==
  ~io.registered =>
    \/ io.dropped = React!Dirs
    \/ io.kind = "half" /\ "read" \in io.dropped
    \/ io.kind = "connect" /\ \E t \in Tasks : DirOf[t] = "write" /\ io.at[t] = "done"

(* What was cleared stays so until the waker is kept, if the thread that   *)
(* cleared it is the only one that polls the reactor.                      *)
ClearedIsClear ==
  ~io.other /\ io.registered =>
    \A t \in Tasks : io.at[t] = "cleared" => DirOf[t] \notin io.readiness

WakersAreKept ==
  \A t \in React!Waiting :
    \/ io.registered /\ io.waker[DirOf[t]] = t
    \/ io.kind \in React!Shared /\ t \in io.ousted
    \/ io.kind = "half" /\ DirOf[t] = "write" /\ "read" \in io.dropped
    \/ io.other /\ t \in io.missed

ReactorInv ==
  /\ React!TypeOK /\ UsersAreThere /\ OneUser /\ GoneWhenUnused
  /\ ClearedIsClear /\ WakersAreKept

LEMMA ReactorInit == ASSUME React!ReactorAssumption, React!Init PROVE ReactorInv
<1>1. React!TypeOK
  BY DEF React!Init, React!TypeOK, React!ReactorType, React!Dirs
<1> QED
  BY <1>1 DEF React!Init, ReactorInv, UsersAreThere, OneUser, GoneWhenUnused, ClearedIsClear,
     WakersAreKept, React!Waiting

(* The invariant is enough: the kernel's events are those of the interest. *)
LEMMA WaitersAreKnown == ASSUME React!ReactorAssumption, ReactorInv PROVE React!WaitersAreRegistered
BY DEF React!ReactorAssumption, ReactorInv, React!TypeOK, React!ReactorType, UsersAreThere, WakersAreKept,
       React!WaitersAreRegistered, React!Registered, React!Waiting, React!Events, React!Interest, React!Dirs

(* Who is in the middle of a poll when the registration is gone has the    *)
(* write half of a stream.                                                 *)
LEMMA GoneUser ==
  ASSUME React!ReactorAssumption, ReactorInv, ~io.registered, NEW t \in Tasks, io.at[t] \notin {"idle", "done"}
  PROVE  io.kind = "half" /\ DirOf[t] = "write" /\ "read" \in io.dropped
BY DEF React!ReactorAssumption, ReactorInv, UsersAreThere, OneUser, GoneWhenUnused, React!Dirs,
       React!Shared, React!TypeOK, React!ReactorType

(* The steps of a poll, whatever the handler. *)
LEMMA StartKeeps ==
  ASSUME React!ReactorAssumption, ReactorInv, NEW t \in Tasks, React!Start(t),
         io.kind # "listener", io.kind = "connect" => DirOf[t] = "write"
  PROVE  ReactorInv'
<1>1. /\ DirOf[t] \notin io.dropped /\ io.at[t] \in {"idle", "parked"}
      /\ io.kind \notin React!Shared => \A u \in Tasks \ {t} : DirOf[u] = DirOf[t] => io.at[u] = "idle"
      /\ io'.woken = io.woken \ {t} /\ io'.missed = io.missed \ {t}
      /\ \/ io'.at = [io.at EXCEPT ![t] = "try"] /\ io'.waker = io.waker /\ io'.ousted = io.ousted \ {t}
         \/ /\ io.registered /\ io'.at = [io.at EXCEPT ![t] = "parked"]
            /\ io'.waker = [io.waker EXCEPT ![DirOf[t]] = t]
            /\ io'.ousted = (io.ousted \ {t}) \cup {u \in Tasks \ {t} : io.waker[DirOf[t]] = u}
      /\ io'.kind = io.kind /\ io'.other = io.other /\ io'.registered = io.registered
      /\ io'.readiness = io.readiness /\ io'.os = io.os /\ io'.dropped = io.dropped
  BY DEF ReactorInv, React!TypeOK, React!ReactorType, React!Start, React!MayStart, React!Others,
     React!PollReady, React!Ready
<1>2. React!TypeOK'
  BY DEF ReactorInv, React!TypeOK, React!ReactorType, React!ReactorAssumption, React!Dirs,
     React!Start, React!MayStart, React!Others, React!PollReady, React!Ready
<1>3. UsersAreThere'
  BY <1>1 DEF ReactorInv, React!TypeOK, React!ReactorType, React!ReactorAssumption, React!Dirs,
     UsersAreThere
<1>4. OneUser'
  BY <1>1 DEF ReactorInv, React!TypeOK, React!ReactorType, React!ReactorAssumption, React!Dirs,
     OneUser, React!Shared
<1>5. GoneWhenUnused'
  BY <1>1 DEF ReactorInv, React!TypeOK, React!ReactorType, React!ReactorAssumption, React!Dirs,
     GoneWhenUnused
<1>6. ClearedIsClear'
  BY <1>1 DEF ReactorInv, React!TypeOK, React!ReactorType, React!ReactorAssumption, React!Dirs,
     ClearedIsClear
<1>7. WakersAreKept'
  BY <1>1 DEF ReactorInv, React!TypeOK, React!ReactorType, React!ReactorAssumption, React!Dirs,
     WakersAreKept, React!Waiting, React!Shared
<1> QED  BY <1>2, <1>3, <1>4, <1>5, <1>6, <1>7 DEF ReactorInv

LEMMA TryKeeps ==
  ASSUME React!ReactorAssumption, ReactorInv, NEW t \in Tasks, React!Try(t),
         io.kind \notin {"listener", "connect"}
  PROVE  ReactorInv'
<1>1. /\ io.at[t] = "try" /\ \E a \in {"idle", "blocked"} : io'.at = [io.at EXCEPT ![t] = a]
      /\ io'.kind = io.kind /\ io'.other = io.other /\ io'.registered = io.registered
      /\ io'.readiness = io.readiness /\ io'.waker = io.waker /\ io'.woken = io.woken
      /\ io'.dropped = io.dropped /\ io'.ousted = io.ousted /\ io'.missed = io.missed
  BY DEF ReactorInv, React!TypeOK, React!ReactorType, React!Try
<1>2. React!TypeOK'
  <2>1. CASE DirOf[t] \in io.os
    <3>1. PICK os \in {io.os, io.os \ {DirOf[t]}} : io' = [io EXCEPT !.at[t] = "idle", !.os = os]
      BY <2>1 DEF React!Try
    <3>2. os \in SUBSET React!Dirs
      BY <3>1 DEF ReactorInv, React!TypeOK, React!ReactorType
    <3> QED BY <3>1, <3>2 DEF ReactorInv, React!TypeOK, React!ReactorType
  <2>2. CASE DirOf[t] \notin io.os
    BY <2>2 DEF React!Try, ReactorInv, React!TypeOK, React!ReactorType
  <2> QED BY <2>1, <2>2
<1>3. UsersAreThere'
  BY <1>1 DEF ReactorInv, React!TypeOK, React!ReactorType, React!ReactorAssumption, React!Dirs,
     UsersAreThere
<1>4. OneUser'
  BY <1>1 DEF ReactorInv, React!TypeOK, React!ReactorType, React!ReactorAssumption, React!Dirs,
     OneUser, React!Shared
<1>5. GoneWhenUnused'
  BY <1>1 DEF ReactorInv, React!TypeOK, React!ReactorType, React!ReactorAssumption, React!Dirs,
     GoneWhenUnused
<1>6. ClearedIsClear'
  BY <1>1 DEF ReactorInv, React!TypeOK, React!ReactorType, React!ReactorAssumption, React!Dirs,
     ClearedIsClear
<1>7. WakersAreKept'
  BY <1>1 DEF ReactorInv, React!TypeOK, React!ReactorType, React!ReactorAssumption, React!Dirs,
     WakersAreKept, React!Waiting, React!Shared
<1> QED  BY <1>2, <1>3, <1>4, <1>5, <1>6, <1>7 DEF ReactorInv

LEMMA ClearReadyKeeps ==
  ASSUME React!ReactorAssumption, ReactorInv, NEW t \in Tasks, React!ClearReady(t)
  PROVE  ReactorInv'
<1>1. /\ io.at[t] = "blocked" /\ io'.at = [io.at EXCEPT ![t] = "cleared"]
      /\ io'.readiness \subseteq io.readiness
      /\ io.registered => DirOf[t] \notin io'.readiness
      /\ io'.kind = io.kind /\ io'.other = io.other /\ io'.registered = io.registered
      /\ io'.os = io.os /\ io'.waker = io.waker /\ io'.woken = io.woken
      /\ io'.dropped = io.dropped /\ io'.ousted = io.ousted /\ io'.missed = io.missed
  BY DEF ReactorInv, React!TypeOK, React!ReactorType, React!ClearReady, React!Cleared
<1>2. React!TypeOK'
  BY DEF ReactorInv, React!TypeOK, React!ReactorType, React!ReactorAssumption, React!Dirs,
     React!ClearReady, React!Cleared
<1>3. UsersAreThere'
  BY <1>1 DEF ReactorInv, React!TypeOK, React!ReactorType, React!ReactorAssumption, React!Dirs,
     UsersAreThere
<1>4. OneUser'
  BY <1>1 DEF ReactorInv, React!TypeOK, React!ReactorType, React!ReactorAssumption, React!Dirs,
     OneUser, React!Shared
<1>5. GoneWhenUnused'
  BY <1>1 DEF ReactorInv, React!TypeOK, React!ReactorType, React!ReactorAssumption, React!Dirs,
     GoneWhenUnused
<1>6. ClearedIsClear'
  BY <1>1 DEF ReactorInv, React!TypeOK, React!ReactorType, React!ReactorAssumption, React!Dirs,
     ClearedIsClear
<1>7. WakersAreKept'
  BY <1>1 DEF ReactorInv, React!TypeOK, React!ReactorType, React!ReactorAssumption, React!Dirs,
     WakersAreKept, React!Waiting, React!Shared
<1> QED  BY <1>2, <1>3, <1>4, <1>5, <1>6, <1>7 DEF ReactorInv

(* The answer to the second asking is not looked at. *)
LEMMA RearmKeeps ==
  ASSUME React!ReactorAssumption, ReactorInv, NEW t \in Tasks, React!Rearm(t)
  PROVE  ReactorInv'
<1>1. /\ io.at[t] = "cleared" /\ io'.at = [io.at EXCEPT ![t] = "parked"]
      /\ \/ /\ React!Ready(DirOf[t]) /\ io'.missed = io.missed \cup {t}
            /\ io'.waker = io.waker /\ io'.ousted = io.ousted
         \/ /\ io.registered /\ io'.missed = io.missed
            /\ io'.waker = [io.waker EXCEPT ![DirOf[t]] = t]
            /\ io'.ousted = io.ousted \cup {u \in Tasks \ {t} : io.waker[DirOf[t]] = u}
      /\ io'.kind = io.kind /\ io'.other = io.other /\ io'.registered = io.registered
      /\ io'.readiness = io.readiness /\ io'.os = io.os /\ io'.woken = io.woken /\ io'.dropped = io.dropped
  BY DEF ReactorInv, React!TypeOK, React!ReactorType, React!Rearm, React!PollReady, React!Ready
<1>2. React!TypeOK'
  BY DEF ReactorInv, React!TypeOK, React!ReactorType, React!ReactorAssumption, React!Dirs,
     React!Rearm, React!PollReady, React!Ready
<1>3. UsersAreThere'
  BY <1>1 DEF ReactorInv, React!TypeOK, React!ReactorType, React!ReactorAssumption, React!Dirs,
     UsersAreThere
<1>4. OneUser'
  BY <1>1 DEF ReactorInv, React!TypeOK, React!ReactorType, React!ReactorAssumption, React!Dirs,
     OneUser, React!Shared
<1>5. GoneWhenUnused'
  BY <1>1 DEF ReactorInv, React!TypeOK, React!ReactorType, React!ReactorAssumption, React!Dirs,
     GoneWhenUnused
<1>6. ClearedIsClear'
  BY <1>1 DEF ReactorInv, React!TypeOK, React!ReactorType, React!ReactorAssumption, React!Dirs,
     ClearedIsClear
<1>7. WakersAreKept'
  <2>1. ASSUME React!Ready(DirOf[t])
        PROVE  io.other \/ (io.kind = "half" /\ DirOf[t] = "write" /\ "read" \in io.dropped)
    BY <1>1, <2>1, GoneUser DEF ReactorInv, ClearedIsClear, React!Ready
  <2>2. ASSUME NEW u \in Tasks \ {t}, io.kind \notin React!Shared, DirOf[u] = DirOf[t]
        PROVE  io.at[u] # "parked"
    BY <1>1, <2>2 DEF ReactorInv, UsersAreThere, OneUser
  <2> QED
    BY <1>1, <2>1, <2>2 DEF ReactorInv, React!TypeOK, React!ReactorType, React!ReactorAssumption, React!Dirs,
       WakersAreKept, React!Waiting
<1> QED  BY <1>2, <1>3, <1>4, <1>5, <1>6, <1>7 DEF ReactorInv

(* The reactor's poll. *)
LEMMA PollKeeps ==
  ASSUME React!ReactorAssumption, ReactorInv, React!Poll
  PROVE  ReactorInv'
<1>1. /\ io.registered /\ (~io.other => \A t \in Tasks : io.at[t] # "cleared")
      /\ io'.readiness = io.readiness \cup React!Events
      /\ io'.woken = io.woken \cup {t \in Tasks : \E d \in React!Events : io.waker[d] = t}
      /\ io'.waker = [d \in React!Dirs |-> IF d \in React!Events THEN NONE ELSE io.waker[d]]
      /\ io'.kind = io.kind /\ io'.other = io.other /\ io'.registered = io.registered /\ io'.os = io.os
      /\ io'.dropped = io.dropped /\ io'.at = io.at /\ io'.ousted = io.ousted /\ io'.missed = io.missed
  BY DEF ReactorInv, React!TypeOK, React!ReactorType, React!Poll, React!ThreadIsFree, React!MidPoll
<1>2. React!TypeOK'
  <2>1. React!Events \in SUBSET React!Dirs
    BY DEF React!Events, ReactorInv, React!TypeOK, React!ReactorType
  <2>2. {t \in Tasks : \E d \in React!Events : io.waker[d] = t} \in SUBSET Tasks
    OBVIOUS
  <2>3. [d \in React!Dirs |-> IF d \in React!Events THEN NONE ELSE io.waker[d]] \in [React!Dirs -> Tasks \cup {NONE}]
    BY DEF ReactorInv, React!TypeOK, React!ReactorType
  <2> QED BY <2>1, <2>2, <2>3 DEF React!Poll, ReactorInv, React!TypeOK, React!ReactorType
<1>3. UsersAreThere'
  BY <1>1 DEF ReactorInv, React!TypeOK, React!ReactorType, React!ReactorAssumption, React!Dirs,
     UsersAreThere
<1>4. OneUser'
  BY <1>1 DEF ReactorInv, React!TypeOK, React!ReactorType, React!ReactorAssumption, React!Dirs,
     OneUser, React!Shared
<1>5. GoneWhenUnused'
  BY <1>1 DEF ReactorInv, React!TypeOK, React!ReactorType, React!ReactorAssumption, React!Dirs,
     GoneWhenUnused
<1>6. ClearedIsClear'
  BY <1>1 DEF ReactorInv, React!TypeOK, React!ReactorType, React!ReactorAssumption, React!Dirs,
     ClearedIsClear
<1>7. WakersAreKept'
  BY <1>1 DEF ReactorInv, React!TypeOK, React!ReactorType, React!ReactorAssumption, React!Dirs,
     WakersAreKept, React!Waiting, React!Shared
<1> QED  BY <1>2, <1>3, <1>4, <1>5, <1>6, <1>7 DEF ReactorInv

(* What is dropped was unused. *)
LEMMA DropUseKeeps ==
  ASSUME React!ReactorAssumption, ReactorInv, React!Drop
  PROVE  ReactorInv'
<1>1. /\ \A t \in Tasks : io.at[t] = "idle"
      /\ io'.dropped = React!Dirs /\ io'.registered = FALSE
      /\ io'.kind = io.kind /\ io'.other = io.other /\ io'.at = io.at
  BY DEF ReactorInv, React!TypeOK, React!ReactorType, React!Drop, React!Unused, React!Deregistered,
     React!ReactorAssumption
<1>2. React!TypeOK'
  BY DEF ReactorInv, React!TypeOK, React!ReactorType, React!ReactorAssumption, React!Dirs,
     React!Drop, React!Unused, React!Deregistered, React!ReactorAssumption
<1>3. UsersAreThere'
  BY <1>1 DEF ReactorInv, React!TypeOK, React!ReactorType, React!ReactorAssumption, React!Dirs,
     UsersAreThere
<1>4. OneUser'
  BY <1>1 DEF ReactorInv, React!TypeOK, React!ReactorType, React!ReactorAssumption, React!Dirs,
     OneUser, React!Shared
<1>5. GoneWhenUnused'
  BY <1>1 DEF ReactorInv, React!TypeOK, React!ReactorType, React!ReactorAssumption, React!Dirs,
     GoneWhenUnused
<1>6. ClearedIsClear'
  BY <1>1 DEF ReactorInv, React!TypeOK, React!ReactorType, React!ReactorAssumption, React!Dirs,
     ClearedIsClear
<1>7. WakersAreKept'
  BY <1>1 DEF ReactorInv, React!TypeOK, React!ReactorType, React!ReactorAssumption, React!Dirs,
     WakersAreKept, React!Waiting, React!Shared
<1> QED  BY <1>2, <1>3, <1>4, <1>5, <1>6, <1>7 DEF ReactorInv

LEMMA DropReadHalfKeeps ==
  ASSUME React!ReactorAssumption, ReactorInv, React!DropReadHalf
  PROVE  ReactorInv'
<1>1. /\ \A t \in Tasks : DirOf[t] = "read" => io.at[t] = "idle"
      /\ io.kind = "half" /\ io'.dropped = io.dropped \cup {"read"} /\ io'.registered = FALSE
      /\ io'.kind = io.kind /\ io'.other = io.other /\ io'.at = io.at /\ io'.woken = io.woken
  BY DEF ReactorInv, React!TypeOK, React!ReactorType, React!DropReadHalf, React!Unused,
     React!Deregistered
<1>2. React!TypeOK'
  BY DEF ReactorInv, React!TypeOK, React!ReactorType, React!ReactorAssumption, React!Dirs,
     React!DropReadHalf, React!Unused, React!Deregistered
<1>3. UsersAreThere'
  BY <1>1 DEF ReactorInv, React!TypeOK, React!ReactorType, React!ReactorAssumption, React!Dirs,
     UsersAreThere
<1>4. OneUser'
  BY <1>1 DEF ReactorInv, React!TypeOK, React!ReactorType, React!ReactorAssumption, React!Dirs,
     OneUser, React!Shared
<1>5. GoneWhenUnused'
  BY <1>1 DEF ReactorInv, React!TypeOK, React!ReactorType, React!ReactorAssumption, React!Dirs,
     GoneWhenUnused
<1>6. ClearedIsClear'
  BY <1>1 DEF ReactorInv, React!TypeOK, React!ReactorType, React!ReactorAssumption, React!Dirs,
     ClearedIsClear
<1>7. WakersAreKept'
  BY <1>1 DEF ReactorInv, React!TypeOK, React!ReactorType, React!ReactorAssumption, React!Dirs,
     WakersAreKept, React!Waiting, React!Shared
<1> QED  BY <1>2, <1>3, <1>4, <1>5, <1>6, <1>7 DEF ReactorInv

LEMMA DropWriteHalfKeeps ==
  ASSUME React!ReactorAssumption, ReactorInv, React!DropWriteHalf
  PROVE  ReactorInv'
<1>1. /\ \A t \in Tasks : DirOf[t] = "write" => io.at[t] = "idle"
      /\ io.kind = "half" /\ io'.dropped = io.dropped \cup {"write"}
      /\ io'.kind = io.kind /\ io'.other = io.other /\ io'.registered = io.registered /\ io'.at = io.at
      /\ io'.readiness = io.readiness /\ io'.waker = io.waker /\ io'.os = io.os
      /\ io'.woken = io.woken /\ io'.ousted = io.ousted /\ io'.missed = io.missed
  BY DEF ReactorInv, React!TypeOK, React!ReactorType, React!DropWriteHalf, React!Unused
<1>2. React!TypeOK'
  BY DEF ReactorInv, React!TypeOK, React!ReactorType, React!ReactorAssumption, React!Dirs,
     React!DropWriteHalf, React!Unused
<1>3. UsersAreThere'
  BY <1>1 DEF ReactorInv, React!TypeOK, React!ReactorType, React!ReactorAssumption, React!Dirs,
     UsersAreThere
<1>4. OneUser'
  BY <1>1 DEF ReactorInv, React!TypeOK, React!ReactorType, React!ReactorAssumption, React!Dirs,
     OneUser, React!Shared
<1>5. GoneWhenUnused'
  BY <1>1 DEF ReactorInv, React!TypeOK, React!ReactorType, React!ReactorAssumption, React!Dirs,
     GoneWhenUnused
<1>6. ClearedIsClear'
  BY <1>1 DEF ReactorInv, React!TypeOK, React!ReactorType, React!ReactorAssumption, React!Dirs,
     ClearedIsClear
<1>7. WakersAreKept'
  BY <1>1 DEF ReactorInv, React!TypeOK, React!ReactorType, React!ReactorAssumption, React!Dirs,
     WakersAreKept, React!Waiting, React!Shared
<1> QED  BY <1>2, <1>3, <1>4, <1>5, <1>6, <1>7 DEF ReactorInv

(* The kernel, AsyncFd, connect, accept, cancelled futures. *)
LEMMA KernelReadyKeeps ==
  ASSUME React!ReactorAssumption, ReactorInv, NEW d \in React!Dirs, React!KernelReady(d)
  PROVE  ReactorInv'
<1>1. /\ io'.kind = io.kind /\ io'.other = io.other /\ io'.registered = io.registered /\ io'.at = io.at
      /\ io'.readiness = io.readiness /\ io'.waker = io.waker /\ io'.woken = io.woken
      /\ io'.dropped = io.dropped /\ io'.ousted = io.ousted /\ io'.missed = io.missed
  BY DEF ReactorInv, React!TypeOK, React!ReactorType, React!KernelReady
<1>2. React!TypeOK'
  BY DEF ReactorInv, React!TypeOK, React!ReactorType, React!ReactorAssumption, React!Dirs,
     React!KernelReady
<1>3. UsersAreThere'
  BY <1>1 DEF ReactorInv, React!TypeOK, React!ReactorType, React!ReactorAssumption, React!Dirs,
     UsersAreThere
<1>4. OneUser'
  BY <1>1 DEF ReactorInv, React!TypeOK, React!ReactorType, React!ReactorAssumption, React!Dirs,
     OneUser, React!Shared
<1>5. GoneWhenUnused'
  BY <1>1 DEF ReactorInv, React!TypeOK, React!ReactorType, React!ReactorAssumption, React!Dirs,
     GoneWhenUnused
<1>6. ClearedIsClear'
  BY <1>1 DEF ReactorInv, React!TypeOK, React!ReactorType, React!ReactorAssumption, React!Dirs,
     ClearedIsClear
<1>7. WakersAreKept'
  BY <1>1 DEF ReactorInv, React!TypeOK, React!ReactorType, React!ReactorAssumption, React!Dirs,
     WakersAreKept, React!Waiting, React!Shared
<1> QED  BY <1>2, <1>3, <1>4, <1>5, <1>6, <1>7 DEF ReactorInv

LEMMA FdClearKeeps ==
  ASSUME React!ReactorAssumption, ReactorInv, NEW t \in Tasks, React!FdClear(t)
  PROVE  ReactorInv'
<1>1. /\ io'.at = [io.at EXCEPT ![t] = "idle"] /\ io.at[t] = "blocked" /\ io'.readiness \subseteq io.readiness
      /\ io'.kind = io.kind /\ io'.other = io.other /\ io'.registered = io.registered
      /\ io'.waker = io.waker /\ io'.woken = io.woken /\ io'.dropped = io.dropped
      /\ io'.ousted = io.ousted /\ io'.missed = io.missed
  BY DEF ReactorInv, React!TypeOK, React!ReactorType, React!FdClear, React!Cleared
<1>2. React!TypeOK'
  BY DEF ReactorInv, React!TypeOK, React!ReactorType, React!ReactorAssumption, React!Dirs,
     React!FdClear, React!Cleared
<1>3. UsersAreThere'
  BY <1>1 DEF ReactorInv, React!TypeOK, React!ReactorType, React!ReactorAssumption, React!Dirs,
     UsersAreThere
<1>4. OneUser'
  BY <1>1 DEF ReactorInv, React!TypeOK, React!ReactorType, React!ReactorAssumption, React!Dirs,
     OneUser, React!Shared
<1>5. GoneWhenUnused'
  BY <1>1 DEF ReactorInv, React!TypeOK, React!ReactorType, React!ReactorAssumption, React!Dirs,
     GoneWhenUnused
<1>6. ClearedIsClear'
  BY <1>1 DEF ReactorInv, React!TypeOK, React!ReactorType, React!ReactorAssumption, React!Dirs,
     ClearedIsClear
<1>7. WakersAreKept'
  BY <1>1 DEF ReactorInv, React!TypeOK, React!ReactorType, React!ReactorAssumption, React!Dirs,
     WakersAreKept, React!Waiting, React!Shared
<1> QED  BY <1>2, <1>3, <1>4, <1>5, <1>6, <1>7 DEF ReactorInv

LEMMA ConnectedKeeps ==
  ASSUME React!ReactorAssumption, ReactorInv, NEW t \in Tasks, React!Connected(t)
  PROVE  ReactorInv'
<1>1. /\ io'.at = [io.at EXCEPT ![t] = "done"] /\ io.at[t] = "try" /\ io.kind = "connect"
      /\ io'.registered = FALSE
      /\ io'.kind = io.kind /\ io'.other = io.other /\ io'.woken = io.woken /\ io'.dropped = io.dropped
  BY DEF ReactorInv, React!TypeOK, React!ReactorType, React!Connected, React!Deregistered
<1>2. React!TypeOK'
  BY DEF ReactorInv, React!TypeOK, React!ReactorType, React!ReactorAssumption, React!Dirs,
     React!Connected, React!Deregistered
<1>3. UsersAreThere'
  BY <1>1 DEF ReactorInv, React!TypeOK, React!ReactorType, React!ReactorAssumption, React!Dirs,
     UsersAreThere
<1>4. OneUser'
  BY <1>1 DEF ReactorInv, React!TypeOK, React!ReactorType, React!ReactorAssumption, React!Dirs,
     OneUser, React!Shared
<1>5. GoneWhenUnused'
  <2>1. DirOf[t] = "write" /\ io'.at[t] = "done"
    BY <1>1 DEF ReactorInv, React!TypeOK, React!ReactorType, UsersAreThere
  <2> QED
    BY <1>1, <2>1 DEF GoneWhenUnused
<1>6. ClearedIsClear'
  BY <1>1 DEF ReactorInv, React!TypeOK, React!ReactorType, React!ReactorAssumption, React!Dirs,
     ClearedIsClear
<1>7. WakersAreKept'
  <2>1. ASSUME NEW u \in Tasks \ {t}  PROVE io.at[u] # "parked"
    BY <1>1 DEF ReactorInv, UsersAreThere, OneUser, React!Shared
  <2> QED
    BY <1>1, <2>1 DEF ReactorInv, React!TypeOK, React!ReactorType, WakersAreKept, React!Waiting
<1> QED  BY <1>2, <1>3, <1>4, <1>5, <1>6, <1>7 DEF ReactorInv

LEMMA AcceptKeeps ==
  ASSUME React!ReactorAssumption, ReactorInv, NEW t \in Tasks, React!Accept(t)
  PROVE  ReactorInv'
<1>1. /\ DirOf[t] = "read" /\ "read" \notin io.dropped /\ io.kind = "listener"
      /\ io.at[t] \in {"idle", "try"} /\ \E a \in {"idle", "try"} : io'.at = [io.at EXCEPT ![t] = a]
      /\ io'.readiness \subseteq io.readiness
      /\ io'.kind = io.kind /\ io'.other = io.other /\ io'.registered = io.registered
      /\ io'.waker = io.waker /\ io'.woken = io.woken /\ io'.dropped = io.dropped
      /\ io'.ousted = io.ousted /\ io'.missed = io.missed
  <2>1. CASE "read" \in io.os
    <3>1. PICK os \in {io.os, io.os \ {"read"}} : io' = [io EXCEPT !.at[t] = "idle", !.os = os]
      BY <2>1 DEF React!Accept
    <3> QED BY <3>1 DEF ReactorInv, React!TypeOK, React!ReactorType, React!Accept, React!Accepting
  <2>2. CASE "read" \notin io.os
    <3>1. io' = [React!Cleared(io, "read") EXCEPT !.at[t] = "try"]
      BY <2>2 DEF React!Accept
    <3>2. \E r \in {io.readiness, io.readiness \ {"read"}} : React!Cleared(io, "read") = [io EXCEPT !.readiness = r]
      BY DEF React!Cleared
    <3>3. PICK r \in {io.readiness, io.readiness \ {"read"}} : io' = [[io EXCEPT !.readiness = r] EXCEPT !.at[t] = "try"]
      BY <3>1, <3>2
    <3> QED BY <3>3 DEF ReactorInv, React!TypeOK, React!ReactorType, React!Accept, React!Accepting
  <2> QED BY <2>1, <2>2
<1>2. React!TypeOK'
  <2>1. CASE "read" \in io.os
    <3>1. PICK os \in {io.os, io.os \ {"read"}} : io' = [io EXCEPT !.at[t] = "idle", !.os = os]
      BY <2>1 DEF React!Accept
    <3>2. os \in SUBSET React!Dirs
      BY <3>1 DEF ReactorInv, React!TypeOK, React!ReactorType
    <3> QED BY <3>1, <3>2 DEF ReactorInv, React!TypeOK, React!ReactorType, React!Accept, React!Accepting
  <2>2. CASE "read" \notin io.os
    <3>1. io' = [React!Cleared(io, "read") EXCEPT !.at[t] = "try"]
      BY <2>2 DEF React!Accept
    <3>2. \E r \in {io.readiness, io.readiness \ {"read"}} : React!Cleared(io, "read") = [io EXCEPT !.readiness = r]
      BY DEF React!Cleared
    <3>3. PICK r \in {io.readiness, io.readiness \ {"read"}} : io' = [[io EXCEPT !.readiness = r] EXCEPT !.at[t] = "try"]
      BY <3>1, <3>2
    <3>4. r \in SUBSET React!Dirs
      BY <3>3 DEF ReactorInv, React!TypeOK, React!ReactorType
    <3> QED BY <3>3, <3>4 DEF ReactorInv, React!TypeOK, React!ReactorType, React!Accept, React!Accepting
  <2> QED BY <2>1, <2>2
<1>3. UsersAreThere'
  BY <1>1 DEF ReactorInv, React!TypeOK, React!ReactorType, React!ReactorAssumption, React!Dirs,
     UsersAreThere
<1>4. OneUser'
  BY <1>1 DEF ReactorInv, React!TypeOK, React!ReactorType, React!ReactorAssumption, React!Dirs,
     OneUser, React!Shared
<1>5. GoneWhenUnused'
  BY <1>1 DEF ReactorInv, React!TypeOK, React!ReactorType, React!ReactorAssumption, React!Dirs,
     GoneWhenUnused
<1>6. ClearedIsClear'
  BY <1>1 DEF ReactorInv, React!TypeOK, React!ReactorType, React!ReactorAssumption, React!Dirs,
     ClearedIsClear
<1>7. WakersAreKept'
  BY <1>1 DEF ReactorInv, React!TypeOK, React!ReactorType, React!ReactorAssumption, React!Dirs,
     WakersAreKept, React!Waiting, React!Shared
<1> QED  BY <1>2, <1>3, <1>4, <1>5, <1>6, <1>7 DEF ReactorInv

LEMMA CancelKeeps ==
  ASSUME React!ReactorAssumption, ReactorInv, NEW t \in Tasks, React!Cancel(t)
  PROVE  ReactorInv'
<1>1. /\ io'.at = [io.at EXCEPT ![t] = "idle"] /\ io.at[t] = "parked" /\ io'.woken = io.woken \ {t}
      /\ io'.kind = io.kind /\ io'.other = io.other /\ io'.registered = io.registered
      /\ io'.readiness = io.readiness /\ io'.waker = io.waker /\ io'.os = io.os
      /\ io'.dropped = io.dropped /\ io'.ousted = io.ousted /\ io'.missed = io.missed
  BY DEF ReactorInv, React!TypeOK, React!ReactorType, React!Cancel
<1>2. React!TypeOK'
  BY DEF ReactorInv, React!TypeOK, React!ReactorType, React!ReactorAssumption, React!Dirs,
     React!Cancel
<1>3. UsersAreThere'
  BY <1>1 DEF ReactorInv, React!TypeOK, React!ReactorType, React!ReactorAssumption, React!Dirs,
     UsersAreThere
<1>4. OneUser'
  BY <1>1 DEF ReactorInv, React!TypeOK, React!ReactorType, React!ReactorAssumption, React!Dirs,
     OneUser, React!Shared
<1>5. GoneWhenUnused'
  BY <1>1 DEF ReactorInv, React!TypeOK, React!ReactorType, React!ReactorAssumption, React!Dirs,
     GoneWhenUnused
<1>6. ClearedIsClear'
  BY <1>1 DEF ReactorInv, React!TypeOK, React!ReactorType, React!ReactorAssumption, React!Dirs,
     ClearedIsClear
<1>7. WakersAreKept'
  BY <1>1 DEF ReactorInv, React!TypeOK, React!ReactorType, React!ReactorAssumption, React!Dirs,
     WakersAreKept, React!Waiting, React!Shared
<1> QED  BY <1>2, <1>3, <1>4, <1>5, <1>6, <1>7 DEF ReactorInv

LEMMA PollIoKeeps ==
  ASSUME React!ReactorAssumption, ReactorInv, NEW t \in Tasks, React!PollIo(t),
         io.kind \notin {"listener", "connect"}
  PROVE  ReactorInv'
BY StartKeeps, TryKeeps, ClearReadyKeeps, RearmKeeps DEF React!PollIo

LEMMA ReactorNext ==
  ASSUME React!ReactorAssumption, ReactorInv, [React!Next]_io
  PROVE  ReactorInv'
<1>1. CASE React!Poll
  BY <1>1, PollKeeps
<1>2. CASE React!Drop \/ React!DropReadHalf \/ React!DropWriteHalf
  BY <1>2, DropUseKeeps, DropReadHalfKeeps, DropWriteHalfKeeps
<1>3. ASSUME NEW d \in React!Dirs, React!KernelReady(d)
      PROVE  ReactorInv'
  BY <1>3, KernelReadyKeeps
<1>4. ASSUME NEW t \in Tasks,
             \/ React!TcpRead(t) \/ React!TcpWrite(t) \/ React!HalfRead(t) \/ React!HalfWrite(t)
             \/ React!UnixRead(t) \/ React!UnixWrite(t) \/ React!UdpSend(t) \/ React!UdpRecv(t)
             \/ React!PipeRead(t) \/ React!PipeWrite(t)
      PROVE  ReactorInv'
  <2>1. React!PollIo(t) /\ io.kind \notin {"listener", "connect"}
    BY <1>4 DEF React!TcpRead, React!TcpWrite, React!HalfRead, React!HalfWrite, React!UnixRead,
       React!UnixWrite, React!UdpSend, React!UdpRecv,
                React!PipeRead, React!PipeWrite, React!Handler
  <2> QED BY <2>1, PollIoKeeps
<1>5. ASSUME NEW t \in Tasks, React!FdWait(t) \/ React!FdClear(t)
      PROVE  ReactorInv'
  <2>1. io.kind = "fd"
    BY <1>5 DEF React!FdWait, React!FdClear
  <2>2. React!Start(t) \/ React!Try(t) \/ React!FdClear(t)
    BY <1>5 DEF React!FdWait
  <2> QED BY <2>1, <2>2, StartKeeps, TryKeeps, FdClearKeeps
<1>6. ASSUME NEW t \in Tasks, React!Connect(t) \/ React!Connected(t)
      PROVE  ReactorInv'
  <2>1. CASE React!Connect(t)
    BY <2>1, StartKeeps DEF React!Connect
  <2>2. CASE React!Connected(t)
    BY <2>2, ConnectedKeeps
  <2> QED BY <1>6, <2>1, <2>2
<1>7. ASSUME NEW t \in Tasks, React!Accept(t) \/ React!Cancel(t)
      PROVE  ReactorInv'
  BY <1>7, AcceptKeeps, CancelKeeps
<1>8. CASE UNCHANGED io
  BY <1>8 DEF ReactorInv, React!TypeOK, UsersAreThere, OneUser, GoneWhenUnused, ClearedIsClear,
         WakersAreKept, React!Waiting,
         OneUser, GoneWhenUnused
<1> QED BY <1>1, <1>2, <1>3, <1>4, <1>5, <1>6, <1>7, <1>8 DEF React!Next

(* No lost wake, whatever the descriptor, its tasks and the threads that    *)
(* poll the reactor: whoever is parked in a socket, a pipe or an AsyncFd,  *)
(* and was not woken, has its waker in the reactor, registered for what    *)
(* the kernel will tell; but for a task that shares the descriptor with    *)
(* one that came later, one with the write half of a stream without its    *)
(* read half, and one that was overtaken by another thread's poll.         *)
THEOREM WaitersStayRegistered == Spec => []WaitersAreRegistered
<1> DEFINE I == which = "reactor" => ReactorInv
<1>1. React!ReactorAssumption
  BY HostAssumption DEF HostAssumption
<1>2. Init => I
  BY <1>1, ReactorInit DEF Init
<1>3. I /\ [Next]_<<which, host, grd, reg, mem, io, child, cc, lay, strip>> => I'
  <2>1. ASSUME I, Next  PROVE I'
    <3>1. (which = "reactor" => [React!Next]_io) /\ which' = which
      BY <2>1 DEF Next
    <3> QED  BY <1>1, <2>1, <3>1, ReactorNext
  <2>2. ASSUME I, UNCHANGED <<which, host, grd, reg, mem, io, child, cc, lay, strip>>  PROVE I'
    <3>1. UNCHANGED io /\ which' = which
      BY <2>2
    <3> QED  BY <1>1, <2>2, <3>1, ReactorNext
  <2> QED  BY <2>1, <2>2
<1>4. I => WaitersAreRegistered
  BY <1>1, WaitersAreKnown DEF WaitersAreRegistered
<1> QED  BY <1>2, <1>3, <1>4, PTL DEF Spec

-----------------------------------------------------------------------------
(* A child process and its pipes *)

(* What the child wrote is read or in its pipe, and no more than it will   *)
(* write; what it has closed it has written all of, unless it was killed.  *)
NothingIsLost(c) ==
  \A p \in Process!Pipes :
    /\ c.wrote[p] <= c.writes[p]
    /\ c.parent # "dropped" => c.wrote[p] = c.got[p] + c.pipe[p]
    /\ p \in c.closed => c.killed \/ c.wrote[p] = c.writes[p]

(* A pipe the parent is done with is empty and closed. *)
PipesAreRead(c) ==
  /\ c.parent \in {"err", "wait", "done"} => c.pipe["out"] = 0 /\ "out" \in c.closed
  /\ c.parent \in {"wait", "done"} => c.pipe["err"] = 0 /\ "err" \in c.closed

(* A child that runs was not killed, and has no input when its output is   *)
(* collected.                                                              *)
LivesRight(c) ==
  /\ c.state \in {"none", "running"} => ~c.killed
  /\ c.state \in {"exited", "reaped"} => c.closed = Process!Pipes
  /\ c.parent # "has" => ~c.stdin
  /\ c.parent = "done" => c.state = "reaped"
  /\ c.parent = "dropped" /\ c.killDrop => c.state \notin {"none", "running"}
  /\ c.state = "none" => c.parent = "has"

ChildInv(c) ==
  c \in Process!ChildType /\ NothingIsLost(c) /\ PipesAreRead(c) /\ LivesRight(c)

LEMMA ChildFacts ==
  ASSUME NEW c \in Process!ChildType
  PROVE  /\ PipeSize \in Nat \ {0} /\ Process!Pipes = {"out", "err"}
         /\ c.writes \in [Process!Pipes -> Nat] /\ c.writes["err"] <= PipeSize
         /\ c.wrote \in [Process!Pipes -> Nat] /\ c.got \in [Process!Pipes -> Nat]
         /\ c.pipe \in [Process!Pipes -> Nat]
         /\ \A p \in Process!Pipes : c.pipe[p] \in Nat /\ c.pipe[p] <= PipeSize
         /\ c.closed \subseteq Process!Pipes
<1>1. Outputs \subseteq [Process!Pipes -> Nat] /\ PipeSize \in Nat \ {0}
  BY HostAssumption DEF HostAssumption, Process!ChildProcessAssumption
<1>2. c.writes \in Outputs /\ c.pipe \in [Process!Pipes -> 0 .. PipeSize]
  BY DEF Process!ChildType
<1>3. c.writes["err"] <= PipeSize
  BY <1>2 DEF Outputs
<1> QED  BY <1>1, <1>2, <1>3 DEF Process!ChildType, Process!Pipes

LEMMA ChildInit ==
  ASSUME Process!Init
  PROVE  ChildInv(child)
<1>1. PICK writes \in Outputs, reads \in BOOLEAN, early \in BOOLEAN, kill \in BOOLEAN :
        child = [ writes |-> writes, state |-> "none", readsIn |-> reads, early |-> early,
                  killed |-> FALSE, stdin |-> TRUE, closed |-> {}, pipe |-> Process!Zero,
                  wrote |-> Process!Zero, got |-> Process!Zero, parent |-> "has", killDrop |-> kill ]
  BY DEF Process!Init
<1>2. /\ PipeSize \in Nat \ {0} /\ Process!Zero \in [Process!Pipes -> 0 .. PipeSize]
      /\ Process!Zero \in [Process!Pipes -> Nat] /\ \A p \in Process!Pipes : Process!Zero[p] = 0
      /\ writes \in [Process!Pipes -> Nat]
  BY HostAssumption DEF HostAssumption, Process!ChildProcessAssumption, Process!Zero
<1>3. child \in Process!ChildType
  BY <1>1, <1>2 DEF Process!ChildType
<1> QED  BY <1>1, <1>2, <1>3 DEF ChildInv, NothingIsLost, PipesAreRead, LivesRight

LEMMA ChildWritesKeeps ==
  ASSUME ChildInv(child), NEW p \in Process!Pipes, Process!ChildWrites(p)
  PROVE  ChildInv(child')
<1> DEFINE W == [child.wrote EXCEPT ![p] = @ + 1]
           R == [child.pipe EXCEPT ![p] = @ + 1]
<1>1. /\ child \in Process!ChildType /\ child.state = "running" /\ p \notin child.closed
      /\ child.wrote[p] < child.writes[p] /\ child.pipe[p] < PipeSize
      /\ child' = [child EXCEPT !.wrote = W, !.pipe = R]
  BY DEF ChildInv, Process!ChildWrites, Process!Goes, Process!ChildType
<1>2. /\ W \in [Process!Pipes -> Nat] /\ R \in [Process!Pipes -> 0 .. PipeSize]
      /\ W[p] = child.wrote[p] + 1 /\ R[p] = child.pipe[p] + 1
      /\ \A q \in Process!Pipes \ {p} : W[q] = child.wrote[q] /\ R[q] = child.pipe[q]
  <2>1. /\ child.wrote \in [Process!Pipes -> Nat] /\ child.pipe \in [Process!Pipes -> 0 .. PipeSize]
        /\ PipeSize \in Nat
    BY <1>1, ChildFacts DEF Process!ChildType
  <2> QED  BY <1>1, <2>1
<1> HIDE DEF W, R
<1>3. PICK h : h = child'
  OBVIOUS
<1>4. /\ h \in Process!ChildType /\ h.wrote = W /\ h.pipe = R /\ h.writes = child.writes
      /\ h.state = child.state /\ h.killed = child.killed /\ h.stdin = child.stdin /\ h.closed = child.closed
      /\ h.got = child.got /\ h.parent = child.parent /\ h.killDrop = child.killDrop
  BY <1>1, <1>2, <1>3 DEF Process!ChildType
<1>5. NothingIsLost(h)
  BY <1>1, <1>2, <1>4, ChildFacts DEF ChildInv, NothingIsLost
<1>6. PipesAreRead(h)
  BY <1>1, <1>2, <1>4, ChildFacts DEF ChildInv, PipesAreRead
<1>7. LivesRight(h)
  BY <1>1, <1>4 DEF ChildInv, LivesRight
<1> QED  BY <1>3, <1>4, <1>5, <1>6, <1>7 DEF ChildInv

(* The child closes or exits, is spawned, killed or reaped; what is in the *)
(* pipes stays.                                                            *)
LEMMA ChildEndsKeeps ==
  ASSUME ChildInv(child),
         \/ \E p \in Process!Pipes : Process!ChildCloses(p)
         \/ Process!ChildExits \/ Process!Spawn \/ Process!WaitWithOutput \/ Process!Wait \/ Process!StartKill
  PROVE  ChildInv(child')
<1>1. child \in Process!ChildType
  BY DEF ChildInv
<1>2. PICK h : h = child'
  OBVIOUS
<1>3. ASSUME NEW p \in Process!Pipes, Process!ChildCloses(p)
      PROVE  ChildInv(h)
  <2>1. child.wrote[p] = child.writes[p] /\ child.state = "running"
    BY <1>3 DEF Process!ChildCloses, Process!Goes
  <2>2. /\ h \in Process!ChildType /\ h.wrote = child.wrote /\ h.writes = child.writes
        /\ h.state = child.state /\ h.killed = child.killed /\ h.stdin = child.stdin
        /\ h.closed = child.closed \cup {p} /\ h.pipe = child.pipe /\ h.got = child.got
        /\ h.parent = child.parent /\ h.killDrop = child.killDrop
    BY <1>1, <1>2, <1>3 DEF Process!ChildType, Process!ChildCloses, Process!Goes
  <2>3. NothingIsLost(h)
    BY <1>1, <2>1, <2>2, ChildFacts DEF ChildInv, NothingIsLost
  <2>4. PipesAreRead(h)
    BY <1>1, <2>1, <2>2, ChildFacts DEF ChildInv, PipesAreRead
  <2>5. LivesRight(h)
    BY <2>1, <2>2 DEF ChildInv, LivesRight
  <2> QED  BY <1>2, <2>2, <2>3, <2>4, <2>5 DEF ChildInv
<1>4. CASE Process!ChildExits
  <2>1. child.wrote = child.writes /\ child.state = "running"
    BY <1>4 DEF Process!ChildExits, Process!Goes
  <2>2. /\ h \in Process!ChildType /\ h.wrote = child.wrote /\ h.writes = child.writes
        /\ h.state = "exited" /\ h.killed = child.killed /\ h.stdin = child.stdin
        /\ h.closed = Process!Pipes /\ h.pipe = child.pipe /\ h.got = child.got
        /\ h.parent = child.parent /\ h.killDrop = child.killDrop
    BY <1>1, <1>2, <1>4 DEF Process!ChildType, Process!ChildExits, Process!Goes
  <2>3. NothingIsLost(h)
    BY <1>1, <2>1, <2>2, ChildFacts DEF ChildInv, NothingIsLost
  <2>4. PipesAreRead(h)
    BY <1>1, <2>1, <2>2, ChildFacts DEF ChildInv, PipesAreRead
  <2>5. LivesRight(h)
    BY <2>1, <2>2 DEF ChildInv, LivesRight
  <2> QED  BY <1>2, <2>2, <2>3, <2>4, <2>5 DEF ChildInv
<1>5. CASE Process!Spawn
  <2>1. child.state = "none"
    BY <1>5 DEF Process!Spawn
  <2>2. /\ h \in Process!ChildType /\ h.wrote = child.wrote /\ h.writes = child.writes
        /\ h.state = "running" /\ h.killed = child.killed /\ h.stdin = child.stdin
        /\ h.closed = child.closed /\ h.pipe = child.pipe /\ h.got = child.got
        /\ h.parent = child.parent /\ h.killDrop = child.killDrop
    BY <1>1, <1>2, <1>5 DEF Process!ChildType, Process!Spawn
  <2>3. NothingIsLost(h)
    BY <1>1, <2>1, <2>2, ChildFacts DEF ChildInv, NothingIsLost
  <2>4. PipesAreRead(h)
    BY <1>1, <2>1, <2>2, ChildFacts DEF ChildInv, PipesAreRead
  <2>5. LivesRight(h)
    BY <2>1, <2>2 DEF ChildInv, LivesRight
  <2> QED  BY <1>2, <2>2, <2>3, <2>4, <2>5 DEF ChildInv
<1>6. CASE Process!WaitWithOutput
  <2>1. child.state # "none" /\ child.parent = "has"
    BY <1>6 DEF Process!WaitWithOutput, Process!TakePipes
  <2>2. /\ h \in Process!ChildType /\ h.wrote = child.wrote /\ h.writes = child.writes
        /\ h.state = child.state /\ h.killed = child.killed /\ h.stdin = FALSE
        /\ h.closed = child.closed /\ h.pipe = child.pipe /\ h.got = child.got
        /\ h.parent = "out" /\ h.killDrop = child.killDrop
    BY <1>1, <1>2, <1>6 DEF Process!ChildType, Process!WaitWithOutput, Process!TakePipes
  <2>3. NothingIsLost(h)
    BY <1>1, <2>1, <2>2, ChildFacts DEF ChildInv, NothingIsLost
  <2>4. PipesAreRead(h)
    BY <1>1, <2>1, <2>2, ChildFacts DEF ChildInv, PipesAreRead
  <2>5. LivesRight(h)
    BY <2>1, <2>2 DEF ChildInv, LivesRight
  <2> QED  BY <1>2, <2>2, <2>3, <2>4, <2>5 DEF ChildInv
<1>7. CASE Process!Wait
  <2> DEFINE a == IF child.parent = "wait" THEN "done" ELSE child.parent
  <2>1. child' = [child EXCEPT !.state = "reaped", !.parent = a]
    BY <1>7 DEF Process!Wait
  <2>2. /\ child.state = "exited" /\ child.parent \in {"has", "wait"} /\ a \in {"has", "done"}
        /\ (a = "done" <=> child.parent = "wait")
    BY <1>7 DEF Process!Wait
  <2> HIDE DEF a
  <2>3. /\ h \in Process!ChildType /\ h.wrote = child.wrote /\ h.writes = child.writes
        /\ h.state = "reaped" /\ h.killed = child.killed /\ h.stdin = child.stdin
        /\ h.closed = child.closed /\ h.pipe = child.pipe /\ h.got = child.got
        /\ h.parent = a /\ h.killDrop = child.killDrop
    BY <1>1, <1>2, <2>1, <2>2 DEF Process!ChildType
  <2>4. NothingIsLost(h)
    BY <1>1, <2>2, <2>3, ChildFacts DEF ChildInv, NothingIsLost
  <2>5. PipesAreRead(h)
    BY <1>1, <2>2, <2>3, ChildFacts DEF ChildInv, PipesAreRead
  <2>6. LivesRight(h)
    BY <2>2, <2>3 DEF ChildInv, LivesRight
  <2> QED  BY <1>2, <2>3, <2>4, <2>5, <2>6 DEF ChildInv
<1>8. CASE Process!StartKill
  <2>1. child.state = "running"
    BY <1>8 DEF Process!StartKill, Process!Killed
  <2>2. /\ h \in Process!ChildType /\ h.wrote = child.wrote /\ h.writes = child.writes
        /\ h.state = "exited" /\ h.killed = TRUE /\ h.stdin = child.stdin
        /\ h.closed = Process!Pipes /\ h.pipe = child.pipe /\ h.got = child.got
        /\ h.parent = child.parent /\ h.killDrop = child.killDrop
    BY <1>1, <1>2, <1>8 DEF Process!ChildType, Process!StartKill, Process!Killed
  <2>3. NothingIsLost(h)
    BY <1>1, <2>1, <2>2, ChildFacts DEF ChildInv, NothingIsLost
  <2>4. PipesAreRead(h)
    BY <1>1, <2>1, <2>2, ChildFacts DEF ChildInv, PipesAreRead
  <2>5. LivesRight(h)
    BY <2>1, <2>2 DEF ChildInv, LivesRight
  <2> QED  BY <1>2, <2>2, <2>3, <2>4, <2>5 DEF ChildInv
<1> QED  BY <1>2, <1>3, <1>4, <1>5, <1>6, <1>7, <1>8

LEMMA ReadPipeKeeps ==
  ASSUME ChildInv(child), NEW p \in Process!Pipes, Process!ReadPipe(p)
  PROVE  ChildInv(child')
<1>1. PICK n \in 1 .. child.pipe[p] : child' = [child EXCEPT !.pipe[p] = @ - n, !.got[p] = @ + n]
  BY DEF Process!ReadPipe
<1> DEFINE R == [child.pipe EXCEPT ![p] = @ - n]
           G == [child.got EXCEPT ![p] = @ + n]
<1>2. /\ child \in Process!ChildType /\ child.parent = p /\ child.pipe[p] > 0
      /\ child' = [child EXCEPT !.pipe = R, !.got = G]
  BY <1>1 DEF ChildInv, Process!ReadPipe, Process!ChildType
<1>3. /\ R \in [Process!Pipes -> 0 .. PipeSize] /\ G \in [Process!Pipes -> Nat]
      /\ R[p] = child.pipe[p] - n /\ G[p] = child.got[p] + n
      /\ \A q \in Process!Pipes \ {p} : R[q] = child.pipe[q] /\ G[q] = child.got[q]
  <2>1. /\ child.got \in [Process!Pipes -> Nat] /\ child.pipe \in [Process!Pipes -> 0 .. PipeSize]
        /\ PipeSize \in Nat /\ child.pipe[p] \in Nat /\ n \in Nat /\ n <= child.pipe[p]
    BY <1>1, <1>2, ChildFacts DEF Process!ChildType
  <2> QED  BY <1>2, <2>1
<1> HIDE DEF R, G
<1>4. PICK h : h = child'
  OBVIOUS
<1>5. /\ h \in Process!ChildType /\ h.wrote = child.wrote /\ h.pipe = R /\ h.writes = child.writes
      /\ h.state = child.state /\ h.killed = child.killed /\ h.stdin = child.stdin /\ h.closed = child.closed
      /\ h.got = G /\ h.parent = child.parent /\ h.killDrop = child.killDrop
  BY <1>2, <1>3, <1>4 DEF Process!ChildType
<1>6. NothingIsLost(h)
  BY <1>1, <1>2, <1>3, <1>5, ChildFacts DEF ChildInv, NothingIsLost
<1>7. PipesAreRead(h)
  BY <1>1, <1>2, <1>3, <1>5, ChildFacts DEF ChildInv, PipesAreRead
<1>8. LivesRight(h)
  BY <1>2, <1>5 DEF ChildInv, LivesRight
<1> QED  BY <1>4, <1>5, <1>6, <1>7, <1>8 DEF ChildInv

LEMMA EndOfPipeKeeps ==
  ASSUME ChildInv(child), NEW p \in Process!Pipes, Process!EndOfPipe(p)
  PROVE  ChildInv(child')
<1> DEFINE a == IF p = "out" THEN "err" ELSE "wait"
<1>1. /\ child \in Process!ChildType /\ child.parent = p /\ child.pipe[p] = 0 /\ p \in child.closed
      /\ child' = [child EXCEPT !.parent = a] /\ p \in {"out", "err"}
  BY DEF ChildInv, Process!EndOfPipe, Process!AtEof, Process!Pipes
<1>2. a \in {"err", "wait"} /\ (a = "err" <=> p = "out")
  BY <1>1
<1> HIDE DEF a
<1>3. PICK h : h = child'
  OBVIOUS
<1>4. /\ h \in Process!ChildType /\ h.wrote = child.wrote /\ h.pipe = child.pipe /\ h.writes = child.writes
      /\ h.state = child.state /\ h.killed = child.killed /\ h.stdin = child.stdin /\ h.closed = child.closed
      /\ h.got = child.got /\ h.parent = a /\ h.killDrop = child.killDrop
  BY <1>1, <1>2, <1>3 DEF Process!ChildType
<1>5. NothingIsLost(h) /\ PipesAreRead(h) /\ LivesRight(h)
  BY <1>1, <1>2, <1>4 DEF ChildInv, NothingIsLost, PipesAreRead, LivesRight
<1> QED  BY <1>3, <1>4, <1>5 DEF ChildInv

LEMMA ProcessDropKeeps ==
  ASSUME ChildInv(child), Process!Drop
  PROVE  ChildInv(child')
<1> DEFINE k == IF child.killDrop THEN Process!Killed(child) ELSE child
<1>1. /\ child \in Process!ChildType /\ child.state # "none" /\ child.parent \notin {"done", "dropped"}
      /\ child' = [k EXCEPT !.parent = "dropped", !.stdin = FALSE, !.pipe = Process!Zero]
  BY DEF ChildInv, Process!Drop
<1>2. /\ k \in Process!ChildType /\ k.wrote = child.wrote /\ k.writes = child.writes /\ k.killDrop = child.killDrop
      /\ k.state # "none" /\ (k.killDrop => k.state # "running")
      /\ \/ k.killed /\ k.closed = Process!Pipes /\ k.state = "exited"
         \/ k.killed = child.killed /\ k.closed = child.closed /\ k.state = child.state
  <2>1. CASE child.killDrop /\ child.state = "running"
    BY <1>1, <2>1 DEF Process!Killed, Process!ChildType
  <2>2. CASE ~(child.killDrop /\ child.state = "running")
    <3>1. k = child
      BY <2>2 DEF Process!Killed
    <3> QED  BY <1>1, <2>2, <3>1
  <2> QED  BY <2>1, <2>2
<1> HIDE DEF k
<1>3. PICK h : h = child'
  OBVIOUS
<1>4. Process!Zero \in [Process!Pipes -> 0 .. PipeSize]
  <2>1. PipeSize \in Nat
    BY <1>1, ChildFacts
  <2> QED  BY <2>1 DEF Process!Zero
<1>5. /\ h \in Process!ChildType /\ h.wrote = k.wrote /\ h.writes = k.writes
      /\ h.state = k.state /\ h.killed = k.killed /\ h.stdin = FALSE /\ h.closed = k.closed
      /\ h.parent = "dropped" /\ h.killDrop = k.killDrop
  BY <1>1, <1>2, <1>3, <1>4 DEF Process!ChildType
<1>6. NothingIsLost(h) /\ PipesAreRead(h) /\ LivesRight(h)
  BY <1>1, <1>2, <1>5 DEF ChildInv, NothingIsLost, PipesAreRead, LivesRight
<1> QED  BY <1>3, <1>5, <1>6 DEF ChildInv

LEMMA ChildNext ==
  ASSUME ChildInv(child), [Process!Next]_child
  PROVE  ChildInv(child')
<1>1. CASE UNCHANGED child
  BY <1>1
<1> QED  BY <1>1, ChildWritesKeeps, ChildEndsKeeps, ReadPipeKeeps, EndOfPipeKeeps, ProcessDropKeeps
         DEF Process!Next

LEMMA NothingIsMissing ==
  ASSUME ChildInv(child)
  PROVE  Process!OutputIsComplete
<1>1. child \in Process!ChildType
  BY DEF ChildInv
<1>2. CASE child.parent \in {"wait", "done"}
  <2>1. \A p \in Process!Pipes : child.pipe[p] = 0 /\ p \in child.closed
    BY <1>1, <1>2, ChildFacts DEF ChildInv, PipesAreRead
  <2>2. \A p \in Process!Pipes :
          child.wrote[p] = child.got[p] /\ (child.killed \/ child.wrote[p] = child.writes[p])
    BY <1>1, <1>2, <2>1, ChildFacts DEF ChildInv, NothingIsLost
  <2>3. child.got = child.wrote /\ (child.killed \/ child.got = child.writes)
    BY <1>1, <2>2, ChildFacts
  <2> QED  BY <1>2, <2>3 DEF ChildInv, LivesRight, Process!OutputIsComplete
<1>3. CASE child.parent \notin {"wait", "done"}
  BY <1>3 DEF ChildInv, LivesRight, Process!OutputIsComplete
<1> QED  BY <1>2, <1>3

(* Of the two pipes the parent reads the first while the second holds what *)
(* is written to it, and the second when the first has ended.              *)
LEMMA NobodyIsStuck ==
  ASSUME ChildInv(child)
  PROVE  Process!OutputGetsOn
<1> SUFFICES ASSUME child.parent \in Process!Pipes, child.state = "running",
                    child.pipe[child.parent] = 0, child.parent \notin child.closed,
                    child.wrote # child.writes
             PROVE  \E p \in Process!Pipes \ child.closed :
                      IF child.wrote[p] = child.writes[p] THEN child.early ELSE child.pipe[p] < PipeSize
  <2>1. child \in Process!ChildType /\ (child.parent \in Process!Pipes => ~child.stdin)
    BY DEF ChildInv, LivesRight, Process!Pipes
  <2>2. child.parent \in Process!Pipes => child.pipe[child.parent] \in Nat
    BY <2>1, ChildFacts
  <2> QED  BY <2>1, <2>2 DEF Process!OutputGetsOn, Process!AtEof, Process!Goes
<1>1. child \in Process!ChildType /\ ~child.killed
  BY DEF ChildInv, LivesRight
<1>2. PICK p \in Process!Pipes : child.wrote[p] # child.writes[p]
  BY <1>1, ChildFacts
<1>3. p \notin child.closed /\ child.wrote[p] < child.writes[p] /\ child.wrote[p] = child.got[p] + child.pipe[p]
  BY <1>1, <1>2, ChildFacts DEF ChildInv, NothingIsLost, LivesRight
<1>4. child.pipe[p] < PipeSize
  <2>1. CASE p = child.parent
    BY <1>1, <2>1, ChildFacts
  <2>2. CASE p # child.parent
    <3>1. p = "err"
      BY <1>1, <1>3, <2>2 DEF ChildInv, PipesAreRead, Process!Pipes
    <3> QED  BY <1>1, <1>3, <3>1, ChildFacts
  <2> QED  BY <2>1, <2>2
<1> QED  BY <1>2, <1>3, <1>4

(* For children that write any amounts, of errors no more than a pipe      *)
(* holds, and parents that wait, collect, kill or drop at any time: the    *)
(* output is complete when it is answered, and the two do not wait for     *)
(* each other.                                                             *)
THEOREM OutputsAreComplete == Spec => []OutputIsComplete
<1> DEFINE I == which = "child" => ChildInv(child)
<1>1. Init => I
  BY ChildInit DEF Init
<1>2. I /\ [Next]_<<which, host, grd, reg, mem, io, child, cc, lay, strip>> => I'
  <2>1. ASSUME I, Next  PROVE I'
    BY <2>1, ChildNext DEF Next
  <2>2. ASSUME I, UNCHANGED <<which, host, grd, reg, mem, io, child, cc, lay, strip>>  PROVE I'
    BY <2>2
  <2> QED  BY <2>1, <2>2
<1>3. I => OutputIsComplete
  BY NothingIsMissing, NobodyIsStuck DEF OutputIsComplete
<1> QED  BY <1>1, <1>2, <1>3, PTL DEF Spec

-----------------------------------------------------------------------------
(* The plugin compiler *)

Present(c) == {f \in Sources : c.text[f] > 0}

(* A kept artifact is all there and is of its directory's environment. *)
KeptIsWhole(c) ==
  \A e \in Envs : c.kept[e].done =>
    c.kept[e].whole /\ c.kept[e].rt = e /\ c.kept[e].time <= c.clock

(* The hash of a process is that of the runtime it runs with. *)
KnowsRt(c) ==
  /\ c.hash # "none" => c.hash = c.rt
  /\ c.doing # "idle" => c.hash # "none"

(* What is to be copied was just built, what is to be loaded is fresh. *)
InHand(c) ==
  /\ c.doing = "copy" =>
       /\ c.built[c.hash].done /\ c.built[c.hash].text = c.text /\ c.built[c.hash].rt = c.rt
       /\ c.deps[c.hash].done /\ c.deps[c.hash].files = Present(c)
  /\ c.doing = "load" => c.kept[c.hash].done /\ c.kept[c.hash].text = c.text

(* A change leaves a file that is there and younger than the artifact, and *)
(* if modules came or went since the dep file was written, that is one the *)
(* dep file names, or the manifest.                                        *)
ChangesShow(c) ==
  \A e \in Envs : c.kept[e].done =>
    /\ \/ c.kept[e].text = c.text
       \/ \E f \in Compile!Files : c.text[f] > 0 /\ c.time[f] > c.kept[e].time
    /\ c.deps[e].done =>
         \/ c.deps[e].files = Present(c)
         \/ \E f \in c.deps[e].files \cup {Compile!Manifest} : c.time[f] > c.kept[e].time

CompilerInv(c) ==
  /\ c \in Compile!CompilerType /\ ~c.stale
  /\ KeptIsWhole(c) /\ KnowsRt(c) /\ InHand(c) /\ ChangesShow(c)

LEMMA BuildFacts ==
  ASSUME NEW b \in Compile!Builds, NEW d \in Compile!Deps
  PROVE  /\ b.done \in BOOLEAN /\ d.done \in BOOLEAN
         /\ b.done => b \in [done : {TRUE}, text : Compile!Texts, rt : Envs, whole : BOOLEAN, time : Compile!Times]
         /\ d.done => d \in [done : {TRUE}, files : SUBSET Sources]
<1>1. Compile!NoBuild.done = FALSE
  BY DEF Compile!NoBuild
<1>2. b = Compile!NoBuild
        \/ b \in [done : {TRUE}, text : Compile!Texts, rt : Envs, whole : BOOLEAN, time : Compile!Times]
  BY DEF Compile!Builds
<1>3. d = Compile!NoBuild \/ d \in [done : {TRUE}, files : SUBSET Sources]
  BY DEF Compile!Deps
<1> QED  BY <1>1, <1>2, <1>3

LEMMA CompilerFacts ==
  ASSUME NEW c \in Compile!CompilerType
  PROVE  /\ MaxClock \in Nat /\ MaxVersion \in Nat \ {0} /\ "none" \notin Envs
         /\ c.clock \in Nat /\ c.clock <= MaxClock /\ c.rt \in Envs
         /\ c.hash \in Envs \cup {"none"} /\ (c.hash # "none" => c.hash \in Envs)
         /\ c.text \in [Compile!Files -> Nat] /\ c.time \in [Compile!Files -> Nat]
         /\ \A f \in Compile!Files : c.text[f] \in Nat /\ c.time[f] \in Nat
         /\ c.kept \in [Envs -> Compile!Builds] /\ c.built \in [Envs -> Compile!Builds]
         /\ c.deps \in [Envs -> Compile!Deps]
         /\ \A e \in Envs : c.kept[e].done \in BOOLEAN /\ (c.kept[e].done => c.kept[e].time \in Nat)
         /\ \A e \in Envs : c.deps[e].done => c.deps[e].files \subseteq Sources
         /\ Sources \subseteq Compile!Files /\ Compile!Manifest \in Compile!Files
<1>1. MaxClock \in Nat /\ MaxVersion \in Nat \ {0} /\ "none" \notin Envs
  BY HostAssumption DEF HostAssumption, Compile!CompilerAssumption
<1>2. ASSUME NEW e \in Envs
      PROVE  /\ c.kept[e].done \in BOOLEAN /\ (c.kept[e].done => c.kept[e].time \in Nat)
             /\ c.deps[e].done => c.deps[e].files \subseteq Sources
  <2>1. c.kept[e] \in Compile!Builds /\ c.deps[e] \in Compile!Deps
    BY DEF Compile!CompilerType
  <2>2. /\ c.kept[e].done \in BOOLEAN /\ (c.kept[e].done => c.kept[e].time \in Compile!Times)
        /\ c.deps[e].done => c.deps[e].files \subseteq Sources
    BY <2>1, BuildFacts
  <2> QED  BY <1>1, <2>2 DEF Compile!Times
<1>3. c.text \in [Compile!Files -> Nat] /\ c.time \in [Compile!Files -> Nat]
  BY <1>1 DEF Compile!CompilerType, Compile!Texts, Compile!Times
<1> QED  BY <1>1, <1>2, <1>3 DEF Compile!CompilerType, Compile!Times, Compile!Files

LEMMA CompilerInit ==
  ASSUME Compile!Init
  PROVE  CompilerInv(cc)
<1>1. PICK rt \in Envs :
        cc = [ clock |-> 1, text |-> [f \in Compile!Files |-> 1], time |-> [f \in Compile!Files |-> 0],
               rt |-> rt, hash |-> "none",
               built |-> [e \in Envs |-> Compile!NoBuild], deps |-> [e \in Envs |-> Compile!NoBuild],
               kept |-> [e \in Envs |-> Compile!NoBuild], doing |-> "idle", stale |-> FALSE ]
  BY DEF Compile!Init
<1>2. MaxClock \in Nat \ {0} /\ MaxVersion \in Nat \ {0}
  BY HostAssumption DEF HostAssumption, Compile!CompilerAssumption
<1>3. cc \in Compile!CompilerType
  BY <1>1, <1>2 DEF Compile!CompilerType, Compile!Times, Compile!Texts, Compile!Builds, Compile!Deps
<1> QED  BY <1>1, <1>3 DEF CompilerInv, KeptIsWhole, KnowsRt, InHand, ChangesShow, Compile!NoBuild

LEMMA TickKeeps ==
  ASSUME CompilerInv(cc), Compile!Tick
  PROVE  CompilerInv(cc')
<1>1. cc \in Compile!CompilerType /\ cc.clock < MaxClock /\ cc' = [cc EXCEPT !.clock = @ + 1]
  BY DEF CompilerInv, Compile!Tick
<1>2. PICK h : h = cc'
  OBVIOUS
<1>3. cc.clock + 1 \in Compile!Times /\ cc.clock <= cc.clock + 1
  BY <1>1, CompilerFacts DEF Compile!Times
<1>4. /\ h \in Compile!CompilerType /\ h.clock = cc.clock + 1 /\ h.text = cc.text /\ h.time = cc.time
      /\ h.rt = cc.rt /\ h.hash = cc.hash /\ h.built = cc.built /\ h.deps = cc.deps /\ h.kept = cc.kept
      /\ h.doing = cc.doing /\ h.stale = cc.stale
  BY <1>1, <1>2, <1>3 DEF Compile!CompilerType
<1>5. KeptIsWhole(h)
  BY <1>1, <1>4, CompilerFacts DEF CompilerInv, KeptIsWhole
<1>6. KnowsRt(h) /\ InHand(h) /\ ChangesShow(h)
  BY <1>4 DEF CompilerInv, KnowsRt, InHand, ChangesShow, Present
<1> QED  BY <1>2, <1>4, <1>5, <1>6 DEF CompilerInv

(* The runtime is replaced while no host runs, and the host restarts. *)
LEMMA RestartKeeps ==
  ASSUME CompilerInv(cc), Compile!Restart \/ \E e \in Envs : Compile!ReplaceRt(e)
  PROVE  CompilerInv(cc')
<1>1. cc \in Compile!CompilerType /\ cc.doing = "idle"
  BY DEF CompilerInv, Compile!Restart, Compile!ReplaceRt, KnowsRt
<1>2. PICK h : h = cc'
  OBVIOUS
<1>3. /\ h \in Compile!CompilerType /\ h.clock = cc.clock /\ h.text = cc.text /\ h.time = cc.time
      /\ h.hash = "none" /\ h.built = cc.built /\ h.deps = cc.deps /\ h.kept = cc.kept
      /\ h.doing = cc.doing /\ h.stale = cc.stale
  <2>1. CASE Compile!Restart
    BY <1>1, <1>2, <2>1 DEF Compile!Restart, Compile!CompilerType
  <2>2. ASSUME NEW e \in Envs, Compile!ReplaceRt(e)
        PROVE  /\ h \in Compile!CompilerType /\ h.clock = cc.clock /\ h.text = cc.text /\ h.time = cc.time
               /\ h.hash = "none" /\ h.built = cc.built /\ h.deps = cc.deps /\ h.kept = cc.kept
               /\ h.doing = cc.doing /\ h.stale = cc.stale
    BY <1>1, <1>2, <2>2 DEF Compile!ReplaceRt, Compile!CompilerType
  <2> QED  BY <2>1, <2>2
<1>4. KeptIsWhole(h) /\ KnowsRt(h) /\ InHand(h) /\ ChangesShow(h)
  BY <1>1, <1>3 DEF CompilerInv, KeptIsWhole, KnowsRt, InHand, ChangesShow, Present
<1> QED  BY <1>2, <1>3, <1>4 DEF CompilerInv

(* An edit is seen: it is younger than every artifact that is kept. *)
LEMMA ChangeShows ==
  ASSUME CompilerInv(cc), NEW h \in Compile!CompilerType, NEW g \in Compile!Files,
         cc.doing = "idle", \A e \in Envs : cc.kept[e].done => cc.kept[e].time # cc.clock,
         h.clock = cc.clock, h.rt = cc.rt, h.hash = cc.hash, h.built = cc.built,
         h.deps = cc.deps, h.kept = cc.kept, h.doing = cc.doing, h.stale = cc.stale,
         cc.text[g] > 0, h.text[g] > 0, h.time[g] = cc.clock,
         \A f \in Compile!Files : h.time[f] \in {cc.time[f], cc.clock}
  PROVE  CompilerInv(h)
<1>1. cc \in Compile!CompilerType /\ KeptIsWhole(cc) /\ ChangesShow(cc)
  BY DEF CompilerInv
<1>2. KeptIsWhole(h) /\ KnowsRt(h) /\ InHand(h)
  BY DEF CompilerInv, KeptIsWhole, KnowsRt, InHand
<1>3. ASSUME NEW e \in Envs, cc.kept[e].done
      PROVE  /\ cc.kept[e].time \in Nat /\ h.time[g] > cc.kept[e].time
             /\ \A f \in Compile!Files : cc.time[f] > cc.kept[e].time => h.time[f] > cc.kept[e].time
  <2>1. cc.kept[e].time <= cc.clock /\ cc.kept[e].time # cc.clock
    BY <1>1, <1>3 DEF KeptIsWhole
  <2>2. cc.kept[e].time \in Nat /\ cc.clock \in Nat /\ \A f \in Compile!Files : cc.time[f] \in Nat
    BY <1>1, <1>3, CompilerFacts
  <2> QED  BY <2>1, <2>2
<1>4. ASSUME NEW e \in Envs, h.kept[e].done, h.deps[e].done
      PROVE  \/ h.deps[e].files = Present(h)
             \/ \E f \in h.deps[e].files \cup {Compile!Manifest} : h.time[f] > h.kept[e].time
  <2>1. CASE cc.deps[e].files = Present(cc)
    <3>1. g \in h.deps[e].files \cup {Compile!Manifest}
      BY <2>1 DEF Present, Compile!Files
    <3> QED  BY <1>3, <1>4, <3>1
  <2>2. CASE \E f \in cc.deps[e].files \cup {Compile!Manifest} : cc.time[f] > cc.kept[e].time
    BY <1>1, <1>3, <1>4, <2>2, CompilerFacts
  <2> QED  BY <1>1, <1>4, <2>1, <2>2 DEF ChangesShow
<1>5. ChangesShow(h)
  BY <1>3, <1>4 DEF ChangesShow
<1> QED  BY <1>2, <1>5 DEF CompilerInv

LEMMA EditKeeps ==
  ASSUME CompilerInv(cc), NEW g \in Compile!Files, Compile!Edit(g)
  PROVE  CompilerInv(cc')
<1> DEFINE T == [cc.text EXCEPT ![g] = @ + 1]
           M == [cc.time EXCEPT ![g] = cc.clock]
<1>1. /\ cc \in Compile!CompilerType /\ cc.doing = "idle"
      /\ \A e \in Envs : cc.kept[e].done => cc.kept[e].time # cc.clock
      /\ cc.text[g] \in 1 .. MaxVersion - 1
      /\ cc' = [cc EXCEPT !.text = T, !.time = M]
  BY DEF CompilerInv, Compile!Edit, Compile!Unseen, Compile!CompilerType
<1>2. /\ T \in Compile!Texts /\ M \in [Compile!Files -> Compile!Times]
      /\ T[g] = cc.text[g] + 1 /\ T[g] > 0 /\ cc.text[g] > 0 /\ M[g] = cc.clock
      /\ \A f \in Compile!Files : M[f] \in {cc.time[f], cc.clock}
  <2>1. /\ cc.text \in Compile!Texts /\ cc.time \in [Compile!Files -> Compile!Times] /\ cc.clock \in Compile!Times
        /\ MaxVersion \in Nat
    BY <1>1, CompilerFacts DEF Compile!CompilerType
  <2> QED  BY <1>1, <2>1 DEF Compile!Texts
<1> HIDE DEF T, M
<1>3. PICK h : h = cc'
  OBVIOUS
<1>4. /\ h \in Compile!CompilerType /\ h.clock = cc.clock /\ h.text = T /\ h.time = M
      /\ h.rt = cc.rt /\ h.hash = cc.hash /\ h.built = cc.built /\ h.deps = cc.deps /\ h.kept = cc.kept
      /\ h.doing = cc.doing /\ h.stale = cc.stale
  BY <1>1, <1>2, <1>3 DEF Compile!CompilerType
<1>5. CompilerInv(h)
  BY <1>1, <1>2, <1>4, ChangeShows
<1> QED  BY <1>3, <1>5

LEMMA AddOrRemoveKeeps ==
  ASSUME CompilerInv(cc), NEW d \in Compile!Files, NEW g \in Compile!Files, Compile!AddOrRemove(d, g)
  PROVE  CompilerInv(cc')
<1> DEFINE T == [cc.text EXCEPT ![d] = IF @ = 0 THEN 1 ELSE 0, ![g] = @ + 1]
           M == [cc.time EXCEPT ![d] = cc.clock, ![g] = cc.clock]
<1>1. /\ cc \in Compile!CompilerType /\ cc.doing = "idle" /\ d # g
      /\ \A e \in Envs : cc.kept[e].done => cc.kept[e].time # cc.clock
      /\ cc.text[g] \in 1 .. MaxVersion - 1
      /\ cc' = [cc EXCEPT !.text = T, !.time = M]
  <2>1. cc \in Compile!CompilerType /\ cc' = [cc EXCEPT !.text = T, !.time = M]
    BY DEF CompilerInv, Compile!AddOrRemove, Compile!CompilerType
  <2> QED  BY <2>1 DEF Compile!AddOrRemove, Compile!Unseen
<1>2. /\ T \in Compile!Texts /\ M \in [Compile!Files -> Compile!Times]
      /\ T[g] = cc.text[g] + 1 /\ T[g] > 0 /\ cc.text[g] > 0 /\ M[g] = cc.clock
      /\ \A f \in Compile!Files : M[f] \in {cc.time[f], cc.clock}
  <2>1. /\ cc.text \in Compile!Texts /\ cc.time \in [Compile!Files -> Compile!Times] /\ cc.clock \in Compile!Times
        /\ MaxVersion \in Nat \ {0}
    BY <1>1, CompilerFacts DEF Compile!CompilerType
  <2> QED  BY <1>1, <2>1 DEF Compile!Texts
<1> HIDE DEF T, M
<1>3. PICK h : h = cc'
  OBVIOUS
<1>4. /\ h \in Compile!CompilerType /\ h.clock = cc.clock /\ h.text = T /\ h.time = M
      /\ h.rt = cc.rt /\ h.hash = cc.hash /\ h.built = cc.built /\ h.deps = cc.deps /\ h.kept = cc.kept
      /\ h.doing = cc.doing /\ h.stale = cc.stale
  BY <1>1, <1>2, <1>3 DEF Compile!CompilerType
<1>5. CompilerInv(h)
  BY <1>1, <1>2, <1>4, ChangeShows
<1> QED  BY <1>3, <1>5

(* What is found up to date is: a change would show. *)
LEMMA UpToDateIsFresh ==
  ASSUME CompilerInv(cc), Compile!UpToDate(cc)
  PROVE  cc.kept[cc.rt].done /\ cc.kept[cc.rt].text = cc.text
<1>1. /\ cc \in Compile!CompilerType /\ cc.rt \in Envs /\ Compile!Env(cc) = cc.rt
      /\ cc.time[Compile!Manifest] \in Nat
  BY CompilerFacts DEF CompilerInv, KnowsRt, Compile!Env
<1>2. /\ cc.kept[cc.rt].done /\ cc.deps[cc.rt].done /\ ~(cc.time[Compile!Manifest] > cc.kept[cc.rt].time)
      /\ \A f \in cc.deps[cc.rt].files : ~(cc.time[f] > cc.kept[cc.rt].time)
  BY <1>1 DEF Compile!UpToDate, Compile!CargoTomlNewer, Compile!ManifestNewer, Compile!SomeDepNewer
<1>3. cc.deps[cc.rt].files = Present(cc)
  BY <1>1, <1>2 DEF CompilerInv, ChangesShow
<1>4. \A f \in Compile!Files : cc.text[f] > 0 => ~(cc.time[f] > cc.kept[cc.rt].time)
  BY <1>2, <1>3 DEF Present, Compile!Files
<1> QED  BY <1>1, <1>2, <1>4 DEF CompilerInv, ChangesShow

LEMMA CheckKeeps ==
  ASSUME CompilerInv(cc), Compile!Check
  PROVE  CompilerInv(cc')
<1> DEFINE a == IF Compile!UpToDate(cc) THEN "load" ELSE "cargo"
<1>1. /\ cc \in Compile!CompilerType /\ cc.rt \in Envs /\ "none" \notin Envs /\ Compile!Env(cc) = cc.rt
      /\ cc' = [cc EXCEPT !.hash = cc.rt, !.doing = a]
  BY CompilerFacts DEF CompilerInv, KnowsRt, Compile!Env, Compile!Check
<1>2. a \in {"load", "cargo"} /\ (a = "load" => Compile!UpToDate(cc))
  OBVIOUS
<1> HIDE DEF a
<1>3. PICK h : h = cc'
  OBVIOUS
<1>4. /\ h \in Compile!CompilerType /\ h.clock = cc.clock /\ h.text = cc.text /\ h.time = cc.time
      /\ h.rt = cc.rt /\ h.hash = cc.rt /\ h.built = cc.built /\ h.deps = cc.deps /\ h.kept = cc.kept
      /\ h.doing = a /\ h.stale = cc.stale
  BY <1>1, <1>2, <1>3 DEF Compile!CompilerType
<1>5. KeptIsWhole(h) /\ KnowsRt(h) /\ ChangesShow(h)
  BY <1>1, <1>4 DEF CompilerInv, KeptIsWhole, KnowsRt, ChangesShow, Present
<1>6. InHand(h)
  BY <1>2, <1>4, UpToDateIsFresh DEF InHand
<1> QED  BY <1>3, <1>4, <1>5, <1>6 DEF CompilerInv

LEMMA CargoSucceedsKeeps ==
  ASSUME CompilerInv(cc), Compile!CargoSucceeds
  PROVE  CompilerInv(cc')
<1> DEFINE b == [done |-> TRUE, text |-> cc.text, rt |-> cc.rt, whole |-> TRUE, time |-> cc.clock]
           d == [done |-> TRUE, files |-> Present(cc)]
           B == [cc.built EXCEPT ![cc.hash] = b]
           D == [cc.deps EXCEPT ![cc.hash] = d]
<1>1. /\ cc \in Compile!CompilerType /\ cc.doing = "cargo" /\ cc.hash \in Envs /\ cc.hash = cc.rt
      /\ cc' = [cc EXCEPT !.built = B, !.deps = D, !.doing = "copy"]
  <2>1. cc \in Compile!CompilerType /\ cc.doing = "cargo" /\ cc.hash \in Envs /\ cc.hash = cc.rt
    BY CompilerFacts DEF CompilerInv, Compile!CargoSucceeds, KnowsRt
  <2> QED  BY <2>1 DEF Compile!CargoSucceeds, Present, Compile!CompilerType
<1>2. b \in Compile!Builds /\ b.done /\ b.text = cc.text /\ b.rt = cc.rt
  BY <1>1 DEF Compile!CompilerType, Compile!Builds
<1>3. d \in Compile!Deps /\ d.done /\ d.files = Present(cc)
  BY DEF Compile!Deps, Present
<1> HIDE DEF b, d
<1>4. /\ B \in [Envs -> Compile!Builds] /\ B[cc.hash] = b /\ D \in [Envs -> Compile!Deps] /\ D[cc.hash] = d
      /\ \A e \in Envs \ {cc.hash} : D[e] = cc.deps[e]
  BY <1>1, <1>2, <1>3, CompilerFacts
<1> HIDE DEF B, D
<1>5. PICK h : h = cc'
  OBVIOUS
<1>6. /\ h \in Compile!CompilerType /\ h.clock = cc.clock /\ h.text = cc.text /\ h.time = cc.time
      /\ h.rt = cc.rt /\ h.hash = cc.hash /\ h.built = B /\ h.deps = D /\ h.kept = cc.kept
      /\ h.doing = "copy" /\ h.stale = cc.stale
  BY <1>1, <1>4, <1>5 DEF Compile!CompilerType
<1>7. Present(h) = Present(cc)
  BY <1>6 DEF Present
<1>8. KeptIsWhole(h) /\ KnowsRt(h)
  BY <1>1, <1>6 DEF CompilerInv, KeptIsWhole, KnowsRt
<1>9. InHand(h)
  BY <1>2, <1>3, <1>4, <1>6, <1>7 DEF InHand
<1>10. ChangesShow(h)
  BY <1>3, <1>4, <1>6, <1>7 DEF CompilerInv, ChangesShow
<1> QED  BY <1>5, <1>6, <1>8, <1>9, <1>10 DEF CompilerInv

LEMMA CopyKeeps ==
  ASSUME CompilerInv(cc), Compile!Copy
  PROVE  CompilerInv(cc')
<1> DEFINE b == Compile!Copied(TRUE)
           K == [cc.kept EXCEPT ![cc.hash] = b]
<1>1. /\ cc \in Compile!CompilerType /\ cc.doing = "copy" /\ cc.hash \in Envs /\ cc.hash = cc.rt
      /\ cc' = [cc EXCEPT !.kept = K, !.doing = "load"]
  <2>1. cc \in Compile!CompilerType /\ cc.doing = "copy" /\ cc.hash \in Envs /\ cc.hash = cc.rt
    BY CompilerFacts DEF CompilerInv, Compile!Copy, KnowsRt
  <2> QED  BY <2>1 DEF Compile!Copy, Compile!CompilerType
<1>2. b \in Compile!Builds /\ b.done /\ b.text = cc.text /\ b.rt = cc.rt /\ b.whole /\ b.time = cc.clock
  <2>1. /\ cc.built[cc.hash] \in Compile!Builds /\ cc.built[cc.hash].done
        /\ cc.built[cc.hash].text = cc.text /\ cc.built[cc.hash].rt = cc.rt /\ cc.clock \in Compile!Times
    BY <1>1 DEF CompilerInv, InHand, Compile!CompilerType
  <2>2. cc.built[cc.hash] \in [done : {TRUE}, text : Compile!Texts, rt : Envs, whole : BOOLEAN, time : Compile!Times]
    <3>1. cc.deps[cc.hash] \in Compile!Deps
      BY <1>1 DEF Compile!CompilerType
    <3> QED  BY <2>1, <3>1, BuildFacts
  <2> QED  BY <2>1, <2>2 DEF Compile!Copied, Compile!Builds
<1> HIDE DEF b
<1>3. /\ K \in [Envs -> Compile!Builds] /\ K[cc.hash] = b
      /\ \A e \in Envs \ {cc.hash} : K[e] = cc.kept[e]
  BY <1>1, <1>2, CompilerFacts
<1> HIDE DEF K
<1>4. PICK h : h = cc'
  OBVIOUS
<1>5. /\ h \in Compile!CompilerType /\ h.clock = cc.clock /\ h.text = cc.text /\ h.time = cc.time
      /\ h.rt = cc.rt /\ h.hash = cc.hash /\ h.built = cc.built /\ h.deps = cc.deps /\ h.kept = K
      /\ h.doing = "load" /\ h.stale = cc.stale
  BY <1>1, <1>3, <1>4 DEF Compile!CompilerType
<1>6. Present(h) = Present(cc)
  BY <1>5 DEF Present
<1>7. KeptIsWhole(h)
  BY <1>1, <1>2, <1>3, <1>5, CompilerFacts DEF CompilerInv, KeptIsWhole
<1>8. KnowsRt(h) /\ InHand(h)
  BY <1>1, <1>2, <1>3, <1>5 DEF CompilerInv, KnowsRt, InHand
<1>9. cc.deps[cc.hash].files = Present(cc)
  BY <1>1 DEF CompilerInv, InHand
<1>10. ChangesShow(h)
  BY <1>2, <1>3, <1>5, <1>6, <1>9 DEF CompilerInv, ChangesShow
<1> QED  BY <1>4, <1>5, <1>7, <1>8, <1>10 DEF CompilerInv

(* The host dies before it copies, or cargo fails, or the plugin is loaded.*)
LEMMA EndKeeps ==
  ASSUME CompilerInv(cc), Compile!Die \/ Compile!CargoFails \/ Compile!Load
  PROVE  CompilerInv(cc')
<1>1. cc \in Compile!CompilerType /\ cc.stale = FALSE
  BY DEF CompilerInv, Compile!CompilerType
<1>2. PICK h : h = cc'
  OBVIOUS
<1>3. /\ h \in Compile!CompilerType /\ h.clock = cc.clock /\ h.text = cc.text /\ h.time = cc.time
      /\ h.rt = cc.rt /\ h.hash \in {cc.hash, "none"} /\ h.built = cc.built /\ h.deps = cc.deps
      /\ h.kept = cc.kept /\ h.doing = "idle" /\ ~h.stale
  <2>1. CASE Compile!Die
    <3>1. cc' = [cc EXCEPT !.doing = "idle", !.hash = "none", !.kept[cc.hash] = @]
      BY <2>1 DEF Compile!Die
    <3>2. [cc.kept EXCEPT ![cc.hash] = @] = cc.kept
      BY <1>1, CompilerFacts
    <3>3. cc' = [cc EXCEPT !.doing = "idle", !.hash = "none"]
      BY <1>1, <3>1, <3>2 DEF Compile!CompilerType
    <3> QED  BY <1>1, <1>2, <3>3 DEF Compile!CompilerType
  <2>2. CASE Compile!CargoFails
    BY <1>1, <1>2, <2>2 DEF Compile!CargoFails, Compile!CompilerType
  <2>3. CASE Compile!Load
    <3> DEFINE kept == cc.kept[cc.hash]
    <3>1. kept.whole /\ kept.text = cc.text /\ kept.rt = cc.rt
      <4>1. cc.doing = "load" /\ cc.hash = cc.rt /\ cc.hash \in Envs
        BY <1>1, <2>3, CompilerFacts DEF CompilerInv, Compile!Load, KnowsRt
      <4> QED  BY <4>1 DEF CompilerInv, InHand, KeptIsWhole
    <3>2. (cc.stale \/ ~kept.whole \/ kept.text # cc.text \/ kept.rt # cc.rt) = FALSE
      BY <1>1, <3>1
    <3>3. cc' = [cc EXCEPT !.doing = "idle", !.stale = FALSE]
      BY <2>3, <3>2 DEF Compile!Load
    <3> QED  BY <1>1, <1>2, <3>3 DEF Compile!CompilerType
  <2> QED  BY <2>1, <2>2, <2>3
<1>4. KeptIsWhole(h) /\ KnowsRt(h) /\ InHand(h) /\ ChangesShow(h)
  BY <1>3 DEF CompilerInv, KeptIsWhole, KnowsRt, InHand, ChangesShow, Present
<1> QED  BY <1>2, <1>3, <1>4 DEF CompilerInv

LEMMA CompilerNext ==
  ASSUME CompilerInv(cc), [Compile!Next]_cc
  PROVE  CompilerInv(cc')
<1>1. CASE UNCHANGED cc
  BY <1>1
<1> QED  BY <1>1, TickKeeps, RestartKeeps, EditKeeps, AddOrRemoveKeeps, CheckKeeps, CargoSucceedsKeeps,
            CopyKeeps, EndKeeps DEF Compile!Next

(* Whatever files a crate has and whenever they change, builds fail, the   *)
(* host restarts or dies, or the runtime is replaced between two hosts:    *)
(* what is loaded is what would be built now.  No file is edited while     *)
(* cargo runs or in the tick of a copy: see the findings for these.        *)
THEOREM LoadsAreFresh == Spec => []LoadedIsFresh
<1> DEFINE I == which = "compiler" => CompilerInv(cc)
<1>1. Init => I
  BY CompilerInit DEF Init
<1>2. I /\ [Next]_<<which, host, grd, reg, mem, io, child, cc, lay, strip>> => I'
  <2>1. ASSUME I, Next  PROVE I'
    BY <2>1, CompilerNext DEF Next
  <2>2. ASSUME I, UNCHANGED <<which, host, grd, reg, mem, io, child, cc, lay, strip>>  PROVE I'
    BY <2>2
  <2> QED  BY <2>1, <2>2
<1>3. I => LoadedIsFresh
  BY DEF CompilerInv, LoadedIsFresh, Compile!LoadedIsFresh
<1> QED  BY <1>1, <1>2, <1>3, PTL DEF Spec

=============================================================================
