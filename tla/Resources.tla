------------------------------ MODULE Resources -----------------------------
(***************************************************************************)
(* The registry of resources: named values that plugins store.  The host   *)
(* keeps a pointer, the type and the plugin of each and calls a destructor *)
(* of the plugin; get gives out the pointer, and the value is cloned after *)
(* the registry is unlocked.  Any thread calls it.  put runs the           *)
(* destructor of the value it replaces with the registry locked,           *)
(* drop_plugin_resources with the registry unlocked.  A value is the       *)
(* number of the put that stored it.                                       *)
(***************************************************************************)
EXTENDS Naturals, FiniteSets

CONSTANTS
  Names, Types, Plugins, Threads,
  MaxPuts,    \* bound: values
  Races       \* values end while another thread clones them

ResourceAssumption == MaxPuts \in Nat /\ Races \in BOOLEAN /\ "free" \notin Threads

VARIABLE reg

Ids  == 1 .. MaxPuts
NoId == 0
Idle == [doing |-> "idle"]

Hand ==
  {Idle} \cup [doing : {"clone"}, value : Ids]
         \cup [doing : {"replace"}, value : Ids, old : Ids \cup {NoId}, name : Names]
         \cup [doing : {"sweep"}, left : SUBSET Ids]

RegType ==
  [ entry  : [Names -> Ids \cup {NoId}],
    puts   : 0 .. MaxPuts,
    type   : [Ids -> Types], owner : [Ids -> Plugins],
    ended  : [Ids -> 0 .. 2],             \* times a value was dropped
    lock   : Threads \cup {"free"},
    hand   : [Threads -> Hand],
    stuck  : SUBSET Threads,              \* wait for a lock of their own
    stray  : BOOLEAN ]                    \* a dead value was used (history)

TypeOK == reg \in RegType

Init ==
  \E type \in [Ids -> Types], owner \in [Ids -> Plugins] :
    reg = [ entry |-> [n \in Names |-> NoId], puts |-> 0, type |-> type, owner |-> owner,
            ended |-> [v \in Ids |-> 0], lock |-> "free",
            hand |-> [t \in Threads |-> Idle], stuck |-> {}, stray |-> FALSE ]

Locks(t) == reg.lock = "free" /\ reg.hand[t] = Idle

(* The name has a value of that type. *)
Fits(n, ty) == reg.entry[n] # NoId /\ reg.type[reg.entry[n]] = ty

Cloning(v) == \E t \in Threads : reg.hand[t] # Idle /\ reg.hand[t].doing = "clone"
                                   /\ reg.hand[t].value = v
MayEnd(vs) == Races \/ \A v \in vs : ~Cloning(v)

Ended(r, v) == [r EXCEPT !.ended[v] = @ + 1]

-----------------------------------------------------------------------------
(* tau_resource_put, up to the old value's destructor, and from there on.  *)
Put(t, n) ==
  /\ Locks(t) /\ reg.puts < MaxPuts /\ MayEnd({reg.entry[n]} \cap Ids)
  /\ reg' = [reg EXCEPT !.lock = t, !.puts = @ + 1, !.entry[n] = NoId,
               !.hand[t] = [doing |-> "replace", value |-> reg.puts + 1,
                            old |-> reg.entry[n], name |-> n]]

FinishPut(t) ==
  /\ reg.hand[t] # Idle /\ reg.hand[t].doing = "replace" /\ t \notin reg.stuck
  /\ LET h == reg.hand[t]
         r == [reg EXCEPT !.lock = "free", !.hand[t] = Idle, !.entry[h.name] = h.value]
     IN  reg' = IF h.old = NoId THEN r ELSE Ended(r, h.old)

(* A destructor uses the registry: it waits for a lock of its own thread,  *)
(* and so does everybody else, from then on.                               *)
Reenter(t) ==
  /\ reg.hand[t] # Idle /\ reg.hand[t].doing = "replace" /\ reg.hand[t].old # NoId
  /\ reg' = [reg EXCEPT !.stuck = @ \cup {t}]

-----------------------------------------------------------------------------
(* tau_resource_get; then the caller clones what the pointer points to.    *)
Get(t, n, ty) ==
  /\ Locks(t)
  /\ reg' = IF Fits(n, ty)
            THEN [reg EXCEPT !.hand[t] = [doing |-> "clone", value |-> reg.entry[n]]]
            ELSE reg

CloneValue(t) ==
  /\ reg.hand[t] # Idle /\ reg.hand[t].doing = "clone"
  /\ reg' = [reg EXCEPT !.hand[t] = Idle, !.stray = @ \/ reg.ended[reg.hand[t].value] > 0]

(* tau_resource_take; the caller owns the value and drops it in the end.   *)
LeavesIt(r, n) == r            \* mutant: looks the value up, does not remove it
Removed(r, n)  == [r EXCEPT !.entry[n] = NoId]

Take(t, n, ty) ==
  /\ Locks(t) /\ MayEnd({reg.entry[n]} \cap Ids)
  /\ reg' = IF Fits(n, ty) THEN Removed(Ended(reg, reg.entry[n]), n) ELSE reg

-----------------------------------------------------------------------------
(* drop_plugin_resources: the plugin's entries are removed under the lock, *)
(* and dropped one by one without it, in the order of a hash map.          *)
OwnedBy(p) == {n \in Names : reg.entry[n] # NoId /\ reg.owner[reg.entry[n]] = p}

DropPlugin(t, p) ==
  /\ Locks(t) /\ MayEnd({reg.entry[n] : n \in OwnedBy(p)})
  /\ reg' = [reg EXCEPT
       !.entry = [n \in Names |-> IF n \in OwnedBy(p) THEN NoId ELSE @[n]],
       !.hand[t] = [doing |-> "sweep", left |-> {reg.entry[n] : n \in OwnedBy(p)}]]

Sweep(t, v) ==
  /\ reg.hand[t] # Idle /\ reg.hand[t].doing = "sweep" /\ v \in reg.hand[t].left
  /\ reg' = [Ended(reg, v) EXCEPT !.hand[t].left = @ \ {v}]

EndSweep(t) ==
  /\ reg.hand[t] # Idle /\ reg.hand[t].doing = "sweep" /\ reg.hand[t].left = {}
  /\ reg' = [reg EXCEPT !.hand[t] = Idle]

Next ==
  \E t \in Threads :
    \/ \E n \in Names : \/ Put(t, n)
                        \/ \E ty \in Types : Get(t, n, ty) \/ Take(t, n, ty)
    \/ \E p \in Plugins : DropPlugin(t, p)
    \/ \E v \in Ids : Sweep(t, v)
    \/ FinishPut(t) \/ Reenter(t) \/ CloneValue(t) \/ EndSweep(t)

Spec == Init /\ [][Next]_reg

-----------------------------------------------------------------------------
InRegistry(v) == {n \in Names : reg.entry[n] = v}
InHands(v) ==
  {t \in Threads : reg.hand[t] # Idle /\
     \/ reg.hand[t].doing = "replace" /\ v \in {reg.hand[t].value, reg.hand[t].old}
     \/ reg.hand[t].doing = "sweep" /\ v \in reg.hand[t].left}

(* A value that was put is in one place, the registry under one name or    *)
(* the hands of the thread that replaces or sweeps it, until it is dropped,*)
(* which happens once; and nobody clones a dropped value.                  *)
ValuesEndOnce ==
  /\ \A v \in Ids :
       Cardinality(InRegistry(v)) + Cardinality(InHands(v)) + reg.ended[v]
         = IF v <= reg.puts THEN 1 ELSE 0
  /\ ~reg.stray

(* "Drop outside the lock to avoid deadlock if drop_fn touches resources"  *)
(* (resources.rs): nobody waits for a lock that its own thread holds.      *)
NobodyLocksItselfOut == reg.stuck = {}

=============================================================================
