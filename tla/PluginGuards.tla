---------------------------- MODULE PluginGuards ----------------------------
(***************************************************************************)
(* PluginBox, PluginArc and PluginFn: values whose code lies in a plugin's *)
(* library, each with a clone of the library's guard.  The guard counts    *)
(* its clones and closes the library with the last one.  The host puts one *)
(* clone into a static of the plugin that is never dropped, and closes the *)
(* library itself when it unloads the plugin, whatever the count says.     *)
(* Values go from thread to thread; destructors and calls are steps, since *)
(* other threads drop their clones meanwhile.                              *)
(***************************************************************************)
EXTENDS Naturals, FiniteSets

CONSTANTS
  Libs,         \* libraries, each loaded once
  Loaded,       \* those loaded by the host as plugins; the others have a guard only
  Values, Threads,
  MaxClones     \* bound: clones of a value

GuardAssumption ==
  /\ Loaded \subseteq Libs /\ MaxClones \in Nat \ {0}
  /\ IsFiniteSet(Values) /\ IsFiniteSet(Threads)

VARIABLE grd

Kinds == {"box", "arc", "fn"}
None  == [of |-> "none"]

GuardType ==
  [ refs   : [Libs -> Nat],           \* clones of the guard
    closes : [Libs -> 0 .. 2],        \* times dlclose was called
    opened : SUBSET Libs,
    loose  : [Libs -> Nat],           \* clones that no value has
    value  : [Values -> {None} \cup [of : Libs, kind : Kinds, clones : 0 .. MaxClones]],
    thread : [Threads -> {None} \cup
                [of : Libs, value : Values, doing : {"call", "code", "guard"}]],
    stray  : SUBSET Libs,             \* closed, and their code ran (history)
    early  : SUBSET Libs ]            \* unloaded by the host in use (history)

TypeOK == grd \in GuardType

Init ==
  grd = [ refs |-> [l \in Libs |-> 0], closes |-> [l \in Libs |-> 0], opened |-> {},
          loose |-> [l \in Libs |-> 0], value |-> [v \in Values |-> None],
          thread |-> [t \in Threads |-> None], stray |-> {}, early |-> {} ]

Mapped(l) == l \in grd.opened /\ grd.closes[l] = 0
Exists(v) == grd.value[v] # None /\ grd.value[v].clones > 0
Static(l) == IF l \in Loaded /\ l \in grd.opened THEN 1 ELSE 0

(* PluginBinary::drop, with the last guard. *)
Decremented(g, l) ==
  [g EXCEPT !.refs[l] = @ - 1, !.closes[l] = IF g.refs[l] = 1 THEN @ + 1 ELSE @]

-----------------------------------------------------------------------------
(* Guards *)

(* The host makes the guard, plugin_init stores a clone, the host's goes.  *)
Open(l) ==
  /\ l \notin grd.opened
  /\ grd' = [grd EXCEPT !.opened = @ \cup {l}, !.refs[l] = 1,
                        !.loose[l] = IF l \in Loaded THEN 0 ELSE 1]

(* PluginGuard::clone, of the static or of a value's guard. *)
CloneGuard(l) ==
  /\ grd.refs[l] > 0 /\ grd.loose[l] < MaxClones
  /\ l \in Loaded => Mapped(l)
  /\ grd' = [grd EXCEPT !.refs[l] = @ + 1, !.loose[l] = @ + 1]

DropGuard(l) ==
  /\ grd.loose[l] > 0
  /\ grd' = Decremented([grd EXCEPT !.loose[l] = @ - 1], l)

-----------------------------------------------------------------------------
(* Values *)

(* PluginBox::current and its kin: a value with a clone of the guard. *)
New(v, l, k) ==
  /\ grd.value[v] = None /\ Mapped(l) /\ grd.refs[l] > 0
  /\ grd' = [grd EXCEPT !.value[v] = [of |-> l, kind |-> k, clones |-> 1], !.refs[l] = @ + 1]

Clone(v) ==
  /\ Exists(v) /\ grd.value[v].kind # "box" /\ grd.value[v].clones < MaxClones
  /\ grd' = [grd EXCEPT !.value[v].clones = @ + 1, !.refs[grd.value[v].of] = @ + 1]

Callers(v) == {t \in Threads : grd.thread[t] # None
                 /\ grd.thread[t].value = v /\ grd.thread[t].doing = "call"}

(* A clone that no call borrows. *)
Free(v) == Exists(v) /\ (Callers(v) # {} => grd.value[v].clones > 1)

Does(t, v, what) == [of |-> grd.value[v].of, value |-> v, doing |-> what]

(* call and call_mut borrow the value. *)
Call(t, v) ==
  /\ grd.thread[t] = None /\ Exists(v)
  /\ grd' = [grd EXCEPT !.thread[t] = Does(t, v, "call")]

(* A value is taken apart: its code runs and then its guard is dropped.    *)
GuardGoesFirst(g, l) == Decremented(g, l)  \* mutant: the guard is dropped before
Apart(g, l)          == g

(* call_once, and the drop of a clone: only the last one runs a destructor,*)
(* and a bare function has none.                                           *)
TakeApart(t, v, once) ==
  /\ grd.thread[t] = None /\ Free(v)
  /\ once => grd.value[v].kind = "box"
  /\ LET l    == grd.value[v].of
         last == grd.value[v].clones = 1
         step == IF once \/ (last /\ grd.value[v].kind # "fn") THEN "code" ELSE "guard"
     IN  grd' = Apart([grd EXCEPT !.value[v].clones = @ - 1,
                                  !.thread[t] = Does(t, v, step)], l)

RunCode(t) ==
  /\ grd.thread[t] # None /\ grd.thread[t].doing \in {"call", "code"}
  /\ LET l == grd.thread[t].of
         g == [grd EXCEPT !.stray = IF Mapped(l) THEN @ ELSE @ \cup {l}]
     IN  grd' = IF grd.thread[t].doing = "call" THEN [g EXCEPT !.thread[t] = None]
                ELSE [g EXCEPT !.thread[t].doing = "guard"]

FinishDrop(t) ==
  /\ grd.thread[t] # None /\ grd.thread[t].doing = "guard"
  /\ grd' = Decremented([grd EXCEPT !.thread[t] = None], grd.thread[t].of)

-----------------------------------------------------------------------------
(* AsyncPlugin::drop: dlclose, as if no value were left. *)
InUse(l) ==
  \/ \E v \in Values : Exists(v) /\ grd.value[v].of = l
  \/ \E t \in Threads : grd.thread[t] # None /\ grd.thread[t].of = l

Unload(l) ==
  /\ l \in Loaded /\ Mapped(l)
  /\ grd' = [grd EXCEPT !.closes[l] = @ + 1, !.early = IF InUse(l) THEN @ \cup {l} ELSE @]

Next ==
  \/ \E l \in Libs : Open(l) \/ CloneGuard(l) \/ DropGuard(l) \/ Unload(l)
  \/ \E v \in Values, l \in Libs, k \in Kinds : New(v, l, k)
  \/ \E v \in Values : Clone(v)
  \/ \E t \in Threads : \/ \E v \in Values : \/ Call(t, v)
                                             \/ \E once \in BOOLEAN : TakeApart(t, v, once)
                        \/ RunCode(t) \/ FinishDrop(t)

Spec == Init /\ [][Next]_grd

-----------------------------------------------------------------------------
(* "As long as any clone exists, the library stays mapped" (guard.rs).     *)
GuardsKeepCode == \A l \in Libs : InUse(l) => Mapped(l)

(* That is not so when the host unloads a plugin that has values somewhere,*)
(* but that is the only way: otherwise no thread ever ran code of a closed *)
(* library, whatever has code has it mapped; and a library is closed once, *)
(* as its guard is counted right.                                          *)
GuardsAreExact ==
  /\ grd.stray \subseteq grd.early
  /\ \A l \in Libs :
       /\ InUse(l) /\ l \notin grd.early => Mapped(l)
       /\ grd.closes[l] <= 1
       /\ grd.refs[l] = Static(l) + grd.loose[l]
            + Cardinality({t \in Threads : grd.thread[t] # None
                /\ grd.thread[t].of = l /\ grd.thread[t].doing # "call"})
            + Cardinality({p \in Values \X (1 .. MaxClones) : grd.value[p[1]] # None
                /\ grd.value[p[1]].of = l /\ p[2] <= grd.value[p[1]].clones})

=============================================================================
