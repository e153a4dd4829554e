------------------------------- MODULE Payload -------------------------------
(***************************************************************************)
(* Where a task's future and then its result are: in the slot, or in a box *)
(* whose address is in the slot, if they are too large for it.  The glue   *)
(* that the executor is given for a task follows pointers; `at' is what is *)
(* behind them.  The slot is reused when its task is over.                 *)
(***************************************************************************)
EXTENDS Naturals

CONSTANT AwaitBoxed       \* handles of boxed tasks are awaited

PayloadAssumption == AwaitBoxed \in BOOLEAN

VARIABLE mem

Contents == {"none", "live", "over"}

MemType ==
  [ how    : {"inline", "boxed"},
    box    : Contents,                  \* the allocation
    future : Contents, value : Contents,
    empty  : BOOLEAN,                   \* the slot is free
    sound  : BOOLEAN ]     \* what ended was there, and ended once (history)

TypeOK == mem \in MemType

Init == mem = [how |-> "inline", box |-> "none", future |-> "none", value |-> "none",
               empty |-> TRUE, sound |-> TRUE]

(* spawn: written into the slot, or into a new box. *)
Spawn(how) ==
  /\ mem.empty
  /\ mem' = [mem EXCEPT !.how = how, !.empty = FALSE, !.future = "live", !.value = "none",
                        !.box = IF how = "boxed" THEN "live" ELSE "none"]

(* Boxed glue reads an address where it is pointed to: in the slot it      *)
(* finds the box, in the box the first word of what is there.              *)
Deref(p) == IF p = "slot" THEN "box" ELSE "word"

Free(m, address) ==
  IF address = "box" /\ m.box = "live" THEN [m EXCEPT !.box = "over"]
                                       ELSE [m EXCEPT !.sound = FALSE]

Ended(m, what) == [m EXCEPT ![what] = "over", !.sound = m.sound /\ m[what] = "live"]

(* drop(Box::from_raw(..)) at the end of the boxed glue. *)
Unboxed(m, p) == IF m.how = "boxed" THEN Free(m, Deref(p)) ELSE m

(* poll_inline, poll_boxed: the future goes before the result is written,  *)
(* in the same place.                                                      *)
PollReady ==
  /\ ~mem.empty /\ mem.future = "live"
  /\ mem' = [Ended(mem, "future") EXCEPT !.value = "live"]

LeavesBox == Ended(mem, "future")       \* mutant: the box is not freed

CancelGlue == Unboxed(Ended(mem, "future"), "slot")

(* cancel_task and drop_plugin_tasks of a task that runs. *)
Cancel ==
  /\ ~mem.empty /\ mem.future = "live"
  /\ mem' = [CancelGlue EXCEPT !.empty = TRUE]

(* A handle dropped, a task detached or unloaded after its end. *)
DropResult ==
  /\ ~mem.empty /\ mem.value = "live"
  /\ mem' = [Unboxed(Ended(mem, "value"), "slot") EXCEPT !.empty = TRUE]

(* The result's own place: at the start of the union. *)
Read == IF mem.how = "boxed" THEN Deref("slot") ELSE "slot"

(* JoinHandle::poll: the result is moved out, and dealloc_boxed is given   *)
(* the result's address.                                                   *)
Take ==
  /\ ~mem.empty /\ mem.value = "live" /\ (mem.how = "boxed" => AwaitBoxed)
  /\ mem' = [Unboxed(Ended(mem, "value"), Read) EXCEPT !.empty = TRUE]

Next == \/ \E how \in {"inline", "boxed"} : Spawn(how)
        \/ PollReady \/ Cancel \/ DropResult \/ Take

Spec == Init /\ [][Next]_mem

(* Futures and results end once, boxes are freed once and by their own     *)
(* address, and none of them outlives the slot's use.                      *)
PayloadsEndOnce ==
  /\ mem.sound
  /\ mem.empty => "live" \notin {mem.future, mem.value, mem.box}

=============================================================================
