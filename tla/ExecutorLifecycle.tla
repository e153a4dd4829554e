-------------------------- MODULE ExecutorLifecycle --------------------------
(***************************************************************************)
(* The executor implements the task lifecycle.  A packed id (slot,         *)
(* generation) is unborn while the slot has not reached the generation,    *)
(* over once the slot has gone past it, and in between its phase is the    *)
(* slot's state.  CANCELLED is over: that is what handles see.             *)
(***************************************************************************)
EXTENDS Executor

Ids == Slots \X (Gens \ {0})

PhaseOf(s) == CASE Alive(s) -> "running"
                [] state[s] = "COMPLETE" -> "done"
                [] OTHER -> "over"

phase == [t \in Ids |-> IF gen[t[1]] < t[2] THEN "unborn"
                        ELSE IF gen[t[1]] > t[2] THEN "over" ELSE PhaseOf(t[1])]

Lifecycle == INSTANCE TaskLifecycle WITH Ids <- Ids, phase <- phase, open <- handles

\* Every step of the executor is a step of the lifecycle of one task (of all the
\* tasks of a plugin, for an unload), or concerns none: reuse of slots, stale
\* handles, wakes and queues cannot be observed through handles.
ImplementsLifecycle == Lifecycle!Spec

=============================================================================
