---------------------------- MODULE TaskLifecycle ----------------------------
(***************************************************************************)
(* What the executor promises about one task, without slots, generations   *)
(* or queues: the life of a task and of its JoinHandle.                    *)
(*                                                                         *)
(* A task runs, is done when its future has returned and its result waits  *)
(* for the handle, and is over when it has neither.  A handle is open      *)
(* until it is dropped, consumed by cancel(), or has yielded.              *)
(***************************************************************************)
CONSTANT Ids    \* the ids tasks are known by

VARIABLES phase, open

vars == <<phase, open>>

Phases == {"unborn", "running", "done", "over"}

TypeOK == /\ phase \in [Ids -> Phases]
          /\ open \subseteq Ids

\* A result that waits has a handle that may still ask for it.
DoneIsOpen == \A t \in Ids : phase[t] = "done" => t \in open

Init == /\ phase = [t \in Ids |-> "unborn"]
        /\ open = {}

Become(t, p) == phase' = [phase EXCEPT ![t] = p]
Close(t) == /\ t \in open
            /\ open' = open \ {t}

Spawn(t) == /\ phase[t] = "unborn"
            /\ Become(t, "running")
            /\ open' = open \cup {t}

\* the future returns; nobody keeps the result of a detached task
Finish(t) == /\ phase[t] = "running"
             /\ Become(t, IF t \in open THEN "done" ELSE "over")
             /\ UNCHANGED open

\* abort() ends a task that runs; its handle stays, and will yield None
Abort(t) == /\ phase[t] = "running"
            /\ Become(t, "over")
            /\ UNCHANGED open

\* cancel() consumes the handle
Cancel(t) == /\ Close(t)
             /\ phase[t] \in {"running", "done"}
             /\ Become(t, "over")

\* awaiting the handle: the result moves out
Join(t) == /\ Close(t)
           /\ phase[t] = "done"
           /\ Become(t, "over")

\* ... there is none
JoinNone(t) == /\ Close(t)
               /\ phase[t] = "over"
               /\ UNCHANGED phase

\* the handle is dropped: a result is dropped with it, a running task is detached
Release(t) == /\ Close(t)
              /\ Become(t, IF phase[t] = "done" THEN "over" ELSE phase[t])

\* wait_for_task consumes the result of the task it waited for
HostTakes(t) == /\ phase[t] = "done"
                /\ Become(t, "over")
                /\ UNCHANGED open

\* the plugin of the tasks in T is unloaded
Unload(T) == /\ \A t \in T : phase[t] \in {"running", "done"}
             /\ phase' = [t \in Ids |-> IF t \in T THEN "over" ELSE phase[t]]
             /\ UNCHANGED open

Next == \/ \E t \in Ids : \/ Spawn(t) \/ Finish(t) \/ Abort(t) \/ Cancel(t) \/ Join(t)
                          \/ JoinNone(t) \/ Release(t) \/ HostTakes(t)
        \/ \E T \in SUBSET Ids : Unload(T)

Spec == Init /\ [][Next]_vars

=============================================================================
