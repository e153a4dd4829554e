----------------------------- MODULE SharedLock -----------------------------
(***************************************************************************)
(* What a lock promises: any number of readers, or one writer.  A mutex is *)
(* the lock nobody reads.                                                  *)
(***************************************************************************)
CONSTANT Tasks

VARIABLES readers, writers      \* who holds a guard of which kind

Init == readers = {} /\ writers = {}

EnterShared(t) ==
  /\ writers = {}
  /\ t \notin readers
  /\ readers' = readers \cup {t}
  /\ UNCHANGED writers

EnterExclusive(t) ==
  /\ readers = {} /\ writers = {}
  /\ writers' = {t}
  /\ UNCHANGED readers

LeaveShared(t) ==
  /\ t \in readers
  /\ readers' = readers \ {t}
  /\ UNCHANGED writers

LeaveExclusive(t) ==
  /\ t \in writers
  /\ writers' = writers \ {t}
  /\ UNCHANGED readers

Next ==
  \E t \in Tasks :
    \/ EnterShared(t) \/ EnterExclusive(t)
    \/ LeaveShared(t) \/ LeaveExclusive(t)

Spec == Init /\ [][Next]_<<readers, writers>>

=============================================================================
