---------------------------- MODULE MCAsyncLock ----------------------------
(* The locks with a few users, bounded for TLC.                            *)
EXTENDS AsyncLock, TLC

CONSTANTS t1, t2, t3

ThreeTasks == {t1, t2, t3}
TaskSymmetry == Permutations(ThreeTasks)

(* An RwLock forgives every habit.  A Mutex wakes one waiter only, and     *)
(* loses that wake when the waiter is gone or has two wakers in the list.  *)
AllButMutex == [k \in Kinds |-> IF k = "mutex" THEN {} ELSE Habits]
Cancelling == [k \in Kinds |-> {"cancel"}]

=============================================================================
