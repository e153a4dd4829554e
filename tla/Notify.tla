------------------------------- MODULE Notify -------------------------------
(***************************************************************************)
(* The shim's Notify: a flag and a stack of wakers.  notify_one either     *)
(* wakes the newest waker or sets the flag; a Notified completes on the    *)
(* flag only, and lists its waker once.                                    *)
(***************************************************************************)
EXTENDS Naturals, Sequences, SequencesExt, FiniteSetsExt

CONSTANTS
  Waiters,          \* the Notified futures, each in a task of its own
  MaxNotifications  \* bound: calls of notify_one and notify_waiters

NotifyAssumption == IsFiniteSet(Waiters) /\ MaxNotifications \in Nat

VARIABLE ntf

NotifyType ==
  [ notified : BOOLEAN,
    waiters  : Seq(Waiters),
    at       : [Waiters -> {"new", "registered", "done", "dropped"}],
    woken    : SUBSET Waiters,
    calls    : 0 .. MaxNotifications,       \* history
    passes   : Nat,               \* how many may pass for the calls (history)
    told     : SUBSET Waiters ]   \* whom notify_waiters woke while they waited

TypeOK == ntf \in NotifyType

Init ==
  ntf = [ notified |-> FALSE, waiters |-> << >>,
          at |-> [w \in Waiters |-> "new"], woken |-> {}, calls |-> 0,
          passes |-> 0, told |-> {} ]

Waiting == {w \in Waiters : ntf.at[w] = "registered"}

NotifyOne ==
  /\ ntf.calls < MaxNotifications
  /\ LET n == [ntf EXCEPT !.calls = @ + 1, !.passes = @ + 1] IN
     ntf' = IF ntf.waiters = << >> THEN [n EXCEPT !.notified = TRUE]
            ELSE [n EXCEPT !.waiters = Front(@), !.woken = @ \cup {Last(ntf.waiters)}]

NotifyWaiters ==
  /\ ntf.calls < MaxNotifications
  /\ ntf' = [ntf EXCEPT !.calls = @ + 1, !.notified = TRUE,
                        !.woken = @ \cup Range(ntf.waiters), !.waiters = << >>,
                        !.passes = @ + Max({1, Cardinality(Waiting)}),
                        !.told = @ \cup (Waiting \cap Range(ntf.waiters))]

CompleteAll(n, w) == [n EXCEPT !.at[w] = "done"]      \* mutant: the flag stays

Complete(n, w) == [n EXCEPT !.notified = FALSE, !.at[w] = "done"]

(* Polled for the first time, when woken, or because its task runs anyway. *)
Poll(w) ==
  /\ ntf.at[w] \in {"new", "registered"}
  /\ LET n == [ntf EXCEPT !.woken = @ \ {w}] IN
     ntf' = IF ntf.notified THEN Complete(n, w)
            ELSE IF ntf.at[w] = "registered" THEN n
            ELSE [n EXCEPT !.at[w] = "registered", !.waiters = Append(@, w)]

(* A waiting Notified is dropped; its waker stays in the stack. *)
Drop(w) ==
  /\ ntf.at[w] = "registered"
  /\ ntf' = [ntf EXCEPT !.at[w] = "dropped"]

Next == NotifyOne \/ NotifyWaiters \/ \E w \in Waiters : Poll(w) \/ Drop(w)

Spec == Init /\ [][Next]_ntf
FairSpec == Spec /\ \A w \in Waiters : WF_ntf(w \in ntf.woken /\ Poll(w))

-----------------------------------------------------------------------------
Done == {w \in Waiters : ntf.at[w] = "done"}

(* notify_one lets one waiter pass, now or later; notify_waiters those     *)
(* that wait, or one later if nobody does.                                 *)
PassesAreAnnounced ==
  Cardinality(Done) + (IF ntf.notified THEN 1 ELSE 0) <= ntf.passes

(* "Notifies all waiting tasks" (notify_waiters): whom it woke has passed, *)
(* or will be polled.  It is not so: one of them takes the flag, and the   *)
(* others were woken for nothing.                                          *)
AllToldPass ==
  \A w \in ntf.told : w \in ntf.woken \/ ntf.at[w] \in {"done", "dropped"}

(* A task woken by notify_one has its notification: it passes.             *)
WokenPasses == \A w \in Waiters : w \in ntf.woken ~> ntf.at[w] \in {"done", "dropped"}

=============================================================================
