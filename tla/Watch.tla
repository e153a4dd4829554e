------------------------------- MODULE Watch --------------------------------
(***************************************************************************)
(* The shim's watch channel: one value with a version, receivers that each *)
(* remember the version they saw.  A value is the version it was sent as.  *)
(* borrow_and_update reads the version under the lock and the value later, *)
(* under the lock again: sends fall in between.                            *)
(***************************************************************************)
EXTENDS Naturals, FiniteSets

CONSTANTS
  Receivers,
  MaxVersion      \* bound: versions

WatchAssumption == IsFiniteSet(Receivers) /\ MaxVersion \in Nat \ {0}

VARIABLE watch

Versions == 0 .. MaxVersion

WatchType ==
  [ version : Versions \ {0},
    waiters : SUBSET Receivers,       \* whose wakers are listed
    closed  : BOOLEAN,
    at      : [Receivers -> {"none", "idle", "updating", "parked", "err"}],
    seen    : [Receivers -> Versions],     \* seen_version
    marked  : [Receivers -> Versions],     \* what borrow_and_update marked seen,
    read    : [Receivers -> Versions],     \* and the last value looked at
    woken   : SUBSET Receivers ]

TypeOK == watch \in WatchType

Init ==
  \E r \in Receivers :
    watch = [ version |-> 1, waiters |-> {}, closed |-> FALSE,
              at |-> [q \in Receivers |-> IF q = r THEN "idle" ELSE "none"],
              seen |-> [q \in Receivers |-> 0], marked |-> [q \in Receivers |-> 0],
              read |-> [q \in Receivers |-> 0], woken |-> {} ]

WakeAll(w) == [w EXCEPT !.woken = @ \cup w.waiters, !.waiters = {}]

(* send and send_replace *)
Send ==
  /\ ~watch.closed /\ watch.version < MaxVersion
  /\ watch' = WakeAll([watch EXCEPT !.version = @ + 1])

DropSender ==
  /\ ~watch.closed
  /\ watch' = WakeAll([watch EXCEPT !.closed = TRUE])

Join(r, version) == [watch EXCEPT !.at[r] = "idle", !.seen[r] = version]

Subscribe(r) ==
  /\ ~watch.closed /\ watch.at[r] = "none"
  /\ watch' = Join(r, watch.version)

Clone(r, q) ==
  /\ watch.at[r] = "none" /\ watch.at[q] = "idle"
  /\ watch' = Join(r, watch.seen[q])

ClosedFirst(w, r) ==          \* mutant: the end hides the last value
  IF w.closed THEN [w EXCEPT !.at[r] = "err"]
  ELSE IF w.version # w.seen[r] THEN [w EXCEPT !.at[r] = "idle", !.seen[r] = w.version]
  ELSE [w EXCEPT !.at[r] = "parked", !.waiters = @ \cup {r}]

(* A poll of ChangedFuture: it looks for news before it looks for the end. *)
Polled(w, r) ==
  IF w.version # w.seen[r] THEN [w EXCEPT !.at[r] = "idle", !.seen[r] = w.version]
  ELSE IF w.closed THEN [w EXCEPT !.at[r] = "err"]
  ELSE [w EXCEPT !.at[r] = "parked", !.waiters = @ \cup {r}]

Changed(r) ==
  /\ watch.at[r] = "idle" \/ (watch.at[r] = "parked" /\ r \in watch.woken)
  /\ watch' = Polled([watch EXCEPT !.woken = @ \ {r}], r)

(* A waiting changed() is dropped; its waker stays listed. *)
Cancel(r) ==
  /\ watch.at[r] = "parked"
  /\ watch' = [watch EXCEPT !.at[r] = "idle"]

BeginUpdate(r) ==
  /\ watch.at[r] = "idle"
  /\ watch' = [watch EXCEPT !.at[r] = "updating",
                             !.seen[r] = watch.version, !.marked[r] = watch.version]

(* Ref::deref, of borrow_and_update or of a plain borrow. *)
Deref(r) ==
  /\ watch.at[r] \in {"idle", "updating"}
  /\ watch' = [watch EXCEPT !.at[r] = "idle", !.read[r] = watch.version]

Next ==
  \/ Send \/ DropSender
  \/ \E r \in Receivers : Subscribe(r) \/ Changed(r) \/ Cancel(r) \/ BeginUpdate(r) \/ Deref(r)
  \/ \E r, q \in Receivers : Clone(r, q)

Spec == Init /\ [][Next]_watch

-----------------------------------------------------------------------------
(* No receiver overlooks the last value: changed() reports an end only to  *)
(* receivers that were told of the last version, one that waits has seen   *)
(* all there is, and borrow_and_update shows no older value than it marks. *)
LastValueIsSeen ==
  \A r \in Receivers :
    /\ watch.at[r] = "err" => watch.closed /\ watch.seen[r] = watch.version
    /\ watch.at[r] = "parked" /\ r \notin watch.woken =>
         watch.seen[r] = watch.version /\ ~watch.closed /\ r \in watch.waiters
    /\ watch.at[r] # "updating" => watch.read[r] >= watch.marked[r]

=============================================================================
