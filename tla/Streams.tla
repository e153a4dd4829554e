------------------------------ MODULE Streams -------------------------------
(***************************************************************************)
(* The stream adapters of tau and the futures that consume a stream.  Two  *)
(* sources, fed by other threads, hand out the items 1, 2, ... in order;   *)
(* an adapter sits on the first, or on both when it merges them; a task    *)
(* consumes the adapter.  A poll runs over all items it rejects; between   *)
(* the items that a consumer takes in one poll others may arrive.          *)
(***************************************************************************)
EXTENDS Naturals, Sequences, Functions

CONSTANTS
  Items,       \* bound: items of each source
  Liked        \* the items that a predicate accepts

StreamsAssumption == Items \in Nat /\ Liked \subseteq 1 .. Items

VARIABLE strm

Sources   == {"a", "b"}
Adapters  == {"map", "filter", "filterMap", "takeWhile", "then", "merge"}
Consumers == {"next", "collect", "forEach", "fold"}

Used(x) == IF x.adapter = "merge" THEN Sources ELSE {"a"}
Other(s) == IF s = "a" THEN "b" ELSE "a"

StreamsType ==
  [ adapter  : Adapters, consumer : Consumers,
    made     : [Sources -> 0 .. Items],   \* items the source has produced
    taken    : [Sources -> 0 .. Items],
    closed   : [Sources -> BOOLEAN],
    listens  : SUBSET (Sources \cup {"future"}),  \* who has the task's waker
    done     : [Sources -> BOOLEAN],      \* a_done and b_done
    aFirst   : BOOLEAN,                   \* poll_a_first
    cut      : BOOLEAN,                   \* TakeWhile's done
    pending  : {"none", "running", "ready"},      \* Then's future
    out      : [Sources -> Seq(1 .. Items)],   \* what the consumer got
    at       : {"idle", "polling", "parked", "ended"},
    woken    : BOOLEAN,
    passed   : [Sources -> 0 .. Items],   \* yields while it had items to give
    afterEnd : BOOLEAN ]                  \* a source was polled after its end

TypeOK == strm \in StreamsType

Init ==
  strm \in
    { [ adapter |-> a, consumer |-> c, made |-> [s \in Sources |-> 0],
        taken |-> [s \in Sources |-> 0], closed |-> [s \in Sources |-> FALSE],
        listens |-> {}, done |-> [s \in Sources |-> FALSE], aFirst |-> TRUE,
        cut |-> FALSE, pending |-> "none", out |-> [s \in Sources |-> << >>], at |-> "idle",
        woken |-> FALSE, passed |-> [s \in Sources |-> 0], afterEnd |-> FALSE ] :
      a \in Adapters, c \in Consumers }

-----------------------------------------------------------------------------
(* Around the stream: items arrive, sources end, the future finishes.      *)
Wake(x, who) ==
  IF who \in x.listens THEN [x EXCEPT !.listens = @ \ {who}, !.woken = TRUE] ELSE x

Arrive(s) ==
  /\ s \in Used(strm) /\ ~strm.closed[s] /\ strm.made[s] < Items
  /\ strm' = Wake([strm EXCEPT !.made[s] = @ + 1], s)

End(s) ==
  /\ s \in Used(strm) /\ ~strm.closed[s]
  /\ strm' = Wake([strm EXCEPT !.closed[s] = TRUE], s)

FutureReady ==
  /\ strm.pending = "running"
  /\ strm' = Wake([strm EXCEPT !.pending = "ready"], "future")

-----------------------------------------------------------------------------
(* A poll gives [x |-> the state after it, r |-> what it returned].        *)
Ret(x, r) == [x |-> x, r |-> r]
Pending == <<"pending">>
Nothing == <<"nothing">>      \* Ready(None)

PollSource(x, s) ==
  IF x.taken[s] < x.made[s]
  THEN Ret([x EXCEPT !.taken[s] = @ + 1], <<s, x.taken[s] + 1>>)
  ELSE IF x.closed[s] THEN Ret([x EXCEPT !.afterEnd = @ \/ x.done[s]], Nothing)
  ELSE Ret([x EXCEPT !.listens = @ \cup {s}], Pending)

IsItem(r) == r[1] \in Sources

PollMap(x) == PollSource(x, "a")

(* Runs over the items the closure rejects. *)
PollFilter(x) ==
  LET waiting == x.taken["a"] + 1 .. x.made["a"]
      liked   == waiting \cap Liked
      skipTo(i) == [x EXCEPT !.taken["a"] = i]
  IN  IF liked = {} THEN PollSource(skipTo(x.made["a"]), "a")
      ELSE PollSource(skipTo((CHOOSE i \in liked : \A j \in liked : i <= j) - 1), "a")

PollFilterMap(x) == PollFilter(x)

PollTakeWhile(x) ==
  LET p == PollSource(x, "a") IN
  IF x.cut THEN Ret(x, Nothing)
  ELSE IF IsItem(p.r) /\ p.r[2] \notin Liked THEN Ret([p.x EXCEPT !.cut = TRUE], Nothing)
  ELSE p

PollStream(x, s) ==
  LET p == PollSource(x, s) IN
  IF x.done[s] THEN Ret(x, Pending)
  ELSE IF p.r = Nothing THEN Ret([p.x EXCEPT !.done[s] = TRUE], Pending)
  ELSE p

AlwaysFirst(x) ==             \* mutant: a is always asked first
  LET p == PollStream(x, "a")
      q == PollStream(p.x, "b")
  IN  IF IsItem(p.r) THEN p
      ELSE IF IsItem(q.r) THEN q
      ELSE IF q.x.done["a"] /\ q.x.done["b"] THEN Ret(q.x, Nothing) ELSE q

(* Alternate which of the two is asked first. *)
PollMerge(x) ==
  LET first  == IF x.aFirst THEN "a" ELSE "b"
      p      == PollStream([x EXCEPT !.aFirst = ~@], first)
      q      == PollStream(p.x, Other(first))
  IN  IF IsItem(p.r) THEN p
      ELSE IF IsItem(q.r) THEN q
      ELSE IF q.x.done["a"] /\ q.x.done["b"] THEN Ret(q.x, Nothing) ELSE q

(* The future in flight first; it may be ready when it is created.         *)
PollFuture(x) ==
  IF x.pending = "ready" THEN Ret([x EXCEPT !.pending = "none"], <<"a", x.taken["a"]>>)
  ELSE Ret([x EXCEPT !.listens = @ \cup {"future"}], Pending)

DropsTheFuture(x, atOnce) ==  \* mutant: polls the source whatever is in flight
  LET p == PollSource(x, "a") IN
  IF IsItem(p.r)
  THEN PollFuture([p.x EXCEPT !.pending = IF atOnce THEN "ready" ELSE "running"])
  ELSE p

PollThen(x, atOnce) ==
  IF x.pending # "none" THEN PollFuture(x)
  ELSE LET p == PollSource(x, "a") IN
       IF IsItem(p.r)
       THEN PollFuture([p.x EXCEPT !.pending = IF atOnce THEN "ready" ELSE "running"])
       ELSE p

PollNext(x, atOnce) ==
  CASE x.adapter = "map"       -> PollMap(x)
    [] x.adapter = "filter"    -> PollFilter(x)
    [] x.adapter = "filterMap" -> PollFilterMap(x)
    [] x.adapter = "takeWhile" -> PollTakeWhile(x)
    [] x.adapter = "then"      -> PollThen(x, atOnce)
    [] x.adapter = "merge"     -> PollMerge(x)

-----------------------------------------------------------------------------
(* The consuming task. *)

(* How long a source that has items is passed over for the other. *)
Passed(before, item) ==
  [s \in Sources |->
     IF s = item[1] \/ before.taken[s] = before.made[s] THEN 0 ELSE before.passed[s] + 1]

(* The consumer has one item more of its source. *)
Given(out, item) == [out EXCEPT ![item[1]] = Append(out[item[1]], item[2])]

(* next() returns with an item and is called again; the other consumers go *)
(* on until there is nothing, or nothing yet.                              *)
Consume(p) ==
  CASE IsItem(p.r) ->
         [p.x EXCEPT !.out = Given(@, p.r), !.passed = Passed(strm, p.r),
                     !.at = IF p.x.consumer = "next" THEN "idle" ELSE "polling"]
    [] p.r = Nothing -> [p.x EXCEPT !.at = "ended"]
    [] p.r = Pending -> [p.x EXCEPT !.at = "parked"]

Poll ==
  /\ strm.at \in {"idle", "polling"} \/ (strm.at = "parked" /\ strm.woken)
  /\ \E atOnce \in (IF strm.adapter = "then" THEN BOOLEAN ELSE {TRUE}) :
       strm' = Consume(PollNext([strm EXCEPT !.woken = FALSE], atOnce))

Next == Poll \/ FutureReady \/ \E s \in Sources : Arrive(s) \/ End(s)

Spec == Init /\ [][Next]_strm

-----------------------------------------------------------------------------
(* Properties *)

InOrder(q) == \A i, j \in DOMAIN q : i < j => q[i] < q[j]

(* What the adapter promises of the first n items of a source: those that  *)
(* are liked, those before the first that is not, or all.                  *)
Kept(n) ==
  CASE strm.adapter \in {"filter", "filterMap"} -> 1 .. n \cap Liked
    [] strm.adapter = "takeWhile" -> {i \in 1 .. n : 1 .. i \subseteq Liked}
    [] OTHER -> 1 .. n

(* Every item comes out once, in the order of its source, as the adapter   *)
(* says, and but for the one that a future is made of all that were taken; *)
(* at the end nothing is missing; and no source is asked again after it    *)
(* said that it has ended.                                                 *)
StreamIsExact ==
  /\ \A s \in Sources :
       /\ InOrder(strm.out[s])
       /\ Range(strm.out[s]) =
            Kept(IF strm.pending = "none" THEN strm.taken[s] ELSE strm.taken[s] - 1)
       /\ strm.at = "ended" => Range(strm.out[s]) = Kept(strm.made[s])
  /\ ~strm.afterEnd

(* A consumer waits only while there is nothing for it, and whatever it    *)
(* waits for has its waker.                                                *)
WaitsForItems ==
  strm.at = "parked" /\ ~strm.woken =>
    \/ strm.pending = "running" /\ "future" \in strm.listens
    \/ /\ strm.pending = "none"
       /\ \A s \in Used(strm) : strm.taken[s] = strm.made[s]
       /\ \A s \in Used(strm) : strm.done[s] \/ (~strm.closed[s] /\ s \in strm.listens)

(* merge passes over a source that has items for one item at most. *)
MergeIsFair == \A s \in Sources : strm.passed[s] <= 1

=============================================================================
