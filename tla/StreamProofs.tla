---------------------------- MODULE StreamProofs ----------------------------
(***************************************************************************)
(* The invariants of tau's streams and of the shim's files: what each      *)
(* adapter gives to whom consumes it, and in which order the operations    *)
(* on a file and on a directory happen, for any number of items, entries   *)
(* and operations.  LibraryProofs puts them together with those of the     *)
(* other components for MCLibrary's Spec.                                  *)
(*                                                                         *)
(* Two tools come first: facts on the ends of sequences, and induction     *)
(* over data (finite sets, numbers), which the library states about        *)
(* operators and which is derived here for sets, from the least element    *)
(* of a set of numbers.                                                    *)
(***************************************************************************)
EXTENDS LibraryStreams, SequencesExt, FiniteSetTheorems, SequenceTheorems, WellFoundedInduction, TLAPS

-----------------------------------------------------------------------------
(* Sequences: the ends of one, and what is in it *)

LEMMA FrontAndLast ==
  ASSUME NEW S, NEW s \in Seq(S), s # << >>
  PROVE  /\ Len(s) \in Nat \ {0}
         /\ Front(s) \in Seq(S) /\ Len(Front(s)) = Len(s) - 1
         /\ \A i \in 1 .. Len(s) - 1 : Front(s)[i] = s[i]
         /\ Last(s) = s[Len(s)] /\ Last(s) \in S
<1>1. Len(s) \in Nat \ {0}
  BY EmptySeq
<1>2. \A i \in 1 .. Len(s) - 1 : s[i] \in S
  BY <1>1, ElementOfSeq
<1>3. Len(s) - 1 \in Int /\ 1 \in Int /\ Front(s) = SubSeq(s, 1, Len(s) - 1)
  BY <1>1 DEF Front
<1> DEFINE n == Len(s) - 1
<1>4. /\ Front(s) \in Seq(S)
      /\ Len(Front(s)) = IF 1 <= n THEN n - 1 + 1 ELSE 0
      /\ \A i \in 1 .. n - 1 + 1 : Front(s)[i] = s[1 + i - 1]
  <2> HIDE DEF n
  <2> QED BY <1>2, <1>3, SubSeqProperties DEF n
<1>5. Len(Front(s)) = Len(s) - 1
  <2>1. n \in Nat
    BY <1>1
  <2>2. Len(Front(s)) = n
    <3> HIDE DEF n
    <3> QED BY <1>4, <2>1
  <2> QED BY <2>2
<1>6. ASSUME NEW i \in 1 .. Len(s) - 1 PROVE Front(s)[i] = s[i]
  <2>1. i \in 1 .. n - 1 + 1 /\ 1 + i - 1 = i
    BY <1>1
  <2>2. Front(s)[i] = s[1 + i - 1]
    BY <1>4, <2>1
  <2> QED BY <2>1, <2>2
<1>7. Last(s) = s[Len(s)] /\ Last(s) \in S
  BY <1>1, ElementOfSeq DEF Last
<1> QED BY <1>1, <1>4, <1>5, <1>6, <1>7

(* An element of a sequence has a place in it. *)
LEMMA InRange ==
  ASSUME NEW S, NEW s \in Seq(S)
  PROVE  /\ Range(s) \in SUBSET S
         /\ \A x : x \in Range(s) <=> \E i \in 1 .. Len(s) : s[i] = x
<1>1. DOMAIN s = 1 .. Len(s) /\ \A i \in 1 .. Len(s) : s[i] \in S
  BY LenProperties, ElementOfSeq
<1> QED BY <1>1 DEF Range

LEMMA RangeOfAppend ==
  ASSUME NEW S, NEW s \in Seq(S), NEW e \in S
  PROVE  Append(s, e) \in Seq(S) /\ Range(Append(s, e)) = Range(s) \cup {e}
<1>1. /\ Append(s, e) \in Seq(S) /\ Len(Append(s, e)) = Len(s) + 1 /\ Len(s) \in Nat
      /\ \A i \in 1 .. Len(s) : Append(s, e)[i] = s[i]
      /\ Append(s, e)[Len(s) + 1] = e
  BY AppendProperties, LenProperties
<1>2. \A x : x \in Range(Append(s, e)) <=> \E i \in 1 .. Len(s) + 1 : Append(s, e)[i] = x
  <2>1. \A x : x \in Range(Append(s, e)) <=> \E i \in 1 .. Len(Append(s, e)) : Append(s, e)[i] = x
    BY <1>1, InRange
  <2> QED BY <1>1, <2>1
<1>3. \A x : x \in Range(s) <=> \E i \in 1 .. Len(s) : s[i] = x
  BY InRange
<1>4. ASSUME NEW x \in Range(Append(s, e)) PROVE x \in Range(s) \cup {e}
  <2>1. PICK i \in 1 .. Len(s) + 1 : Append(s, e)[i] = x
    BY <1>2
  <2>2. i \in 1 .. Len(s) \/ i = Len(s) + 1
    BY <1>1
  <2> QED BY <1>1, <1>3, <2>1, <2>2
<1>5. ASSUME NEW x \in Range(s) \cup {e} PROVE x \in Range(Append(s, e))
  <2>1. CASE x = e
    <3>1. Len(s) + 1 \in 1 .. Len(s) + 1
      BY <1>1
    <3> QED BY <1>1, <1>2, <2>1, <3>1
  <2>2. CASE x \in Range(s)
    <3>1. PICK i \in 1 .. Len(s) : s[i] = x
      BY <1>3, <2>2
    <3>2. i \in 1 .. Len(s) + 1 /\ Append(s, e)[i] = x
      BY <1>1, <3>1
    <3> QED BY <1>2, <3>2
  <2> QED BY <2>1, <2>2
<1> QED BY <1>1, <1>4, <1>5

(* Of a finite set *)
LEMMA OneMore ==
  ASSUME NEW S, IsFiniteSet(S), NEW T \in SUBSET S, NEW x
  PROVE  /\ IsFiniteSet(T) /\ Cardinality(T) \in Nat
         /\ x \notin T => Cardinality(T \cup {x}) = Cardinality(T) + 1
<1>1. IsFiniteSet(T)
  BY FS_Subset
<1>2. Cardinality(T) \in Nat
  BY <1>1, FS_CardinalityType
<1>3. x \notin T => Cardinality(T \cup {x}) = Cardinality(T) + 1
  BY <1>1, FS_AddElement
<1> QED BY <1>1, <1>2, <1>3

-----------------------------------------------------------------------------
(* Induction.  The library's theorems of induction are about an operator;  *)
(* these are about a set, and rest on least elements.                      *)

LEMMA LeastNumber ==
  ASSUME NEW T \in SUBSET Nat, T # {}
  PROVE  \E x \in T : \A y \in T : x <= y
<1> DEFINE R == OpToRel(<, Nat)
<1>1. IsWellFoundedOn(R, Nat)
  BY NatLessThanWellFounded
<1>2. \A x, y \in Nat : x < y => <<x, y>> \in R
  BY DEF OpToRel
<1> HIDE DEF R
<1>3. PICK x \in T : \A y \in T : ~(<<y, x>> \in R)
  BY <1>1, WFMin
<1>4. ASSUME NEW y \in T PROVE x <= y
  <2>1. x \in Nat /\ y \in Nat /\ ~(y < x)
    BY <1>2, <1>3
  <2> QED BY <2>1
<1> QED BY <1>4

LEMMA Induction ==
  ASSUME NEW G, 0 \in G, \A n \in Nat : n \in G => n + 1 \in G
  PROVE  \A n \in Nat : n \in G
<1> SUFFICES ASSUME Nat \ G # {} PROVE FALSE
  OBVIOUS
<1>1. PICK m \in Nat \ G : \A n \in Nat \ G : m <= n
  BY LeastNumber
<1>2. m - 1 \in Nat
  BY <1>1
<1>3. m - 1 \in G
  BY <1>1, <1>2
<1>4. (m - 1) + 1 = m
  BY <1>1
<1> QED BY <1>1, <1>2, <1>3, <1>4

(* One element of a set, always the same, as the folds take it. *)
OneOf(s) == CHOOSE x \in s : TRUE

LEMMA FiniteInduction ==
  ASSUME NEW U, IsFiniteSet(U), NEW G, {} \in G,
         \A s \in SUBSET U : s # {} /\ s \ {OneOf(s)} \in G => s \in G
  PROVE  \A s \in SUBSET U : s \in G
<1> DEFINE H == {n \in Nat : \A s \in SUBSET U : Cardinality(s) = n => s \in G}
<1>1. \A s \in SUBSET U : IsFiniteSet(s) /\ Cardinality(s) \in Nat /\ (Cardinality(s) = 0 <=> s = {})
  BY FS_Subset, FS_CardinalityType, FS_EmptySet
<1>2. 0 \in H
  BY <1>1
<1>3. ASSUME NEW n \in Nat, n \in H PROVE n + 1 \in H
  <2>1. ASSUME NEW s \in SUBSET U, Cardinality(s) = n + 1 PROVE s \in G
    <3>1. s # {} /\ OneOf(s) \in s
      BY <1>1, <2>1 DEF OneOf
    <3>2. Cardinality(s \ {OneOf(s)}) = Cardinality(s) - 1
      BY <1>1, <3>1, FS_RemoveElement
    <3>3. s \ {OneOf(s)} \in SUBSET U /\ Cardinality(s \ {OneOf(s)}) = n
      BY <2>1, <3>2
    <3> QED BY <1>3, <3>1, <3>3
  <2> QED BY <2>1
<1> HIDE DEF H
<1>4. \A n \in Nat : n \in H
  BY <1>2, <1>3, Induction
<1> QED BY <1>1, <1>4 DEF H

-----------------------------------------------------------------------------
(* The sum of a function's values *)

(* What SumFunction adds up for the subsets of f's domain. *)
SumStep(f, g, s) ==
  IF s = {} THEN 0 ELSE f[OneOf(s)] + g[s \ {OneOf(s)}]

Sums(f) == CHOOSE g : g = [s \in SUBSET DOMAIN f |-> SumStep(f, g, s)]

LEMMA SumIsSums == \A f : SumFunction(f) = Sums(f)[DOMAIN f]
BY DEF SumFunction, SumFunctionOnSet, FoldFunctionOnSet, MapThenFoldSet, Sums, SumStep, OneOf

LEMMA SumsExist ==
  ASSUME NEW U, IsFiniteSet(U), NEW f \in [U -> Nat]
  PROVE  Sums(f) \in [SUBSET U -> Nat] /\ \A s \in SUBSET U : Sums(f)[s] = SumStep(f, Sums(f), s)
<1> DEFINE Upto(g, n) == \A s \in SUBSET U : Cardinality(s) <= n => g[s] = SumStep(f, g, s)
           H == {n \in Nat : \E g \in [SUBSET U -> Nat] : Upto(g, n)}
<1>1. \A s \in SUBSET U : IsFiniteSet(s) /\ Cardinality(s) \in Nat /\ (Cardinality(s) = 0 => s = {})
  BY FS_Subset, FS_CardinalityType, FS_EmptySet
<1>2. \A s \in SUBSET U : s # {} =>
        /\ OneOf(s) \in s /\ s \ {OneOf(s)} \in SUBSET U
        /\ Cardinality(s \ {OneOf(s)}) = Cardinality(s) - 1
  BY <1>1, FS_RemoveElement DEF OneOf
<1>3. 0 \in H
  <2> DEFINE g == [s \in SUBSET U |-> 0]
  <2>1. g \in [SUBSET U -> Nat] /\ Upto(g, 0)
    BY <1>1 DEF SumStep
  <2> QED BY <2>1
<1>4. ASSUME NEW n \in Nat, n \in H PROVE n + 1 \in H
  <2>1. PICK g \in [SUBSET U -> Nat] : Upto(g, n)
    BY <1>4
  <2> DEFINE k == [s \in SUBSET U |-> IF Cardinality(s) <= n THEN g[s] ELSE SumStep(f, g, s)]
  <2>2. \A s \in SUBSET U : SumStep(f, g, s) \in Nat
    BY <1>2 DEF SumStep
  <2>3. k \in [SUBSET U -> Nat]
    BY <2>2
  <2>4. \A s \in SUBSET U : k[s] = IF Cardinality(s) <= n THEN g[s] ELSE SumStep(f, g, s)
    OBVIOUS
  <2> HIDE DEF k
  <2>5. ASSUME NEW s \in SUBSET U, Cardinality(s) <= n + 1 PROVE k[s] = SumStep(f, k, s)
    <3>1. k[s] = SumStep(f, g, s)
      BY <2>1, <2>4
    <3>2. CASE s = {}
      BY <3>1, <3>2 DEF SumStep
    <3>3. CASE s # {}
      <4>1. s \ {OneOf(s)} \in SUBSET U /\ Cardinality(s \ {OneOf(s)}) <= n
        BY <1>1, <1>2, <2>5, <3>3
      <4>2. k[s \ {OneOf(s)}] = g[s \ {OneOf(s)}]
        BY <2>4, <4>1
      <4> QED BY <3>1, <3>3, <4>2 DEF SumStep
    <3> QED BY <3>2, <3>3
  <2> QED BY <2>3, <2>5
<1>5. Cardinality(U) \in H
  <2> HIDE DEF H
  <2>1. \A n \in Nat : n \in H
    BY <1>3, <1>4, Induction
  <2> QED BY <1>1, <2>1
<1>6. PICK g \in [SUBSET U -> Nat] : Upto(g, Cardinality(U))
  BY <1>5
<1>7. \A s \in SUBSET U : Cardinality(s) <= Cardinality(U)
  BY FS_Subset
<1>8. g = [s \in SUBSET DOMAIN f |-> SumStep(f, g, s)]
  BY <1>6, <1>7
<1>9. Sums(f) = [s \in SUBSET DOMAIN f |-> SumStep(f, Sums(f), s)]
  BY <1>8 DEF Sums
<1>10. \A s \in SUBSET U : Sums(f)[s] = SumStep(f, Sums(f), s)
  BY <1>9
<1> DEFINE G == {s \in SUBSET U : Sums(f)[s] \in Nat}
<1>11. {} \in G
  <2>1. {} \in SUBSET U
    OBVIOUS
  <2>2. Sums(f)[{}] = 0
    BY <1>10, <2>1 DEF SumStep
  <2> QED BY <2>1, <2>2
<1>12. ASSUME NEW s \in SUBSET U, s # {}, s \ {OneOf(s)} \in G PROVE s \in G
  <2>1. Sums(f)[s] = f[OneOf(s)] + Sums(f)[s \ {OneOf(s)}]
    BY <1>10, <1>12 DEF SumStep
  <2>2. f[OneOf(s)] \in Nat /\ Sums(f)[s \ {OneOf(s)}] \in Nat
    BY <1>2, <1>12
  <2> QED BY <2>1, <2>2
<1>13. \A s \in SUBSET U : Sums(f)[s] \in Nat
  <2> HIDE DEF G
  <2>1. \A s \in SUBSET U : s \in G
    BY <1>11, <1>12, FiniteInduction
  <2> QED BY <2>1 DEF G
<1>14. Sums(f) \in [SUBSET U -> Nat]
  BY <1>9, <1>13
<1> QED BY <1>10, <1>14

LEMMA SumIsNat ==
  ASSUME NEW U, IsFiniteSet(U), NEW f \in [U -> Nat]
  PROVE  SumFunction(f) \in Nat
<1>1. Sums(f) \in [SUBSET U -> Nat] /\ U \in SUBSET U /\ DOMAIN f = U
  BY SumsExist
<1>2. Sums(f)[U] \in Nat
  BY <1>1
<1> QED BY <1>1, <1>2, SumIsSums

(* Changing one value of a function changes the sum by as much. *)
LEMMA SumChanges ==
  ASSUME NEW U, IsFiniteSet(U), NEW f \in [U -> Nat], NEW u \in U, NEW v \in Nat,
         NEW k \in [U -> Nat], \A x \in U : k[x] = IF x = u THEN v ELSE f[x]
  PROVE  \E m, n \in Nat : m = SumFunction(f) /\ n = SumFunction(k) /\ n + f[u] = m + v
<1>1. k \in [U -> Nat] /\ \A x \in U : k[x] = IF x = u THEN v ELSE f[x]
  OBVIOUS
<1>2. /\ Sums(f) \in [SUBSET U -> Nat] /\ \A s \in SUBSET U : Sums(f)[s] = SumStep(f, Sums(f), s)
      /\ Sums(k) \in [SUBSET U -> Nat] /\ \A s \in SUBSET U : Sums(k)[s] = SumStep(k, Sums(k), s)
  BY <1>1, SumsExist
<1> DEFINE Apart(s) == IF u \in s THEN Sums(k)[s] + f[u] = Sums(f)[s] + v ELSE Sums(k)[s] = Sums(f)[s]
           G == {s \in SUBSET U : Apart(s)}
<1>3. {} \in G
  <2>1. {} \in SUBSET U
    OBVIOUS
  <2> QED BY <1>2, <2>1 DEF SumStep
<1>4. ASSUME NEW s \in SUBSET U, s # {}, s \ {OneOf(s)} \in G PROVE s \in G
  <2> DEFINE x == OneOf(s)
  <2>1. x \in s /\ s \ {x} \in SUBSET U /\ x \in U
    BY <1>4 DEF OneOf
  <2> HIDE DEF x
  <2>2. Sums(f)[s] = f[x] + Sums(f)[s \ {x}] /\ Sums(k)[s] = k[x] + Sums(k)[s \ {x}]
    BY <1>2, <1>4 DEF SumStep, x
  <2>3. /\ Sums(f)[s \ {x}] \in Nat /\ Sums(k)[s \ {x}] \in Nat /\ f[x] \in Nat /\ f[u] \in Nat
        /\ k[x] = IF x = u THEN v ELSE f[x]
    BY <1>1, <1>2, <2>1
  <2>4. Apart(s \ {x})
    BY <1>4 DEF x
  <2>5. u \in s \ {x} <=> u \in s /\ u # x
    OBVIOUS
  <2>6. Apart(s)
    BY <2>1, <2>2, <2>3, <2>4, <2>5
  <2> QED BY <2>6
<1>5. U \in G
  <2> HIDE DEF G
  <2> QED BY <1>3, <1>4, FiniteInduction
<1>6. DOMAIN f = U /\ DOMAIN k = U
  BY <1>1
<1>7. Sums(k)[U] + f[u] = Sums(f)[U] + v /\ Sums(f)[U] \in Nat /\ Sums(k)[U] \in Nat
  BY <1>2, <1>5
<1>8. SumFunction(f) = Sums(f)[U] /\ SumFunction(k) = Sums(k)[U]
  BY <1>6, SumIsSums
<1> QED BY <1>7, <1>8

LEMMA SumOfNothing ==
  ASSUME NEW U, IsFiniteSet(U)
  PROVE  SumFunction([u \in U |-> 0]) = 0
<1> DEFINE f == [u \in U |-> 0]
           G == {s \in SUBSET U : Sums(f)[s] = 0}
<1>1. f \in [U -> Nat] /\ \A x \in U : f[x] = 0
  OBVIOUS
<1> HIDE DEF f
<1>2. \A s \in SUBSET U : Sums(f)[s] = SumStep(f, Sums(f), s)
  BY <1>1, SumsExist
<1>3. {} \in G
  <2>1. {} \in SUBSET U
    OBVIOUS
  <2> QED BY <1>2, <2>1 DEF SumStep
<1>4. ASSUME NEW s \in SUBSET U, s # {}, s \ {OneOf(s)} \in G PROVE s \in G
  <2>1. OneOf(s) \in U
    BY <1>4 DEF OneOf
  <2>2. Sums(f)[s] = f[OneOf(s)] + Sums(f)[s \ {OneOf(s)}]
    BY <1>2, <1>4 DEF SumStep
  <2> QED BY <1>1, <1>4, <2>1, <2>2
<1>5. U \in G
  <2> HIDE DEF G
  <2> QED BY <1>3, <1>4, FiniteInduction
<1>6. DOMAIN f = U
  BY <1>1
<1> QED BY <1>5, <1>6, SumIsSums DEF f

-----------------------------------------------------------------------------
(* Streams *)

(* What of the first k items of a source the adapter keeps. *)
KeptOf(n, k) ==
  CASE n.adapter \in {"filter", "filterMap"} -> 1 .. k \cap Liked
    [] n.adapter = "takeWhile" -> {i \in 1 .. k : 1 .. i \subseteq Liked}
    [] OTHER -> 1 .. k

KeptNow(n, s) == KeptOf(n, IF n.pending = "none" THEN n.taken[s] ELSE n.taken[s] - 1)

(* What holds in the middle of a poll, too. *)
Flows(n) ==
  /\ \A s \in Stream!Sources :
       /\ n.taken[s] <= n.made[s]
       /\ s \notin Stream!Used(n) => n.made[s] = 0
       /\ n.done[s] => n.adapter = "merge" /\ n.closed[s] /\ n.taken[s] = n.made[s]
  /\ n.pending # "none" => n.adapter = "then" /\ n.taken["a"] >= 1
  /\ n.adapter = "takeWhile" =>
       IF n.cut THEN n.taken["a"] >= 1 /\ n.taken["a"] \notin Liked
       ELSE 1 .. n.taken["a"] \subseteq Liked
  /\ n.cut => n.adapter = "takeWhile"
  /\ ~n.afterEnd

(* A source that was passed over is asked first. *)
Fair(n) ==
  \A s \in Stream!Sources : n.passed[s] # 0 =>
    /\ n.passed[s] = 1 /\ n.adapter = "merge" /\ n.taken[s] < n.made[s]
    /\ IF s = "a" THEN n.aFirst ELSE ~n.aFirst

Outs(n) == \A s \in Stream!Sources : Stream!InOrder(n.out[s]) /\ Range(n.out[s]) = KeptNow(n, s)

Listens(n) ==
  \/ n.pending = "running" /\ "future" \in n.listens
  \/ /\ n.pending = "none"
     /\ \A s \in Stream!Used(n) : n.taken[s] = n.made[s]
     /\ \A s \in Stream!Used(n) : n.done[s] \/ (~n.closed[s] /\ s \in n.listens)

Ends(n) ==
  n.pending = "none" /\ (n.cut \/ \A s \in Stream!Used(n) : n.closed[s] /\ n.taken[s] = n.made[s])

StreamGood(n) ==
  /\ n \in Stream!StreamsType /\ Flows(n) /\ Fair(n) /\ Outs(n)
  /\ n.at = "parked" /\ ~n.woken => Listens(n)
  /\ n.at = "ended" => Ends(n)

StreamInv == StreamGood(strm)

LEMMA StreamIs ==
  Items \in Nat /\ Liked \subseteq 1 .. Items /\ \A f : Stream!Range(f) = Range(f)
BY StreamLibraryAssumption DEF Stream!StreamsAssumption, Stream!Range, Range

LEMMA TypeOfStream ==
  ASSUME NEW n \in Stream!StreamsType
  PROVE  /\ n.made \in [{"a", "b"} -> 0 .. Items] /\ n.taken \in [{"a", "b"} -> 0 .. Items]
         /\ n.closed \in [{"a", "b"} -> BOOLEAN] /\ n.done \in [{"a", "b"} -> BOOLEAN]
         /\ n.out \in [{"a", "b"} -> Seq(1 .. Items)] /\ n.passed \in [{"a", "b"} -> 0 .. Items]
         /\ n.listens \in SUBSET {"a", "b", "future"}
         /\ n.aFirst \in BOOLEAN /\ n.cut \in BOOLEAN /\ n.woken \in BOOLEAN /\ n.afterEnd \in BOOLEAN
         /\ n.adapter \in {"map", "filter", "filterMap", "takeWhile", "then", "merge"}
         /\ n.consumer \in {"next", "collect", "forEach", "fold"}
         /\ n.pending \in {"none", "running", "ready"} /\ n.at \in {"idle", "polling", "parked", "ended"}
         /\ Stream!Used(n) = IF n.adapter = "merge" THEN {"a", "b"} ELSE {"a"}
         /\ Stream!Sources = {"a", "b"} /\ Items \in Nat /\ Liked \subseteq 1 .. Items
<1>1. Stream!Sources \cup {"future"} = {"a", "b", "future"}
  BY DEF Stream!Sources
<1> QED BY <1>1, StreamIs DEF Stream!StreamsType, Stream!Sources, Stream!Used, Stream!Adapters, Stream!Consumers

LEMMA StreamShows ==
  ASSUME StreamInv
  PROVE  Stream!TypeOK /\ Stream!StreamIsExact /\ Stream!WaitsForItems /\ Stream!MergeIsFair
<1>1. PICK n : n = strm
  OBVIOUS
<1>2. StreamGood(n) /\ n \in Stream!StreamsType
  BY <1>1 DEF StreamInv, StreamGood
<1>3. Stream!TypeOK
  BY <1>1, <1>2 DEF Stream!TypeOK
<1>4. \A k : Stream!Kept(k) = KeptOf(n, k)
  BY <1>1 DEF Stream!Kept, KeptOf
<1>5. ASSUME NEW s \in Stream!Sources, n.at = "ended" PROVE Range(n.out[s]) = KeptOf(n, n.made[s])
  <2>1. Range(n.out[s]) = KeptOf(n, n.taken[s]) /\ Ends(n) /\ Flows(n)
    BY <1>2, <1>5 DEF StreamGood, Outs, KeptNow, Ends
  <2>2. /\ n.taken[s] \in Nat /\ n.made[s] \in Nat /\ n.taken[s] <= n.made[s]
        /\ s \notin Stream!Used(n) => n.made[s] = 0
    BY <1>2, <2>1, TypeOfStream DEF Flows
  <2>3. CASE n.taken[s] = n.made[s]
    BY <2>1, <2>3
  <2>4. CASE n.taken[s] # n.made[s]
    <3>1. n.cut /\ s = "a" /\ n.adapter = "takeWhile" /\ n.taken[s] >= 1 /\ n.taken[s] \notin Liked
      <4>1. s \in Stream!Used(n)
        BY <2>2, <2>4
      <4> QED BY <1>2, <2>1, <2>4, <4>1, TypeOfStream DEF Ends, Flows
    <3>2. \A k : KeptOf(n, k) = {i \in 1 .. k : 1 .. i \subseteq Liked}
      BY <3>1 DEF KeptOf
    <3>3. ASSUME NEW i \in 1 .. n.made[s], 1 .. i \subseteq Liked PROVE i \in 1 .. n.taken[s]
      <4>1. n.taken[s] \notin 1 .. i
        BY <3>1, <3>3
      <4> QED BY <2>2, <3>1, <4>1
    <3>4. \A i \in 1 .. n.taken[s] : i \in 1 .. n.made[s]
      BY <2>2
    <3> QED BY <2>1, <3>2, <3>3, <3>4
  <2> QED BY <2>3, <2>4
<1>6. Stream!StreamIsExact
  <2>1. /\ \A s \in Stream!Sources : Stream!InOrder(n.out[s]) /\ Range(n.out[s]) = KeptNow(n, s)
        /\ ~n.afterEnd
    BY <1>2 DEF StreamGood, Outs, Flows
  <2> QED BY <1>1, <1>4, <1>5, <2>1, StreamIs DEF Stream!StreamIsExact, KeptNow
<1>7. Stream!WaitsForItems
  BY <1>1, <1>2 DEF Stream!WaitsForItems, StreamGood, Listens
<1>8. Stream!MergeIsFair
  <2>1. ASSUME NEW s \in Stream!Sources PROVE n.passed[s] <= 1
    <3>1. n.passed[s] = 0 \/ n.passed[s] = 1
      BY <1>2 DEF StreamGood, Fair
    <3> QED BY <3>1
  <2> QED BY <1>1, <2>1 DEF Stream!MergeIsFair
<1> QED BY <1>3, <1>6, <1>7, <1>8

LEMMA StreamInit == ASSUME Stream!Init PROVE StreamInv
<1>1. PICK a \in Stream!Adapters, c \in Stream!Consumers :
        strm = [ adapter |-> a, consumer |-> c, made |-> [s \in Stream!Sources |-> 0],
                 taken |-> [s \in Stream!Sources |-> 0], closed |-> [s \in Stream!Sources |-> FALSE],
                 listens |-> {}, done |-> [s \in Stream!Sources |-> FALSE], aFirst |-> TRUE,
                 cut |-> FALSE, pending |-> "none", out |-> [s \in Stream!Sources |-> << >>],
                 at |-> "idle", woken |-> FALSE, passed |-> [s \in Stream!Sources |-> 0],
                 afterEnd |-> FALSE ]
  BY DEF Stream!Init
<1>2. PICK n : n = strm
  OBVIOUS
<1>3. << >> \in Seq(1 .. Items) /\ 0 \in 0 .. Items /\ Range(<< >>) = {} /\ Stream!InOrder(<< >>)
  BY StreamIs, EmptySeq DEF Range, Stream!InOrder
<1>4. n \in Stream!StreamsType
  BY <1>1, <1>2, <1>3 DEF Stream!StreamsType
<1>5. /\ \A s \in Stream!Sources : /\ n.made[s] = 0 /\ n.taken[s] = 0 /\ ~n.closed[s] /\ ~n.done[s]
                                   /\ n.out[s] = << >> /\ n.passed[s] = 0
      /\ n.pending = "none" /\ ~n.cut /\ ~n.afterEnd /\ n.at = "idle"
  BY <1>1, <1>2
<1>6. \A s \in Stream!Sources : KeptNow(n, s) = {}
  <2>1. KeptOf(n, 0) = {}
    BY <1>5 DEF KeptOf
  <2> QED BY <1>5, <2>1 DEF KeptNow
<1>7. Flows(n)
  <2>1. "a" \in Stream!Sources /\ 1 .. 0 = {}
    BY DEF Stream!Sources
  <2> QED BY <1>5, <2>1 DEF Flows
<1>8. Fair(n) /\ Outs(n)
  BY <1>3, <1>5, <1>6 DEF Fair, Outs
<1> QED BY <1>2, <1>4, <1>5, <1>7, <1>8 DEF StreamInv, StreamGood

LEMMA AppendInOrder ==
  ASSUME NEW q \in Seq(1 .. Items), Stream!InOrder(q), NEW i \in 1 .. Items, \A k \in Range(q) : k < i
  PROVE  Stream!InOrder(Append(q, i)) /\ Append(q, i) \in Seq(1 .. Items) /\ Range(Append(q, i)) = Range(q) \cup {i}
<1>1. PICK m : m = Len(q)
  OBVIOUS
<1>2. /\ m \in Nat /\ DOMAIN q = 1 .. m /\ Len(Append(q, i)) = m + 1 /\ Append(q, i)[m + 1] = i
      /\ \A j \in 1 .. m : Append(q, i)[j] = q[j]
  BY <1>1, LenProperties, AppendProperties
<1>3. Append(q, i) \in Seq(1 .. Items) /\ Range(Append(q, i)) = Range(q) \cup {i}
  <2>1. PICK S : S = 1 .. Items
    OBVIOUS
  <2>2. q \in Seq(S) /\ i \in S
    BY <2>1
  <2>3. Append(q, i) \in Seq(S) /\ Range(Append(q, i)) = Range(q) \cup {i}
    BY <2>2, RangeOfAppend
  <2> QED BY <2>1, <2>3
<1>4. DOMAIN Append(q, i) = 1 .. m + 1
  BY <1>2, <1>3, LenProperties
<1>5. PICK r : r = Append(q, i)
  OBVIOUS
<1>6. ASSUME NEW j \in 1 .. m + 1, NEW k \in 1 .. m + 1, j < k PROVE r[j] < r[k]
  <2>1. j \in 1 .. m /\ (k \in 1 .. m \/ k = m + 1)
    BY <1>2, <1>6
  <2>2. r[j] = q[j] /\ q[j] \in Range(q) /\ (k \in 1 .. m => r[k] = q[k]) /\ (k = m + 1 => r[k] = i)
    BY <1>2, <1>5, <2>1 DEF Range
  <2> QED BY <1>2, <1>6, <2>1, <2>2 DEF Stream!InOrder
<1> QED BY <1>3, <1>4, <1>5, <1>6 DEF Stream!InOrder

LEMMA Answers ==
  /\ ~Stream!IsItem(Stream!Pending) /\ ~Stream!IsItem(Stream!Nothing) /\ Stream!Pending # Stream!Nothing
  /\ \A s \in Stream!Sources : \A i : Stream!IsItem(<<s, i>>)
  /\ \A x : Stream!Used(x) \subseteq Stream!Sources
BY DEF Stream!Used, Stream!IsItem, Stream!Pending, Stream!Nothing, Stream!Sources

(* The state after a poll, before the consumer acts on the answer. *)
Answered(x, y, r) ==
  /\ y \in Stream!StreamsType /\ Flows(y)
  /\ y.adapter = x.adapter /\ y.consumer = x.consumer /\ y.made = x.made /\ y.closed = x.closed
  /\ y.out = x.out /\ y.at = x.at /\ y.woken = x.woken /\ y.passed = x.passed
  /\ \/ \E s \in Stream!Used(x), i \in 1 .. Items :
          /\ r = <<s, i>>
          /\ \A t \in Stream!Sources : KeptNow(y, t) = IF t = s THEN Range(x.out[t]) \cup {i} ELSE Range(x.out[t])
          /\ \A k \in Range(x.out[s]) : k < i
          /\ \A t \in Stream!Sources :
               \/ t = s \/ x.taken[t] = x.made[t]
               \/ /\ x.passed[t] = 0 /\ x.adapter = "merge" /\ y.taken[t] < y.made[t]
                  /\ IF t = "a" THEN y.aFirst ELSE ~y.aFirst
     \/ /\ r = Stream!Nothing /\ Ends(y)
        /\ \A t \in Stream!Sources : KeptNow(y, t) = Range(x.out[t]) /\ x.passed[t] = 0
     \/ /\ r = Stream!Pending /\ Listens(y)
        /\ \A t \in Stream!Sources : KeptNow(y, t) = Range(x.out[t]) /\ x.passed[t] = 0

LEMMA ConsumeKeeps ==
  ASSUME StreamGood(strm), NEW y, NEW r, NEW x, x = [strm EXCEPT !.woken = FALSE], Answered(x, y, r)
  PROVE  StreamGood(Stream!Consume([x |-> y, r |-> r]))
<1>1. PICK h : h = Stream!Consume([x |-> y, r |-> r])
  OBVIOUS
<1>2. /\ x \in Stream!StreamsType /\ x.taken = strm.taken /\ x.made = strm.made /\ x.passed = strm.passed
      /\ x.out = strm.out /\ y.out = strm.out /\ strm \in Stream!StreamsType
      /\ y \in Stream!StreamsType /\ Flows(y)
      /\ y.adapter = x.adapter /\ y.made = x.made /\ y.closed = x.closed
      /\ y.passed = x.passed /\ y.woken = x.woken /\ Outs(strm) /\ Fair(strm)
  BY DEF StreamGood, Stream!StreamsType, Answered
<1>3. CASE r = Stream!Nothing
  <2>1. Ends(y) /\ \A t \in Stream!Sources : KeptNow(y, t) = Range(x.out[t]) /\ x.passed[t] = 0
    BY <1>3, Answers DEF Answered
  <2>2. h = [y EXCEPT !.at = "ended"]
    BY <1>1, <1>3, Answers DEF Stream!Consume
  <2>3. /\ h \in Stream!StreamsType /\ h.adapter = y.adapter /\ h.made = y.made /\ h.taken = y.taken
        /\ h.closed = y.closed /\ h.listens = y.listens /\ h.done = y.done /\ h.aFirst = y.aFirst
        /\ h.cut = y.cut /\ h.pending = y.pending /\ h.out = y.out /\ h.at = "ended" /\ h.passed = y.passed
        /\ h.afterEnd = y.afterEnd
    BY <1>2, <2>2 DEF Stream!StreamsType
  <2>4. Flows(h) /\ Ends(h)
    BY <1>2, <2>1, <2>3 DEF Flows, Ends, Stream!Used
  <2>5. \A t \in Stream!Sources : KeptNow(h, t) = KeptNow(y, t)
    BY <2>3 DEF KeptNow, KeptOf
  <2>6. Outs(h) /\ Fair(h)
    BY <1>2, <2>1, <2>3, <2>5 DEF Outs, Fair
  <2> QED BY <1>1, <2>3, <2>4, <2>6 DEF StreamGood
<1>4. CASE r = Stream!Pending
  <2>1. Listens(y) /\ \A t \in Stream!Sources : KeptNow(y, t) = Range(x.out[t]) /\ x.passed[t] = 0
    BY <1>4, Answers DEF Answered
  <2>2. h = [y EXCEPT !.at = "parked"]
    BY <1>1, <1>4, Answers DEF Stream!Consume
  <2>3. /\ h \in Stream!StreamsType /\ h.adapter = y.adapter /\ h.made = y.made /\ h.taken = y.taken
        /\ h.closed = y.closed /\ h.listens = y.listens /\ h.done = y.done /\ h.aFirst = y.aFirst
        /\ h.cut = y.cut /\ h.pending = y.pending /\ h.out = y.out /\ h.at = "parked" /\ h.passed = y.passed
        /\ h.afterEnd = y.afterEnd
    BY <1>2, <2>2 DEF Stream!StreamsType
  <2>4. Flows(h) /\ Listens(h)
    BY <1>2, <2>1, <2>3 DEF Flows, Listens, Stream!Used
  <2>5. \A t \in Stream!Sources : KeptNow(h, t) = KeptNow(y, t)
    BY <2>3 DEF KeptNow, KeptOf
  <2>6. Outs(h) /\ Fair(h)
    BY <1>2, <2>1, <2>3, <2>5 DEF Outs, Fair
  <2> QED BY <1>1, <2>3, <2>4, <2>6 DEF StreamGood
<1>5. CASE ~(r = Stream!Nothing \/ r = Stream!Pending)
  <2>1. PICK s \in Stream!Used(x), i \in 1 .. Items :
          /\ r = <<s, i>>
          /\ \A t \in Stream!Sources : KeptNow(y, t) = IF t = s THEN Range(x.out[t]) \cup {i} ELSE Range(x.out[t])
          /\ \A k \in Range(x.out[s]) : k < i
          /\ \A t \in Stream!Sources :
               \/ t = s \/ x.taken[t] = x.made[t]
               \/ /\ x.passed[t] = 0 /\ x.adapter = "merge" /\ y.taken[t] < y.made[t]
                  /\ IF t = "a" THEN y.aFirst ELSE ~y.aFirst
    BY <1>5 DEF Answered
  <2>2. s \in Stream!Sources
    BY Answers
  <2> DEFINE out == [strm.out EXCEPT ![s] = Append(strm.out[s], i)]
             passed == [t \in Stream!Sources |->
                          IF t = s \/ strm.taken[t] = strm.made[t] THEN 0 ELSE strm.passed[t] + 1]
             at == IF y.consumer = "next" THEN "idle" ELSE "polling"
  <2>3. h = [y EXCEPT !.out = out, !.passed = passed, !.at = at]
    <3>1. r[1] = s /\ r[2] = i /\ Stream!IsItem(r)
      BY <2>1, <2>2, Answers
    <3>2. Stream!Passed(strm, r) = passed
      BY <3>1 DEF Stream!Passed
    <3>3. h = [y EXCEPT !.out = Stream!Given(@, r), !.passed = Stream!Passed(strm, r), !.at = at]
      <4>1. PICK p : p = [x |-> y, r |-> r]
        OBVIOUS
      <4>2. p.x = y /\ p.r = r /\ h = Stream!Consume(p)
        BY <1>1, <4>1
      <4>3. r # Stream!Nothing /\ r # Stream!Pending
        BY <1>5
      <4> HIDE DEF at
      <4>4. h = [p.x EXCEPT !.out = Stream!Given(@, p.r), !.passed = Stream!Passed(strm, p.r),
                            !.at = IF p.x.consumer = "next" THEN "idle" ELSE "polling"]
        BY <3>1, <4>2, <4>3 DEF Stream!Consume
      <4> QED BY <4>2, <4>4 DEF at
    <3>4. y.out = strm.out /\ Stream!Given(strm.out, r) = out
      BY <1>2, <3>1 DEF Stream!Given
    <3> HIDE DEF passed, out, at
    <3> QED BY <1>2, <3>2, <3>3, <3>4 DEF Stream!StreamsType
  <2>4. /\ Stream!InOrder(strm.out[s]) /\ strm.out[s] \in Seq(1 .. Items)
    BY <1>2, <2>2, TypeOfStream DEF Outs, Stream!Sources
  <2>5. /\ Append(strm.out[s], i) \in Seq(1 .. Items) /\ Stream!InOrder(Append(strm.out[s], i))
        /\ Range(Append(strm.out[s], i)) = Range(strm.out[s]) \cup {i}
    BY <1>2, <2>1, <2>4, AppendInOrder
  <2>6. /\ out \in [Stream!Sources -> Seq(1 .. Items)]
        /\ \A t \in Stream!Sources : out[t] = IF t = s THEN Append(strm.out[s], i) ELSE strm.out[t]
    BY <1>2, <2>5 DEF Stream!StreamsType
  <2>7. /\ passed \in [Stream!Sources -> 0 .. Items]
        /\ \A t \in Stream!Sources : passed[t] # 0 =>
             /\ passed[t] = 1 /\ x.adapter = "merge" /\ y.taken[t] < y.made[t]
             /\ IF t = "a" THEN y.aFirst ELSE ~y.aFirst
    <3>1. ASSUME NEW t \in Stream!Sources
          PROVE  \/ passed[t] = 0
                 \/ /\ passed[t] = 1 /\ x.adapter = "merge" /\ y.taken[t] < y.made[t]
                    /\ IF t = "a" THEN y.aFirst ELSE ~y.aFirst
      BY <1>2, <2>1
    <3>2. \A t \in Stream!Sources : passed[t] # 0 => 1 \in 0 .. Items
      BY <1>2, <3>1, TypeOfStream DEF Stream!Sources
    <3>3. ASSUME NEW t \in Stream!Sources PROVE passed[t] \in 0 .. Items
      <4>1. 0 \in 0 .. Items
        BY StreamIs
      <4> HIDE DEF passed
      <4> QED BY <3>1, <3>2, <4>1
    <3> QED BY <3>1, <3>3
  <2>8. at \in {"idle", "polling", "parked", "ended"} /\ at # "parked" /\ at # "ended"
    OBVIOUS
  <2> HIDE DEF out, passed, at
  <2>9. /\ h \in Stream!StreamsType /\ h.adapter = y.adapter /\ h.made = y.made /\ h.taken = y.taken
        /\ h.closed = y.closed /\ h.listens = y.listens /\ h.done = y.done /\ h.aFirst = y.aFirst
        /\ h.cut = y.cut /\ h.pending = y.pending /\ h.out = out /\ h.at = at /\ h.passed = passed
        /\ h.afterEnd = y.afterEnd
    BY <1>2, <2>3, <2>6, <2>7, <2>8 DEF Stream!StreamsType
  <2>10. Flows(h)
    BY <1>2, <2>9 DEF Flows, Stream!Used
  <2>11. \A t \in Stream!Sources : KeptNow(h, t) = KeptNow(y, t)
    BY <2>9 DEF KeptNow, KeptOf
  <2>12. Outs(h)
    BY <1>2, <2>1, <2>5, <2>6, <2>9, <2>11 DEF Outs
  <2>13. Fair(h)
    BY <1>2, <2>7, <2>9 DEF Fair
  <2> QED BY <1>1, <2>8, <2>9, <2>10, <2>12, <2>13 DEF StreamGood
<1> QED BY <1>3, <1>4, <1>5

-----------------------------------------------------------------------------
(* The adapters *)

(* What a poll of a source leaves alone. *)
SameBut(x, y) ==
  /\ y \in Stream!StreamsType
  /\ y.adapter = x.adapter /\ y.consumer = x.consumer /\ y.made = x.made /\ y.closed = x.closed
  /\ y.cut = x.cut /\ y.pending = x.pending /\ y.aFirst = x.aFirst
  /\ y.out = x.out /\ y.at = x.at /\ y.woken = x.woken /\ y.passed = x.passed /\ y.afterEnd = x.afterEnd

(* An item, the end, or a waker is left. *)
Polled(x, s, y, r) ==
  /\ SameBut(x, y) /\ y.done = x.done
  /\ \/ /\ x.taken[s] < x.made[s] /\ r = <<s, x.taken[s] + 1>> /\ y.taken = [x.taken EXCEPT ![s] = x.taken[s] + 1]
     \/ /\ x.taken[s] = x.made[s] /\ x.closed[s] /\ r = Stream!Nothing /\ y.taken = x.taken
     \/ /\ x.taken[s] = x.made[s] /\ ~x.closed[s] /\ r = Stream!Pending /\ y.taken = x.taken
        /\ s \in y.listens
  /\ x.listens \subseteq y.listens

LEMMA SourceAnswers ==
  ASSUME NEW x \in Stream!StreamsType, NEW s \in Stream!Sources, x.taken[s] <= x.made[s],
         ~x.done[s], ~x.afterEnd
  PROVE  \E y, r : Stream!PollSource(x, s) = [x |-> y, r |-> r] /\ Polled(x, s, y, r)
<1>1. /\ x.taken \in [Stream!Sources -> 0 .. Items] /\ x.made \in [Stream!Sources -> 0 .. Items]
      /\ x.listens \in SUBSET (Stream!Sources \cup {"future"}) /\ Items \in Nat
  BY StreamIs DEF Stream!StreamsType
<1>2. x.taken[s] \in Nat /\ x.made[s] \in Nat /\ x.made[s] <= Items
  BY <1>1
<1>3. CASE x.taken[s] < x.made[s]
  <2> DEFINE taken == [x.taken EXCEPT ![s] = x.taken[s] + 1]
             y == [x EXCEPT !.taken = taken]
  <2>1. x.taken[s] + 1 \in 0 .. Items
    BY <1>1, <1>2, <1>3
  <2>2. taken \in [Stream!Sources -> 0 .. Items]
    BY <1>1, <2>1
  <2>3. Stream!PollSource(x, s) = [x |-> y, r |-> <<s, x.taken[s] + 1>>]
    BY <1>1, <1>3 DEF Stream!PollSource, Stream!Ret, Stream!StreamsType
  <2> HIDE DEF taken
  <2>4. SameBut(x, y) /\ y.done = x.done /\ y.listens = x.listens /\ y.taken = taken
    BY <2>2 DEF SameBut, Stream!StreamsType
  <2> HIDE DEF y
  <2>5. Polled(x, s, y, <<s, x.taken[s] + 1>>)
    BY <1>3, <2>4 DEF Polled, taken
  <2> QED BY <2>3, <2>5
<1>4. CASE ~(x.taken[s] < x.made[s]) /\ x.closed[s]
  <2>1. Stream!PollSource(x, s) = [x |-> [x EXCEPT !.afterEnd = x.afterEnd \/ x.done[s]], r |-> Stream!Nothing]
    BY <1>4 DEF Stream!PollSource, Stream!Ret, Stream!StreamsType
  <2>2. (x.afterEnd \/ x.done[s]) = x.afterEnd
    BY DEF Stream!StreamsType
  <2>3. [x EXCEPT !.afterEnd = x.afterEnd] = x
    BY DEF Stream!StreamsType
  <2>4. x.taken[s] = x.made[s]
    BY <1>2, <1>4
  <2>5. Polled(x, s, x, Stream!Nothing)
    BY <1>4, <2>4 DEF Polled, SameBut
  <2> QED BY <2>1, <2>2, <2>3, <2>5
<1>5. CASE ~(x.taken[s] < x.made[s]) /\ ~x.closed[s]
  <2> DEFINE listens == x.listens \cup {s}
             y == [x EXCEPT !.listens = listens]
  <2>1. Stream!PollSource(x, s) = [x |-> y, r |-> Stream!Pending]
    BY <1>5 DEF Stream!PollSource, Stream!Ret, Stream!StreamsType
  <2>2. listens \in SUBSET (Stream!Sources \cup {"future"}) /\ s \in listens /\ x.listens \subseteq listens
    BY <1>1
  <2> HIDE DEF listens
  <2>3. SameBut(x, y) /\ y.done = x.done /\ y.taken = x.taken /\ y.listens = listens
    BY <2>2 DEF SameBut, Stream!StreamsType
  <2>4. x.taken[s] = x.made[s]
    BY <1>2, <1>5
  <2> HIDE DEF y
  <2>5. Polled(x, s, y, Stream!Pending)
    BY <1>5, <2>2, <2>3, <2>4 DEF Polled
  <2> QED BY <2>1, <2>5
<1> QED BY <1>3, <1>4, <1>5

LEMMA NextNumber ==
  ASSUME NEW k \in Nat
  PROVE  /\ 1 .. k + 1 = (1 .. k) \cup {k + 1} /\ \A j \in 1 .. k : j < k + 1
         /\ k + 1 - 1 = k
OBVIOUS

(* A poll that ends with one of the source, in an adapter without a future *)
(* and without a second source.                                            *)
LEMMA OneSource ==
  ASSUME NEW x \in Stream!StreamsType, Flows(x), Fair(x), Outs(x), x.adapter \in {"map", "filter", "filterMap"},
         NEW k \in 0 .. Items, x.taken["a"] <= k, k <= x.made["a"], KeptOf(x, k) = KeptOf(x, x.taken["a"]),
         k < x.made["a"] => KeptOf(x, k + 1) = KeptOf(x, k) \cup {k + 1},
         NEW z, z = [x EXCEPT !.taken["a"] = k]
  PROVE  \E y, r : Stream!PollSource(z, "a") = [x |-> y, r |-> r] /\ Answered(x, y, r)
<1>1. /\ x.taken \in [{"a", "b"} -> 0 .. Items] /\ x.made \in [{"a", "b"} -> 0 .. Items] /\ Items \in Nat
      /\ Stream!Sources = {"a", "b"} /\ Stream!Used(x) = {"a"} /\ x.pending = "none" /\ ~x.cut
      /\ ~x.done["a"] /\ ~x.done["b"] /\ ~x.afterEnd /\ x.made["b"] = 0 /\ x.taken["b"] = 0
      /\ \A s \in {"a", "b"} : x.passed[s] = 0
  <2>1. /\ x.taken \in [{"a", "b"} -> 0 .. Items] /\ x.made \in [{"a", "b"} -> 0 .. Items] /\ Items \in Nat
        /\ Stream!Sources = {"a", "b"} /\ Stream!Used(x) = {"a"}
    BY TypeOfStream
  <2>2. /\ x.pending = "none" /\ ~x.cut /\ ~x.done["a"] /\ ~x.done["b"] /\ ~x.afterEnd
        /\ x.made["b"] = 0 /\ x.taken["b"] <= 0
    BY <2>1 DEF Flows
  <2>3. x.taken["b"] = 0
    BY <2>1, <2>2
  <2>4. \A s \in {"a", "b"} : x.passed[s] = 0
    BY <2>1 DEF Fair
  <2> QED BY <2>1, <2>2, <2>3, <2>4
<1> DEFINE taken == [x.taken EXCEPT !["a"] = k]
<1>2. z = [x EXCEPT !.taken = taken]
  BY DEF Stream!StreamsType
<1>3. taken \in [{"a", "b"} -> 0 .. Items] /\ taken["a"] = k /\ taken["b"] = 0
  BY <1>1
<1> HIDE DEF taken
<1>4. /\ z \in Stream!StreamsType /\ z.adapter = x.adapter /\ z.consumer = x.consumer /\ z.made = x.made
      /\ z.closed = x.closed /\ z.done = x.done /\ z.out = x.out /\ z.at = x.at /\ z.woken = x.woken
      /\ z.passed = x.passed /\ z.cut = x.cut /\ z.pending = x.pending /\ z.afterEnd = x.afterEnd
      /\ z.taken = taken
  <2>1. taken \in [Stream!Sources -> 0 .. Items]
    BY <1>1, <1>3
  <2>2. z \in Stream!StreamsType
    BY <1>2, <2>1 DEF Stream!StreamsType
  <2>3. z.taken = taken
    BY <1>2 DEF Stream!StreamsType
  <2> QED BY <1>2, <2>2, <2>3 DEF Stream!StreamsType
<1>5. PICK y, r : Stream!PollSource(z, "a") = [x |-> y, r |-> r] /\ Polled(z, "a", y, r)
  BY <1>1, <1>3, <1>4, SourceAnswers
<1>6. /\ y \in Stream!StreamsType /\ y.adapter = x.adapter /\ y.consumer = x.consumer /\ y.made = x.made
      /\ y.closed = x.closed /\ y.done = x.done /\ y.out = x.out /\ y.at = x.at /\ y.woken = x.woken
      /\ y.passed = x.passed /\ ~y.cut /\ y.pending = "none" /\ ~y.afterEnd
  BY <1>1, <1>4, <1>5 DEF Polled, SameBut
<1>7. /\ \A j : KeptOf(y, j) = KeptOf(x, j)
      /\ \A t \in Stream!Sources : Range(x.out[t]) = KeptOf(x, x.taken[t]) /\ KeptNow(y, t) = KeptOf(x, y.taken[t])
      /\ Stream!Used(y) = {"a"}
  BY <1>1, <1>6 DEF KeptOf, KeptNow, Outs, Stream!Used
<1>8. CASE /\ k < x.made["a"] /\ r = <<"a", k + 1>> /\ y.taken = [taken EXCEPT !["a"] = k + 1]
  <2>1. k + 1 \in 1 .. Items /\ k \in Nat /\ x.made["a"] \in Nat
    BY <1>1, <1>8
  <2>2. y.taken["a"] = k + 1 /\ y.taken["b"] = 0
    BY <1>3, <1>8
  <2>3. Flows(y)
    BY <1>1, <1>6, <1>7, <1>8, <2>1, <2>2 DEF Flows
  <2>4. \A t \in Stream!Sources : KeptNow(y, t) = IF t = "a" THEN Range(x.out[t]) \cup {k + 1} ELSE Range(x.out[t])
    BY <1>1, <1>7, <1>8, <2>2
  <2>5. \A j \in Range(x.out["a"]) : j < k + 1
    <3>1. Range(x.out["a"]) \subseteq 1 .. k
      BY <1>1, <1>7 DEF KeptOf
    <3> QED BY <2>1, <3>1
  <2>6. PICK i \in 1 .. Items : i = k + 1
    BY <2>1
  <2>7. "a" \in Stream!Used(x) /\ \A t \in Stream!Sources : t = "a" \/ x.taken[t] = x.made[t]
    BY <1>1
  <2>8. Answered(x, y, <<"a", i>>)
    BY <1>6, <2>3, <2>4, <2>5, <2>6, <2>7 DEF Answered
  <2> QED BY <1>5, <1>8, <2>6, <2>8
<1>9. CASE /\ k = x.made["a"] /\ x.closed["a"] /\ r = Stream!Nothing /\ y.taken = taken
  <2>1. Flows(y)
    BY <1>1, <1>3, <1>6, <1>7, <1>9 DEF Flows
  <2>2. \A t \in Stream!Sources : KeptNow(y, t) = Range(x.out[t]) /\ x.passed[t] = 0
    BY <1>1, <1>3, <1>7, <1>9
  <2>3. Ends(y)
    BY <1>3, <1>6, <1>7, <1>9 DEF Ends
  <2> QED BY <1>5, <1>6, <1>9, <2>1, <2>2, <2>3 DEF Answered
<1>10. CASE /\ k = x.made["a"] /\ ~x.closed["a"] /\ r = Stream!Pending /\ y.taken = taken /\ "a" \in y.listens
  <2>1. Flows(y)
    BY <1>1, <1>3, <1>6, <1>7, <1>10 DEF Flows
  <2>2. \A t \in Stream!Sources : KeptNow(y, t) = Range(x.out[t]) /\ x.passed[t] = 0
    BY <1>1, <1>3, <1>7, <1>10
  <2>3. Listens(y)
    BY <1>3, <1>6, <1>7, <1>10 DEF Listens
  <2> QED BY <1>5, <1>6, <1>10, <2>1, <2>2, <2>3 DEF Answered
<1> QED BY <1>3, <1>4, <1>5, <1>8, <1>9, <1>10 DEF Polled

LEMMA MapAnswers ==
  ASSUME NEW x \in Stream!StreamsType, Flows(x), Fair(x), Outs(x), x.adapter = "map"
  PROVE  \E y, r : Stream!PollMap(x) = [x |-> y, r |-> r] /\ Answered(x, y, r)
<1>1. /\ x.taken \in [{"a", "b"} -> 0 .. Items] /\ x.taken["a"] \in 0 .. Items /\ x.taken["a"] \in Nat
      /\ x.taken["a"] <= x.made["a"]
  BY TypeOfStream DEF Flows
<1>2. PICK k \in 0 .. Items : k = x.taken["a"] /\ k \in Nat
  BY <1>1
<1>3. x = [x EXCEPT !.taken["a"] = k]
  BY <1>1, <1>2 DEF Stream!StreamsType
<1>4. KeptOf(x, k + 1) = KeptOf(x, k) \cup {k + 1}
  BY <1>2, NextNumber DEF KeptOf
<1>5. x.taken["a"] <= k /\ k <= x.made["a"] /\ KeptOf(x, k) = KeptOf(x, x.taken["a"])
  BY <1>1, <1>2
<1> QED BY <1>3, <1>4, <1>5, OneSource DEF Stream!PollMap

LEMMA FilterAnswers ==
  ASSUME NEW x \in Stream!StreamsType, Flows(x), Fair(x), Outs(x), x.adapter \in {"filter", "filterMap"}
  PROVE  \E y, r : Stream!PollFilter(x) = [x |-> y, r |-> r] /\ Answered(x, y, r)
<1>1. /\ x.taken["a"] \in 0 .. Items /\ x.made["a"] \in 0 .. Items /\ Items \in Nat
      /\ x.taken["a"] <= x.made["a"]
  BY TypeOfStream DEF Flows, Stream!Sources
<1>2. \A k : KeptOf(x, k) = 1 .. k \cap Liked
  BY DEF KeptOf
<1> DEFINE liked == (x.taken["a"] + 1 .. x.made["a"]) \cap Liked
           m == x.made["a"]
           i == CHOOSE j \in liked : \A l \in liked : j <= l
<1>3. CASE liked = {}
  <2>1. KeptOf(x, m) = KeptOf(x, x.taken["a"])
    <3>1. ASSUME NEW j \in 1 .. m, j \in Liked PROVE j \in 1 .. x.taken["a"]
      <4>1. ~(j \in x.taken["a"] + 1 .. m)
        BY <1>3, <3>1
      <4> QED BY <1>1, <4>1
    <3>2. \A j \in 1 .. x.taken["a"] : j \in 1 .. m
      BY <1>1
    <3> QED BY <1>2, <3>1, <3>2
  <2>2. Stream!PollFilter(x) = Stream!PollSource([x EXCEPT !.taken["a"] = m], "a")
    BY <1>3 DEF Stream!PollFilter
  <2>3. m <= m /\ ~(m < m) /\ x.taken["a"] <= m /\ m \in 0 .. Items
    BY <1>1
  <2> HIDE DEF m
  <2>4. \E y, r : Stream!PollSource([x EXCEPT !.taken["a"] = m], "a") = [x |-> y, r |-> r] /\ Answered(x, y, r)
    BY <2>1, <2>3, OneSource DEF m
  <2> QED BY <2>2, <2>4
<1>4. CASE liked # {}
  <2>1. Stream!PollFilter(x) = Stream!PollSource([x EXCEPT !.taken["a"] = i - 1], "a")
    BY <1>4 DEF Stream!PollFilter
  <2>2. i \in liked /\ \A l \in liked : i <= l
    <3>1. liked \in SUBSET Nat
      BY <1>1
    <3>2. \E j \in liked : \A l \in liked : j <= l
      <4> HIDE DEF liked
      <4> QED BY <1>4, <3>1, LeastNumber
    <3> HIDE DEF liked
    <3> QED BY <3>2
  <2>3. PICK n : n = i
    OBVIOUS
  <2>4. /\ n \in Liked /\ n \in x.taken["a"] + 1 .. x.made["a"] /\ \A l \in liked : n <= l
    BY <2>2, <2>3
  <2>5. PICK k : k = n - 1
    OBVIOUS
  <2> HIDE DEF i
  <2>6. k \in 0 .. Items /\ k \in Nat /\ x.taken["a"] <= k /\ k <= x.made["a"] /\ k + 1 = n
    BY <1>1, <2>4, <2>5
  <2>7. KeptOf(x, k) = KeptOf(x, x.taken["a"])
    <3>1. ASSUME NEW j \in 1 .. k, j \in Liked PROVE j \in 1 .. x.taken["a"]
      <4>1. j \notin liked
        BY <2>4, <2>6, <3>1
      <4>2. ~(j \in x.taken["a"] + 1 .. x.made["a"])
        BY <3>1, <4>1
      <4> QED BY <1>1, <2>6, <4>2
    <3>2. \A j \in 1 .. x.taken["a"] : j \in 1 .. k
      BY <1>1, <2>6
    <3> QED BY <1>2, <3>1, <3>2
  <2>8. KeptOf(x, k + 1) = KeptOf(x, k) \cup {k + 1}
    BY <1>2, <2>4, <2>6, NextNumber
  <2>9. \E y, r : Stream!PollSource([x EXCEPT !.taken["a"] = k], "a") = [x |-> y, r |-> r] /\ Answered(x, y, r)
    BY <2>6, <2>7, <2>8, OneSource
  <2> QED BY <2>1, <2>3, <2>5, <2>9
<1> QED BY <1>3, <1>4

LEMMA TakeWhileAnswers ==
  ASSUME NEW x \in Stream!StreamsType, Flows(x), Fair(x), Outs(x), x.adapter = "takeWhile"
  PROVE  \E y, r : Stream!PollTakeWhile(x) = [x |-> y, r |-> r] /\ Answered(x, y, r)
<1>1. /\ x.taken \in [{"a", "b"} -> 0 .. Items] /\ x.made \in [{"a", "b"} -> 0 .. Items] /\ Items \in Nat
      /\ Stream!Sources = {"a", "b"} /\ Stream!Used(x) = {"a"}
  BY TypeOfStream
<1>2. /\ x.pending = "none" /\ ~x.done["a"] /\ ~x.done["b"] /\ ~x.afterEnd
      /\ x.made["b"] = 0 /\ x.taken["b"] <= 0 /\ x.taken["a"] <= x.made["a"]
      /\ \A s \in {"a", "b"} : x.passed[s] = 0
  BY <1>1 DEF Flows, Fair
<1>3. x.taken["b"] = 0
  BY <1>1, <1>2
<1>4. \A k : KeptOf(x, k) = {i \in 1 .. k : 1 .. i \subseteq Liked}
  BY DEF KeptOf
<1>5. \A t \in Stream!Sources : Range(x.out[t]) = KeptOf(x, x.taken[t])
  BY <1>2 DEF Outs, KeptNow
<1>6. CASE x.cut
  <2>1. Stream!PollTakeWhile(x) = [x |-> x, r |-> Stream!Nothing]
    BY <1>6 DEF Stream!PollTakeWhile, Stream!Ret
  <2>2. Ends(x) /\ \A t \in Stream!Sources : KeptNow(x, t) = Range(x.out[t]) /\ x.passed[t] = 0
    BY <1>1, <1>2, <1>6 DEF Ends, Outs
  <2>3. Answered(x, x, Stream!Nothing)
    BY <2>2 DEF Answered
  <2> QED BY <2>1, <2>3
<1>7. CASE ~x.cut
  <2>1. PICK p, r : Stream!PollSource(x, "a") = [x |-> p, r |-> r] /\ Polled(x, "a", p, r)
    BY <1>1, <1>2, SourceAnswers
  <2>2. PICK k \in Nat : k = x.taken["a"]
    BY <1>1
  <2>3. 1 .. k \subseteq Liked
    BY <1>7, <2>2 DEF Flows
  <2>4. PICK q : q = [x |-> p, r |-> r]
    OBVIOUS
  <2>5. Stream!PollTakeWhile(x) = IF Stream!IsItem(r) /\ r[2] \notin Liked
                                  THEN [x |-> [p EXCEPT !.cut = TRUE], r |-> Stream!Nothing] ELSE q
    <3>1. q.x = p /\ q.r = r /\ Stream!PollSource(x, "a") = q
      BY <2>1, <2>4
    <3>2. Stream!PollTakeWhile(x) = IF Stream!IsItem(q.r) /\ q.r[2] \notin Liked
                                    THEN [x |-> [q.x EXCEPT !.cut = TRUE], r |-> Stream!Nothing] ELSE q
      BY <1>7, <3>1 DEF Stream!PollTakeWhile, Stream!Ret
    <3> QED BY <3>1, <3>2
  <2>6. /\ p \in Stream!StreamsType /\ p.adapter = x.adapter /\ p.consumer = x.consumer /\ p.made = x.made
        /\ p.closed = x.closed /\ p.done = x.done /\ p.out = x.out /\ p.at = x.at /\ p.woken = x.woken
        /\ p.passed = x.passed /\ ~p.cut /\ p.pending = "none" /\ ~p.afterEnd
    BY <1>2, <1>7, <2>1 DEF Polled, SameBut
  <2>7. /\ \A j : KeptOf(p, j) = KeptOf(x, j)
        /\ \A t \in Stream!Sources : KeptNow(p, t) = KeptOf(x, p.taken[t])
        /\ Stream!Used(p) = {"a"}
    BY <1>1, <2>6 DEF KeptOf, KeptNow, Stream!Used
  <2>8. CASE k < x.made["a"] /\ r = <<"a", k + 1>> /\ p.taken = [x.taken EXCEPT !["a"] = k + 1]
    <3>1. k + 1 \in 1 .. Items /\ x.made["a"] \in Nat /\ Stream!IsItem(r) /\ r[2] = k + 1
      BY <1>1, <2>2, <2>8, Answers
    <3>2. p.taken["a"] = k + 1 /\ p.taken["b"] = 0
      BY <1>1, <1>3, <2>8
    <3>3. KeptOf(x, k) = 1 .. k
      <4>1. ASSUME NEW i \in 1 .. k PROVE 1 .. i \subseteq Liked
        <5>1. \A j \in 1 .. i : j \in 1 .. k
          OBVIOUS
        <5> QED BY <2>3, <5>1
      <4> QED BY <1>4, <4>1
    <3>4. CASE k + 1 \in Liked
      <4>1. 1 .. k + 1 \subseteq Liked
        BY <2>3, <3>4, NextNumber
      <4>2. KeptOf(x, k + 1) = KeptOf(x, k) \cup {k + 1}
        <5>1. KeptOf(x, k + 1) = 1 .. k + 1
          <6>1. ASSUME NEW i \in 1 .. k + 1 PROVE 1 .. i \subseteq Liked
            <7>1. \A j \in 1 .. i : j \in 1 .. k + 1
              OBVIOUS
            <7> QED BY <4>1, <7>1
          <6> QED BY <1>4, <6>1
        <5> QED BY <3>3, <5>1, NextNumber
      <4>3. Flows(p)
        BY <1>1, <1>2, <2>2, <2>6, <2>7, <2>8, <3>1, <3>2, <4>1 DEF Flows
      <4>4. \A t \in Stream!Sources : KeptNow(p, t) = IF t = "a" THEN Range(x.out[t]) \cup {k + 1} ELSE Range(x.out[t])
        BY <1>1, <1>3, <1>5, <2>2, <2>7, <3>2, <4>2
      <4>5. \A j \in Range(x.out["a"]) : j < k + 1
        BY <1>1, <1>5, <2>2, <3>3, NextNumber
      <4>6. PICK i \in 1 .. Items : i = k + 1
        BY <3>1
      <4>7. "a" \in Stream!Used(x) /\ \A t \in Stream!Sources : t = "a" \/ x.taken[t] = x.made[t]
        BY <1>1, <1>2, <1>3
      <4>8. Answered(x, p, <<"a", i>>)
        BY <2>6, <4>3, <4>4, <4>5, <4>6, <4>7 DEF Answered
      <4>9. Stream!PollTakeWhile(x) = [x |-> p, r |-> <<"a", i>>]
        BY <2>4, <2>5, <2>8, <3>1, <3>4, <4>6
      <4> QED BY <4>8, <4>9
    <3>5. CASE k + 1 \notin Liked
      <4>1. PICK y : y = [p EXCEPT !.cut = TRUE]
        OBVIOUS
      <4>2. /\ y \in Stream!StreamsType /\ y.adapter = x.adapter /\ y.consumer = x.consumer /\ y.made = x.made
            /\ y.closed = x.closed /\ y.done = x.done /\ y.out = x.out /\ y.at = x.at /\ y.woken = x.woken
            /\ y.passed = x.passed /\ y.cut /\ y.pending = "none" /\ ~y.afterEnd /\ y.taken = p.taken
        BY <2>6, <4>1 DEF Stream!StreamsType
      <4>3. KeptOf(x, k + 1) = KeptOf(x, k)
        <5>1. ~(1 .. k + 1 \subseteq Liked)
          BY <3>5, NextNumber
        <5>2. \A i \in 1 .. k + 1 : i \in 1 .. k \/ i = k + 1
          BY NextNumber
        <5>3. \A i \in 1 .. k : i \in 1 .. k + 1
          BY NextNumber
        <5> QED BY <1>4, <5>1, <5>2, <5>3
      <4>4. Stream!Used(y) = {"a"} /\ \A t \in Stream!Sources : KeptNow(y, t) = KeptOf(x, y.taken[t])
        BY <1>1, <4>2 DEF KeptNow, KeptOf, Stream!Used
      <4>5. Flows(y)
        BY <1>1, <1>2, <2>2, <2>8, <3>1, <3>2, <3>5, <4>2, <4>4 DEF Flows
      <4>6. Ends(y) /\ \A t \in Stream!Sources : KeptNow(y, t) = Range(x.out[t]) /\ x.passed[t] = 0
        BY <1>1, <1>2, <1>3, <1>5, <2>2, <3>2, <4>2, <4>3, <4>4 DEF Ends
      <4>7. Answered(x, y, Stream!Nothing)
        BY <4>2, <4>5, <4>6 DEF Answered
      <4>8. Stream!PollTakeWhile(x) = [x |-> y, r |-> Stream!Nothing]
        BY <2>5, <3>1, <3>5, <4>1
      <4> QED BY <4>7, <4>8
    <3> QED BY <3>4, <3>5
  <2>9. CASE k = x.made["a"] /\ x.closed["a"] /\ r = Stream!Nothing /\ p.taken = x.taken
    <3>1. Flows(p)
      BY <1>1, <1>2, <1>3, <2>2, <2>3, <2>6, <2>7, <2>9 DEF Flows
    <3>2. \A t \in Stream!Sources : KeptNow(p, t) = Range(x.out[t]) /\ x.passed[t] = 0
      BY <1>1, <1>2, <1>5, <2>7, <2>9
    <3>3. Ends(p)
      BY <2>2, <2>6, <2>7, <2>9 DEF Ends
    <3>4. Answered(x, p, Stream!Nothing)
      BY <2>6, <3>1, <3>2, <3>3 DEF Answered
    <3> QED BY <2>4, <2>5, <2>9, <3>4, Answers
  <2>10. CASE k = x.made["a"] /\ ~x.closed["a"] /\ r = Stream!Pending /\ p.taken = x.taken /\ "a" \in p.listens
    <3>1. Flows(p)
      BY <1>1, <1>2, <1>3, <2>2, <2>3, <2>6, <2>7, <2>10 DEF Flows
    <3>2. \A t \in Stream!Sources : KeptNow(p, t) = Range(x.out[t]) /\ x.passed[t] = 0
      BY <1>1, <1>2, <1>5, <2>7, <2>10
    <3>3. Listens(p)
      BY <2>2, <2>6, <2>7, <2>10 DEF Listens
    <3>4. Answered(x, p, Stream!Pending)
      BY <2>6, <3>1, <3>2, <3>3 DEF Answered
    <3> QED BY <2>4, <2>5, <2>10, <3>4, Answers
  <2> QED BY <2>1, <2>2, <2>8, <2>9, <2>10 DEF Polled
<1> QED BY <1>6, <1>7

LEMMA ThenAnswers ==
  ASSUME NEW x \in Stream!StreamsType, Flows(x), Fair(x), Outs(x), x.adapter = "then", NEW atOnce \in BOOLEAN
  PROVE  \E y, r : Stream!PollThen(x, atOnce) = [x |-> y, r |-> r] /\ Answered(x, y, r)
<1>1. /\ x.taken \in [{"a", "b"} -> 0 .. Items] /\ x.made \in [{"a", "b"} -> 0 .. Items] /\ Items \in Nat
      /\ Stream!Sources = {"a", "b"} /\ Stream!Used(x) = {"a"} /\ x.pending \in {"none", "running", "ready"}
      /\ x.listens \in SUBSET {"a", "b", "future"}
  BY TypeOfStream
<1>2. /\ ~x.done["a"] /\ ~x.done["b"] /\ ~x.afterEnd /\ ~x.cut
      /\ x.made["b"] = 0 /\ x.taken["b"] <= 0 /\ x.taken["a"] <= x.made["a"]
      /\ \A s \in {"a", "b"} : x.passed[s] = 0
      /\ x.pending # "none" => x.taken["a"] >= 1
  BY <1>1 DEF Flows, Fair
<1>3. x.taken["b"] = 0
  BY <1>1, <1>2
<1>4. ASSUME NEW n, n.adapter = "then" PROVE \A k : KeptOf(n, k) = 1 .. k
  BY <1>4 DEF KeptOf
<1>5. PICK k \in Nat : k = x.taken["a"]
  BY <1>1
<1>6. 1 .. 0 - 1 = {} /\ 1 .. 0 = {}
  OBVIOUS
<1>7. \A t \in Stream!Sources :
        Range(x.out[t]) = IF t = "a" THEN (IF x.pending = "none" THEN 1 .. k ELSE 1 .. k - 1) ELSE {}
  BY <1>1, <1>3, <1>4, <1>5, <1>6 DEF Outs, KeptNow
(* The poll of the future that is made of the last item taken. *)
<1>8. ASSUME NEW z \in Stream!StreamsType, z.pending \in {"running", "ready"}, NEW m \in 1 .. Items, z.taken["a"] = m,
             z.adapter = x.adapter, z.consumer = x.consumer, z.made = x.made, z.closed = x.closed,
             z.done = x.done, z.out = x.out, z.at = x.at, z.woken = x.woken, z.passed = x.passed, ~z.cut,
             ~z.afterEnd, z.taken["b"] = 0, m <= x.made["a"], Range(x.out["a"]) = 1 .. m - 1
      PROVE  \E y, r : Stream!PollFuture(z) = [x |-> y, r |-> r] /\ Answered(x, y, r)
  <2>0. m \in Nat /\ m >= 1 /\ 1 .. m = (1 .. m - 1) \cup {m} /\ \A j \in 1 .. m - 1 : j < m
    BY <1>1, <1>8
  <2>1. CASE z.pending = "ready"
    <3>1. PICK y : y = [z EXCEPT !.pending = "none"]
      OBVIOUS
    <3>2. Stream!PollFuture(z) = [x |-> y, r |-> <<"a", m>>]
      BY <1>8, <2>1, <3>1 DEF Stream!PollFuture, Stream!Ret
    <3>3. /\ y \in Stream!StreamsType /\ y.adapter = x.adapter /\ y.consumer = x.consumer /\ y.made = x.made
          /\ y.closed = x.closed /\ y.done = x.done /\ y.out = x.out /\ y.at = x.at /\ y.woken = x.woken
          /\ y.passed = x.passed /\ ~y.cut /\ y.pending = "none" /\ ~y.afterEnd /\ y.taken = z.taken
      BY <1>8, <3>1 DEF Stream!StreamsType
    <3>4. Stream!Used(y) = {"a"} /\ \A t \in Stream!Sources : KeptNow(y, t) = 1 .. y.taken[t]
      BY <1>1, <1>4, <3>3 DEF KeptNow, Stream!Used
    <3>5. Flows(y)
      BY <1>1, <1>2, <1>8, <3>3, <3>4 DEF Flows
    <3>6. \A t \in Stream!Sources : KeptNow(y, t) = IF t = "a" THEN Range(x.out[t]) \cup {m} ELSE Range(x.out[t])
      <4>1. y.taken["a"] = m /\ y.taken["b"] = 0
        BY <1>8, <3>3
      <4>2. KeptNow(y, "a") = 1 .. m /\ KeptNow(y, "b") = {}
        BY <1>1, <1>6, <3>4, <4>1
      <4>3. Range(x.out["a"]) = 1 .. m - 1 /\ Range(x.out["b"]) = {}
        BY <1>1, <1>7, <1>8
      <4> QED BY <1>1, <2>0, <4>2, <4>3
    <3>7. "a" \in Stream!Used(x) /\ \A t \in Stream!Sources : t = "a" \/ x.taken[t] = x.made[t]
      BY <1>1, <1>2, <1>3
    <3>8. \A j \in Range(x.out["a"]) : j < m
      BY <1>8, <2>0
    <3>9. Answered(x, y, <<"a", m>>)
      BY <3>3, <3>5, <3>6, <3>7, <3>8 DEF Answered
    <3> QED BY <3>2, <3>9
  <2>2. CASE z.pending = "running"
    <3> DEFINE listens == z.listens \cup {"future"}
    <3>1. PICK y : y = [z EXCEPT !.listens = listens]
      OBVIOUS
    <3>2. Stream!PollFuture(z) = [x |-> y, r |-> Stream!Pending]
      BY <1>8, <2>2, <3>1 DEF Stream!PollFuture, Stream!Ret, Stream!StreamsType
    <3>3. listens \in SUBSET (Stream!Sources \cup {"future"}) /\ "future" \in listens
      BY <1>8 DEF Stream!StreamsType
    <3> HIDE DEF listens
    <3>4. /\ y \in Stream!StreamsType /\ y.adapter = x.adapter /\ y.consumer = x.consumer /\ y.made = x.made
          /\ y.closed = x.closed /\ y.done = x.done /\ y.out = x.out /\ y.at = x.at /\ y.woken = x.woken
          /\ y.passed = x.passed /\ ~y.cut /\ y.pending = "running" /\ ~y.afterEnd /\ y.taken = z.taken
          /\ y.listens = listens
      BY <1>8, <2>2, <3>1, <3>3 DEF Stream!StreamsType
    <3>5. Stream!Used(y) = {"a"} /\ \A t \in Stream!Sources : KeptNow(y, t) = 1 .. y.taken[t] - 1
      BY <1>1, <1>4, <3>4 DEF KeptNow, Stream!Used
    <3>6. Flows(y)
      BY <1>1, <1>2, <1>8, <2>0, <3>4, <3>5 DEF Flows
    <3>7. \A t \in Stream!Sources : KeptNow(y, t) = Range(x.out[t]) /\ x.passed[t] = 0
      <4>1. y.taken["a"] = m /\ y.taken["b"] = 0
        BY <1>8, <3>4
      <4>2. KeptNow(y, "a") = 1 .. m - 1 /\ KeptNow(y, "b") = {}
        BY <1>1, <1>6, <3>5, <4>1
      <4>3. Range(x.out["a"]) = 1 .. m - 1 /\ Range(x.out["b"]) = {}
        BY <1>1, <1>7, <1>8
      <4> QED BY <1>1, <1>2, <4>2, <4>3
    <3>8. Listens(y)
      BY <3>3, <3>4 DEF Listens
    <3>9. Answered(x, y, Stream!Pending)
      BY <3>4, <3>6, <3>7, <3>8 DEF Answered
    <3> QED BY <3>2, <3>9
  <2> QED BY <1>8, <2>1, <2>2
<1>9. CASE x.pending # "none"
  <2>1. Stream!PollThen(x, atOnce) = Stream!PollFuture(x)
    BY <1>9 DEF Stream!PollThen
  <2>2. PICK m \in 1 .. Items : m = k
    BY <1>1, <1>2, <1>5, <1>9
  <2>3. Range(x.out["a"]) = 1 .. m - 1 /\ x.taken["a"] = m
    BY <1>1, <1>5, <1>7, <1>9, <2>2
  <2>4. \E y, r : Stream!PollFuture(x) = [x |-> y, r |-> r] /\ Answered(x, y, r)
    BY <1>1, <1>2, <1>3, <1>8, <1>9, <2>2, <2>3
  <2> QED BY <2>1, <2>4
<1>10. CASE x.pending = "none"
  <2>1. PICK p, r : Stream!PollSource(x, "a") = [x |-> p, r |-> r] /\ Polled(x, "a", p, r)
    BY <1>1, <1>2, SourceAnswers
  <2>2. PICK q : q = [x |-> p, r |-> r]
    OBVIOUS
  <2> DEFINE state == IF atOnce THEN "ready" ELSE "running"
  <2>3. Stream!PollThen(x, atOnce) = IF Stream!IsItem(r) THEN Stream!PollFuture([p EXCEPT !.pending = state]) ELSE q
    <3>1. q.x = p /\ q.r = r /\ Stream!PollSource(x, "a") = q
      BY <2>1, <2>2
    <3>2. Stream!PollThen(x, atOnce) =
            IF Stream!IsItem(q.r) THEN Stream!PollFuture([q.x EXCEPT !.pending = state]) ELSE q
      BY <1>10, <3>1 DEF Stream!PollThen
    <3> QED BY <3>1, <3>2
  <2>4. /\ p \in Stream!StreamsType /\ p.adapter = x.adapter /\ p.consumer = x.consumer /\ p.made = x.made
        /\ p.closed = x.closed /\ p.done = x.done /\ p.out = x.out /\ p.at = x.at /\ p.woken = x.woken
        /\ p.passed = x.passed /\ ~p.cut /\ p.pending = "none" /\ ~p.afterEnd
    BY <1>2, <1>10, <2>1 DEF Polled, SameBut
  <2>5. Stream!Used(p) = {"a"} /\ \A t \in Stream!Sources : KeptNow(p, t) = 1 .. p.taken[t]
    BY <1>1, <1>4, <2>4 DEF KeptNow, Stream!Used
  <2>6. CASE k < x.made["a"] /\ r = <<"a", k + 1>> /\ p.taken = [x.taken EXCEPT !["a"] = k + 1]
    <3>1. PICK m \in 1 .. Items : m = k + 1 /\ m <= x.made["a"] /\ m - 1 = k
      BY <1>1, <1>5, <2>6
    <3>2. Stream!IsItem(r)
      BY <1>1, <2>6, Answers
    <3>3. PICK z : z = [p EXCEPT !.pending = state]
      OBVIOUS
    <3>4. state \in {"running", "ready"}
      OBVIOUS
    <3> HIDE DEF state
    <3>5. /\ z \in Stream!StreamsType /\ z.adapter = x.adapter /\ z.consumer = x.consumer /\ z.made = x.made
          /\ z.closed = x.closed /\ z.done = x.done /\ z.out = x.out /\ z.at = x.at /\ z.woken = x.woken
          /\ z.passed = x.passed /\ ~z.cut /\ ~z.afterEnd /\ z.taken = p.taken /\ z.pending = state
      BY <2>4, <3>3, <3>4 DEF Stream!StreamsType
    <3>6. z.taken["a"] = m /\ z.taken["b"] = 0
      BY <1>1, <1>3, <2>6, <3>1, <3>5
    <3>7. Range(x.out["a"]) = 1 .. m - 1
      BY <1>1, <1>7, <1>10, <3>1
    <3>8. \E y, u : Stream!PollFuture(z) = [x |-> y, r |-> u] /\ Answered(x, y, u)
      BY <1>8, <3>1, <3>4, <3>5, <3>6, <3>7
    <3> QED BY <2>3, <3>2, <3>3, <3>8
  <2>7. CASE k = x.made["a"] /\ x.closed["a"] /\ r = Stream!Nothing /\ p.taken = x.taken
    <3>1. Flows(p)
      BY <1>1, <1>2, <1>3, <1>5, <2>4, <2>5, <2>7 DEF Flows
    <3>2. \A t \in Stream!Sources : KeptNow(p, t) = Range(x.out[t]) /\ x.passed[t] = 0
      <4>1. p.taken["a"] = k /\ p.taken["b"] = 0
        BY <1>3, <1>5, <2>7
      <4>2. KeptNow(p, "a") = 1 .. k /\ KeptNow(p, "b") = {}
        BY <1>1, <1>6, <2>5, <4>1
      <4>3. Range(x.out["a"]) = 1 .. k /\ Range(x.out["b"]) = {}
        BY <1>1, <1>7, <1>10
      <4> QED BY <1>1, <1>2, <4>2, <4>3
    <3>3. Ends(p)
      BY <1>5, <2>4, <2>5, <2>7 DEF Ends
    <3>4. Answered(x, p, Stream!Nothing)
      BY <2>4, <3>1, <3>2, <3>3 DEF Answered
    <3> QED BY <2>2, <2>3, <2>7, <3>4, Answers
  <2>8. CASE k = x.made["a"] /\ ~x.closed["a"] /\ r = Stream!Pending /\ p.taken = x.taken /\ "a" \in p.listens
    <3>1. Flows(p)
      BY <1>1, <1>2, <1>3, <1>5, <2>4, <2>5, <2>8 DEF Flows
    <3>2. \A t \in Stream!Sources : KeptNow(p, t) = Range(x.out[t]) /\ x.passed[t] = 0
      <4>1. p.taken["a"] = k /\ p.taken["b"] = 0
        BY <1>3, <1>5, <2>8
      <4>2. KeptNow(p, "a") = 1 .. k /\ KeptNow(p, "b") = {}
        BY <1>1, <1>6, <2>5, <4>1
      <4>3. Range(x.out["a"]) = 1 .. k /\ Range(x.out["b"]) = {}
        BY <1>1, <1>7, <1>10
      <4> QED BY <1>1, <1>2, <4>2, <4>3
    <3>3. Listens(p)
      BY <1>5, <2>4, <2>5, <2>8 DEF Listens
    <3>4. Answered(x, p, Stream!Pending)
      BY <2>4, <3>1, <3>2, <3>3 DEF Answered
    <3> QED BY <2>2, <2>3, <2>8, <3>4, Answers
  <2> QED BY <1>5, <2>1, <2>6, <2>7, <2>8 DEF Polled
<1> QED BY <1>9, <1>10

(* One of the sources of a merge was asked: it gave an item, or there is   *)
(* nothing to have of it now.                                              *)
Quiet(n, s) ==
  n.taken[s] = n.made[s] /\ (n.done[s] \/ (~n.closed[s] /\ s \in n.listens))

Asked(x, s, y, r) ==
  /\ SameBut(x, y) /\ Flows(y)
  /\ \A t \in Stream!Sources : t # s => /\ y.taken[t] = x.taken[t] /\ y.done[t] = x.done[t]
                                        /\ Quiet(x, t) => Quiet(y, t)
  /\ \/ /\ x.taken[s] < x.made[s] /\ r = <<s, x.taken[s] + 1>> /\ y.taken[s] = x.taken[s] + 1
     \/ /\ r = Stream!Pending /\ Quiet(y, s) /\ y.taken[s] = x.taken[s]

LEMMA StreamAsked ==
  ASSUME NEW x \in Stream!StreamsType, Flows(x), x.adapter = "merge", NEW s \in Stream!Sources
  PROVE  \E y, r : Stream!PollStream(x, s) = [x |-> y, r |-> r] /\ Asked(x, s, y, r)
<1>1. /\ x.taken \in [{"a", "b"} -> 0 .. Items] /\ x.made \in [{"a", "b"} -> 0 .. Items] /\ Items \in Nat
      /\ x.done \in [{"a", "b"} -> BOOLEAN]
      /\ Stream!Sources = {"a", "b"} /\ Stream!Used(x) = {"a", "b"}
  BY TypeOfStream
<1>2. /\ ~x.afterEnd /\ ~x.cut /\ x.pending = "none"
      /\ \A t \in {"a", "b"} : x.taken[t] <= x.made[t] /\ (x.done[t] => x.closed[t] /\ x.taken[t] = x.made[t])
  BY <1>1 DEF Flows
<1>3. CASE x.done[s]
  <2>1. Stream!PollStream(x, s) = [x |-> x, r |-> Stream!Pending]
    BY <1>3 DEF Stream!PollStream, Stream!Ret
  <2>2. SameBut(x, x) /\ Quiet(x, s)
    BY <1>1, <1>2, <1>3 DEF SameBut, Quiet
  <2>3. Asked(x, s, x, Stream!Pending)
    BY <2>2 DEF Asked
  <2> QED BY <2>1, <2>3
<1>4. CASE ~x.done[s]
  <2>1. PICK p, r : Stream!PollSource(x, s) = [x |-> p, r |-> r] /\ Polled(x, s, p, r)
    BY <1>1, <1>2, <1>4, SourceAnswers
  <2>2. PICK q : q = [x |-> p, r |-> r]
    OBVIOUS
  <2>3. Stream!PollStream(x, s) = IF r = Stream!Nothing
                                  THEN [x |-> [p EXCEPT !.done[s] = TRUE], r |-> Stream!Pending] ELSE q
    <3>1. q.x = p /\ q.r = r /\ Stream!PollSource(x, s) = q
      BY <2>1, <2>2
    <3>2. Stream!PollStream(x, s) = IF q.r = Stream!Nothing
                                    THEN [x |-> [q.x EXCEPT !.done[s] = TRUE], r |-> Stream!Pending] ELSE q
      BY <1>4, <3>1 DEF Stream!PollStream, Stream!Ret
    <3> QED BY <3>1, <3>2
  <2>4. /\ SameBut(x, p) /\ p.done = x.done /\ x.listens \subseteq p.listens
        /\ p \in Stream!StreamsType /\ p.adapter = "merge" /\ p.made = x.made /\ p.closed = x.closed
        /\ ~p.cut /\ p.pending = "none" /\ ~p.afterEnd /\ Stream!Used(p) = {"a", "b"}
    BY <1>1, <1>2, <2>1 DEF Polled, SameBut, Stream!Used
  <2>5. CASE x.taken[s] < x.made[s] /\ r = <<s, x.taken[s] + 1>> /\ p.taken = [x.taken EXCEPT ![s] = x.taken[s] + 1]
    <3>1. /\ \A t \in {"a", "b"} : p.taken[t] = IF t = s THEN x.taken[s] + 1 ELSE x.taken[t]
          /\ s \in {"a", "b"}
      BY <1>1, <2>5
    <3>2. x.taken[s] \in Nat /\ x.made[s] \in Nat
      BY <1>1
    <3>3. Flows(p)
      BY <1>1, <1>2, <1>4, <2>4, <2>5, <3>1, <3>2 DEF Flows
    <3>4. \A t \in Stream!Sources : t # s => /\ p.taken[t] = x.taken[t] /\ p.done[t] = x.done[t]
                                             /\ Quiet(x, t) => Quiet(p, t)
      BY <1>1, <2>4, <3>1 DEF Quiet
    <3>5. Asked(x, s, p, r)
      BY <2>4, <2>5, <3>1, <3>3, <3>4 DEF Asked
    <3>6. r # Stream!Nothing
      BY <2>5, Answers
    <3> QED BY <2>2, <2>3, <3>5, <3>6
  <2>6. CASE x.taken[s] = x.made[s] /\ x.closed[s] /\ r = Stream!Nothing /\ p.taken = x.taken
    <3> DEFINE done == [p.done EXCEPT ![s] = TRUE]
    <3>1. PICK y : y = [p EXCEPT !.done = done]
      OBVIOUS
    <3>2. Stream!PollStream(x, s) = [x |-> y, r |-> Stream!Pending]
      BY <2>3, <2>4, <2>6, <3>1 DEF Stream!StreamsType
    <3>3. /\ done \in [Stream!Sources -> BOOLEAN]
          /\ \A t \in Stream!Sources : done[t] = IF t = s THEN TRUE ELSE x.done[t]
      BY <1>1, <2>4
    <3> HIDE DEF done
    <3>4. /\ SameBut(x, y) /\ y.taken = x.taken /\ y.done = done /\ y.listens = p.listens
          /\ y.adapter = "merge" /\ y.made = x.made /\ y.closed = x.closed
          /\ ~y.cut /\ y.pending = "none" /\ ~y.afterEnd
      BY <2>4, <2>6, <3>1, <3>3 DEF SameBut, Stream!StreamsType
    <3>5. Stream!Used(y) = {"a", "b"}
      BY <3>4 DEF Stream!Used, Stream!Sources
    <3>6. Flows(y)
      <4>1. \A t \in {"a", "b"} : /\ y.taken[t] <= y.made[t]
                                 /\ y.done[t] => y.closed[t] /\ y.taken[t] = y.made[t]
        BY <1>1, <1>2, <2>6, <3>3, <3>4
      <4> QED BY <1>1, <3>4, <3>5, <4>1 DEF Flows
    <3>7. \A t \in Stream!Sources : t # s => /\ y.taken[t] = x.taken[t] /\ y.done[t] = x.done[t]
                                             /\ Quiet(x, t) => Quiet(y, t)
      BY <1>1, <2>4, <3>3, <3>4 DEF Quiet
    <3>8. Quiet(y, s)
      BY <2>6, <3>3, <3>4 DEF Quiet
    <3>9. Asked(x, s, y, Stream!Pending)
      BY <3>4, <3>6, <3>7, <3>8 DEF Asked
    <3> QED BY <3>2, <3>9
  <2>7. CASE x.taken[s] = x.made[s] /\ ~x.closed[s] /\ r = Stream!Pending /\ p.taken = x.taken /\ s \in p.listens
    <3>1. Flows(p)
      BY <1>1, <1>2, <2>4, <2>7 DEF Flows
    <3>2. \A t \in Stream!Sources : t # s => /\ p.taken[t] = x.taken[t] /\ p.done[t] = x.done[t]
                                             /\ Quiet(x, t) => Quiet(p, t)
      BY <1>1, <2>4, <2>7 DEF Quiet
    <3>3. Quiet(p, s)
      BY <2>4, <2>7 DEF Quiet
    <3>4. Asked(x, s, p, r)
      BY <2>4, <2>7, <3>1, <3>2, <3>3 DEF Asked
    <3> QED BY <2>2, <2>3, <2>7, <3>4, Answers
  <2> QED BY <2>1, <2>5, <2>6, <2>7 DEF Polled
<1> QED BY <1>1, <1>3, <1>4

LEMMA MergeAnswers ==
  ASSUME NEW x \in Stream!StreamsType, Flows(x), Fair(x), Outs(x), x.adapter = "merge"
  PROVE  \E y, r : Stream!PollMerge(x) = [x |-> y, r |-> r] /\ Answered(x, y, r)
<1>1. /\ x.taken \in [{"a", "b"} -> 0 .. Items] /\ x.made \in [{"a", "b"} -> 0 .. Items] /\ Items \in Nat
      /\ Stream!Sources = {"a", "b"} /\ Stream!Used(x) = {"a", "b"} /\ x.aFirst \in BOOLEAN
  BY TypeOfStream
<1>2. /\ ~x.afterEnd /\ ~x.cut /\ x.pending = "none"
  BY DEF Flows
<1> DEFINE first == IF x.aFirst THEN "a" ELSE "b"
           other == IF x.aFirst THEN "b" ELSE "a"
<1>3. first \in {"a", "b"} /\ other \in {"a", "b"} /\ first # other /\ \A t \in {"a", "b"} : t = first \/ t = other
  OBVIOUS
<1>4. PICK z : z = [x EXCEPT !.aFirst = ~x.aFirst]
  OBVIOUS
<1>5. /\ z \in Stream!StreamsType /\ z.adapter = x.adapter /\ z.consumer = x.consumer /\ z.made = x.made
      /\ z.closed = x.closed /\ z.done = x.done /\ z.out = x.out /\ z.at = x.at /\ z.woken = x.woken
      /\ z.passed = x.passed /\ z.cut = x.cut /\ z.afterEnd = x.afterEnd /\ z.taken = x.taken /\ z.pending = x.pending
      /\ z.aFirst = ~x.aFirst
  BY <1>1, <1>4 DEF Stream!StreamsType
<1>6. Flows(z)
  BY <1>5 DEF Flows, Stream!Used
<1>7. PICK p, u : Stream!PollStream(z, first) = [x |-> p, r |-> u] /\ Asked(z, first, p, u)
  BY <1>1, <1>3, <1>5, <1>6, StreamAsked
<1>8. p \in Stream!StreamsType /\ Flows(p) /\ p.adapter = "merge"
  BY <1>5, <1>7 DEF Asked, SameBut
<1>9. PICK q, v : Stream!PollStream(p, other) = [x |-> q, r |-> v] /\ Asked(p, other, q, v)
  BY <1>1, <1>3, <1>8, StreamAsked
<1>10. Stream!PollMerge(x) =
         IF Stream!IsItem(u) THEN [x |-> p, r |-> u]
         ELSE IF Stream!IsItem(v) THEN [x |-> q, r |-> v]
         ELSE IF q.done["a"] /\ q.done["b"] THEN [x |-> q, r |-> Stream!Nothing] ELSE [x |-> q, r |-> v]
  <2>1. PICK m, n : m = [x |-> p, r |-> u] /\ n = [x |-> q, r |-> v]
    OBVIOUS
  <2>2. m.x = p /\ m.r = u /\ n.x = q /\ n.r = v
    BY <2>1
  <2>3. Stream!Other(first) = other
    BY DEF Stream!Other
  <2>4. [x EXCEPT !.aFirst = ~@] = z
    BY <1>4 DEF Stream!StreamsType
  <2>5. Stream!PollStream([x EXCEPT !.aFirst = ~@], first) = m /\ Stream!PollStream(m.x, Stream!Other(first)) = n
    BY <1>7, <1>9, <2>1, <2>2, <2>3, <2>4
  <2>6. Stream!PollMerge(x) =
          IF Stream!IsItem(m.r) THEN m
          ELSE IF Stream!IsItem(n.r) THEN n
          ELSE IF n.x.done["a"] /\ n.x.done["b"] THEN [x |-> n.x, r |-> Stream!Nothing] ELSE n
    BY <2>5 DEF Stream!PollMerge, Stream!Ret
  <2> QED BY <2>1, <2>2, <2>6
<1>11. ASSUME NEW n, n.adapter = "merge", n.pending = "none" PROVE \A t : KeptNow(n, t) = 1 .. n.taken[t]
  BY <1>11 DEF KeptNow, KeptOf
<1>12. \A t \in Stream!Sources : Range(x.out[t]) = 1 .. x.taken[t] /\ x.taken[t] \in Nat /\ x.made[t] \in 0 .. Items
  BY <1>1, <1>2, <1>11 DEF Outs
<1>13. \A t \in {"a", "b"} : x.passed[t] # 0 => t = first /\ x.taken[t] < x.made[t]
  BY <1>1 DEF Fair
<1>14. /\ p.adapter = "merge" /\ p.consumer = x.consumer /\ p.made = x.made
       /\ p.closed = x.closed /\ p.out = x.out /\ p.at = x.at /\ p.woken = x.woken
       /\ p.passed = x.passed /\ ~p.cut /\ ~p.afterEnd /\ p.pending = "none" /\ p.aFirst = ~x.aFirst
       /\ p.taken[other] = x.taken[other]
  BY <1>1, <1>2, <1>3, <1>5, <1>7 DEF Asked, SameBut
<1> HIDE DEF first, other
<1>15. CASE z.taken[first] < z.made[first] /\ u = <<first, z.taken[first] + 1>> /\ p.taken[first] = z.taken[first] + 1
  <2>1. PICK i \in 1 .. Items : i = x.taken[first] + 1
    BY <1>1, <1>3, <1>5, <1>12, <1>15
  <2>2. Stream!PollMerge(x) = [x |-> p, r |-> <<first, i>>]
    BY <1>1, <1>3, <1>5, <1>10, <1>15, <2>1, Answers
  <2>3. /\ KeptNow(p, first) = Range(x.out[first]) \cup {i}
        /\ \A k \in Range(x.out[first]) : k < i
    <3>1. PICK k \in Nat : k = x.taken[first]
      BY <1>1, <1>3, <1>12
    <3>2. KeptNow(p, first) = 1 .. k + 1 /\ Range(x.out[first]) = 1 .. k /\ i = k + 1
      BY <1>1, <1>3, <1>5, <1>11, <1>12, <1>14, <1>15, <2>1, <3>1
    <3> QED BY <3>1, <3>2, NextNumber
  <2>4. KeptNow(p, other) = Range(x.out[other])
    BY <1>1, <1>3, <1>11, <1>12, <1>14
  <2>5. \A t \in Stream!Sources : KeptNow(p, t) = IF t = first THEN Range(x.out[t]) \cup {i} ELSE Range(x.out[t])
    BY <1>1, <1>3, <2>3, <2>4
  <2>6. \A t \in Stream!Sources :
          \/ t = first \/ x.taken[t] = x.made[t]
          \/ /\ x.passed[t] = 0 /\ x.adapter = "merge" /\ p.taken[t] < p.made[t]
             /\ IF t = "a" THEN p.aFirst ELSE ~p.aFirst
    <3>1. x.passed[other] = 0
      BY <1>1, <1>3, <1>13
    <3>2. x.taken[other] # x.made[other] => p.taken[other] < p.made[other]
      <4>1. x.taken[other] <= x.made[other] /\ x.taken[other] \in Nat /\ x.made[other] \in Nat
        BY <1>1, <1>3 DEF Flows
      <4> QED BY <1>14, <4>1
    <3>3. IF other = "a" THEN p.aFirst ELSE ~p.aFirst
      BY <1>1, <1>14 DEF other
    <3> QED BY <1>1, <1>3, <3>1, <3>2, <3>3
  <2>7. first \in Stream!Used(x)
    BY <1>1, <1>3
  <2>8. Answered(x, p, <<first, i>>)
    BY <1>8, <1>14, <2>3, <2>5, <2>6, <2>7 DEF Answered
  <2> QED BY <2>2, <2>8
<1>16. CASE u = Stream!Pending /\ Quiet(p, first) /\ p.taken[first] = z.taken[first]
  <2>1. /\ q \in Stream!StreamsType /\ Flows(q) /\ q.adapter = "merge" /\ q.consumer = x.consumer /\ q.made = x.made
        /\ q.closed = x.closed /\ q.out = x.out /\ q.at = x.at /\ q.woken = x.woken
        /\ q.passed = x.passed /\ ~q.cut /\ ~q.afterEnd /\ q.pending = "none"
        /\ q.taken[first] = x.taken[first] /\ Quiet(q, first)
    BY <1>1, <1>3, <1>5, <1>9, <1>14, <1>16 DEF Asked, SameBut
  <2>2. x.taken[first] = x.made[first]
    BY <1>14, <1>5, <1>16 DEF Quiet
  <2>3. CASE p.taken[other] < p.made[other] /\ v = <<other, p.taken[other] + 1>> /\ q.taken[other] = p.taken[other] + 1
    <3>1. PICK i \in 1 .. Items : i = x.taken[other] + 1
      BY <1>1, <1>3, <1>12, <1>14, <2>3
    <3>2. Stream!PollMerge(x) = [x |-> q, r |-> <<other, i>>]
      BY <1>1, <1>3, <1>10, <1>14, <1>16, <2>3, <3>1, Answers
    <3>3. /\ KeptNow(q, other) = Range(x.out[other]) \cup {i}
          /\ \A k \in Range(x.out[other]) : k < i
      <4>1. PICK k \in Nat : k = x.taken[other]
        BY <1>1, <1>3, <1>12
      <4>2. KeptNow(q, other) = 1 .. k + 1 /\ Range(x.out[other]) = 1 .. k /\ i = k + 1
        BY <1>1, <1>3, <1>11, <1>12, <1>14, <2>1, <2>3, <3>1, <4>1
      <4> QED BY <4>1, <4>2, NextNumber
    <3>4. KeptNow(q, first) = Range(x.out[first])
      BY <1>1, <1>3, <1>11, <1>12, <2>1
    <3>5. \A t \in Stream!Sources : KeptNow(q, t) = IF t = other THEN Range(x.out[t]) \cup {i} ELSE Range(x.out[t])
      BY <1>1, <1>3, <3>3, <3>4
    <3>6. \A t \in Stream!Sources : t = other \/ x.taken[t] = x.made[t]
      BY <1>1, <1>3, <2>2
    <3>7. other \in Stream!Used(x)
      BY <1>1, <1>3
    <3>8. Answered(x, q, <<other, i>>)
      BY <2>1, <3>3, <3>5, <3>6, <3>7 DEF Answered
    <3> QED BY <3>2, <3>8
  <2>4. CASE v = Stream!Pending /\ Quiet(q, other) /\ q.taken[other] = p.taken[other]
    <3>1. \A t \in Stream!Sources : q.taken[t] = x.taken[t] /\ Quiet(q, t)
      BY <1>1, <1>3, <1>14, <2>1, <2>4
    <3>2. \A t \in Stream!Sources : KeptNow(q, t) = Range(x.out[t]) /\ x.passed[t] = 0
      <4>1. \A t \in Stream!Sources : x.taken[t] = x.made[t]
        BY <2>1, <3>1 DEF Quiet
      <4>2. \A t \in Stream!Sources : ~(x.taken[t] < x.made[t])
        BY <1>12, <4>1
      <4> QED BY <1>1, <1>11, <1>12, <1>13, <2>1, <3>1, <4>2
    <3>3. Stream!Used(q) = {"a", "b"}
      BY <2>1 DEF Stream!Used, Stream!Sources
    <3>4. CASE q.done["a"] /\ q.done["b"]
      <4>1. Ends(q)
        BY <1>1, <2>1, <3>3, <3>4 DEF Ends, Flows
      <4>2. Answered(x, q, Stream!Nothing)
        BY <2>1, <3>2, <4>1 DEF Answered
      <4> QED BY <1>10, <1>16, <2>4, <3>4, <4>2, Answers
    <3>5. CASE ~(q.done["a"] /\ q.done["b"])
      <4>1. Listens(q)
        BY <1>1, <2>1, <3>1, <3>3 DEF Listens, Quiet
      <4>2. Answered(x, q, Stream!Pending)
        BY <2>1, <3>2, <4>1 DEF Answered
      <4> QED BY <1>10, <1>16, <2>4, <3>5, <4>2, Answers
    <3> QED BY <3>4, <3>5
  <2> QED BY <1>9, <2>3, <2>4 DEF Asked
<1> QED BY <1>7, <1>15, <1>16 DEF Asked

-----------------------------------------------------------------------------
(* The steps of a stream *)

LEMMA WakeFields ==
  ASSUME NEW x \in Stream!StreamsType, NEW who
  PROVE  LET h == Stream!Wake(x, who) IN
         /\ h \in Stream!StreamsType /\ h.adapter = x.adapter /\ h.made = x.made /\ h.taken = x.taken
         /\ h.closed = x.closed /\ h.done = x.done /\ h.aFirst = x.aFirst
         /\ h.cut = x.cut /\ h.pending = x.pending /\ h.out = x.out /\ h.at = x.at /\ h.passed = x.passed
         /\ h.afterEnd = x.afterEnd
         /\ ~h.woken => ~x.woken /\ h.listens = x.listens /\ who \notin x.listens
<1>1. CASE who \in x.listens
  <2>1. Stream!Wake(x, who) = [x EXCEPT !.listens = x.listens \ {who}, !.woken = TRUE]
    BY <1>1 DEF Stream!Wake, Stream!StreamsType
  <2> QED BY <2>1 DEF Stream!StreamsType
<1>2. CASE who \notin x.listens
  <2>1. Stream!Wake(x, who) = x
    BY <1>2 DEF Stream!Wake
  <2> QED BY <1>2, <2>1
<1> QED BY <1>1, <1>2

LEMMA PollKeeps == ASSUME StreamGood(strm), Stream!Poll PROVE StreamGood(strm')
<1>1. PICK atOnce \in BOOLEAN : strm' = Stream!Consume(Stream!PollNext([strm EXCEPT !.woken = FALSE], atOnce))
  BY DEF Stream!Poll
<1>2. PICK x : x = [strm EXCEPT !.woken = FALSE]
  OBVIOUS
<1>3. /\ x \in Stream!StreamsType /\ x.adapter = strm.adapter /\ x.made = strm.made /\ x.taken = strm.taken
      /\ x.closed = strm.closed /\ x.done = strm.done /\ x.aFirst = strm.aFirst /\ x.listens = strm.listens
      /\ x.cut = strm.cut /\ x.pending = strm.pending /\ x.out = strm.out /\ x.passed = strm.passed
      /\ x.afterEnd = strm.afterEnd
  BY <1>2 DEF StreamGood, Stream!StreamsType
<1>4. Flows(x) /\ Fair(x)
  BY <1>3 DEF StreamGood, Flows, Fair, Stream!Used
<1>5. Outs(x)
  <2>1. \A t : KeptNow(x, t) = KeptNow(strm, t)
    BY <1>3 DEF KeptNow, KeptOf
  <2> QED BY <1>3, <2>1 DEF StreamGood, Outs
<1>6. x.adapter \in {"map", "filter", "filterMap", "takeWhile", "then", "merge"}
  BY <1>3, TypeOfStream
<1>7. \E y, r : Stream!PollNext(x, atOnce) = [x |-> y, r |-> r] /\ Answered(x, y, r)
  <2>1. CASE x.adapter = "map"
    <3>1. Stream!PollNext(x, atOnce) = Stream!PollMap(x)
      BY <2>1 DEF Stream!PollNext
    <3> QED BY <1>3, <1>4, <1>5, <2>1, <3>1, MapAnswers
  <2>2. CASE x.adapter \in {"filter", "filterMap"}
    <3>1. Stream!PollNext(x, atOnce) = Stream!PollFilter(x)
      BY <2>2 DEF Stream!PollNext, Stream!PollFilterMap
    <3> QED BY <1>3, <1>4, <1>5, <2>2, <3>1, FilterAnswers
  <2>3. CASE x.adapter = "takeWhile"
    <3>1. Stream!PollNext(x, atOnce) = Stream!PollTakeWhile(x)
      BY <2>3 DEF Stream!PollNext
    <3> QED BY <1>3, <1>4, <1>5, <2>3, <3>1, TakeWhileAnswers
  <2>4. CASE x.adapter = "then"
    <3>1. Stream!PollNext(x, atOnce) = Stream!PollThen(x, atOnce)
      BY <2>4 DEF Stream!PollNext
    <3> QED BY <1>3, <1>4, <1>5, <2>4, <3>1, ThenAnswers
  <2>5. CASE x.adapter = "merge"
    <3>1. Stream!PollNext(x, atOnce) = Stream!PollMerge(x)
      BY <2>5 DEF Stream!PollNext
    <3> QED BY <1>3, <1>4, <1>5, <2>5, <3>1, MergeAnswers
  <2> QED BY <1>6, <2>1, <2>2, <2>3, <2>4, <2>5
<1>8. PICK y, r : Stream!PollNext(x, atOnce) = [x |-> y, r |-> r] /\ Answered(x, y, r)
  BY <1>7
<1>9. StreamGood(Stream!Consume([x |-> y, r |-> r]))
  BY <1>2, <1>8, ConsumeKeeps
<1> QED BY <1>1, <1>2, <1>8, <1>9

LEMMA StreamNext == ASSUME StreamInv, [Stream!Next]_strm PROVE StreamInv'
<1>1. /\ StreamGood(strm) /\ strm \in Stream!StreamsType /\ Flows(strm) /\ Fair(strm) /\ Outs(strm)
      /\ strm.at = "parked" /\ ~strm.woken => Listens(strm)
      /\ strm.at = "ended" => Ends(strm)
  BY DEF StreamInv, StreamGood
<1>2. PICK h : h = strm'
  OBVIOUS
<1> SUFFICES StreamGood(h)
  BY <1>2 DEF StreamInv
<1>3. /\ strm.made \in [{"a", "b"} -> 0 .. Items] /\ strm.taken \in [{"a", "b"} -> 0 .. Items]
      /\ strm.closed \in [{"a", "b"} -> BOOLEAN] /\ Stream!Sources = {"a", "b"} /\ Items \in Nat
  BY <1>1, TypeOfStream
<1>4. ASSUME NEW s \in Stream!Sources, Stream!Arrive(s) PROVE StreamGood(h)
  <2> DEFINE made == [strm.made EXCEPT ![s] = strm.made[s] + 1]
  <2>1. PICK x : x = [strm EXCEPT !.made = made]
    OBVIOUS
  <2>2. s \in Stream!Used(strm) /\ ~strm.closed[s] /\ strm.made[s] < Items /\ h = Stream!Wake(x, s)
    BY <1>1, <1>2, <1>4, <2>1 DEF Stream!Arrive, Stream!StreamsType
  <2>3. /\ made \in [Stream!Sources -> 0 .. Items]
        /\ \A t \in Stream!Sources : made[t] = IF t = s THEN strm.made[s] + 1 ELSE strm.made[t]
    BY <1>3, <2>2
  <2> HIDE DEF made
  <2>4. /\ x \in Stream!StreamsType /\ x.adapter = strm.adapter /\ x.made = made /\ x.taken = strm.taken
        /\ x.closed = strm.closed /\ x.done = strm.done /\ x.aFirst = strm.aFirst /\ x.listens = strm.listens
        /\ x.cut = strm.cut /\ x.pending = strm.pending /\ x.out = strm.out /\ x.at = strm.at
        /\ x.passed = strm.passed /\ x.woken = strm.woken /\ x.afterEnd = strm.afterEnd
    BY <1>1, <2>1, <2>3 DEF Stream!StreamsType
  <2>5. /\ h \in Stream!StreamsType /\ h.adapter = strm.adapter /\ h.made = made /\ h.taken = strm.taken
        /\ h.closed = strm.closed /\ h.done = strm.done /\ h.aFirst = strm.aFirst
        /\ h.cut = strm.cut /\ h.pending = strm.pending /\ h.out = strm.out /\ h.at = strm.at
        /\ h.passed = strm.passed /\ h.afterEnd = strm.afterEnd
        /\ ~h.woken => ~strm.woken /\ h.listens = strm.listens /\ s \notin strm.listens
    BY <2>2, <2>4, WakeFields
  <2>6. Stream!Used(h) = Stream!Used(strm) /\ \A t : KeptNow(h, t) = KeptNow(strm, t)
    BY <2>5 DEF KeptNow, KeptOf, Stream!Used
  <2>7. \A t \in Stream!Sources : strm.taken[t] \in Nat /\ strm.made[t] \in Nat /\ made[t] \in Nat /\ strm.made[t] <= made[t]
                                  /\ (t # s => made[t] = strm.made[t])
    BY <1>3, <2>3
  <2>8. Flows(h)
    <3>1. \A t \in Stream!Sources : strm.taken[t] <= strm.made[t]
      BY <1>1 DEF Flows
    <3>2. ASSUME NEW t \in Stream!Sources PROVE h.taken[t] <= h.made[t]
      BY <2>5, <2>7, <3>1
    <3> QED BY <1>1, <2>2, <2>5, <2>6, <2>7, <3>2 DEF Flows
  <2>9. Fair(h)
    <3>1. ASSUME NEW t \in Stream!Sources, strm.taken[t] < strm.made[t] PROVE h.taken[t] < h.made[t]
      BY <2>5, <2>7, <3>1
    <3> QED BY <1>1, <2>5, <3>1 DEF Fair
  <2>10. Outs(h)
    BY <1>1, <2>5, <2>6 DEF Outs
  <2>11. ASSUME h.at = "parked", ~h.woken PROVE Listens(h)
    <3>1. Listens(strm) /\ h.listens = strm.listens /\ s \notin strm.listens
      BY <1>1, <2>5, <2>11
    <3>2. strm.pending = "running" /\ "future" \in strm.listens
      BY <1>1, <2>2, <3>1 DEF Listens, Flows
    <3> QED BY <2>5, <3>1, <3>2 DEF Listens
  <2>12. ASSUME h.at = "ended" PROVE Ends(h)
    BY <1>1, <2>2, <2>5, <2>12 DEF Ends
  <2> QED BY <2>5, <2>8, <2>9, <2>10, <2>11, <2>12 DEF StreamGood
<1>5. ASSUME NEW s \in Stream!Sources, Stream!End(s) PROVE StreamGood(h)
  <2> DEFINE closed == [strm.closed EXCEPT ![s] = TRUE]
  <2>1. PICK x : x = [strm EXCEPT !.closed = closed]
    OBVIOUS
  <2>2. s \in Stream!Used(strm) /\ ~strm.closed[s] /\ h = Stream!Wake(x, s)
    BY <1>1, <1>2, <1>5, <2>1 DEF Stream!End, Stream!StreamsType
  <2>3. /\ closed \in [Stream!Sources -> BOOLEAN]
        /\ \A t \in Stream!Sources : closed[t] = IF t = s THEN TRUE ELSE strm.closed[t]
    BY <1>3
  <2> HIDE DEF closed
  <2>4. /\ x \in Stream!StreamsType /\ x.adapter = strm.adapter /\ x.made = strm.made /\ x.taken = strm.taken
        /\ x.closed = closed /\ x.done = strm.done /\ x.aFirst = strm.aFirst /\ x.listens = strm.listens
        /\ x.cut = strm.cut /\ x.pending = strm.pending /\ x.out = strm.out /\ x.at = strm.at
        /\ x.passed = strm.passed /\ x.woken = strm.woken /\ x.afterEnd = strm.afterEnd
    BY <1>1, <2>1, <2>3 DEF Stream!StreamsType
  <2>5. /\ h \in Stream!StreamsType /\ h.adapter = strm.adapter /\ h.made = strm.made /\ h.taken = strm.taken
        /\ h.closed = closed /\ h.done = strm.done /\ h.aFirst = strm.aFirst
        /\ h.cut = strm.cut /\ h.pending = strm.pending /\ h.out = strm.out /\ h.at = strm.at
        /\ h.passed = strm.passed /\ h.afterEnd = strm.afterEnd
        /\ ~h.woken => ~strm.woken /\ h.listens = strm.listens /\ s \notin strm.listens
    BY <2>2, <2>4, WakeFields
  <2>6. Stream!Used(h) = Stream!Used(strm) /\ \A t : KeptNow(h, t) = KeptNow(strm, t)
    BY <2>5 DEF KeptNow, KeptOf, Stream!Used
  <2>7. Flows(h)
    BY <1>1, <2>3, <2>5, <2>6 DEF Flows
  <2>8. Fair(h) /\ Outs(h)
    BY <1>1, <2>5, <2>6 DEF Fair, Outs
  <2>9. ASSUME h.at = "parked", ~h.woken PROVE Listens(h)
    <3>1. Listens(strm) /\ h.listens = strm.listens /\ s \notin strm.listens
      BY <1>1, <2>5, <2>9
    <3>2. strm.pending = "running" /\ "future" \in strm.listens
      BY <1>1, <2>2, <3>1 DEF Listens, Flows
    <3> QED BY <2>5, <3>1, <3>2 DEF Listens
  <2>10. ASSUME h.at = "ended" PROVE Ends(h)
    BY <1>1, <2>2, <2>5, <2>10 DEF Ends
  <2> QED BY <2>5, <2>7, <2>8, <2>9, <2>10 DEF StreamGood
<1>6. CASE Stream!FutureReady
  <2>1. PICK x : x = [strm EXCEPT !.pending = "ready"]
    OBVIOUS
  <2>2. strm.pending = "running" /\ h = Stream!Wake(x, "future")
    BY <1>2, <1>6, <2>1 DEF Stream!FutureReady
  <2>3. /\ x \in Stream!StreamsType /\ x.adapter = strm.adapter /\ x.made = strm.made /\ x.taken = strm.taken
        /\ x.closed = strm.closed /\ x.done = strm.done /\ x.aFirst = strm.aFirst /\ x.listens = strm.listens
        /\ x.cut = strm.cut /\ x.pending = "ready" /\ x.out = strm.out /\ x.at = strm.at
        /\ x.passed = strm.passed /\ x.woken = strm.woken /\ x.afterEnd = strm.afterEnd
    BY <1>1, <2>1 DEF Stream!StreamsType
  <2>4. /\ h \in Stream!StreamsType /\ h.adapter = strm.adapter /\ h.made = strm.made /\ h.taken = strm.taken
        /\ h.closed = strm.closed /\ h.done = strm.done /\ h.aFirst = strm.aFirst
        /\ h.cut = strm.cut /\ h.pending = "ready" /\ h.out = strm.out /\ h.at = strm.at
        /\ h.passed = strm.passed /\ h.afterEnd = strm.afterEnd
        /\ ~h.woken => ~strm.woken /\ h.listens = strm.listens /\ "future" \notin strm.listens
    BY <2>2, <2>3, WakeFields
  <2>5. Stream!Used(h) = Stream!Used(strm) /\ \A t : KeptNow(h, t) = KeptNow(strm, t)
    BY <2>2, <2>4 DEF KeptNow, KeptOf, Stream!Used
  <2>6. Flows(h)
    BY <1>1, <2>2, <2>4, <2>5 DEF Flows
  <2>7. Fair(h) /\ Outs(h)
    BY <1>1, <2>4, <2>5 DEF Fair, Outs
  <2>8. ~(h.at = "parked" /\ ~h.woken)
    BY <1>1, <2>2, <2>4 DEF Listens
  <2>9. h.at # "ended"
    BY <1>1, <2>2, <2>4 DEF Ends
  <2> QED BY <2>4, <2>6, <2>7, <2>8, <2>9 DEF StreamGood
<1>7. CASE Stream!Poll
  BY <1>1, <1>2, <1>7, PollKeeps
<1>8. CASE UNCHANGED strm
  BY <1>1, <1>2, <1>8
<1> QED BY <1>4, <1>5, <1>6, <1>7, <1>8 DEF Stream!Next

-----------------------------------------------------------------------------
(* FileSystem *)

(* One operation: what its thread and its future have come to. *)
OpGood(s, o) ==
  IF s.future[o] = "failed" THEN s.kind[o] = "entry" /\ s.thread[o] = "none"
  ELSE /\ s.thread[o] \in {"running", "done"}
       /\ s.future[o] \in {"waiting", "answered", "dropped"}
       /\ s.future[o] = "answered" => s.thread[o] = "done"

(* Only the newest one is waited for, and reads and writes are not begun   *)
(* while a thread still runs.                                              *)
Begun(s) ==
  /\ Len(s.kind) <= MaxOps
  /\ \A o \in Files!Ops : o > Len(s.kind) => s.thread[o] = "none" /\ s.future[o] = "none"
  /\ \A o \in 1 .. Len(s.kind) :
       /\ OpGood(s, o)
       /\ s.future[o] = "waiting" => o = Len(s.kind)
       /\ s.thread[o] = "running" => \A w \in 1 .. Len(s.kind) : w > o => s.kind[w] = "entry"

(* r is the last write before o, or 0. *)
LastBefore(s, r, o) ==
  /\ r # 0 => r \in 1 .. o - 1 /\ s.kind[r] = "write"
  /\ \A w \in 1 .. o - 1 : s.kind[w] = "write" => w <= r

(* The file has the last write that happened. *)
Filed(s) ==
  /\ s.file # 0 => s.file \in 1 .. Len(s.kind) /\ s.kind[s.file] = "write" /\ s.thread[s.file] = "done"
  /\ \A w \in 1 .. Len(s.kind) : s.kind[w] = "write" /\ s.thread[w] = "done" => w <= s.file
  /\ s.written # 0 => s.written \in 1 .. Len(s.kind) /\ s.kind[s.written] = "write" /\ s.future[s.written] = "answered"
  /\ \A w \in 1 .. Len(s.kind) : s.kind[w] = "write" /\ s.future[w] = "answered" => w <= s.written
  /\ \A o \in 1 .. Len(s.kind) :
       s.kind[o] = "read" /\ s.thread[o] = "done" => LastBefore(s, s.result[o], o)

Pending(s, o) == s.kind[o] = "entry" /\ s.future[o] \in {"waiting", "dropped"}

(* The stream of the directory is here, or with its one pending operation. *)
Listed(s) ==
  /\ Len(s.seen) <= Len(Entries) /\ \A i \in 1 .. Len(s.seen) : s.seen[i] = Entries[i]
  /\ \/ Len(s.seen) = s.next - 1
     \/ s.dir = "away" /\ Len(s.seen) + 1 = s.next - 1
  /\ \A o \in 1 .. Len(s.kind) :
       /\ s.dir = "here" /\ s.kind[o] = "entry" => s.future[o] = "answered"
       /\ Pending(s, o) /\ s.thread[o] = "running" => Len(s.seen) = s.next - 1
       /\ \A w \in 1 .. Len(s.kind) : Pending(s, o) /\ Pending(s, w) => o = w
       /\ \A w \in 1 .. Len(s.kind) :
            s.future[o] = "failed" => s.dir = "away" /\ ~(s.kind[w] = "entry" /\ s.future[w] = "waiting")

FsGood(s) == s \in Files!FsType /\ Begun(s) /\ Filed(s) /\ Listed(s)

FilesInv == FsGood(fsys)

LEMMA FsSizes ==
  Entries \in Seq(Nat) /\ MaxOps \in Nat /\ Files!Ops = 1 .. MaxOps /\ Len(Entries) \in Nat
<1>1. Entries \in Seq(Nat) /\ MaxOps \in Nat
  BY StreamLibraryAssumption DEF Files!FileAssumption
<1> QED BY <1>1, LenProperties DEF Files!Ops

LEMMA FsFields ==
  ASSUME NEW s, FsGood(s)
  PROVE  /\ s.kind \in Seq(Files!Kinds) /\ Len(s.kind) \in Nat /\ Len(s.kind) <= MaxOps
         /\ s.thread \in [Files!Ops -> {"none", "running", "done"}]
         /\ s.future \in [Files!Ops -> {"none", "waiting", "answered", "dropped", "failed"}]
         /\ s.file \in 0 .. MaxOps /\ s.result \in [Files!Ops -> 0 .. MaxOps] /\ s.written \in 0 .. MaxOps
         /\ s.dir \in {"here", "away"} /\ s.next \in 1 .. Len(Entries) + 1 /\ s.seen \in Seq(Nat)
         /\ Len(s.seen) \in Nat
         /\ \A o \in 1 .. Len(s.kind) : o \in Files!Ops /\ o \in Nat /\ s.kind[o] \in Files!Kinds
<1>1. /\ s.kind \in Seq(Files!Kinds)
      /\ s.thread \in [Files!Ops -> {"none", "running", "done"}]
      /\ s.future \in [Files!Ops -> {"none", "waiting", "answered", "dropped", "failed"}]
      /\ s.file \in 0 .. MaxOps /\ s.result \in [Files!Ops -> 0 .. MaxOps] /\ s.written \in 0 .. MaxOps
      /\ s.dir \in {"here", "away"} /\ s.next \in 1 .. Len(Entries) + 1 /\ s.seen \in Seq(Nat)
  BY DEF FsGood, Files!FsType
<1>2. Len(s.kind) \in Nat /\ Len(s.seen) \in Nat /\ Len(s.kind) <= MaxOps
  BY <1>1, LenProperties DEF FsGood, Begun
<1>3. ASSUME NEW o \in 1 .. Len(s.kind) PROVE o \in Files!Ops /\ o \in Nat /\ s.kind[o] \in Files!Kinds
  <2>1. o \in Files!Ops /\ o \in Nat
    BY <1>2, FsSizes
  <2>2. s.kind[o] \in Files!Kinds
    BY <1>1, ElementOfSeq
  <2> QED BY <2>1, <2>2
<1> QED BY <1>1, <1>2, <1>3

(* The last write before an operation is the greatest. *)
LEMMA LastIsGreatest ==
  ASSUME NEW s, NEW o \in Nat, NEW r \in Nat, LastBefore(s, r, o)
  PROVE  Files!Max({0} \cup {w \in 1 .. o - 1 : s.kind[w] = "write"}) = r
<1> DEFINE S == {0} \cup {w \in 1 .. o - 1 : s.kind[w] = "write"}
<1>1. r \in S
  BY DEF LastBefore
<1>2. \A y \in S : r >= y
  BY DEF LastBefore
<1>3. \A x \in S : (\A y \in S : x >= y) => x = r
  <2>1. \A x \in S : x \in Nat
    OBVIOUS
  <2> QED BY <1>1, <1>2, <2>1
<1> HIDE DEF S
<1>4. Files!Max(S) = r
  BY <1>1, <1>2, <1>3 DEF Files!Max
<1> QED BY <1>4 DEF S

LEMMA FilesShow == ASSUME FilesInv PROVE Files!TypeOK /\ Files!FilesAreOrdered
<1> PICK s : s = fsys
  OBVIOUS
<1>1. FsGood(s)
  BY DEF FilesInv
<1>2. /\ s.kind \in Seq(Files!Kinds) /\ Len(s.kind) \in Nat
      /\ s.file \in Nat /\ s.written \in Nat /\ s.next \in Nat /\ s.seen \in Seq(Nat) /\ Len(s.seen) \in Nat
      /\ \A o \in 1 .. Len(s.kind) : o \in Files!Ops /\ o \in Nat
  BY <1>1, FsFields, FsSizes
<1>3. Begun(s) /\ Filed(s) /\ Listed(s)
  BY <1>1 DEF FsGood
<1>4. ASSUME Files!Idle PROVE fsys.file \in {fsys.written} \cup {o \in Files!DroppedWrites : o > fsys.written}
  <2>1. s.written <= s.file
    <3>1. CASE s.written = 0
      BY <1>2, <3>1
    <3>2. CASE s.written # 0
      <4>1. s.written \in 1 .. Len(s.kind) /\ s.kind[s.written] = "write" /\ s.future[s.written] = "answered"
        BY <1>3, <3>2 DEF Filed
      <4>2. OpGood(s, s.written)
        BY <1>3, <4>1 DEF Begun
      <4>3. s.thread[s.written] = "done"
        BY <4>1, <4>2 DEF OpGood
      <4> QED BY <1>3, <4>1, <4>3 DEF Filed
    <3> QED BY <3>1, <3>2
  <2>2. CASE s.file = 0
    BY <1>2, <2>1, <2>2
  <2>3. CASE s.file # 0
    <3>1. s.file \in 1 .. Len(s.kind) /\ s.kind[s.file] = "write" /\ s.thread[s.file] = "done"
      BY <1>3, <2>3 DEF Filed
    <3>2. OpGood(s, s.file) /\ s.future[s.file] # "waiting"
      BY <1>2, <1>3, <1>4, <3>1 DEF Begun, Files!Idle
    <3>3. s.future[s.file] \in {"answered", "dropped"}
      BY <3>1, <3>2 DEF OpGood
    <3>4. CASE s.future[s.file] = "answered"
      <4>1. s.file <= s.written
        BY <1>3, <3>1, <3>4 DEF Filed
      <4> QED BY <1>2, <2>1, <4>1
    <3>5. CASE s.future[s.file] = "dropped"
      BY <1>2, <2>1, <3>1, <3>5 DEF Files!DroppedWrites
    <3> QED BY <3>3, <3>4, <3>5
  <2> QED BY <2>2, <2>3
<1>5. ASSUME NEW o \in 1 .. Len(fsys.kind), fsys.kind[o] = "read", fsys.future[o] = "answered"
      PROVE  fsys.result[o] = Files!Max({0} \cup {w \in 1 .. o - 1 : fsys.kind[w] = "write"})
  <2>1. OpGood(s, o)
    BY <1>3, <1>5 DEF Begun
  <2>2. s.thread[o] = "done"
    BY <1>5, <2>1 DEF OpGood
  <2>3. LastBefore(s, s.result[o], o)
    BY <1>3, <1>5, <2>2 DEF Filed
  <2>4. s.result[o] \in Nat /\ o \in Nat
    BY <1>1, <1>2, <1>5, FsFields, FsSizes
  <2> QED BY <2>3, <2>4, LastIsGreatest
<1>6. Files!IsPrefix(fsys.seen, Entries)
  BY <1>2, <1>3, FsSizes DEF Files!IsPrefix, Listed
<1>7. fsys.dir = "here" => Len(fsys.seen) = fsys.next - 1
  BY <1>3 DEF Listed
<1>8. Files!TypeOK
  BY <1>1 DEF FsGood, Files!TypeOK
<1> QED BY <1>4, <1>5, <1>6, <1>7, <1>8 DEF Files!FilesAreOrdered

(* An operation is begun. *)
FsStarts(s, h, k, th, fu, dir) ==
  /\ h \in Files!FsType /\ Len(h.kind) = Len(s.kind) + 1 /\ Len(s.kind) + 1 \in Files!Ops
  /\ h.kind[Len(s.kind) + 1] = k /\ h.thread[Len(s.kind) + 1] = th /\ h.future[Len(s.kind) + 1] = fu
  /\ \A o \in 1 .. Len(s.kind) :
       h.kind[o] = s.kind[o] /\ h.thread[o] = s.thread[o] /\ h.future[o] = s.future[o]
  /\ \A o \in Files!Ops : o > Len(s.kind) + 1 => h.thread[o] = s.thread[o] /\ h.future[o] = s.future[o]
  /\ h.file = s.file /\ h.result = s.result /\ h.written = s.written /\ h.dir = dir
  /\ h.next = s.next /\ h.seen = s.seen

LEMMA FsStarted ==
  ASSUME NEW s, FsGood(s), Len(s.kind) < MaxOps, NEW k \in Files!Kinds,
         NEW th \in {"running", "none"}, NEW fu \in {"waiting", "failed"}, NEW dir \in {"here", "away"},
         NEW h, h = Files!Started([s EXCEPT !.dir = dir], k, th, fu)
  PROVE  FsStarts(s, h, k, th, fu, dir)
<1>1. /\ s \in Files!FsType /\ s.kind \in Seq(Files!Kinds) /\ Len(s.kind) \in Nat
      /\ s.thread \in [Files!Ops -> {"none", "running", "done"}]
      /\ s.future \in [Files!Ops -> {"none", "waiting", "answered", "dropped", "failed"}]
  BY FsFields DEF FsGood
<1> PICK m : m = Len(s.kind) + 1
  OBVIOUS
<1>2. m \in Nat /\ m \in Files!Ops
  <2>1. Len(s.kind) \in Nat /\ MaxOps \in Nat /\ Len(s.kind) < MaxOps
    BY <1>1, FsSizes
  <2> QED BY <2>1, FsSizes
<1> DEFINE kind == Append(s.kind, k)
           thread == [s.thread EXCEPT ![m] = th]
           future == [s.future EXCEPT ![m] = fu]
<1>3. /\ kind \in Seq(Files!Kinds) /\ Len(kind) = m /\ kind[m] = k
      /\ \A o \in 1 .. Len(s.kind) : kind[o] = s.kind[o]
  BY <1>1, AppendProperties
<1>4. /\ thread \in [Files!Ops -> {"none", "running", "done"}]
      /\ future \in [Files!Ops -> {"none", "waiting", "answered", "dropped", "failed"}]
      /\ thread[m] = th /\ future[m] = fu
      /\ \A o \in Files!Ops : o # m => thread[o] = s.thread[o] /\ future[o] = s.future[o]
  BY <1>1, <1>2
<1>5. h = [s EXCEPT !.dir = dir, !.kind = kind, !.thread = thread, !.future = future]
  BY <1>1 DEF Files!Started, Files!FsType
<1> HIDE DEF kind, thread, future
<1>6. dir \in {"here", "away"}
  OBVIOUS
<1>7. /\ h.kind = kind /\ h.thread = thread /\ h.future = future
      /\ h.file = s.file /\ h.result = s.result /\ h.written = s.written /\ h.dir = dir
      /\ h.next = s.next /\ h.seen = s.seen
  BY <1>1, <1>5 DEF Files!FsType
<1>8. h \in Files!FsType
  BY <1>1, <1>3, <1>4, <1>5, <1>6 DEF Files!FsType
<1>9. \A o \in 1 .. Len(s.kind) : o \in Files!Ops /\ o # m
  BY <1>1, FsFields
<1>10. \A o \in Files!Ops : o > m => o # m
  BY <1>2, FsSizes
<1>11. \A o \in 1 .. Len(s.kind) :
        h.kind[o] = s.kind[o] /\ h.thread[o] = s.thread[o] /\ h.future[o] = s.future[o]
  BY <1>3, <1>4, <1>7, <1>9
<1>12. \A o \in Files!Ops : o > m => h.thread[o] = s.thread[o] /\ h.future[o] = s.future[o]
  BY <1>4, <1>7, <1>10
<1>13. Len(h.kind) = m /\ h.kind[m] = k /\ h.thread[m] = th /\ h.future[m] = fu
  BY <1>3, <1>4, <1>7
<1> QED BY <1>2, <1>7, <1>8, <1>11, <1>12, <1>13 DEF FsStarts

LEMMA StartIsGood ==
  ASSUME NEW s, FsGood(s), NEW h, NEW k, NEW th, NEW fu, NEW dir, FsStarts(s, h, k, th, fu, dir),
         \A o \in 1 .. Len(s.kind) : s.future[o] # "waiting",
         \/ /\ k \in {"read", "write"} /\ th = "running" /\ fu = "waiting" /\ dir = s.dir
            /\ \A o \in 1 .. Len(s.kind) : s.thread[o] # "running"
         \/ k = "entry" /\ th = "running" /\ fu = "waiting" /\ s.dir = "here" /\ dir = "away"
         \/ k = "entry" /\ th = "none" /\ fu = "failed" /\ s.dir = "away" /\ dir = "away"
  PROVE  FsGood(h)
<1> PICK n : n = Len(s.kind)
  OBVIOUS
<1>1. /\ h \in Files!FsType /\ Len(h.kind) = n + 1 /\ n + 1 \in Files!Ops
      /\ h.kind[n + 1] = k /\ h.thread[n + 1] = th /\ h.future[n + 1] = fu
      /\ \A o \in 1 .. n : h.kind[o] = s.kind[o] /\ h.thread[o] = s.thread[o] /\ h.future[o] = s.future[o]
      /\ \A o \in Files!Ops : o > n + 1 => h.thread[o] = s.thread[o] /\ h.future[o] = s.future[o]
      /\ h.file = s.file /\ h.result = s.result /\ h.written = s.written /\ h.dir = dir
      /\ h.next = s.next /\ h.seen = s.seen
  BY DEF FsStarts
<1>2. Begun(s) /\ Filed(s) /\ Listed(s)
  BY DEF FsGood
<1>3. n \in Nat /\ MaxOps \in Nat /\ Files!Ops = 1 .. MaxOps
  BY FsFields, FsSizes
<1>4. \A o \in 1 .. n + 1 : o \in 1 .. n \/ o = n + 1
  BY <1>3
<1>5. \A o \in 1 .. n : o \in 1 .. n + 1 /\ o < n + 1 /\ o # n + 1
  BY <1>3
<1>6. Begun(h)
  <2>1. Len(h.kind) <= MaxOps
    BY <1>1, <1>3
  <2>2. \A o \in Files!Ops : o > Len(h.kind) => h.thread[o] = "none" /\ h.future[o] = "none"
    BY <1>1, <1>2, <1>3 DEF Begun
  <2>3. ASSUME NEW o \in 1 .. n + 1 PROVE OpGood(h, o)
    <3>1. CASE o = n + 1
      BY <1>1, <3>1 DEF OpGood
    <3>2. CASE o \in 1 .. n
      BY <1>1, <1>2, <3>2 DEF OpGood, Begun
    <3> QED BY <1>4, <3>1, <3>2
  <2>4. \A o \in 1 .. n + 1 : h.future[o] = "waiting" => o = n + 1
    BY <1>1, <1>4
  <2>5. ASSUME NEW o \in 1 .. n + 1, h.thread[o] = "running", NEW w \in 1 .. n + 1, w > o
        PROVE  h.kind[w] = "entry"
    <3>1. o \in 1 .. n /\ o \in Nat /\ w \in Nat
      BY <1>3, <1>4, <2>5
    <3>2. CASE w = n + 1
      BY <1>1, <2>5, <3>1, <3>2
    <3>3. CASE w \in 1 .. n
      BY <1>1, <1>2, <2>5, <3>1, <3>3 DEF Begun
    <3> QED BY <1>4, <3>2, <3>3
  <2> QED BY <1>1, <2>1, <2>2, <2>3, <2>4, <2>5 DEF Begun
<1>7. Filed(h)
  <2>1. h.file # 0 => h.file \in 1 .. n + 1 /\ h.kind[h.file] = "write" /\ h.thread[h.file] = "done"
    BY <1>1, <1>2, <1>5 DEF Filed
  <2>2. \A w \in 1 .. n + 1 : h.kind[w] = "write" /\ h.thread[w] = "done" => w <= h.file
    BY <1>1, <1>2, <1>4 DEF Filed
  <2>3. h.written # 0 => h.written \in 1 .. n + 1 /\ h.kind[h.written] = "write" /\ h.future[h.written] = "answered"
    BY <1>1, <1>2, <1>5 DEF Filed
  <2>4. \A w \in 1 .. n + 1 : h.kind[w] = "write" /\ h.future[w] = "answered" => w <= h.written
    BY <1>1, <1>2, <1>4 DEF Filed
  <2>5. ASSUME NEW o \in 1 .. n + 1, h.kind[o] = "read", h.thread[o] = "done"
        PROVE  LastBefore(h, h.result[o], o)
    <3>1. o \in 1 .. n
      BY <1>1, <1>4, <2>5
    <3>2. LastBefore(s, s.result[o], o)
      BY <1>1, <1>2, <2>5, <3>1 DEF Filed
    <3>3. \A w \in 1 .. o - 1 : w \in 1 .. n
      BY <1>3, <3>1
    <3> QED BY <1>1, <3>2, <3>3 DEF LastBefore
  <2> QED BY <1>1, <2>1, <2>2, <2>3, <2>4, <2>5 DEF Filed
<1>8. Listed(h)
  <2>1. /\ Len(h.seen) <= Len(Entries) /\ \A i \in 1 .. Len(h.seen) : h.seen[i] = Entries[i]
    BY <1>1, <1>2 DEF Listed
  <2>2. \/ Len(h.seen) = h.next - 1
        \/ h.dir = "away" /\ Len(h.seen) + 1 = h.next - 1
    BY <1>1, <1>2 DEF Listed
  <2>3. s.dir = "here" => \A o \in 1 .. n : ~Pending(s, o) /\ s.future[o] # "failed" /\ Len(s.seen) = s.next - 1
    BY <1>2 DEF Listed, Pending
  <2>4. Pending(h, n + 1) => k = "entry" /\ s.dir = "here"
    BY <1>1 DEF Pending
  <2>5. \A o \in 1 .. n : Pending(h, o) <=> Pending(s, o)
    BY <1>1 DEF Pending
  <2>6. ASSUME NEW o \in 1 .. n + 1 PROVE h.dir = "here" /\ h.kind[o] = "entry" => h.future[o] = "answered"
    BY <1>1, <1>2, <1>4 DEF Listed
  <2>7. ASSUME NEW o \in 1 .. n + 1, Pending(h, o), h.thread[o] = "running" PROVE Len(h.seen) = h.next - 1
    <3>1. CASE o = n + 1
      BY <1>1, <1>2, <2>4, <2>7, <3>1 DEF Listed
    <3>2. CASE o \in 1 .. n
      BY <1>1, <1>2, <2>5, <2>7, <3>2 DEF Listed
    <3> QED BY <1>4, <3>1, <3>2
  <2>8. ASSUME NEW o \in 1 .. n + 1, NEW w \in 1 .. n + 1, Pending(h, o), Pending(h, w) PROVE o = w
    BY <1>2, <1>4, <2>3, <2>4, <2>5, <2>8 DEF Listed
  <2>9. ASSUME NEW o \in 1 .. n + 1, NEW w \in 1 .. n + 1, h.future[o] = "failed"
        PROVE  h.dir = "away" /\ ~(h.kind[w] = "entry" /\ h.future[w] = "waiting")
    <3>1. s.dir = "away"
      BY <1>1, <1>2, <1>4, <2>9 DEF Listed
    <3>2. h.dir = "away"
      BY <1>1, <3>1
    <3>3. ~(h.kind[w] = "entry" /\ h.future[w] = "waiting")
      <4>1. CASE w = n + 1
        BY <1>1, <3>1, <4>1
      <4>2. CASE w \in 1 .. n
        BY <1>1, <4>2
      <4> QED BY <1>4, <4>1, <4>2
    <3> QED BY <3>2, <3>3
  <2>10. \A o \in 1 .. n + 1 :
           /\ h.dir = "here" /\ h.kind[o] = "entry" => h.future[o] = "answered"
           /\ Pending(h, o) /\ h.thread[o] = "running" => Len(h.seen) = h.next - 1
           /\ \A w \in 1 .. n + 1 : Pending(h, o) /\ Pending(h, w) => o = w
           /\ \A w \in 1 .. n + 1 :
                h.future[o] = "failed" => h.dir = "away" /\ ~(h.kind[w] = "entry" /\ h.future[w] = "waiting")
    BY <2>6, <2>7, <2>8, <2>9
  <2>11. Len(h.kind) = n + 1
    BY <1>1
  <2> QED BY <2>1, <2>2, <2>10, <2>11 DEF Listed
<1> QED BY <1>1, <1>6, <1>7, <1>8 DEF FsGood

LEMMA FsCalls ==
  ASSUME FilesInv, NEW h, h = fsys', Files!NextEntry \/ \E k \in Files!Kinds : Files!Call(k)
  PROVE  FsGood(h)
<1> PICK s : s = fsys
  OBVIOUS
<1>1. FsGood(s) /\ Begun(s)
  BY DEF FilesInv, FsGood
<1>2. /\ s \in Files!FsType /\ Len(s.kind) < MaxOps
      /\ \A o \in 1 .. Len(s.kind) : o \in Files!Ops /\ s.future[o] # "waiting"
  <2>1. Files!Idle /\ Len(s.kind) < MaxOps
    BY DEF Files!Call, Files!NextEntry
  <2> QED BY <1>1, <2>1, FsFields DEF Files!Idle, FsGood
<1>3. CASE Files!NextEntry
  <2>1. CASE s.dir = "here"
    <3>1. h = Files!Started([s EXCEPT !.dir = "away"], "entry", "running", "waiting")
      BY <1>3, <2>1 DEF Files!NextEntry
    <3>2. FsStarts(s, h, "entry", "running", "waiting", "away")
      BY <1>1, <1>2, <3>1, FsStarted DEF Files!Kinds
    <3> QED BY <1>1, <1>2, <2>1, <3>2, StartIsGood
  <2>2. CASE s.dir # "here"
    <3>1. s.dir = "away" /\ s = [s EXCEPT !.dir = "away"]
      BY <1>2, <2>2 DEF Files!FsType
    <3>2. h = Files!Started([s EXCEPT !.dir = "away"], "entry", "none", "failed")
      BY <1>3, <2>2, <3>1 DEF Files!NextEntry
    <3>3. FsStarts(s, h, "entry", "none", "failed", "away")
      BY <1>1, <1>2, <3>2, FsStarted DEF Files!Kinds
    <3> QED BY <1>1, <1>2, <3>1, <3>3, StartIsGood
  <2> QED BY <2>1, <2>2
<1>4. ASSUME NEW k \in Files!Kinds, Files!Call(k) PROVE FsGood(h)
  <2> PICK dir : dir = s.dir
    OBVIOUS
  <2>1. dir \in {"here", "away"} /\ s = [s EXCEPT !.dir = dir]
    BY <1>2 DEF Files!FsType
  <2>2. k \in {"read", "write"} /\ ~Files!Late /\ h = Files!Started(s, k, "running", "waiting")
    BY <1>4 DEF Files!Call
  <2>3. h = Files!Started([s EXCEPT !.dir = dir], k, "running", "waiting")
    BY <2>1, <2>2
  <2>4. FsStarts(s, h, k, "running", "waiting", dir)
    <3>1. FsGood(s) /\ Len(s.kind) < MaxOps /\ k \in Files!Kinds /\ dir \in {"here", "away"}
      BY <1>1, <1>2, <1>4, <2>1
    <3> QED BY <2>3, <3>1, FsStarted
  <2>5. ASSUME NEW o \in 1 .. Len(s.kind) PROVE s.thread[o] # "running"
    <3>1. OpGood(s, o)
      BY <1>1 DEF Begun
    <3> QED BY <1>2, <2>2, <3>1 DEF OpGood, Files!Late
  <2> QED BY <1>1, <1>2, <2>2, <2>4, <2>5, StartIsGood
<1> QED BY <1>3, <1>4

(* The operation o goes on: the operations stay, but for o's state. *)
FsGoesOn(s, h, o, th, fu) ==
  /\ h \in Files!FsType /\ h.kind = s.kind /\ h.thread[o] = th /\ h.future[o] = fu
  /\ \A w \in Files!Ops : w # o => h.thread[w] = s.thread[w] /\ h.future[w] = s.future[w]

FsUpdate(s, o, th, fu, file, found, written, dir, next, seen) ==
  [s EXCEPT !.thread = [s.thread EXCEPT ![o] = th], !.future = [s.future EXCEPT ![o] = fu],
            !.result = [s.result EXCEPT ![o] = found], !.file = file, !.written = written,
            !.dir = dir, !.next = next, !.seen = seen]

FsUpdatedTo(s, h, o, th, fu, file, found, written, dir, next, seen) ==
  /\ FsGoesOn(s, h, o, th, fu) /\ h.file = file /\ h.written = written /\ h.dir = dir
  /\ h.next = next /\ h.seen = seen /\ h.result[o] = found
  /\ \A w \in Files!Ops : w # o => h.result[w] = s.result[w]

FsFits(s, o, th, fu, file, found, written, dir, next, seen) ==
  /\ FsGood(s) /\ o \in Files!Ops /\ th \in {"running", "done"}
  /\ fu \in {"waiting", "answered", "dropped"}
  /\ file \in 0 .. MaxOps /\ found \in 0 .. MaxOps /\ written \in 0 .. MaxOps
  /\ dir \in {"here", "away"} /\ next \in 1 .. Len(Entries) + 1 /\ seen \in Seq(Nat)

LEMMA FsUpdated ==
  ASSUME NEW s, NEW o, NEW th, NEW fu, NEW file, NEW found, NEW written, NEW dir, NEW next, NEW seen,
         FsFits(s, o, th, fu, file, found, written, dir, next, seen),
         NEW h, h = FsUpdate(s, o, th, fu, file, found, written, dir, next, seen)
  PROVE  FsUpdatedTo(s, h, o, th, fu, file, found, written, dir, next, seen)
<1>1. /\ s \in Files!FsType /\ s.kind \in Seq(Files!Kinds)
      /\ s.thread \in [Files!Ops -> {"none", "running", "done"}]
      /\ s.future \in [Files!Ops -> {"none", "waiting", "answered", "dropped", "failed"}]
      /\ s.result \in [Files!Ops -> 0 .. MaxOps]
  BY FsFields DEF FsGood, FsFits
<1>8. o \in Files!Ops /\ th \in {"running", "done"} /\ fu \in {"waiting", "answered", "dropped"}
      /\ found \in 0 .. MaxOps
  BY DEF FsFits
<1> DEFINE thread == [s.thread EXCEPT ![o] = th]
           future == [s.future EXCEPT ![o] = fu]
           result == [s.result EXCEPT ![o] = found]
<1>2. /\ thread \in [Files!Ops -> {"none", "running", "done"}]
      /\ future \in [Files!Ops -> {"none", "waiting", "answered", "dropped", "failed"}]
      /\ thread[o] = th /\ future[o] = fu
      /\ \A w \in Files!Ops : w # o => thread[w] = s.thread[w] /\ future[w] = s.future[w]
  BY <1>1, <1>8
<1>3. /\ result \in [Files!Ops -> 0 .. MaxOps] /\ result[o] = found
      /\ \A w \in Files!Ops : w # o => result[w] = s.result[w]
  BY <1>1, <1>8
<1> HIDE DEF thread, future, result
<1>4. h = [s EXCEPT !.thread = thread, !.future = future, !.result = result, !.file = file,
                    !.written = written, !.dir = dir, !.next = next, !.seen = seen]
  BY DEF thread, future, result, FsUpdate
<1>5. /\ h.kind = s.kind /\ h.thread = thread /\ h.future = future /\ h.result = result
      /\ h.file = file /\ h.written = written /\ h.dir = dir /\ h.next = next /\ h.seen = seen
  BY <1>1, <1>4 DEF Files!FsType
<1>6. /\ file \in 0 .. MaxOps /\ written \in 0 .. MaxOps /\ dir \in {"here", "away"}
      /\ next \in 1 .. Len(Entries) + 1 /\ seen \in Seq(Nat)
  BY DEF FsFits
<1>7. h \in Files!FsType
  <2>1. /\ thread \in [Files!Ops -> {"none", "running", "done"}]
        /\ future \in [Files!Ops -> {"none", "waiting", "answered", "dropped", "failed"}]
        /\ result \in [Files!Ops -> 0 .. MaxOps] /\ s \in Files!FsType
    BY <1>1, <1>2, <1>3
  <2>2. PICK g : g = [s EXCEPT !.thread = thread, !.future = future, !.result = result]
    OBVIOUS
  <2>3. g \in Files!FsType
    BY <2>1, <2>2 DEF Files!FsType
  <2>4. h = [g EXCEPT !.file = file, !.written = written, !.dir = dir, !.next = next, !.seen = seen]
    BY <1>4, <2>2
  <2> QED BY <1>6, <2>3, <2>4 DEF Files!FsType
<1> QED BY <1>2, <1>3, <1>5, <1>7 DEF FsGoesOn, FsUpdatedTo

(* An operation goes on, it does not go back. *)
FsAdvances(s, o, th, fu) ==
  /\ o \in 1 .. Len(s.kind) /\ s.future[o] # "failed"
  /\ th = s.thread[o] \/ th = "done"
  /\ fu = s.future[o] \/ fu = "dropped" \/ (fu = "answered" /\ th = "done")

LEMMA FsBegunStays ==
  ASSUME NEW s, FsGood(s), NEW o, NEW h, NEW th, NEW fu, FsGoesOn(s, h, o, th, fu), FsAdvances(s, o, th, fu)
  PROVE  Begun(h)
<1>1. Begun(s)
  BY DEF FsGood
<1>2. /\ Len(h.kind) = Len(s.kind) /\ h.kind = s.kind
      /\ h.thread[o] = th /\ h.future[o] = fu
      /\ \A w \in Files!Ops : w # o => h.thread[w] = s.thread[w] /\ h.future[w] = s.future[w]
  BY DEF FsGoesOn
<1>9. /\ o \in 1 .. Len(s.kind) /\ s.future[o] # "failed"
      /\ th = s.thread[o] \/ th = "done"
      /\ fu = s.future[o] \/ fu = "dropped" \/ (fu = "answered" /\ th = "done")
  BY DEF FsAdvances
<1>3. /\ Len(s.kind) \in Nat /\ o \in Nat /\ o \in Files!Ops
      /\ \A w \in 1 .. Len(s.kind) : w \in Files!Ops
      /\ Len(s.kind) <= MaxOps
  BY <1>9, FsFields
<1>4. \A w \in Files!Ops : w > Len(h.kind) => h.thread[w] = "none" /\ h.future[w] = "none"
  BY <1>1, <1>2, <1>3, <1>9 DEF Begun
<1>5. OpGood(s, o)
  BY <1>1, <1>9 DEF Begun
<1>6. ASSUME NEW w \in 1 .. Len(s.kind) PROVE OpGood(h, w)
  <2>1. CASE w = o
    BY <1>2, <1>5, <1>9, <2>1 DEF OpGood
  <2>2. CASE w # o
    BY <1>1, <1>2, <1>3, <2>2 DEF OpGood, Begun
  <2> QED BY <2>1, <2>2
<1>7. ASSUME NEW w \in 1 .. Len(s.kind) PROVE h.future[w] = "waiting" => w = Len(s.kind)
  BY <1>1, <1>2, <1>3, <1>9 DEF Begun
<1>8. ASSUME NEW w \in 1 .. Len(s.kind), h.thread[w] = "running", NEW x \in 1 .. Len(s.kind), x > w
      PROVE  h.kind[x] = "entry"
  <2>1. s.thread[w] = "running"
    BY <1>2, <1>3, <1>8, <1>9
  <2> QED BY <1>1, <1>2, <1>8, <2>1 DEF Begun
<1> QED BY <1>2, <1>3, <1>4, <1>6, <1>7, <1>8 DEF Begun

(* What does not touch the file *)
LEMMA FsFiledStays ==
  ASSUME NEW s, FsGood(s), NEW o \in 1 .. Len(s.kind), NEW h, NEW th, NEW fu, FsGoesOn(s, h, o, th, fu),
         h.file = s.file, h.written = s.written, h.result = s.result,
         s.kind[o] # "entry" => th = s.thread[o],
         s.kind[o] = "write" => (fu = "answered" <=> s.future[o] = "answered")
  PROVE  Filed(h)
<1>1. Filed(s)
  BY DEF FsGood
<1>2. /\ Len(h.kind) = Len(s.kind) /\ h.kind = s.kind
      /\ h.thread[o] = th /\ h.future[o] = fu
      /\ \A w \in Files!Ops : w # o => h.thread[w] = s.thread[w] /\ h.future[w] = s.future[w]
  BY DEF FsGoesOn
<1>3. \A w \in 1 .. Len(s.kind) : w \in Files!Ops
  BY FsFields
<1>4. \A w \in 1 .. Len(s.kind) : s.kind[w] # "entry" => h.thread[w] = s.thread[w]
  BY <1>2, <1>3
<1>5. \A w \in 1 .. Len(s.kind) : s.kind[w] = "write" => (h.future[w] = "answered" <=> s.future[w] = "answered")
  BY <1>2, <1>3
<1>6. h.file # 0 => h.file \in 1 .. Len(h.kind) /\ h.kind[h.file] = "write" /\ h.thread[h.file] = "done"
  BY <1>1, <1>2, <1>4 DEF Filed
<1>7. \A w \in 1 .. Len(h.kind) : h.kind[w] = "write" /\ h.thread[w] = "done" => w <= h.file
  BY <1>1, <1>2, <1>4 DEF Filed
<1>8. h.written # 0 => h.written \in 1 .. Len(h.kind) /\ h.kind[h.written] = "write" /\ h.future[h.written] = "answered"
  BY <1>1, <1>2, <1>5 DEF Filed
<1>9. \A w \in 1 .. Len(h.kind) : h.kind[w] = "write" /\ h.future[w] = "answered" => w <= h.written
  BY <1>1, <1>2, <1>5 DEF Filed
<1>10. \A w \in 1 .. Len(h.kind) :
         h.kind[w] = "read" /\ h.thread[w] = "done" => LastBefore(h, h.result[w], w)
  BY <1>1, <1>2, <1>4 DEF Filed, LastBefore
<1> QED BY <1>6, <1>7, <1>8, <1>9, <1>10 DEF Filed

(* What does not touch the directory's stream *)
FsLeavesStream(s, h, o, th, fu) ==
  /\ FsGoesOn(s, h, o, th, fu)
  /\ h.next = s.next /\ h.seen = s.seen /\ h.dir = s.dir /\ s.future[o] # "failed" /\ fu # "failed"
  /\ th = "running" => s.thread[o] = "running"
  /\ fu = "waiting" => s.future[o] = "waiting"
  /\ s.kind[o] = "entry" => s.future[o] = "waiting" /\ fu = "dropped"

LEMMA FsListedStays ==
  ASSUME NEW s, FsGood(s), NEW o \in 1 .. Len(s.kind), NEW h, NEW th, NEW fu, FsLeavesStream(s, h, o, th, fu)
  PROVE  Listed(h)
<1> USE DEF FsLeavesStream
<1>1. Listed(s)
  BY DEF FsGood
<1>2. /\ Len(h.kind) = Len(s.kind) /\ h.kind = s.kind
      /\ h.thread[o] = th /\ h.future[o] = fu
      /\ \A w \in Files!Ops : w # o => h.thread[w] = s.thread[w] /\ h.future[w] = s.future[w]
  BY DEF FsGoesOn
<1>3. \A w \in 1 .. Len(s.kind) : w \in Files!Ops
  BY FsFields
<1>4. \A w \in 1 .. Len(s.kind) : (h.thread[w] = "running" => s.thread[w] = "running")
  BY <1>2, <1>3
<1>5. \A w \in 1 .. Len(s.kind) : Pending(h, w) <=> Pending(s, w)
  BY <1>2, <1>3 DEF Pending
<1>6. \A w \in 1 .. Len(s.kind) :
        /\ h.future[w] = "failed" => s.future[w] = "failed"
        /\ h.future[w] = "waiting" => s.future[w] = "waiting"
  BY <1>2, <1>3
<1>7. \A w \in 1 .. Len(s.kind) : s.dir = "here" /\ s.kind[w] = "entry" => h.future[w] = "answered"
  BY <1>1, <1>2, <1>3 DEF Listed
<1>8. \A w \in 1 .. Len(h.kind) :
        /\ h.dir = "here" /\ h.kind[w] = "entry" => h.future[w] = "answered"
        /\ Pending(h, w) /\ h.thread[w] = "running" => Len(h.seen) = h.next - 1
        /\ \A x \in 1 .. Len(h.kind) : Pending(h, w) /\ Pending(h, x) => w = x
        /\ \A x \in 1 .. Len(h.kind) :
             h.future[w] = "failed" => h.dir = "away" /\ ~(h.kind[x] = "entry" /\ h.future[x] = "waiting")
  BY <1>1, <1>2, <1>4, <1>5, <1>6, <1>7 DEF Listed
<1> QED BY <1>1, <1>2, <1>8 DEF Listed

LEMMA FsRunning ==
  ASSUME NEW s, FsGood(s), NEW o \in Files!Ops, s.thread[o] = "running" \/ s.future[o] = "waiting"
  PROVE  /\ o \in 1 .. Len(s.kind) /\ s.future[o] \in {"waiting", "dropped"}
         /\ s.thread[o] \in {"running", "done"}
<1>1. Begun(s) /\ Len(s.kind) \in Nat /\ o \in 1 .. MaxOps /\ MaxOps \in Nat
  BY FsFields, FsSizes DEF FsGood
<1>2. o \in 1 .. Len(s.kind)
  BY <1>1 DEF Begun
<1>3. OpGood(s, o)
  BY <1>1, <1>2 DEF Begun
<1> QED BY <1>2, <1>3 DEF OpGood

(* The values an operation's step does not change have their types. *)
LEMMA FsSame ==
  ASSUME NEW s, FsGood(s), NEW o \in Files!Ops
  PROVE  /\ s.file \in 0 .. MaxOps /\ s.result[o] \in 0 .. MaxOps /\ s.written \in 0 .. MaxOps
         /\ s.dir \in {"here", "away"} /\ s.next \in 1 .. Len(Entries) + 1 /\ s.seen \in Seq(Nat)
         /\ o \in 0 .. MaxOps
<1>1. o \in 0 .. MaxOps
  BY FsSizes
<1> QED BY <1>1, FsFields

LEMMA FsWrites ==
  ASSUME NEW s, FsGood(s), NEW o \in Files!Ops, s.thread[o] = "running", s.kind[o] = "write",
         NEW h, h = [s EXCEPT !.thread[o] = "done", !.file = o]
  PROVE  FsGood(h)
<1>1. /\ o \in 1 .. Len(s.kind) /\ s.future[o] \in {"waiting", "dropped"} /\ o \in Nat
      /\ Begun(s) /\ Filed(s) /\ \A w \in 1 .. Len(s.kind) : w \in Files!Ops /\ w \in Nat
  BY FsRunning, FsFields DEF FsGood
<1> PICK fu : fu = s.future[o]
  OBVIOUS
<1>2. h = FsUpdate(s, o, "done", fu, o, s.result[o], s.written, s.dir, s.next, s.seen)
  BY DEF FsGood, Files!FsType, FsUpdate
<1>3. /\ FsGoesOn(s, h, o, "done", fu) /\ h.file = o /\ h.written = s.written /\ h.dir = s.dir
      /\ h.next = s.next /\ h.seen = s.seen /\ h.result[o] = s.result[o]
      /\ \A w \in Files!Ops : w # o => h.result[w] = s.result[w]
  <2>1. /\ s.file \in 0 .. MaxOps /\ s.result[o] \in 0 .. MaxOps /\ s.written \in 0 .. MaxOps
        /\ s.dir \in {"here", "away"} /\ s.next \in 1 .. Len(Entries) + 1 /\ s.seen \in Seq(Nat)
        /\ o \in 0 .. MaxOps
    BY FsSame
  <2>2. FsUpdatedTo(s, h, o, "done", fu, o, s.result[o], s.written, s.dir, s.next, s.seen)
    <3>1. FsFits(s, o, "done", fu, o, s.result[o], s.written, s.dir, s.next, s.seen)
      BY <1>1, <1>2, <2>1 DEF FsFits
    <3> QED BY <1>2, <3>1, FsUpdated
  <2> QED BY <2>2 DEF FsUpdatedTo
<1>4. Begun(h)
  <2>1. FsAdvances(s, o, "done", fu)
    BY <1>1, <1>3 DEF FsAdvances
  <2> QED BY <1>1, <1>3, <2>1, FsBegunStays
<1>5. Listed(h)
  <2>1. FsLeavesStream(s, h, o, "done", fu)
    BY <1>1, <1>3 DEF FsLeavesStream
  <2> QED BY <1>1, <2>1, FsListedStays
<1>6. /\ h \in Files!FsType /\ h.kind = s.kind /\ h.thread[o] = "done"
      /\ \A w \in 1 .. Len(s.kind) : w # o => h.thread[w] = s.thread[w]
      /\ \A w \in 1 .. Len(s.kind) : h.future[w] = s.future[w] /\ h.result[w] = s.result[w]
  BY <1>1, <1>3 DEF FsGoesOn
<1>7. Filed(h)
  <2>1. h.file # 0 => h.file \in 1 .. Len(h.kind) /\ h.kind[h.file] = "write" /\ h.thread[h.file] = "done"
    BY <1>1, <1>3, <1>6
  <2>2. ASSUME NEW w \in 1 .. Len(s.kind), h.kind[w] = "write" PROVE w <= h.file
    <3>1. ~(w > o)
      BY <1>1, <1>6, <2>2 DEF Begun
    <3> QED BY <1>1, <1>3, <3>1
  <2>3. h.written # 0 => h.written \in 1 .. Len(h.kind) /\ h.kind[h.written] = "write" /\ h.future[h.written] = "answered"
    BY <1>1, <1>3, <1>6 DEF Filed
  <2>4. \A w \in 1 .. Len(h.kind) : h.kind[w] = "write" /\ h.future[w] = "answered" => w <= h.written
    BY <1>1, <1>3, <1>6 DEF Filed
  <2>5. \A w \in 1 .. Len(h.kind) :
          h.kind[w] = "read" /\ h.thread[w] = "done" => LastBefore(h, h.result[w], w)
    BY <1>1, <1>6 DEF Filed, LastBefore
  <2> QED BY <1>6, <2>1, <2>2, <2>3, <2>4, <2>5 DEF Filed
<1> QED BY <1>4, <1>5, <1>6, <1>7 DEF FsGood

LEMMA FsReads ==
  ASSUME NEW s, FsGood(s), NEW o \in Files!Ops, s.thread[o] = "running", s.kind[o] = "read",
         NEW h, h = [s EXCEPT !.thread[o] = "done", !.result[o] = s.file]
  PROVE  FsGood(h)
<1>1. /\ o \in 1 .. Len(s.kind) /\ s.future[o] \in {"waiting", "dropped"} /\ o \in Nat
      /\ Begun(s) /\ Filed(s) /\ \A w \in 1 .. Len(s.kind) : w \in Files!Ops /\ w \in Nat
  BY FsRunning, FsFields DEF FsGood
<1> PICK fu : fu = s.future[o]
  OBVIOUS
<1>2. h = FsUpdate(s, o, "done", fu, s.file, s.file, s.written, s.dir, s.next, s.seen)
  BY DEF FsGood, Files!FsType, FsUpdate
<1>3. /\ FsGoesOn(s, h, o, "done", fu) /\ h.file = s.file /\ h.written = s.written /\ h.dir = s.dir
      /\ h.next = s.next /\ h.seen = s.seen /\ h.result[o] = s.file
      /\ \A w \in Files!Ops : w # o => h.result[w] = s.result[w]
  <2>1. /\ s.file \in 0 .. MaxOps /\ s.result[o] \in 0 .. MaxOps /\ s.written \in 0 .. MaxOps
        /\ s.dir \in {"here", "away"} /\ s.next \in 1 .. Len(Entries) + 1 /\ s.seen \in Seq(Nat)
        /\ o \in 0 .. MaxOps
    BY FsSame
  <2>2. FsUpdatedTo(s, h, o, "done", fu, s.file, s.file, s.written, s.dir, s.next, s.seen)
    <3>1. FsFits(s, o, "done", fu, s.file, s.file, s.written, s.dir, s.next, s.seen)
      BY <1>1, <1>2, <2>1 DEF FsFits
    <3> QED BY <1>2, <3>1, FsUpdated
  <2> QED BY <2>2 DEF FsUpdatedTo
<1>4. Begun(h)
  <2>1. FsAdvances(s, o, "done", fu)
    BY <1>1, <1>3 DEF FsAdvances
  <2> QED BY <1>1, <1>3, <2>1, FsBegunStays
<1>5. Listed(h)
  <2>1. FsLeavesStream(s, h, o, "done", fu)
    BY <1>1, <1>3 DEF FsLeavesStream
  <2> QED BY <1>1, <2>1, FsListedStays
<1>6. /\ h \in Files!FsType /\ h.kind = s.kind /\ h.thread[o] = "done"
      /\ \A w \in 1 .. Len(s.kind) : w # o => h.thread[w] = s.thread[w] /\ h.result[w] = s.result[w]
      /\ \A w \in 1 .. Len(s.kind) : h.future[w] = s.future[w]
  BY <1>1, <1>3 DEF FsGoesOn
(* No write was on its way when the read was begun. *)
<1>7. LastBefore(h, s.file, o)
  <2>1. ASSUME s.file # 0 PROVE s.file \in 1 .. o - 1 /\ h.kind[s.file] = "write"
    <3>1. s.file \in 1 .. Len(s.kind) /\ s.kind[s.file] = "write"
      BY <1>1, <2>1 DEF Filed
    <3>2. ~(s.file > o) /\ s.file # o
      BY <1>1, <3>1 DEF Begun
    <3>3. s.file \in Nat
      BY <1>1, <3>1
    <3> QED BY <1>1, <1>6, <3>1, <3>2, <3>3
  <2>2. ASSUME NEW w \in 1 .. o - 1, h.kind[w] = "write" PROVE w <= s.file
    <3>1. w \in 1 .. Len(s.kind) /\ o > w
      <4>1. Len(s.kind) \in Nat
        BY FsFields
      <4> QED BY <1>1, <4>1
    <3>2. OpGood(s, w) /\ s.thread[w] # "running"
      BY <1>1, <3>1 DEF Begun
    <3>3. s.thread[w] = "done"
      BY <1>6, <2>2, <3>2 DEF OpGood
    <3> QED BY <1>1, <1>6, <2>2, <3>1, <3>3 DEF Filed
  <2> QED BY <2>1, <2>2 DEF LastBefore
<1>8. Filed(h)
  <2>1. h.file # 0 => h.file \in 1 .. Len(h.kind) /\ h.kind[h.file] = "write" /\ h.thread[h.file] = "done"
    BY <1>1, <1>3, <1>6 DEF Filed
  <2>2. \A w \in 1 .. Len(h.kind) : h.kind[w] = "write" /\ h.thread[w] = "done" => w <= h.file
    BY <1>1, <1>3, <1>6 DEF Filed
  <2>3. h.written # 0 => h.written \in 1 .. Len(h.kind) /\ h.kind[h.written] = "write" /\ h.future[h.written] = "answered"
    BY <1>1, <1>3, <1>6 DEF Filed
  <2>4. \A w \in 1 .. Len(h.kind) : h.kind[w] = "write" /\ h.future[w] = "answered" => w <= h.written
    BY <1>1, <1>3, <1>6 DEF Filed
  <2>5. ASSUME NEW w \in 1 .. Len(h.kind), h.kind[w] = "read", h.thread[w] = "done"
        PROVE  LastBefore(h, h.result[w], w)
    <3>1. CASE w = o
      BY <1>3, <1>7, <3>1
    <3>2. CASE w # o
      BY <1>1, <1>6, <2>5, <3>2 DEF Filed, LastBefore
    <3> QED BY <3>1, <3>2
  <2> QED BY <2>1, <2>2, <2>3, <2>4, <2>5 DEF Filed
<1> QED BY <1>4, <1>5, <1>6, <1>8 DEF FsGood

LEMMA FsWalks ==
  ASSUME NEW s, FsGood(s), NEW o \in Files!Ops, s.thread[o] = "running", s.kind[o] = "entry",
         NEW h, h = [s EXCEPT !.thread[o] = "done", !.next = IF @ <= Len(Entries) THEN @ + 1 ELSE @]
  PROVE  FsGood(h)
<1>1. /\ o \in 1 .. Len(s.kind) /\ s.future[o] \in {"waiting", "dropped"} /\ o \in Nat
      /\ Begun(s) /\ Filed(s) /\ Listed(s) /\ \A w \in 1 .. Len(s.kind) : w \in Files!Ops /\ w \in Nat
  BY FsRunning, FsFields DEF FsGood
<1> PICK fu : fu = s.future[o]
  OBVIOUS
<1>10. PICK next : next = IF s.next <= Len(Entries) THEN s.next + 1 ELSE s.next
  OBVIOUS
<1>2. s.next \in 1 .. Len(Entries) + 1 /\ next \in 1 .. Len(Entries) + 1
  BY <1>10, FsSame, FsSizes
<1>3. h = FsUpdate(s, o, "done", fu, s.file, s.result[o], s.written, s.dir, next, s.seen)
  BY <1>10 DEF FsGood, Files!FsType, FsUpdate
<1>4. /\ FsGoesOn(s, h, o, "done", fu) /\ h.file = s.file /\ h.written = s.written /\ h.dir = s.dir
      /\ h.next = next /\ h.seen = s.seen
  <2>1. /\ s.file \in 0 .. MaxOps /\ s.result[o] \in 0 .. MaxOps /\ s.written \in 0 .. MaxOps
        /\ s.dir \in {"here", "away"} /\ s.next \in 1 .. Len(Entries) + 1 /\ s.seen \in Seq(Nat)
        /\ o \in 0 .. MaxOps
    BY FsSame
  <2>2. FsUpdatedTo(s, h, o, "done", fu, s.file, s.result[o], s.written, s.dir, next, s.seen)
    <3>1. FsFits(s, o, "done", fu, s.file, s.result[o], s.written, s.dir, next, s.seen)
      BY <1>1, <1>2, <1>3, <2>1 DEF FsFits
    <3> QED BY <1>3, <3>1, FsUpdated
  <2> QED BY <2>2 DEF FsUpdatedTo
<1>5. Begun(h)
  <2>1. FsAdvances(s, o, "done", fu)
    BY <1>1, <1>4 DEF FsAdvances
  <2> QED BY <1>1, <1>4, <2>1, FsBegunStays
<1>6. h.result = s.result
  BY DEF FsGood, Files!FsType
<1>7. Filed(h)
  BY <1>1, <1>4, <1>6, FsFiledStays
<1>8. /\ h \in Files!FsType /\ h.kind = s.kind /\ h.thread[o] = "done"
      /\ \A w \in 1 .. Len(s.kind) : w # o => h.thread[w] = s.thread[w]
      /\ \A w \in 1 .. Len(s.kind) : h.future[w] = s.future[w]
  BY <1>1, <1>4 DEF FsGoesOn
<1>9. Listed(h)
  <2>1. Pending(s, o) /\ s.dir = "away" /\ Len(s.seen) = s.next - 1
    <3>1. Pending(s, o)
      BY <1>1 DEF Pending
    <3>2. s.dir # "here" /\ Len(s.seen) = s.next - 1
      BY <1>1, <3>1 DEF Listed
    <3> QED BY <3>1, <3>2, FsSame
  <2>2. Len(h.seen) = h.next - 1 \/ Len(h.seen) + 1 = h.next - 1
    <3>1. s.next \in Nat /\ (next = s.next \/ next = s.next + 1)
      BY <1>2, <1>10, FsSizes
    <3>2. s.next - 1 + 1 = s.next + 1 - 1
      BY <3>1
    <3> QED BY <1>4, <2>1, <3>1, <3>2
  <2>3. \A w \in 1 .. Len(s.kind) : Pending(h, w) <=> Pending(s, w)
    BY <1>8 DEF Pending
  <2>4. \A w \in 1 .. Len(s.kind) : Pending(h, w) => h.thread[w] # "running"
    BY <1>1, <1>8, <2>1, <2>3 DEF Listed
  <2>5. h.dir = "away" /\ Len(h.kind) = Len(s.kind)
    BY <1>4, <1>8, <2>1
  <2>6. \A w \in 1 .. Len(h.kind) :
          /\ h.dir = "here" /\ h.kind[w] = "entry" => h.future[w] = "answered"
          /\ Pending(h, w) /\ h.thread[w] = "running" => Len(h.seen) = h.next - 1
          /\ \A x \in 1 .. Len(h.kind) : Pending(h, w) /\ Pending(h, x) => w = x
          /\ \A x \in 1 .. Len(h.kind) :
               h.future[w] = "failed" => h.dir = "away" /\ ~(h.kind[x] = "entry" /\ h.future[x] = "waiting")
    BY <1>1, <1>8, <2>3, <2>4, <2>5 DEF Listed
  <2> QED BY <1>1, <1>4, <2>2, <2>5, <2>6 DEF Listed
<1> QED BY <1>5, <1>7, <1>8, <1>9 DEF FsGood

LEMMA FsAnswersWrite ==
  ASSUME NEW s, FsGood(s), NEW o \in Files!Ops, s.future[o] = "waiting", s.thread[o] = "done",
         s.kind[o] = "write", NEW h, h = [s EXCEPT !.future[o] = "answered", !.written = o]
  PROVE  FsGood(h)
<1>1. /\ o \in 1 .. Len(s.kind) /\ o \in Nat /\ o = Len(s.kind)
      /\ Begun(s) /\ Filed(s) /\ \A w \in 1 .. Len(s.kind) : w \in Files!Ops /\ w \in Nat
  BY FsRunning, FsFields DEF FsGood, Begun
<1>2. h = FsUpdate(s, o, "done", "answered", s.file, s.result[o], o, s.dir, s.next, s.seen)
  BY DEF FsGood, Files!FsType, FsUpdate
<1>3. /\ FsGoesOn(s, h, o, "done", "answered") /\ h.file = s.file /\ h.written = o /\ h.dir = s.dir
      /\ h.next = s.next /\ h.seen = s.seen /\ h.result[o] = s.result[o]
      /\ \A w \in Files!Ops : w # o => h.result[w] = s.result[w]
  <2>1. /\ s.file \in 0 .. MaxOps /\ s.result[o] \in 0 .. MaxOps /\ s.written \in 0 .. MaxOps
        /\ s.dir \in {"here", "away"} /\ s.next \in 1 .. Len(Entries) + 1 /\ s.seen \in Seq(Nat)
        /\ o \in 0 .. MaxOps
    BY FsSame
  <2>2. FsUpdatedTo(s, h, o, "done", "answered", s.file, s.result[o], o, s.dir, s.next, s.seen)
    <3>1. FsFits(s, o, "done", "answered", s.file, s.result[o], o, s.dir, s.next, s.seen)
      BY <1>2, <2>1 DEF FsFits
    <3> QED BY <1>2, <3>1, FsUpdated
  <2> QED BY <2>2 DEF FsUpdatedTo
<1>8. o \in 1 .. Len(s.kind)
  BY <1>1
<1>4. Begun(h)
  <2>1. FsAdvances(s, o, "done", "answered")
    BY <1>8 DEF FsAdvances
  <2> QED BY <1>3, <2>1, FsBegunStays
<1>5. Listed(h)
  <2>1. FsLeavesStream(s, h, o, "done", "answered")
    BY <1>3 DEF FsLeavesStream
  <2> QED BY <1>8, <2>1, FsListedStays
<1>6. /\ h \in Files!FsType /\ h.kind = s.kind /\ h.future[o] = "answered"
      /\ \A w \in 1 .. Len(s.kind) : w # o => h.future[w] = s.future[w]
      /\ \A w \in 1 .. Len(s.kind) : h.thread[w] = s.thread[w] /\ h.result[w] = s.result[w]
  BY <1>1, <1>3 DEF FsGoesOn
<1>7. Filed(h)
  <2>1. h.file # 0 => h.file \in 1 .. Len(h.kind) /\ h.kind[h.file] = "write" /\ h.thread[h.file] = "done"
    BY <1>1, <1>3, <1>6 DEF Filed
  <2>2. \A w \in 1 .. Len(h.kind) : h.kind[w] = "write" /\ h.thread[w] = "done" => w <= h.file
    BY <1>1, <1>3, <1>6 DEF Filed
  <2>3. h.written # 0 => h.written \in 1 .. Len(h.kind) /\ h.kind[h.written] = "write" /\ h.future[h.written] = "answered"
    BY <1>1, <1>3, <1>6
  <2>4. \A w \in 1 .. Len(h.kind) : h.kind[w] = "write" /\ h.future[w] = "answered" => w <= h.written
    BY <1>1, <1>3, <1>6
  <2>5. \A w \in 1 .. Len(h.kind) :
          h.kind[w] = "read" /\ h.thread[w] = "done" => LastBefore(h, h.result[w], w)
    BY <1>1, <1>6 DEF Filed, LastBefore
  <2> QED BY <2>1, <2>2, <2>3, <2>4, <2>5 DEF Filed
<1> QED BY <1>4, <1>5, <1>6, <1>7 DEF FsGood

(* A read is answered, or anything is dropped: the future changes, no more. *)
LEMMA FsLetsGo ==
  ASSUME NEW s, FsGood(s), NEW o \in Files!Ops, s.future[o] = "waiting", NEW fu,
         fu = "dropped" \/ (fu = "answered" /\ s.kind[o] = "read" /\ s.thread[o] = "done"),
         NEW h, h = [s EXCEPT !.future[o] = fu]
  PROVE  FsGood(h)
<1>1. /\ o \in 1 .. Len(s.kind) /\ s.thread[o] \in {"running", "done"} /\ fu \in {"waiting", "answered", "dropped"}
  BY FsRunning
<1>8. PICK th : th = s.thread[o]
  OBVIOUS
<1>2. h = FsUpdate(s, o, th, fu, s.file, s.result[o], s.written, s.dir, s.next, s.seen)
  BY <1>8 DEF FsGood, Files!FsType, FsUpdate
<1>3. /\ FsGoesOn(s, h, o, th, fu) /\ h.file = s.file /\ h.written = s.written /\ h.dir = s.dir
      /\ h.next = s.next /\ h.seen = s.seen
  <2>1. /\ s.file \in 0 .. MaxOps /\ s.result[o] \in 0 .. MaxOps /\ s.written \in 0 .. MaxOps
        /\ s.dir \in {"here", "away"} /\ s.next \in 1 .. Len(Entries) + 1 /\ s.seen \in Seq(Nat)
    BY FsSame
  <2>2. FsUpdatedTo(s, h, o, th, fu, s.file, s.result[o], s.written, s.dir, s.next, s.seen)
    <3>1. FsFits(s, o, th, fu, s.file, s.result[o], s.written, s.dir, s.next, s.seen)
      BY <1>1, <1>8, <1>2, <2>1 DEF FsFits
    <3> QED BY <1>2, <3>1, FsUpdated
  <2> QED BY <2>2 DEF FsUpdatedTo
<1>4. h.result = s.result
  BY DEF FsGood, Files!FsType
<1>5. Begun(h)
  <2>1. FsAdvances(s, o, th, fu)
    BY <1>1, <1>3, <1>8 DEF FsAdvances
  <2> QED BY <1>1, <1>3, <1>8, <2>1, FsBegunStays
<1>6. Listed(h)
  <2>1. FsLeavesStream(s, h, o, th, fu)
    BY <1>1, <1>3, <1>8 DEF FsLeavesStream
  <2> QED BY <1>1, <2>1, FsListedStays
<1>7. Filed(h)
  <2>1. s.kind[o] = "write" => (fu = "answered" <=> s.future[o] = "answered")
    OBVIOUS
  <2> QED BY <1>1, <1>3, <1>4, <1>8, <2>1, FsFiledStays
<1> QED BY <1>3, <1>5, <1>6, <1>7 DEF FsGood, FsGoesOn

(* The stream comes back, with the entry it passed if there was one. *)
SeenUpTo(seen, next) ==
  /\ seen \in Seq(Nat) /\ Len(seen) = next - 1 /\ Len(seen) <= Len(Entries)
  /\ \A i \in 1 .. Len(seen) : seen[i] = Entries[i]

LEMMA FsPasses ==
  ASSUME NEW s, FsGood(s), NEW seen,
         seen = IF Len(s.seen) < s.next - 1 THEN Append(s.seen, Entries[Len(s.seen) + 1]) ELSE s.seen
  PROVE  SeenUpTo(seen, s.next)
<1>1. Listed(s)
  BY DEF FsGood
<1>2. s.next \in 1 .. Len(Entries) + 1 /\ s.seen \in Seq(Nat) /\ Len(s.seen) \in Nat
  BY FsFields
<1>11. PICK l \in Nat : l = Len(s.seen)
  BY <1>2
<1>12. seen = IF l < s.next - 1 THEN Append(s.seen, Entries[l + 1]) ELSE s.seen
  BY <1>11
<1>3. /\ seen \in Seq(Nat) /\ Len(seen) = s.next - 1 /\ Len(seen) <= Len(Entries)
      /\ \A i \in 1 .. Len(seen) : seen[i] = Entries[i]
  <2>1. s.next \in Nat /\ s.next <= Len(Entries) + 1 /\ Len(Entries) \in Nat /\ Entries \in Seq(Nat)
    BY <1>2, FsSizes
  <2>2. (l = s.next - 1 \/ l + 1 = s.next - 1) /\ l <= Len(Entries) /\ \A i \in 1 .. l : s.seen[i] = Entries[i]
    BY <1>1, <1>11 DEF Listed
  <2>3. CASE l = s.next - 1
    <3>2. ~(l < s.next - 1)
      BY <2>1, <2>3
    <3>1. seen = s.seen /\ Len(seen) = l
      BY <1>11, <1>12, <3>2
    <3> QED BY <1>2, <2>2, <2>3, <3>1
  <2>4. CASE l + 1 = s.next - 1
    <3>1. l + 1 \in 1 .. Len(Entries) /\ seen = Append(s.seen, Entries[l + 1])
      BY <1>12, <2>1, <2>4
    <3>2. Entries[l + 1] \in Nat
      BY <2>1, <3>1, ElementOfSeq
    <3>3. /\ seen \in Seq(Nat) /\ Len(seen) = l + 1 /\ seen[l + 1] = Entries[l + 1]
          /\ \A i \in 1 .. l : seen[i] = s.seen[i]
      BY <1>2, <1>11, <3>1, <3>2, AppendProperties
    <3>4. \A i \in 1 .. l + 1 : i \in 1 .. l \/ i = l + 1
      OBVIOUS
    <3>5. \A i \in 1 .. l + 1 : seen[i] = Entries[i]
      BY <2>2, <3>3, <3>4
    <3> QED BY <2>1, <2>4, <3>1, <3>3, <3>5
  <2> QED BY <2>2, <2>3, <2>4
<1> QED BY <1>3 DEF SeenUpTo

LEMMA FsReturns ==
  ASSUME NEW s, FsGood(s), NEW o \in Files!Ops, s.future[o] = "waiting", s.thread[o] = "done",
         s.kind[o] = "entry", NEW seen, SeenUpTo(seen, s.next),
         NEW h, h = [s EXCEPT !.future[o] = "answered", !.dir = "here", !.seen = seen]
  PROVE  FsGood(h)
<1>1. /\ o \in 1 .. Len(s.kind) /\ Begun(s) /\ Filed(s) /\ Listed(s)
      /\ \A w \in 1 .. Len(s.kind) : w \in Files!Ops /\ w \in Nat
  BY FsRunning, FsFields DEF FsGood
<1>2. /\ s.file \in 0 .. MaxOps /\ s.result[o] \in 0 .. MaxOps /\ s.written \in 0 .. MaxOps
      /\ s.next \in 1 .. Len(Entries) + 1 /\ s.seen \in Seq(Nat) /\ Len(s.seen) \in Nat
  BY FsSame, FsFields
<1>3. /\ seen \in Seq(Nat) /\ Len(seen) = s.next - 1 /\ Len(seen) <= Len(Entries)
      /\ \A i \in 1 .. Len(seen) : seen[i] = Entries[i]
  BY DEF SeenUpTo
<1>4. h = FsUpdate(s, o, "done", "answered", s.file, s.result[o], s.written, "here", s.next, seen)
  <2>1. [s.thread EXCEPT ![o] = "done"] = s.thread /\ [s.result EXCEPT ![o] = s.result[o]] = s.result
    BY DEF FsGood, Files!FsType
  <2>2. s \in Files!FsType
    BY DEF FsGood
  <2>3. [s EXCEPT !.thread = s.thread, !.future[o] = "answered", !.file = s.file, !.result = s.result,
                  !.written = s.written, !.dir = "here", !.next = s.next, !.seen = seen] = h
    BY <2>2 DEF Files!FsType
  <2> QED BY <2>1, <2>2, <2>3 DEF FsUpdate, Files!FsType
<1>5. /\ FsGoesOn(s, h, o, "done", "answered") /\ h.file = s.file /\ h.written = s.written /\ h.dir = "here"
      /\ h.next = s.next /\ h.seen = seen
  <2>1. FsUpdatedTo(s, h, o, "done", "answered", s.file, s.result[o], s.written, "here", s.next, seen)
    <3>1. FsFits(s, o, "done", "answered", s.file, s.result[o], s.written, "here", s.next, seen)
      BY <1>2, <1>3, <1>4 DEF FsFits
    <3> QED BY <1>4, <3>1, FsUpdated
  <2> QED BY <2>1 DEF FsUpdatedTo
<1>6. h.result = s.result
  BY DEF FsGood, Files!FsType
<1>7. Begun(h)
  <2>1. FsAdvances(s, o, "done", "answered")
    BY <1>1, <1>5 DEF FsAdvances
  <2> QED BY <1>1, <1>5, <2>1, FsBegunStays
<1>8. Filed(h)
  <2>1. o \in 1 .. Len(s.kind) /\ h.file = s.file /\ h.written = s.written
    BY <1>1, <1>5
  <2>2. FsGoesOn(s, h, o, "done", "answered")
    BY <1>5
  <2> QED BY <1>6, <2>1, <2>2, FsFiledStays
<1>9. /\ h \in Files!FsType /\ h.kind = s.kind /\ Len(h.kind) = Len(s.kind) /\ h.future[o] = "answered"
      /\ \A w \in 1 .. Len(s.kind) : w # o => h.future[w] = s.future[w]
  BY <1>1, <1>5 DEF FsGoesOn
<1>10. Listed(h)
  <2>1. Pending(s, o)
    BY DEF Pending
  <2>2. ASSUME NEW w \in 1 .. Len(s.kind), s.kind[w] = "entry" PROVE h.future[w] = "answered"
    <3>1. CASE w = o
      BY <1>9, <3>1
    <3>2. CASE w # o
      <4>1. OpGood(s, w)
        BY <1>1 DEF Begun
      <4>2. ~Pending(s, w) /\ s.future[w] # "failed"
        BY <1>1, <2>1, <3>2 DEF Listed
      <4>3. s.future[w] = "answered"
        BY <2>2, <4>1, <4>2 DEF OpGood, Pending
      <4> QED BY <1>9, <3>2, <4>3
    <3> QED BY <3>1, <3>2
  <2>3. \A w \in 1 .. Len(s.kind) : ~Pending(h, w)
    BY <1>9, <2>2 DEF Pending
  <2>4. ASSUME NEW w \in 1 .. Len(s.kind) PROVE h.future[w] # "failed"
    <3>1. s.future[w] # "failed"
      BY <1>1 DEF Listed
    <3> QED BY <1>9, <3>1
  <2>5. \A w \in 1 .. Len(h.kind) :
          /\ h.dir = "here" /\ h.kind[w] = "entry" => h.future[w] = "answered"
          /\ Pending(h, w) /\ h.thread[w] = "running" => Len(h.seen) = h.next - 1
          /\ \A x \in 1 .. Len(h.kind) : Pending(h, w) /\ Pending(h, x) => w = x
          /\ \A x \in 1 .. Len(h.kind) :
               h.future[w] = "failed" => h.dir = "away" /\ ~(h.kind[x] = "entry" /\ h.future[x] = "waiting")
    BY <1>9, <2>2, <2>3, <2>4
  <2>6. /\ Len(h.seen) <= Len(Entries) /\ \A i \in 1 .. Len(h.seen) : h.seen[i] = Entries[i]
        /\ Len(h.seen) = h.next - 1
    BY <1>3, <1>5
  <2> QED BY <2>5, <2>6 DEF Listed
<1> QED BY <1>7, <1>8, <1>9, <1>10 DEF FsGood

LEMMA FilesInit == ASSUME Files!Init PROVE FilesInv
<1>1. << >> \in Seq(Files!Kinds) /\ << >> \in Seq(Nat) /\ Len(<< >>) = 0
  BY EmptySeq
<1>2. fsys \in Files!FsType
  BY <1>1, FsSizes DEF Files!Init, Files!FsType
<1>3. /\ fsys.kind = << >> /\ fsys.file = 0 /\ fsys.written = 0 /\ fsys.next = 1 /\ fsys.seen = << >>
      /\ \A o \in Files!Ops : fsys.thread[o] = "none" /\ fsys.future[o] = "none"
  BY DEF Files!Init
<1>4. Begun(fsys)
  BY <1>1, <1>3, FsSizes DEF Begun
<1>5. Filed(fsys)
  BY <1>1, <1>3 DEF Filed
<1>6. Listed(fsys)
  BY <1>1, <1>3, FsSizes DEF Listed
<1> QED BY <1>2, <1>4, <1>5, <1>6 DEF FilesInv, FsGood

LEMMA FilesNext == ASSUME FilesInv, [Files!Next]_fsys PROVE FilesInv'
<1>1. PICK h : h = fsys'
  OBVIOUS
<1>2. PICK s : s = fsys
  OBVIOUS
<1> SUFFICES FsGood(h)
  BY <1>1 DEF FilesInv, FsGood, Begun, Filed, Listed, OpGood, LastBefore, Pending
<1>3. FsGood(s)
  BY <1>2 DEF FilesInv
<1>4. CASE UNCHANGED fsys
  <2>1. h = s
    BY <1>1, <1>2, <1>4
  <2> QED BY <1>3, <2>1
<1>5. CASE Files!NextEntry \/ \E k \in Files!Kinds : Files!Call(k)
  BY <1>1, <1>5, FsCalls
<1>6. ASSUME NEW o \in Files!Ops, Files!Work(o) PROVE FsGood(h)
  <2>1. o \in 1 .. Len(s.kind) /\ s.kind[o] \in Files!Kinds /\ s.thread[o] = "running"
    <3>1. s.thread[o] = "running"
      BY <1>2, <1>6 DEF Files!Work
    <3>2. o \in 1 .. Len(s.kind)
      BY <1>3, <3>1, FsRunning
    <3> QED BY <1>3, <3>1, <3>2, FsFields
  <2>2. CASE s.kind[o] = "write"
    <3>1. h = [s EXCEPT !.thread[o] = "done", !.file = o]
      BY <1>1, <1>2, <1>6, <2>2 DEF Files!Work
    <3> QED BY <1>3, <2>1, <2>2, <3>1, FsWrites
  <2>3. CASE s.kind[o] = "read"
    <3>1. h = [s EXCEPT !.thread[o] = "done", !.result[o] = s.file]
      BY <1>1, <1>2, <1>3, <1>6, <2>3 DEF Files!Work, FsGood, Files!FsType
    <3> QED BY <1>3, <2>1, <2>3, <3>1, FsReads
  <2>4. CASE s.kind[o] = "entry"
    <3>1. h = [s EXCEPT !.thread[o] = "done", !.next = IF @ <= Len(Entries) THEN @ + 1 ELSE @]
      BY <1>1, <1>2, <1>3, <1>6, <2>4 DEF Files!Work, FsGood, Files!FsType
    <3> QED BY <1>3, <2>1, <2>4, <3>1, FsWalks
  <2> QED BY <2>1, <2>2, <2>3, <2>4 DEF Files!Kinds
<1>7. ASSUME NEW o \in Files!Ops, Files!Answer(o) PROVE FsGood(h)
  <2>1. /\ o \in 1 .. Len(s.kind) /\ s.kind[o] \in Files!Kinds
        /\ s.future[o] = "waiting" /\ s.thread[o] = "done"
    <3>1. s.future[o] = "waiting" /\ s.thread[o] = "done"
      BY <1>2, <1>7 DEF Files!Answer, Files!Done
    <3>2. o \in 1 .. Len(s.kind)
      BY <1>3, <3>1, FsRunning
    <3> QED BY <1>3, <3>1, <3>2, FsFields
  <2>2. CASE s.kind[o] = "write"
    <3>1. h = [s EXCEPT !.future[o] = "answered", !.written = o]
      BY <1>1, <1>2, <1>7, <2>2 DEF Files!Answer
    <3> QED BY <1>3, <2>1, <2>2, <3>1, FsAnswersWrite
  <2>3. CASE s.kind[o] = "read"
    <3>1. h = [s EXCEPT !.future[o] = "answered"]
      BY <1>1, <1>2, <1>7, <2>3 DEF Files!Answer
    <3> QED BY <1>3, <2>1, <2>3, <3>1, FsLetsGo
  <2>4. CASE s.kind[o] = "entry"
    <3>1. PICK seen :
            seen = IF Len(s.seen) < s.next - 1 THEN Append(s.seen, Entries[Len(s.seen) + 1]) ELSE s.seen
      OBVIOUS
    <3>2. SeenUpTo(seen, s.next)
      BY <1>3, <3>1, FsPasses
    <3>3. h = [s EXCEPT !.future[o] = "answered", !.dir = "here", !.seen = seen]
      BY <1>1, <1>2, <1>3, <1>7, <2>4, <3>1 DEF Files!Answer, FsGood, Files!FsType
    <3> QED BY <1>3, <2>1, <2>4, <3>2, <3>3, FsReturns
  <2> QED BY <2>1, <2>2, <2>3, <2>4 DEF Files!Kinds
<1>8. ASSUME NEW o \in Files!Ops, Files!Cancel(o) PROVE FsGood(h)
  <2>1. s.future[o] = "waiting" /\ h = [s EXCEPT !.future[o] = "dropped"]
    BY <1>1, <1>2, <1>8 DEF Files!Cancel
  <2> QED BY <1>3, <2>1, FsLetsGo
<1> QED BY <1>4, <1>5, <1>6, <1>7, <1>8 DEF Files!Next

=============================================================================
