------------------------------- MODULE ReadBuf -------------------------------
(***************************************************************************)
(* The shim's ReadBuf: a slice, how much of it is filled, and how much of  *)
(* it is initialized.  The slice may be made of memory nobody wrote yet;   *)
(* `real' is what was written.  A caller may use every operation at any    *)
(* time, must write n bytes before it says assume_init(n), and panics at   *)
(* an assertion, which changes nothing.                                    *)
(***************************************************************************)
EXTENDS Naturals, FiniteSetsExt

CONSTANT Capacity

ReadBufAssumption == Capacity \in Nat

VARIABLE rb

ReadBufType ==
  [ filled      : 0 .. Capacity,
    initialized : 0 .. Capacity,
    real        : SUBSET (1 .. Capacity) ]

TypeOK == rb \in ReadBufType

New    == [filled |-> 0, initialized |-> Capacity, real |-> 1 .. Capacity]
Uninit == [filled |-> 0, initialized |-> 0, real |-> {}]

Init == rb \in {New, Uninit}

-----------------------------------------------------------------------------
Remaining == Capacity - rb.filled
After(n)  == rb.filled + 1 .. rb.filled + n        \* the n bytes after filled

(* Through unfilled_mut or inner_mut, not necessarily from the start. *)
WriteUnfilled(i) == i > rb.filled /\ rb' = [rb EXCEPT !.real = @ \cup {i}]

InitializeUnfilledTo(n) ==
  /\ n <= Remaining
  /\ LET end == rb.filled + n IN
     rb' = IF rb.initialized < end
           THEN [rb EXCEPT !.real = @ \cup (rb.initialized + 1 .. end), !.initialized = end]
           ELSE rb

UpToCapacity(n) == n <= Capacity      \* mutant: asserts the wrong bound
UpToInitialized(n) == n <= rb.initialized

SetFilled(n) ==
  /\ UpToInitialized(n)
  /\ rb' = [rb EXCEPT !.filled = n]

Advance(n) == SetFilled(rb.filled + n)

AssumeInit(n) ==
  /\ n <= Remaining /\ After(n) \subseteq rb.real
  /\ rb' = [rb EXCEPT !.initialized = Max({@, rb.filled + n})]

PutSlice(n) ==
  /\ n <= Remaining
  /\ rb' = [rb EXCEPT !.real = @ \cup After(n), !.filled = @ + n,
                      !.initialized = Max({@, rb.filled + n})]

Clear == rb' = [rb EXCEPT !.filled = 0]

(* take(n) gives a ReadBuf over the next n bytes, with what of them is     *)
(* initialized; putting k bytes into that one leaves this one's counts.    *)
Taken(n) ==
  LET max == Min({Remaining, n}) IN
  [capacity |-> max,
   initialized |-> Min({IF rb.initialized > rb.filled THEN rb.initialized - rb.filled ELSE 0, max})]

PutIntoTaken(n, k) ==
  /\ k <= Taken(n).capacity
  /\ rb' = [rb EXCEPT !.real = @ \cup After(k)]

Next ==
  \/ \E n \in 1 .. Capacity :
       \/ WriteUnfilled(n) \/ InitializeUnfilledTo(n) \/ SetFilled(n) \/ Advance(n)
       \/ AssumeInit(n) \/ PutSlice(n) \/ \E k \in 1 .. n : PutIntoTaken(n, k)
  \/ Clear

Spec == Init /\ [][Next]_rb

-----------------------------------------------------------------------------
(* Whatever is shown as filled or as initialized was written, in this      *)
(* buffer or in one that is taken from it.                                 *)
ShownIsWritten ==
  /\ rb.filled <= rb.initialized
  /\ 1 .. rb.initialized \subseteq rb.real
  /\ \A n \in 0 .. Capacity : After(Taken(n).initialized) \subseteq rb.real

=============================================================================
