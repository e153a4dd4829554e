----------------------------- MODULE AnsiCodes ------------------------------
(***************************************************************************)
(* Where ANSI escape codes begin and end in a string of bytes, and         *)
(* strip_ansi, which walks along the string and leaves the codes out.      *)
(* Bytes are in classes: "p" parameter, "i" intermediate and "f" final     *)
(* bytes of a CSI code, of the final ones "[", "]", "_" and the backslash  *)
(* by themselves, and "x" for all others.                                  *)
(***************************************************************************)
EXTENDS Naturals, Sequences, FiniteSets, FiniteSetsExt

CONSTANT Strings

Bytes  == {"esc", "bel", "p", "i", "f", "[", "]", "_", "bs", "x"}
Finals == {"f", "[", "]", "_", "bs"}

StringAssumption == \A s \in Strings : s \in Seq(Bytes)

VARIABLE strip      \* the string, where strip_ansi is in it, the codes it found

TypeOK == strip \in [bytes : Strings, pos : Nat, codes : SUBSET (Nat \X Nat)]

Init == \E s \in Strings : strip = [bytes |-> s, pos |-> 1, codes |-> {}]

-----------------------------------------------------------------------------
At(s, i, class) == i <= Len(s) /\ s[i] \in class

(* The first place from i on where there is no byte of the class. *)
SkipAll(s, i, class) == Min({j \in i .. Len(s) + 1 : ~At(s, j, class)})

SkipOneParameter(s, i) == IF At(s, i, {"p"}) THEN i + 1 ELSE i  \* mutant: if, not while
SkipParameters(s, i)   == SkipAll(s, i, {"p"})

(* extract_csi: the length of the code at i, 0 if there is none. *)
CsiLength(s, i) ==
  LET final == SkipAll(s, SkipParameters(s, i + 2), {"i"})
  IN  IF At(s, final, Finals) THEN final + 1 - i ELSE 0

(* extract_string_sequence: up to BEL, or to ESC and a backslash. *)
StringLength(s, i) ==
  LET ends == {<<j, j>> : j \in {j \in i + 2 .. Len(s) : s[j] = "bel"}} \cup
              {<<j, j + 1>> : j \in {j \in i + 2 .. Len(s) : s[j] = "esc" /\ At(s, j + 1, {"bs"})}}
      first == CHOOSE e \in ends : \A o \in ends : e[1] <= o[1]
  IN  IF ends = {} THEN 0 ELSE first[2] + 1 - i

(* extract_ansi_code *)
CodeLength(s, i) ==
  IF ~At(s, i, {"esc"}) THEN 0
  ELSE IF At(s, i + 1, {"["}) THEN CsiLength(s, i)
  ELSE IF At(s, i + 1, {"]", "_"}) THEN StringLength(s, i)
  ELSE 0

(* One turn of strip_ansi's loop. *)
Step ==
  /\ strip.pos <= Len(strip.bytes)
  /\ LET n == CodeLength(strip.bytes, strip.pos) IN
     strip' = IF n > 0 THEN [strip EXCEPT !.pos = @ + n,
                                          !.codes = @ \cup {<<strip.pos, strip.pos + n - 1>>}]
              ELSE [strip EXCEPT !.pos = @ + 1]

Next == Step

Spec == Init /\ [][Next]_strip

-----------------------------------------------------------------------------
(* What a code is, said otherwise: *)
IsCsi(s, a, b) ==
  /\ b <= Len(s) /\ s[a] = "esc" /\ At(s, a + 1, {"["}) /\ b > a + 1 /\ s[b] \in Finals
  /\ \E m \in a + 1 .. b - 1 : /\ \A j \in a + 2 .. m : s[j] = "p"
                               /\ \A j \in m + 1 .. b - 1 : s[j] = "i"

Terminates(s, a, b) ==
  s[b] = "bel" \/ (s[b] = "bs" /\ b > a + 2 /\ s[b - 1] = "esc")

IsString(s, a, b) ==
  /\ b <= Len(s) /\ s[a] = "esc" /\ At(s, a + 1, {"]", "_"}) /\ b > a + 1
  /\ Terminates(s, a, b) /\ \A j \in a + 2 .. b - 1 : ~Terminates(s, a, j)

IsCode(s, a, b) == IsCsi(s, a, b) \/ IsString(s, a, b)

(* strip_ansi takes out codes, whole codes, each once, and all of them: no *)
(* code begins where it found a visible character.                         *)
CodesAreExact ==
  LET s == strip.bytes
      hidden == UNION {c[1] .. c[2] : c \in strip.codes}
  IN  /\ \A c \in strip.codes : IsCode(s, c[1], c[2])
      /\ \A c, d \in strip.codes : c # d => c[1] .. c[2] \cap d[1] .. d[2] = {}
      /\ \A a \in 1 .. strip.pos - 1 :
           a \notin hidden => \A b \in a .. Len(s) : ~IsCode(s, a, b)

=============================================================================
