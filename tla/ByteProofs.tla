----------------------------- MODULE ByteProofs -----------------------------
(***************************************************************************)
(* The invariants of the shim's streams of bytes, and of the buffer that   *)
(* they are read into, for any number of bytes and any sizes.              *)
(***************************************************************************)
EXTENDS StreamProofs, LibraryBytes

-----------------------------------------------------------------------------
(* ByteStream: a piece of what is written, from after byte a up to byte b *)

Byte == 1 .. Bytes

Piece(q, a, b) ==
  /\ q \in Seq(Byte) /\ a \in Nat /\ b \in Nat /\ a + Len(q) = b
  /\ \A i \in 1 .. Len(q) : q[i] = a + i

LEMMA PipeSizes ==
  /\ Bytes \in Nat /\ Delimiters \subseteq Byte
  /\ PipeSize \in Nat \ {0} /\ BufferSize \in Nat \ {0} /\ ReadSize \in Nat \ {0}
  /\ Modes \subseteq {"read", "to_end", "line", "until"}
BY ByteLibraryAssumption DEF Pipe!ByteStreamAssumption, Byte

LEMMA PieceEnds ==
  ASSUME NEW q, NEW a, NEW b, Piece(q, a, b)
  PROVE  /\ a \in Nat /\ b \in Nat /\ Len(q) \in Nat /\ a + Len(q) = b /\ a <= b
         /\ q = << >> <=> Len(q) = 0
         /\ q # << >> => b <= Bytes
<1>1. q \in Seq(Byte) /\ Len(q) \in Nat /\ (q = << >> <=> Len(q) = 0)
  BY EmptySeq, LenProperties DEF Piece
<1>2. ASSUME q # << >> PROVE b <= Bytes
  <2>1. Len(q) \in 1 .. Len(q)
    BY <1>1, <1>2
  <2>2. q[Len(q)] \in Byte /\ q[Len(q)] = a + Len(q)
    BY <1>1, <2>1, ElementOfSeq DEF Piece
  <2> QED BY <2>2 DEF Piece, Byte
<1> QED BY <1>1, <1>2 DEF Piece

LEMMA NoPiece == ASSUME NEW a \in Nat PROVE Piece(<< >>, a, a)
<1>1. << >> \in Seq(Byte) /\ Len(<< >>) = 0
  BY EmptySeq
<1> QED BY <1>1 DEF Piece

LEMMA PieceJoin ==
  ASSUME NEW q, NEW r, NEW a, NEW b, NEW c, Piece(q, a, b), Piece(r, b, c)
  PROVE  Piece(q \o r, a, c)
<1>1. /\ q \in Seq(Byte) /\ r \in Seq(Byte) /\ Len(q) \in Nat /\ Len(r) \in Nat
      /\ a \in Nat /\ b \in Nat /\ c \in Nat /\ a + Len(q) = b /\ b + Len(r) = c
  BY PieceEnds DEF Piece
<1>2. /\ q \o r \in Seq(Byte) /\ Len(q \o r) = Len(q) + Len(r)
      /\ \A i \in 1 .. Len(q) + Len(r) : (q \o r)[i] = IF i <= Len(q) THEN q[i] ELSE r[i - Len(q)]
  BY <1>1, ConcatProperties
<1>3. ASSUME NEW i \in 1 .. Len(q) + Len(r) PROVE (q \o r)[i] = a + i
  <2>1. CASE i <= Len(q)
    BY <1>1, <1>2, <2>1 DEF Piece
  <2>2. CASE ~(i <= Len(q))
    <3>1. i - Len(q) \in 1 .. Len(r)
      BY <1>1, <2>2
    <3>2. r[i - Len(q)] = b + (i - Len(q))
      BY <3>1 DEF Piece
    <3>3. (q \o r)[i] = r[i - Len(q)]
      BY <1>2, <2>2
    <3>4. b + (i - Len(q)) = a + i
      BY <1>1
    <3> QED BY <3>2, <3>3, <3>4
  <2> QED BY <2>1, <2>2
<1>4. a + Len(q \o r) = c
  <2>1. Len(q \o r) = Len(q) + Len(r)
    BY <1>2
  <2>2. a + (Len(q) + Len(r)) = c
    BY <1>1
  <2> QED BY <2>1, <2>2
<1> QED BY <1>1, <1>2, <1>3, <1>4 DEF Piece

LEMMA PieceCut ==
  ASSUME NEW q, NEW a, NEW b, Piece(q, a, b), NEW n \in Nat, n <= Len(q)
  PROVE  /\ Piece(SubSeq(q, 1, n), a, a + n)
         /\ Piece(SubSeq(q, n + 1, Len(q)), a + n, b)
<1>1. /\ q \in Seq(Byte) /\ Len(q) \in Nat /\ a \in Nat /\ b \in Nat /\ a + Len(q) = b
      /\ \A i \in 1 .. Len(q) : q[i] \in Byte /\ q[i] = a + i
  BY PieceEnds, ElementOfSeq DEF Piece
<1>2. Piece(SubSeq(q, 1, n), a, a + n)
  <2>1. 1 \in Int /\ n \in Int /\ \A i \in 1 .. n : q[i] \in Byte
    BY <1>1
  <2>2. /\ SubSeq(q, 1, n) \in Seq(Byte)
        /\ Len(SubSeq(q, 1, n)) = IF 1 <= n THEN n - 1 + 1 ELSE 0
        /\ \A i \in 1 .. n - 1 + 1 : SubSeq(q, 1, n)[i] = q[1 + i - 1]
    BY <2>1, SubSeqProperties
  <2>3. Len(SubSeq(q, 1, n)) = n /\ n - 1 + 1 = n /\ \A i \in 1 .. n : 1 + i - 1 = i /\ i \in 1 .. Len(q)
    BY <1>1, <2>2
  <2>4. \A i \in 1 .. n : SubSeq(q, 1, n)[i] = a + i
    BY <1>1, <2>2, <2>3
  <2> QED BY <1>1, <2>2, <2>3, <2>4 DEF Piece
<1>3. Piece(SubSeq(q, n + 1, Len(q)), a + n, b)
  <2> DEFINE m == n + 1
             l == Len(q)
  <2>1. m \in Int /\ l \in Int /\ \A i \in m .. l : q[i] \in Byte
    BY <1>1
  <2> HIDE DEF m, l
  <2>2. /\ SubSeq(q, m, l) \in Seq(Byte)
        /\ Len(SubSeq(q, m, l)) = IF m <= l THEN l - m + 1 ELSE 0
        /\ \A i \in 1 .. l - m + 1 : SubSeq(q, m, l)[i] = q[m + i - 1]
    BY <2>1, SubSeqProperties
  <2>3. Len(SubSeq(q, m, l)) = l - n /\ l - m + 1 = l - n
    BY <1>1, <2>2 DEF m, l
  <2>4. ASSUME NEW i \in 1 .. l - n PROVE SubSeq(q, m, l)[i] = a + n + i
    <3>1. SubSeq(q, m, l)[i] = q[m + i - 1]
      BY <2>2, <2>3
    <3>2. m + i - 1 \in 1 .. Len(q) /\ a + (m + i - 1) = a + n + i
      BY <1>1, <2>4 DEF m, l
    <3>3. q[m + i - 1] = a + (m + i - 1)
      BY <1>1, <3>2
    <3> QED BY <3>1, <3>2, <3>3
  <2>5. a + n \in Nat /\ a + n + (l - n) = b
    BY <1>1 DEF l
  <2> QED BY <1>1, <2>2, <2>3, <2>4, <2>5 DEF Piece, m, l
<1> QED BY <1>2, <1>3

LEMMA PieceIsAll ==
  ASSUME NEW q, NEW b, Piece(q, 0, b)
  PROVE  q = [i \in 1 .. b |-> i]
<1>1. q \in Seq(Byte) /\ b \in Nat /\ Len(q) = b /\ \A i \in 1 .. b : q[i] = i
  <2>1. q \in Seq(Byte) /\ b \in Nat /\ Len(q) = b /\ \A i \in 1 .. Len(q) : q[i] = 0 + i
    BY PieceEnds DEF Piece
  <2> QED BY <2>1
<1>2. q = [i \in 1 .. Len(q) |-> q[i]]
  BY <1>1, LenProperties
<1> QED BY <1>1, <1>2

(* What is not written yet is a piece. *)
LEMMA RestIsPiece ==
  ASSUME NEW p, p.pos \in 0 .. Bytes
  PROVE  Piece(Pipe!Rest(p), p.pos, Bytes) /\ Len(Pipe!Rest(p)) = Bytes - p.pos
<1> DEFINE n == Bytes - p.pos
<1>1. Bytes \in Nat /\ p.pos \in Nat /\ n \in Nat /\ p.pos + n = Bytes
  BY PipeSizes
<1>2. Pipe!Rest(p) = [i \in 1 .. n |-> p.pos + i]
  BY DEF Pipe!Rest
<1>3. \A i \in 1 .. n : p.pos + i \in Byte
  BY <1>1 DEF Byte
<1> HIDE DEF n
<1>4. Pipe!Rest(p) \in [1 .. n -> Byte]
  BY <1>2, <1>3
<1>5. Pipe!Rest(p) \in Seq(Byte) /\ Len(Pipe!Rest(p)) = n
  <2>1. Pipe!Rest(p) \in Seq(Byte)
    BY <1>1, <1>4, SeqDef
  <2>2. DOMAIN Pipe!Rest(p) = 1 .. n
    BY <1>4
  <2>3. Len(Pipe!Rest(p)) \in Nat /\ DOMAIN Pipe!Rest(p) = 1 .. Len(Pipe!Rest(p))
    BY <2>1, LenProperties
  <2> QED BY <1>1, <2>1, <2>2, <2>3
<1>6. \A i \in 1 .. n : Pipe!Rest(p)[i] = p.pos + i
  BY <1>2
<1> QED BY <1>1, <1>5, <1>6 DEF Piece, n

LEMMA LesserOf ==
  ASSUME NEW m \in Nat, NEW n \in Nat
  PROVE  Pipe!Min({m, n}) = IF m <= n THEN m ELSE n
<1>1. \A x \in {m, n} : (\A y \in {m, n} : x <= y) <=> x = IF m <= n THEN m ELSE n
  OBVIOUS
<1> QED BY <1>1 DEF Pipe!Min

(* A line ends in what is buffered, or is not complete in it. *)
LEMMA DelimiterInBuffer ==
  ASSUME NEW p, NEW a, NEW b, Piece(p.rbuf, a, b), p.rbuf # << >>
  PROVE  Pipe!NextDelimiter(p) \in 1 .. Len(p.rbuf)
<1> DEFINE at == {i \in 1 .. Len(p.rbuf) : p.rbuf[i] \in Delimiters}
<1>1. Len(p.rbuf) \in Nat /\ Len(p.rbuf) # 0
  BY PieceEnds
<1>2. Pipe!NextDelimiter(p) = IF at = {} THEN Len(p.rbuf) ELSE Pipe!Min(at)
  BY DEF Pipe!NextDelimiter
<1>3. at \subseteq 1 .. Len(p.rbuf) /\ at \in SUBSET Nat
  BY <1>1
<1> HIDE DEF at
<1>4. CASE at # {}
  <2>1. \E x \in at : \A y \in at : x <= y
    BY <1>3, <1>4, LeastNumber
  <2>2. Pipe!Min(at) \in at
    BY <2>1 DEF Pipe!Min
  <2> QED BY <1>2, <1>3, <1>4, <2>2
<1>5. CASE at = {}
  BY <1>1, <1>2, <1>5
<1> QED BY <1>4, <1>5

-----------------------------------------------------------------------------
(* ByteStream: what a state of the stream is like *)

(* The reader has the first bytes, then come its buffers, the stream and   *)
(* the writer's buffer, up to what write_all has given away; read_line may *)
(* have dropped some of the first.                                         *)
Placed(p) ==
  \E o, a, b, c \in Nat :
    /\ Piece(p.bytes, o, a) /\ Piece(p.rbuf, a, b) /\ Piece(p.data, b, c) /\ Piece(p.wbuf, c, p.pos)
    /\ Len(p.got) <= o
    /\ p.mode # "line" => p.bytes = << >> /\ Piece(p.got, 0, o)

Held(p) ==
  /\ Len(p.data) <= PipeSize /\ Len(p.wbuf) <= BufferSize
  /\ ~p.wrapped => p.wbuf = << >>
  /\ p.drains => p.wbuf # << >>
  /\ p.closed => p.pos = Bytes /\ p.wbuf = << >>
  /\ "writer" \in p.ended => p.closed

Handed(p) ==
  p.mode # "line" =>
    /\ "reader" \in p.ended => Len(p.got) = Bytes
    /\ \A n \in p.lines : n = Bytes \/ n \in Delimiters

Asleep(p) ==
  /\ \A who \in p.parked \ p.woken : who \in p.wakers
  /\ "reader" \in p.parked \ p.woken => p.data = << >> /\ ~p.closed
  /\ "writer" \in p.parked \ p.woken => Len(p.data) = PipeSize

PipeGood(p) ==
  p \in Pipe!ByteStreamType /\ Placed(p) /\ Held(p) /\ Handed(p) /\ Asleep(p)

PipeInv == PipeGood(pipe)

Sides == {"reader", "writer"}

(* All but the wakes *)
Untouched(h, p) ==
  /\ h.mode = p.mode /\ h.wrapped = p.wrapped /\ h.data = p.data /\ h.closed = p.closed
  /\ h.pos = p.pos /\ h.wbuf = p.wbuf /\ h.drains = p.drains /\ h.rbuf = p.rbuf
  /\ h.bytes = p.bytes /\ h.got = p.got /\ h.lines = p.lines /\ h.ended = p.ended

LEMMA PipeFields ==
  ASSUME NEW p, p \in Pipe!ByteStreamType
  PROVE  /\ p.mode \in Modes /\ p.wrapped \in BOOLEAN /\ p.data \in Seq(Byte) /\ p.closed \in BOOLEAN
         /\ p.wakers \in SUBSET Sides /\ p.parked \in SUBSET Sides /\ p.woken \in SUBSET Sides
         /\ p.pos \in 0 .. Bytes /\ p.wbuf \in Seq(Byte) /\ p.drains \in BOOLEAN
         /\ p.rbuf \in Seq(Byte) /\ p.bytes \in Seq(Byte) /\ p.got \in Seq(Byte)
         /\ p.lines \in SUBSET (0 .. Bytes) /\ p.ended \in SUBSET Sides
BY DEF Pipe!ByteStreamType, Byte, Sides

LEMMA UntouchedIsGood ==
  ASSUME NEW h, NEW p, Untouched(h, p), Placed(p), Held(p), Handed(p)
  PROVE  Placed(h) /\ Held(h) /\ Handed(h)
<1>1. Placed(h)
  BY DEF Untouched, Placed
<1>2. Held(h)
  BY DEF Untouched, Held
<1>3. Handed(h)
  BY DEF Untouched, Handed
<1> QED BY <1>1, <1>2, <1>3

LEMMA PipeWakes ==
  ASSUME NEW p, p \in Pipe!ByteStreamType, NEW who \in Sides, NEW h, h = Pipe!Wake(p, who)
  PROVE  /\ h \in Pipe!ByteStreamType /\ Untouched(h, p)
         /\ h.parked = p.parked /\ h.wakers = p.wakers \ {who}
         /\ h.woken = p.woken \cup (p.wakers \cap {who})
<1>1. CASE who \in p.wakers
  <2> DEFINE woken == p.woken \cup {who}
             wakers == p.wakers \ {who}
  <2>1. woken \in SUBSET Sides /\ wakers \in SUBSET Sides
    BY PipeFields
  <2>2. h = [p EXCEPT !.woken = woken, !.wakers = wakers]
    BY <1>1 DEF Pipe!Wake, Pipe!ByteStreamType
  <2>3. p.wakers \cap {who} = {who}
    BY <1>1
  <2> HIDE DEF woken, wakers
  <2>4. /\ h \in Pipe!ByteStreamType /\ Untouched(h, p)
        /\ h.parked = p.parked /\ h.wakers = wakers /\ h.woken = woken
    BY <2>1, <2>2 DEF Pipe!ByteStreamType, Untouched, Sides
  <2> QED BY <2>3, <2>4 DEF woken, wakers
<1>2. CASE who \notin p.wakers
  <2>1. h = p
    BY <1>2 DEF Pipe!Wake
  <2>2. p.wakers \ {who} = p.wakers /\ p.woken \cup (p.wakers \cap {who}) = p.woken
    BY <1>2
  <2> QED BY <2>1, <2>2 DEF Untouched
<1> QED BY <1>1, <1>2

LEMMA PipeParks ==
  ASSUME NEW p, p \in Pipe!ByteStreamType, NEW who \in Sides, NEW h, h = Pipe!Park(p, who)
  PROVE  /\ h \in Pipe!ByteStreamType /\ Untouched(h, p)
         /\ h.parked = p.parked \cup {who} /\ h.wakers = p.wakers \cup {who} /\ h.woken = p.woken
<1> DEFINE parked == p.parked \cup {who}
           wakers == p.wakers \cup {who}
<1>1. parked \in SUBSET Sides /\ wakers \in SUBSET Sides
  BY PipeFields
<1>2. h = [p EXCEPT !.wakers = wakers, !.parked = parked]
  BY DEF Pipe!Park, Pipe!ByteStreamType
<1> HIDE DEF parked, wakers
<1>3. /\ h \in Pipe!ByteStreamType /\ Untouched(h, p)
      /\ h.parked = parked /\ h.wakers = wakers /\ h.woken = p.woken
  BY <1>1, <1>2 DEF Pipe!ByteStreamType, Untouched, Sides
<1> QED BY <1>3 DEF parked, wakers

LEMMA PipePolls ==
  ASSUME PipeInv, NEW who \in Sides, NEW h, h = Pipe!Polls(who)
  PROVE  PipeGood(h) /\ who \notin h.parked /\ Untouched(h, pipe)
<1> DEFINE parked == pipe.parked \ {who}
           woken == pipe.woken \ {who}
<1>1. pipe \in Pipe!ByteStreamType
  BY DEF PipeInv, PipeGood
<1>2. parked \in SUBSET Sides /\ woken \in SUBSET Sides
  BY <1>1, PipeFields
<1>3. h = [pipe EXCEPT !.parked = parked, !.woken = woken]
  BY <1>1 DEF Pipe!Polls, Pipe!ByteStreamType
<1> HIDE DEF parked, woken
<1>4. /\ h \in Pipe!ByteStreamType /\ Untouched(h, pipe)
      /\ h.parked = parked /\ h.wakers = pipe.wakers /\ h.woken = woken
  BY <1>1, <1>2, <1>3 DEF Pipe!ByteStreamType, Untouched, Sides
<1>5. Placed(h) /\ Held(h) /\ Handed(h)
  BY <1>4, UntouchedIsGood DEF PipeInv, PipeGood
<1>6. Asleep(pipe)
  BY DEF PipeInv, PipeGood
<1>7. h.parked \ h.woken \subseteq pipe.parked \ pipe.woken /\ who \notin h.parked
  BY <1>4 DEF parked, woken
<1>8. Asleep(h)
  BY <1>4, <1>6, <1>7 DEF Asleep, Untouched
<1> QED BY <1>4, <1>5, <1>7, <1>8 DEF PipeGood

(* Who waits at an empty open stream, or a full one, sleeps rightly. *)
LEMMA PipeSleeps ==
  ASSUME NEW p, PipeGood(p), NEW who \in Sides, NEW h, h = Pipe!Park(p, who),
         who = "reader" => p.data = << >> /\ ~p.closed,
         who = "writer" => Len(p.data) = PipeSize
  PROVE  PipeGood(h) /\ Untouched(h, p)
<1>1. /\ h \in Pipe!ByteStreamType /\ Untouched(h, p)
      /\ h.parked = p.parked \cup {who} /\ h.wakers = p.wakers \cup {who} /\ h.woken = p.woken
  BY PipeParks DEF PipeGood
<1>2. Placed(h) /\ Held(h) /\ Handed(h)
  BY <1>1, UntouchedIsGood DEF PipeGood
<1>3. Asleep(p)
  BY DEF PipeGood
<1>4. Asleep(h)
  BY <1>1, <1>3 DEF Asleep, Untouched
<1> QED BY <1>1, <1>2, <1>4 DEF PipeGood

-----------------------------------------------------------------------------
(* ByteStream: the writer *)

(* All but the wakes and the bytes that are on their way *)
Besides(h, p) ==
  /\ h.mode = p.mode /\ h.wrapped = p.wrapped /\ h.closed = p.closed
  /\ h.rbuf = p.rbuf /\ h.bytes = p.bytes
  /\ h.got = p.got /\ h.lines = p.lines /\ h.ended = p.ended

ReaderWoken(h, p) ==
  /\ h.parked = p.parked /\ h.wakers = p.wakers \ {"reader"}
  /\ h.woken = p.woken \cup (p.wakers \cap {"reader"})

LEMMA WriterLeavesNobody ==
  ASSUME NEW p, NEW h, Asleep(p), "writer" \notin p.parked, ReaderWoken(h, p), p.parked \subseteq Sides
  PROVE  Asleep(h)
<1>1. h.parked \ h.woken = {}
  BY DEF Asleep, ReaderWoken, Sides
<1> QED BY <1>1 DEF Asleep

LEMMA WriteIsGood ==
  ASSUME NEW p, NEW h, PipeGood(p), "writer" \notin p.parked, ReaderWoken(h, p), Besides(h, p),
         h \in Pipe!ByteStreamType, Placed(h), Held(h)
  PROVE  PipeGood(h)
<1>1. Asleep(h)
  <2>1. Asleep(p) /\ p.parked \subseteq Sides
    BY PipeFields DEF PipeGood
  <2> QED BY <2>1, WriterLeavesNobody
<1>2. Handed(h)
  BY DEF PipeGood, Handed, Besides
<1> QED BY <1>1, <1>2 DEF PipeGood

Wrote(h, p, data) ==
  /\ h \in Pipe!ByteStreamType /\ Besides(h, p) /\ ReaderWoken(h, p)
  /\ h.data = data /\ h.pos = p.pos /\ h.wbuf = p.wbuf /\ h.drains = p.drains

LEMMA PipeWrites ==
  ASSUME NEW p, p \in Pipe!ByteStreamType, NEW seq, NEW n,
         NEW data \in Seq(Byte), data = p.data \o SubSeq(seq, 1, n), NEW h, h = Pipe!DuplexWrite(p, seq, n)
  PROVE  Wrote(h, p, data)
<1> DEFINE r == [p EXCEPT !.data = data]
<1>1. /\ r \in Pipe!ByteStreamType /\ Besides(r, p)
      /\ r.parked = p.parked /\ r.wakers = p.wakers /\ r.woken = p.woken
      /\ r.data = data /\ r.pos = p.pos /\ r.wbuf = p.wbuf /\ r.drains = p.drains
  BY DEF Pipe!ByteStreamType, Besides, Byte
<1>2. h = Pipe!Wake(r, "reader")
  BY DEF Pipe!DuplexWrite
<1> HIDE DEF r
<1>3. "reader" \in Sides
  BY DEF Sides
<1>4. /\ h \in Pipe!ByteStreamType /\ Untouched(h, r)
      /\ h.parked = r.parked /\ h.wakers = r.wakers \ {"reader"}
      /\ h.woken = r.woken \cup (r.wakers \cap {"reader"})
  BY <1>1, <1>2, <1>3, PipeWakes
<1> QED BY <1>1, <1>4 DEF Untouched, Besides, ReaderWoken, Wrote

Fits(n, m, l, k) ==
  n \in Nat /\ n <= m /\ l + n <= k /\ (n = 0 => m = 0 \/ l = k)

(* As much as there is, as far as there is room: k in all, l of them taken *)
LEMMA HowMuch ==
  ASSUME NEW m \in Nat, NEW k \in Nat, NEW l \in Nat, l <= k
  PROVE  Fits(Pipe!Min({m, k - l}), m, l, k)
<1> PICK n : n = Pipe!Min({m, k - l})
  OBVIOUS
<1> DEFINE r == k - l
<1>1. r \in Nat
  OBVIOUS
<1> HIDE DEF r
<1>2. n = IF m <= r THEN m ELSE r
  BY <1>1, LesserOf DEF r
<1>3. Fits(n, m, l, k)
  BY <1>1, <1>2 DEF r, Fits
<1> QED BY <1>3

LEMMA LengthsAfter ==
  ASSUME NEW a \in Nat, NEW b \in Nat, NEW k \in Nat, NEW l \in Nat, NEW n \in Nat
  PROVE  /\ a + k = b /\ a + l = b + n => l = k + n
         /\ a + k = b /\ a + n + l = b => l + n = k
OBVIOUS

LEMMA FlushIsGood ==
  ASSUME NEW p, PipeGood(p), "writer" \notin p.parked, p.wbuf # << >>, NEW h, h = Pipe!FlushBuffer(p)
  PROVE  PipeGood(h)
<1>1. p \in Pipe!ByteStreamType /\ Placed(p) /\ Held(p)
  BY DEF PipeGood
<1>2. PICK o \in Nat, a \in Nat, b \in Nat, c \in Nat :
        /\ Piece(p.bytes, o, a) /\ Piece(p.rbuf, a, b) /\ Piece(p.data, b, c) /\ Piece(p.wbuf, c, p.pos)
        /\ Len(p.got) <= o
        /\ p.mode # "line" => p.bytes = << >> /\ Piece(p.got, 0, o)
  BY <1>1 DEF Placed
<1>3. /\ Len(p.wbuf) \in Nat /\ Len(p.wbuf) # 0 /\ Len(p.data) \in Nat /\ Len(p.data) <= PipeSize
      /\ PipeSize \in Nat /\ p.wrapped /\ ~p.closed /\ Len(p.wbuf) <= BufferSize /\ BufferSize \in Nat
  <2>1. Len(p.wbuf) \in Nat /\ Len(p.wbuf) # 0 /\ Len(p.data) \in Nat
    BY <1>2, PieceEnds
  <2> QED BY <1>1, <2>1, PipeSizes DEF Held
<1>4. PICK n : n = Pipe!Min({Len(p.wbuf), PipeSize - Len(p.data)})
  OBVIOUS
<1>5. n \in Nat /\ n <= Len(p.wbuf) /\ Len(p.data) + n <= PipeSize /\ (n = 0 => Len(p.data) = PipeSize)
  <2>1. Len(p.wbuf) \in Nat /\ PipeSize \in Nat /\ Len(p.data) \in Nat /\ Len(p.data) <= PipeSize
    BY <1>3
  <2>2. Fits(Pipe!Min({Len(p.wbuf), PipeSize - Len(p.data)}), Len(p.wbuf), Len(p.data), PipeSize)
    BY <2>1, HowMuch
  <2> QED BY <1>3, <1>4, <2>2 DEF Fits
<1> DEFINE d == p.data \o SubSeq(p.wbuf, 1, n)
           x == SubSeq(p.wbuf, n + 1, Len(p.wbuf))
           y == n < Len(p.wbuf)
<1>6. h = IF n = 0 THEN [Pipe!Park(p, "writer") EXCEPT !.drains = FALSE]
          ELSE [Pipe!DuplexWrite(p, p.wbuf, n) EXCEPT !.wbuf = SubSeq(@, n + 1, Len(@)), !.drains = y]
  BY <1>4 DEF Pipe!FlushBuffer, Pipe!Room
<1>7. CASE n = 0
  <2>1. PICK g : g = Pipe!Park(p, "writer")
    OBVIOUS
  <2>2. PipeGood(g) /\ Untouched(g, p)
    BY <1>5, <1>7, <2>1, PipeSleeps DEF Sides
  <2>3. h = [g EXCEPT !.drains = FALSE]
    BY <1>6, <1>7, <2>1
  <2>4. g \in Pipe!ByteStreamType /\ Placed(g) /\ Held(g) /\ Handed(g) /\ Asleep(g)
    BY <2>2 DEF PipeGood
  <2>5. /\ h \in Pipe!ByteStreamType /\ Besides(h, g)
        /\ h.data = g.data /\ h.pos = g.pos /\ h.wbuf = g.wbuf /\ ~h.drains
        /\ h.parked = g.parked /\ h.wakers = g.wakers /\ h.woken = g.woken
    BY <2>3, <2>4 DEF Pipe!ByteStreamType, Besides
  <2>6. Placed(h)
    BY <2>4, <2>5 DEF Placed, Besides
  <2>7. Held(h)
    BY <2>4, <2>5 DEF Held, Besides
  <2>8. Handed(h) /\ Asleep(h)
    BY <2>4, <2>5 DEF Handed, Asleep, Besides
  <2> QED BY <2>5, <2>6, <2>7, <2>8 DEF PipeGood
<1>8. CASE n # 0
  <2>1. PICK g : g = Pipe!DuplexWrite(p, p.wbuf, n)
    OBVIOUS
  <2>2. Piece(SubSeq(p.wbuf, 1, n), c, c + n) /\ Piece(x, c + n, p.pos)
    BY <1>2, <1>5, PieceCut
  <2>3. Piece(d, b, c + n)
    BY <1>2, <2>2, PieceJoin
  <2>4. /\ d \in Seq(Byte) /\ x \in Seq(Byte) /\ c + n \in Nat
        /\ b + Len(d) = c + n /\ Len(d) \in Nat /\ c + n + Len(x) = p.pos /\ Len(x) \in Nat
        /\ (x = << >> <=> Len(x) = 0)
    BY <2>2, <2>3, PieceEnds DEF Piece
  <2>5. y \in BOOLEAN
    OBVIOUS
  <2>6. Len(d) <= PipeSize /\ Len(x) <= BufferSize /\ (y => x # << >>)
    <3>1. b + Len(p.data) = c /\ c + Len(p.wbuf) = p.pos /\ p.pos \in Nat
      BY <1>2, PieceEnds
    <3> HIDE DEF d, x
    <3>2. Len(d) = Len(p.data) + n
      <4>1. Len(p.data) \in Nat /\ Len(d) \in Nat /\ b + Len(p.data) = c /\ b + Len(d) = c + n
        BY <1>3, <2>4, <3>1
      <4> QED BY <1>5, <4>1, LengthsAfter
    <3>3. Len(x) + n = Len(p.wbuf)
      <4>1. Len(p.wbuf) \in Nat /\ Len(x) \in Nat /\ c + Len(p.wbuf) = p.pos /\ c + n + Len(x) = p.pos
        BY <1>3, <2>4, <3>1
      <4> QED BY <1>5, <3>1, <4>1, LengthsAfter
    <3>4. Len(d) <= PipeSize
      BY <1>5, <3>2
    <3>5. Len(x) <= BufferSize
      BY <1>3, <1>5, <2>4, <3>3
    <3>6. y => Len(x) # 0
      BY <1>3, <1>5, <2>4, <3>3
    <3> QED BY <2>4, <3>4, <3>5, <3>6
  <2> HIDE DEF d, x, y
  <2>7. /\ g \in Pipe!ByteStreamType /\ Besides(g, p) /\ ReaderWoken(g, p)
        /\ g.data = d /\ g.pos = p.pos /\ g.wbuf = p.wbuf
    <3>1. d = p.data \o SubSeq(p.wbuf, 1, n) /\ d \in Seq(Byte)
      BY <2>4 DEF d
    <3>2. Wrote(g, p, d)
      BY <1>1, <2>1, <3>1, PipeWrites
    <3> QED BY <3>2 DEF Wrote
  <2>8. h = [g EXCEPT !.wbuf = x, !.drains = y]
    BY <1>6, <1>8, <2>1, <2>7 DEF x, Pipe!ByteStreamType
  <2>9. /\ h \in Pipe!ByteStreamType /\ Besides(h, g) /\ h.data = d /\ h.pos = p.pos
        /\ h.wbuf = x /\ h.drains = y
        /\ h.parked = g.parked /\ h.wakers = g.wakers /\ h.woken = g.woken
    BY <2>4, <2>5, <2>7, <2>8 DEF Pipe!ByteStreamType, Besides, Byte
  <2>10. Besides(h, p) /\ ReaderWoken(h, p)
    BY <2>7, <2>9 DEF Besides, ReaderWoken
  <2>11. Placed(h)
    <3>1. /\ Piece(h.bytes, o, a) /\ Piece(h.rbuf, a, b) /\ Piece(h.data, b, c + n) /\ Piece(h.wbuf, c + n, h.pos)
          /\ Len(h.got) <= o
          /\ h.mode # "line" => h.bytes = << >> /\ Piece(h.got, 0, o)
      BY <1>2, <2>2, <2>3, <2>9, <2>10 DEF Besides
    <3> QED BY <2>4, <3>1 DEF Placed
  <2>12. Held(h)
    <3>1. "writer" \notin h.ended
      BY <1>1, <1>3, <2>10 DEF Held, Besides
    <3> QED BY <1>3, <2>6, <2>9, <2>10, <3>1 DEF Held, Besides
  <2> QED BY <2>9, <2>10, <2>11, <2>12, WriteIsGood
<1> QED BY <1>7, <1>8

LEMMA WriteThroughIsGood ==
  ASSUME NEW p, PipeGood(p), "writer" \notin p.parked, ~p.wrapped, p.pos < Bytes,
         NEW h, h = Pipe!WriteThrough(p)
  PROVE  PipeGood(h)
<1>1. p \in Pipe!ByteStreamType /\ Placed(p) /\ Held(p)
  BY DEF PipeGood
<1>2. PICK o \in Nat, a \in Nat, b \in Nat, c \in Nat :
        /\ Piece(p.bytes, o, a) /\ Piece(p.rbuf, a, b) /\ Piece(p.data, b, c) /\ Piece(p.wbuf, c, p.pos)
        /\ Len(p.got) <= o
        /\ p.mode # "line" => p.bytes = << >> /\ Piece(p.got, 0, o)
  BY <1>1 DEF Placed
<1>3. p.wbuf = << >> /\ ~p.closed /\ Len(p.data) <= PipeSize /\ PipeSize \in Nat /\ ~p.drains
      /\ BufferSize \in Nat /\ p.pos \in 0 .. Bytes /\ Bytes \in Nat
  BY <1>1, PipeSizes, PipeFields DEF Held
<1>4. c = p.pos /\ Len(p.data) \in Nat /\ b + Len(p.data) = c
  <2>1. Len(p.wbuf) = 0 /\ c + Len(p.wbuf) = p.pos /\ b + Len(p.data) = c /\ Len(p.data) \in Nat
    BY <1>2, <1>3, PieceEnds
  <2> QED BY <2>1
<1> DEFINE left == Bytes - p.pos
<1>5. left \in Nat /\ left # 0 /\ p.pos + left = Bytes
  <2>1. p.pos \in Nat /\ Bytes \in Nat /\ p.pos < Bytes
    BY <1>3
  <2> QED BY <2>1
<1>6. PICK n : n = Pipe!Min({left, PipeSize - Len(p.data)})
  OBVIOUS
<1> DEFINE seq == Pipe!Rest(p)
           d == p.data \o SubSeq(seq, 1, n)
           pos == p.pos + n
<1>7. h = IF n = 0 THEN Pipe!Park(p, "writer")
          ELSE [Pipe!DuplexWrite(p, seq, n) EXCEPT !.pos = @ + n]
  BY <1>6 DEF Pipe!WriteThrough, Pipe!Room
<1>14. Piece(seq, p.pos, Bytes) /\ Len(seq) = left
  BY <1>3, RestIsPiece
<1> HIDE DEF left
<1>10. n \in Nat /\ n <= left /\ Len(p.data) + n <= PipeSize /\ (n = 0 => Len(p.data) = PipeSize)
  <2>1. left \in Nat /\ PipeSize \in Nat /\ Len(p.data) \in Nat /\ Len(p.data) <= PipeSize
    BY <1>3, <1>4, <1>5
  <2>2. Fits(Pipe!Min({left, PipeSize - Len(p.data)}), left, Len(p.data), PipeSize)
    BY <2>1, HowMuch
  <2> QED BY <1>5, <1>6, <2>2 DEF Fits
<1>11. pos \in 0 .. Bytes /\ pos \in Nat
  <2>1. p.pos \in Nat
    BY <1>3
  <2>2. p.pos + n \in Nat /\ p.pos + n <= p.pos + left
    BY <1>5, <1>10, <2>1
  <2> QED BY <1>3, <1>5, <2>2
<1>8. CASE n = 0
  BY <1>7, <1>8, <1>10, PipeSleeps DEF Sides
<1>9. CASE n # 0
  <2>1. PICK g : g = Pipe!DuplexWrite(p, seq, n)
    OBVIOUS
  <2>3. Piece(SubSeq(seq, 1, n), p.pos, pos)
    BY <1>10, <1>14, PieceCut
  <2>4. Piece(d, b, pos)
    BY <1>2, <1>4, <2>3, PieceJoin
  <2>5. d \in Seq(Byte) /\ Len(d) \in Nat /\ b + Len(d) = pos
    BY <2>4, PieceEnds DEF Piece
  <2>6. Len(d) <= PipeSize
    <3> HIDE DEF d, pos
    <3>1. b + Len(d) = c + n
      BY <1>4, <2>5 DEF pos
    <3>2. Len(d) = Len(p.data) + n
      <4>1. Len(p.data) \in Nat /\ Len(d) \in Nat /\ b + Len(p.data) = c /\ b + Len(d) = c + n
        BY <1>4, <2>5, <3>1
      <4>2. n \in Nat
        BY <1>10
      <4> QED BY <4>1, <4>2, LengthsAfter
    <3> QED BY <1>10, <3>2
  <2>7. Piece(<< >>, pos, pos)
    BY <1>11, NoPiece
  <2> HIDE DEF d, seq, pos
  <2>8. /\ g \in Pipe!ByteStreamType /\ Besides(g, p) /\ ReaderWoken(g, p)
        /\ g.data = d /\ g.pos = p.pos /\ g.wbuf = p.wbuf /\ g.drains = p.drains
    <3>1. d = p.data \o SubSeq(seq, 1, n) /\ d \in Seq(Byte)
      BY <2>5 DEF d
    <3>2. Wrote(g, p, d)
      BY <1>1, <2>1, <3>1, PipeWrites
    <3> QED BY <3>2 DEF Wrote
  <2>9. h = [g EXCEPT !.pos = pos]
    BY <1>7, <1>9, <2>1, <2>8 DEF pos, Pipe!ByteStreamType
  <2>10. /\ h \in Pipe!ByteStreamType /\ Besides(h, g) /\ h.data = d /\ h.pos = pos
         /\ h.wbuf = << >> /\ ~h.drains
         /\ h.parked = g.parked /\ h.wakers = g.wakers /\ h.woken = g.woken
    BY <1>3, <1>11, <2>8, <2>9 DEF Pipe!ByteStreamType, Besides
  <2>11. Besides(h, p) /\ ReaderWoken(h, p)
    BY <2>8, <2>10 DEF Besides, ReaderWoken
  <2>12. Placed(h)
    <3>1. /\ Piece(h.bytes, o, a) /\ Piece(h.rbuf, a, b) /\ Piece(h.data, b, pos) /\ Piece(h.wbuf, pos, h.pos)
          /\ Len(h.got) <= o
          /\ h.mode # "line" => h.bytes = << >> /\ Piece(h.got, 0, o)
      BY <1>2, <2>4, <2>7, <2>10, <2>11 DEF Besides
    <3> QED BY <1>11, <3>1 DEF Placed
  <2>13. Held(h)
    <3>1. Len(<< >>) = 0
      BY EmptySeq
    <3>2. "writer" \notin h.ended
      BY <1>1, <1>3, <2>11 DEF Held, Besides
    <3> QED BY <1>3, <2>6, <2>10, <2>11, <3>1, <3>2 DEF Held, Besides
  <2> QED BY <2>10, <2>11, <2>12, <2>13, WriteIsGood
<1> QED BY <1>8, <1>9

LEMMA BufferedWriteIsGood ==
  ASSUME NEW p, PipeGood(p), "writer" \notin p.parked, p.wrapped, p.pos < Bytes,
         NEW h, h = Pipe!BufferedWrite(p)
  PROVE  PipeGood(h)
<1>1. p \in Pipe!ByteStreamType /\ Placed(p) /\ Held(p) /\ Handed(p) /\ Asleep(p)
  BY DEF PipeGood
<1>2. PICK o \in Nat, a \in Nat, b \in Nat, c \in Nat :
        /\ Piece(p.bytes, o, a) /\ Piece(p.rbuf, a, b) /\ Piece(p.data, b, c) /\ Piece(p.wbuf, c, p.pos)
        /\ Len(p.got) <= o
        /\ p.mode # "line" => p.bytes = << >> /\ Piece(p.got, 0, o)
  BY <1>1 DEF Placed
<1>3. /\ Len(p.wbuf) \in Nat /\ BufferSize \in Nat \ {0} /\ Len(p.wbuf) <= BufferSize /\ ~p.closed
      /\ p.pos \in 0 .. Bytes /\ Bytes \in Nat /\ (p.wbuf = << >> <=> Len(p.wbuf) = 0)
      /\ c + Len(p.wbuf) = p.pos
  <2>1. BufferSize \in Nat \ {0} /\ Bytes \in Nat /\ p.pos \in 0 .. Bytes
    BY <1>1, PipeSizes, PipeFields
  <2>2. Len(p.wbuf) <= BufferSize /\ ~p.closed
    BY <1>1, <2>1 DEF Held
  <2>3. Len(p.wbuf) \in Nat /\ (p.wbuf = << >> <=> Len(p.wbuf) = 0) /\ c + Len(p.wbuf) = p.pos
    BY <1>2, PieceEnds
  <2> QED BY <2>1, <2>2, <2>3
<1> DEFINE left == Bytes - p.pos
<1>4. left \in Nat /\ left # 0 /\ p.pos + left = Bytes /\ p.pos \in Nat
  <2>1. p.pos \in Nat /\ Bytes \in Nat /\ p.pos < Bytes
    BY <1>3
  <2> QED BY <2>1
<1>5. PICK n : n = Pipe!Min({left, BufferSize - Len(p.wbuf)})
  OBVIOUS
<1> DEFINE seq == Pipe!Rest(p)
           x == p.wbuf \o SubSeq(seq, 1, n)
           pos == p.pos + n
<1>6. h = IF p.drains \/ n = 0 THEN Pipe!FlushBuffer(p)
          ELSE [p EXCEPT !.wbuf = x, !.pos = pos]
  BY <1>1, <1>5 DEF Pipe!BufferedWrite, Pipe!ByteStreamType
<1>7. Piece(seq, p.pos, Bytes) /\ Len(seq) = left
  BY <1>3, RestIsPiece
<1> HIDE DEF left
<1>8. n \in Nat /\ n <= left /\ Len(p.wbuf) + n <= BufferSize /\ (n = 0 => Len(p.wbuf) = BufferSize)
  <2>1. left \in Nat /\ BufferSize \in Nat /\ Len(p.wbuf) \in Nat /\ Len(p.wbuf) <= BufferSize
    BY <1>3, <1>4
  <2>2. Fits(Pipe!Min({left, BufferSize - Len(p.wbuf)}), left, Len(p.wbuf), BufferSize)
    BY <2>1, HowMuch
  <2> QED BY <1>4, <1>5, <2>2 DEF Fits
<1>9. CASE p.drains \/ n = 0
  <2>1. p.wbuf # << >>
    BY <1>1, <1>3, <1>8, <1>9 DEF Held
  <2> QED BY <1>6, <1>9, <2>1, FlushIsGood
<1>10. CASE ~p.drains /\ n # 0
  <2>1. pos \in 0 .. Bytes /\ pos \in Nat
    <3>1. p.pos + n \in Nat /\ p.pos + n <= p.pos + left
      BY <1>4, <1>8
    <3> QED BY <1>3, <1>4, <3>1
  <2>2. Piece(SubSeq(seq, 1, n), p.pos, pos)
    BY <1>7, <1>8, PieceCut
  <2>3. Piece(x, c, pos)
    BY <1>2, <2>2, PieceJoin
  <2>4. x \in Seq(Byte) /\ Len(x) \in Nat /\ c + Len(x) = pos
    BY <2>3, PieceEnds DEF Piece
  <2>5. Len(x) <= BufferSize
    <3> HIDE DEF x, pos
    <3>1. c + Len(x) = p.pos + n
      BY <2>4 DEF pos
    <3>2. Len(x) = Len(p.wbuf) + n
      <4>1. c + Len(p.wbuf) = p.pos /\ Len(p.wbuf) \in Nat /\ p.pos \in Nat /\ n \in Nat /\ Len(x) \in Nat
        BY <1>3, <1>4, <1>8, <2>4
      <4> QED BY <4>1, <3>1, LengthsAfter
    <3> QED BY <1>8, <3>2
  <2> HIDE DEF x, pos, seq
  <2>6. h = [p EXCEPT !.wbuf = x, !.pos = pos]
    BY <1>6, <1>10
  <2>7. /\ h \in Pipe!ByteStreamType /\ Besides(h, p) /\ h.data = p.data /\ h.pos = pos
        /\ h.wbuf = x /\ h.drains = p.drains
        /\ h.parked = p.parked /\ h.wakers = p.wakers /\ h.woken = p.woken
    BY <1>1, <2>1, <2>4, <2>6 DEF Pipe!ByteStreamType, Besides, Byte
  <2>8. Placed(h)
    <3>1. /\ Piece(h.bytes, o, a) /\ Piece(h.rbuf, a, b) /\ Piece(h.data, b, c) /\ Piece(h.wbuf, c, h.pos)
          /\ Len(h.got) <= o
          /\ h.mode # "line" => h.bytes = << >> /\ Piece(h.got, 0, o)
      BY <1>2, <2>3, <2>7 DEF Besides
    <3> QED BY <3>1 DEF Placed
  <2>9. Held(h)
    BY <1>1, <1>3, <1>10, <2>5, <2>7 DEF Held, Besides
  <2>10. Handed(h) /\ Asleep(h)
    BY <1>1, <2>7 DEF Handed, Asleep, Besides
  <2> QED BY <2>7, <2>8, <2>9, <2>10 DEF PipeGood
<1> QED BY <1>9, <1>10

LEMMA CloseIsGood ==
  ASSUME NEW p, PipeGood(p), "writer" \notin p.parked, p.pos = Bytes, NEW h, h = Pipe!CloseOrFlush(p)
  PROVE  PipeGood(h)
<1>1. CASE p.wbuf # << >>
  BY <1>1, FlushIsGood DEF Pipe!CloseOrFlush
<1>2. CASE p.wbuf = << >>
  <2>1. p \in Pipe!ByteStreamType /\ Placed(p) /\ Held(p) /\ Handed(p) /\ Asleep(p)
    BY DEF PipeGood
  <2> DEFINE ended == p.ended \cup {"writer"}
  <2>2. PICK r : r = [p EXCEPT !.closed = TRUE, !.ended = ended]
    OBVIOUS
  <2>3. h = Pipe!Wake(r, "reader")
    BY <1>2, <2>1, <2>2 DEF Pipe!CloseOrFlush, Pipe!ByteStreamType
  <2>4. ended \in SUBSET Sides /\ ("reader" \in ended <=> "reader" \in p.ended)
    BY <2>1, PipeFields DEF Sides
  <2> HIDE DEF ended
  <2>5. /\ r \in Pipe!ByteStreamType
        /\ r.mode = p.mode /\ r.wrapped = p.wrapped /\ r.data = p.data /\ r.closed
        /\ r.pos = p.pos /\ r.wbuf = p.wbuf /\ r.drains = p.drains /\ r.rbuf = p.rbuf
        /\ r.bytes = p.bytes /\ r.got = p.got /\ r.lines = p.lines /\ r.ended = ended
        /\ r.parked = p.parked /\ r.wakers = p.wakers /\ r.woken = p.woken
    BY <2>1, <2>2, <2>4 DEF Pipe!ByteStreamType, Sides
  <2>6. Placed(r)
    BY <2>1, <2>5 DEF Placed
  <2>7. Held(r)
    BY <1>2, <2>1, <2>5 DEF Held
  <2>8. Handed(r)
    BY <2>1, <2>4, <2>5 DEF Handed
  <2>9. "reader" \in Sides
    BY DEF Sides
  <2>10. /\ h \in Pipe!ByteStreamType /\ Untouched(h, r)
         /\ h.parked = r.parked /\ h.wakers = r.wakers \ {"reader"}
         /\ h.woken = r.woken \cup (r.wakers \cap {"reader"})
    BY <2>3, <2>5, <2>9, PipeWakes
  <2>11. Placed(h) /\ Held(h) /\ Handed(h)
    BY <2>6, <2>7, <2>8, <2>10, UntouchedIsGood
  <2>12. ReaderWoken(h, p) /\ p.parked \subseteq Sides
    BY <2>1, <2>5, <2>10, PipeFields DEF ReaderWoken
  <2>13. Asleep(h)
    BY <2>1, <2>12, WriterLeavesNobody
  <2> QED BY <2>10, <2>11, <2>13 DEF PipeGood
<1> QED BY <1>1, <1>2

LEMMA WriterIsGood ==
  ASSUME PipeInv, Pipe!WriteAll \/ Pipe!Shutdown
  PROVE  PipeInv'
<1>1. PICK h : h = pipe'
  OBVIOUS
<1> SUFFICES PipeGood(h)
  BY <1>1 DEF PipeInv, PipeGood, Placed, Held, Handed, Asleep
<1>2. PICK p : p = Pipe!Polls("writer")
  OBVIOUS
<1>3. PipeGood(p) /\ "writer" \notin p.parked /\ Untouched(p, pipe)
  BY <1>2, PipePolls DEF Sides
<1>4. CASE Pipe!WriteAll
  <2>1. h = IF p.wrapped THEN Pipe!BufferedWrite(p) ELSE Pipe!WriteThrough(p)
    BY <1>1, <1>2, <1>3, <1>4 DEF Pipe!WriteAll, Untouched
  <2>2. p.pos < Bytes
    BY <1>3, <1>4 DEF Pipe!WriteAll, Untouched
  <2> QED BY <1>3, <2>1, <2>2, BufferedWriteIsGood, WriteThroughIsGood
<1>5. CASE Pipe!Shutdown
  <2>1. h = Pipe!CloseOrFlush(p) /\ p.pos = Bytes
    BY <1>1, <1>2, <1>3, <1>5 DEF Pipe!Shutdown, Untouched
  <2> QED BY <1>3, <2>1, CloseIsGood
<1> QED BY <1>4, <1>5

-----------------------------------------------------------------------------
(* ByteStream: the reader *)

WriterWoken(h, p) ==
  /\ h.parked = p.parked /\ h.wakers = p.wakers \ {"writer"}
  /\ h.woken = p.woken \cup (p.wakers \cap {"writer"})

(* All that the reader leaves alone when it moves what it holds *)
Aside(h, p) ==
  /\ h.mode = p.mode /\ h.wrapped = p.wrapped /\ h.data = p.data /\ h.closed = p.closed
  /\ h.pos = p.pos /\ h.wbuf = p.wbuf /\ h.drains = p.drains
  /\ h.parked = p.parked /\ h.wakers = p.wakers /\ h.woken = p.woken
  /\ "writer" \in h.ended <=> "writer" \in p.ended

LEMMA ReaderLeavesNobody ==
  ASSUME NEW p, NEW h, Asleep(p), "reader" \notin p.parked, WriterWoken(h, p), p.parked \subseteq Sides
  PROVE  Asleep(h)
<1>1. h.parked \ h.woken = {}
  BY DEF Asleep, WriterWoken, Sides
<1> QED BY <1>1 DEF Asleep

LEMMA AsideIsGood ==
  ASSUME NEW p, NEW h, Aside(h, p), Held(p), Asleep(p)
  PROVE  Held(h) /\ Asleep(h)
<1>1. Held(h)
  BY DEF Aside, Held
<1>2. Asleep(h)
  BY DEF Aside, Asleep
<1> QED BY <1>1, <1>2

Taken(h, p, data) ==
  /\ h \in Pipe!ByteStreamType /\ Besides(h, p) /\ WriterWoken(h, p)
  /\ h.data = data /\ h.pos = p.pos /\ h.wbuf = p.wbuf /\ h.drains = p.drains

LEMMA PipeReads ==
  ASSUME NEW p, p \in Pipe!ByteStreamType, NEW n, NEW data \in Seq(Byte),
         data = SubSeq(p.data, n + 1, Len(p.data)), NEW h, h = Pipe!DuplexRead(p, n)
  PROVE  Taken(h, p, data)
<1> DEFINE r == [p EXCEPT !.data = data]
<1>1. /\ r \in Pipe!ByteStreamType /\ Besides(r, p)
      /\ r.parked = p.parked /\ r.wakers = p.wakers /\ r.woken = p.woken
      /\ r.data = data /\ r.pos = p.pos /\ r.wbuf = p.wbuf /\ r.drains = p.drains
  BY DEF Pipe!ByteStreamType, Besides, Byte
<1>2. h = Pipe!Wake(r, "writer")
  BY DEF Pipe!DuplexRead, Pipe!ByteStreamType
<1> HIDE DEF r
<1>3. "writer" \in Sides
  BY DEF Sides
<1>4. /\ h \in Pipe!ByteStreamType /\ Untouched(h, r)
      /\ h.parked = r.parked /\ h.wakers = r.wakers \ {"writer"}
      /\ h.woken = r.woken \cup (r.wakers \cap {"writer"})
  BY <1>1, <1>2, <1>3, PipeWakes
<1> QED BY <1>1, <1>4 DEF Untouched, Besides, WriterWoken, Taken

(* What a read takes of m bytes when there is place for k *)
LEMMA HowManyRead ==
  ASSUME NEW m \in Nat, NEW k \in Nat, NEW n, n = Pipe!Min({m, k})
  PROVE  n \in Nat /\ n <= m
BY LesserOf

(* The first n bytes leave the stream: those left are few enough. *)
LEMMA TakenIsHeld ==
  ASSUME NEW p, NEW h, NEW data, Taken(h, p, data), Held(p), Len(data) <= Len(p.data),
         Len(data) \in Nat, Len(p.data) \in Nat
  PROVE  Held(h)
<1>1. PipeSize \in Nat
  BY PipeSizes
<1>2. Len(data) <= PipeSize
  BY <1>1 DEF Held
<1> QED BY <1>2 DEF Taken, Besides, Held

LEMMA FillIsGood ==
  ASSUME NEW p, PipeGood(p), "reader" \notin p.parked, NEW h, h = Pipe!FillBuffer(p)
  PROVE  /\ PipeGood(h) /\ "reader" \notin h.parked
         /\ h.mode = p.mode /\ h.ended = p.ended /\ h.got = p.got
<1>1. p \in Pipe!ByteStreamType /\ Placed(p) /\ Held(p) /\ Handed(p) /\ Asleep(p)
  BY DEF PipeGood
<1>2. PICK o \in Nat, a \in Nat, b \in Nat, c \in Nat :
        /\ Piece(p.bytes, o, a) /\ Piece(p.rbuf, a, b) /\ Piece(p.data, b, c) /\ Piece(p.wbuf, c, p.pos)
        /\ Len(p.got) <= o
        /\ p.mode # "line" => p.bytes = << >> /\ Piece(p.got, 0, o)
  BY <1>1 DEF Placed
<1>3. Len(p.data) \in Nat /\ BufferSize \in Nat /\ b + Len(p.data) = c
  BY <1>2, PipeSizes, PieceEnds
<1>4. PICK n : n = Pipe!Min({Len(p.data), BufferSize})
  OBVIOUS
<1>5. n \in Nat /\ n <= Len(p.data)
  BY <1>3, <1>4, HowManyRead
<1> DEFINE d == SubSeq(p.data, n + 1, Len(p.data))
           x == p.rbuf \o SubSeq(p.data, 1, n)
<1>6. Piece(SubSeq(p.data, 1, n), b, b + n) /\ Piece(d, b + n, c)
  BY <1>2, <1>5, PieceCut
<1>7. Piece(x, a, b + n)
  BY <1>2, <1>6, PieceJoin
<1>8. d \in Seq(Byte) /\ x \in Seq(Byte) /\ b + n \in Nat /\ Len(d) \in Nat /\ b + n + Len(d) = c
  BY <1>6, <1>7, PieceEnds DEF Piece
<1>9. Len(d) <= Len(p.data)
  <2> HIDE DEF d
  <2>1. \A k, l \in Nat : b + k = c /\ b + n + l = c => l <= k
    BY <1>5
  <2> QED BY <1>3, <1>8, <2>1
<1>10. PICK g : g = Pipe!DuplexRead(p, n)
  OBVIOUS
<1>11. Taken(g, p, d)
  <2>1. d = SubSeq(p.data, n + 1, Len(p.data)) /\ d \in Seq(Byte)
    BY <1>8
  <2> HIDE DEF d
  <2> QED BY <1>1, <1>10, <2>1, PipeReads
<1>12. /\ g \in Pipe!ByteStreamType /\ Besides(g, p) /\ WriterWoken(g, p) /\ g.data = d
       /\ g.pos = p.pos /\ g.wbuf = p.wbuf /\ g.drains = p.drains
  BY <1>11 DEF Taken
<1>13. h = [g EXCEPT !.rbuf = x]
  BY <1>1, <1>4, <1>10, <1>12 DEF Pipe!FillBuffer, Pipe!ByteStreamType, Besides
<1> HIDE DEF d, x
<1>14. /\ h \in Pipe!ByteStreamType /\ h.rbuf = x /\ Aside(h, g)
       /\ h.bytes = g.bytes /\ h.got = g.got /\ h.lines = g.lines /\ h.ended = g.ended
  BY <1>8, <1>12, <1>13 DEF Pipe!ByteStreamType, Byte, Aside
<1>15. /\ h.mode = p.mode /\ h.data = d /\ h.pos = p.pos /\ h.wbuf = p.wbuf /\ h.bytes = p.bytes
       /\ h.got = p.got /\ h.lines = p.lines /\ h.ended = p.ended /\ h.parked = p.parked
  BY <1>12, <1>14 DEF Aside, Besides, WriterWoken
<1>16. Placed(h)
  <2>1. /\ Piece(h.bytes, o, a) /\ Piece(h.rbuf, a, b + n) /\ Piece(h.data, b + n, c) /\ Piece(h.wbuf, c, h.pos)
        /\ Len(h.got) <= o
        /\ h.mode # "line" => h.bytes = << >> /\ Piece(h.got, 0, o)
    BY <1>2, <1>6, <1>7, <1>14, <1>15
  <2> QED BY <1>8, <2>1 DEF Placed
<1>17. Held(h) /\ Asleep(h)
  <2>1. Held(g)
    BY <1>1, <1>3, <1>8, <1>9, <1>11, TakenIsHeld
  <2>2. Asleep(g)
    <3>1. p.parked \subseteq Sides
      BY <1>1, PipeFields
    <3> QED BY <1>1, <1>12, <3>1, ReaderLeavesNobody
  <2> QED BY <1>14, <2>1, <2>2, AsideIsGood
<1>18. Handed(h)
  BY <1>1, <1>15 DEF Handed
<1> QED BY <1>14, <1>15, <1>16, <1>17, <1>18 DEF PipeGood

(* A reading caller that has not seen the end gets more. *)
LEMMA MoreIsGood ==
  ASSUME NEW p, PipeGood(p), NEW h, h \in Pipe!ByteStreamType, Placed(h), Held(h), Asleep(h),
         h.mode = p.mode, h.ended = p.ended, "reader" \notin p.ended, h.lines = p.lines
  PROVE  PipeGood(h)
BY DEF PipeGood, Handed

LEMMA TakeBufferedIsGood ==
  ASSUME NEW p, PipeGood(p), p.mode # "line", "reader" \notin p.ended, NEW size \in Nat,
         NEW h, h = Pipe!TakeBuffered(p, size)
  PROVE  PipeGood(h)
<1>1. p \in Pipe!ByteStreamType /\ Placed(p) /\ Held(p) /\ Handed(p) /\ Asleep(p)
  BY DEF PipeGood
<1>2. PICK o \in Nat, a \in Nat, b \in Nat, c \in Nat :
        /\ Piece(p.bytes, o, a) /\ Piece(p.rbuf, a, b) /\ Piece(p.data, b, c) /\ Piece(p.wbuf, c, p.pos)
        /\ Len(p.got) <= o /\ p.bytes = << >> /\ Piece(p.got, 0, o)
  BY <1>1 DEF Placed
<1>3. o = a
  <2>1. Len(p.bytes) = 0 /\ o + Len(p.bytes) = a
    BY <1>2, PieceEnds
  <2> QED BY <2>1
<1>4. PICK n : n = Pipe!Min({Len(p.rbuf), size})
  OBVIOUS
<1>5. n \in Nat /\ n <= Len(p.rbuf)
  <2>1. Len(p.rbuf) \in Nat
    BY <1>2, PieceEnds
  <2> QED BY <1>4, <2>1, HowManyRead
<1> DEFINE x == SubSeq(p.rbuf, n + 1, Len(p.rbuf))
           y == p.got \o SubSeq(p.rbuf, 1, n)
<1>6. Piece(SubSeq(p.rbuf, 1, n), a, a + n) /\ Piece(x, a + n, b)
  BY <1>2, <1>5, PieceCut
<1>7. Piece(y, 0, a + n)
  BY <1>2, <1>3, <1>6, PieceJoin
<1>8. x \in Seq(Byte) /\ y \in Seq(Byte) /\ a + n \in Nat /\ Len(y) <= a + n
  <2>1. Len(y) \in Nat /\ 0 + Len(y) = a + n
    BY <1>7, PieceEnds
  <2>2. x \in Seq(Byte) /\ y \in Seq(Byte) /\ a + n \in Nat
    BY <1>6, <1>7 DEF Piece
  <2> HIDE DEF x, y
  <2> QED BY <2>1, <2>2
<1>9. h = [p EXCEPT !.rbuf = x, !.got = y]
  BY <1>1, <1>4 DEF Pipe!TakeBuffered, Pipe!ByteStreamType
<1> HIDE DEF x, y
<1>10. /\ h \in Pipe!ByteStreamType /\ h.rbuf = x /\ h.got = y /\ Aside(h, p)
       /\ h.bytes = p.bytes /\ h.lines = p.lines /\ h.ended = p.ended
  BY <1>1, <1>8, <1>9 DEF Pipe!ByteStreamType, Byte, Aside
<1>11. Placed(h)
  <2>1. Piece(<< >>, a + n, a + n)
    BY <1>8, NoPiece
  <2>2. /\ Piece(h.bytes, a + n, a + n) /\ Piece(h.rbuf, a + n, b) /\ Piece(h.data, b, c) /\ Piece(h.wbuf, c, h.pos)
        /\ Len(h.got) <= a + n
        /\ h.mode # "line" => h.bytes = << >> /\ Piece(h.got, 0, a + n)
    BY <1>2, <1>6, <1>7, <1>8, <1>10, <2>1 DEF Aside
  <2> QED BY <1>8, <2>2 DEF Placed
<1>12. Held(h) /\ Asleep(h)
  BY <1>1, <1>10, AsideIsGood
<1>13. h.mode = p.mode
  BY <1>10 DEF Aside
<1> QED BY <1>10, <1>11, <1>12, <1>13, MoreIsGood

LEMMA ReadThroughIsGood ==
  ASSUME NEW p, PipeGood(p), p.mode # "line", "reader" \notin p.ended, "reader" \notin p.parked,
         p.rbuf = << >>, NEW size \in Nat, NEW h, h = Pipe!ReadThrough(p, size)
  PROVE  PipeGood(h)
<1>1. p \in Pipe!ByteStreamType /\ Placed(p) /\ Held(p) /\ Handed(p) /\ Asleep(p)
  BY DEF PipeGood
<1>2. PICK o \in Nat, a \in Nat, b \in Nat, c \in Nat :
        /\ Piece(p.bytes, o, a) /\ Piece(p.rbuf, a, b) /\ Piece(p.data, b, c) /\ Piece(p.wbuf, c, p.pos)
        /\ Len(p.got) <= o /\ p.bytes = << >> /\ Piece(p.got, 0, o)
  BY <1>1 DEF Placed
<1>3. o = b /\ Len(p.data) \in Nat /\ b + Len(p.data) = c
  <2>1. Len(p.bytes) = 0 /\ o + Len(p.bytes) = a /\ Len(p.rbuf) = 0 /\ a + Len(p.rbuf) = b
    BY <1>2, PieceEnds
  <2>2. Len(p.data) \in Nat /\ b + Len(p.data) = c
    BY <1>2, PieceEnds
  <2> QED BY <2>1, <2>2
<1>4. PICK n : n = Pipe!Min({Len(p.data), size})
  OBVIOUS
<1>5. n \in Nat /\ n <= Len(p.data)
  BY <1>3, <1>4, HowManyRead
<1> DEFINE d == SubSeq(p.data, n + 1, Len(p.data))
           y == p.got \o SubSeq(p.data, 1, n)
<1>6. Piece(SubSeq(p.data, 1, n), b, b + n) /\ Piece(d, b + n, c)
  BY <1>2, <1>5, PieceCut
<1>7. Piece(y, 0, b + n)
  BY <1>2, <1>3, <1>6, PieceJoin
<1>8. d \in Seq(Byte) /\ y \in Seq(Byte) /\ b + n \in Nat /\ Len(d) \in Nat /\ b + n + Len(d) = c
  BY <1>6, <1>7, PieceEnds DEF Piece
<1>9. Len(d) <= Len(p.data)
  <2> HIDE DEF d
  <2>1. \A k, l \in Nat : b + k = c /\ b + n + l = c => l <= k
    BY <1>5
  <2> QED BY <1>3, <1>8, <2>1
<1>10. PICK g : g = Pipe!DuplexRead(p, n)
  OBVIOUS
<1>11. Taken(g, p, d)
  <2>1. d = SubSeq(p.data, n + 1, Len(p.data)) /\ d \in Seq(Byte)
    BY <1>8
  <2> HIDE DEF d
  <2> QED BY <1>1, <1>10, <2>1, PipeReads
<1>12. /\ g \in Pipe!ByteStreamType /\ Besides(g, p) /\ WriterWoken(g, p) /\ g.data = d
       /\ g.pos = p.pos /\ g.wbuf = p.wbuf /\ g.drains = p.drains
  BY <1>11 DEF Taken
<1>13. h = [g EXCEPT !.got = y]
  BY <1>1, <1>4, <1>10, <1>12 DEF Pipe!ReadThrough, Pipe!ByteStreamType, Besides
<1>14. Len(y) <= b + n
  <2>1. Len(y) \in Nat /\ 0 + Len(y) = b + n
    BY <1>7, PieceEnds
  <2> HIDE DEF y
  <2> QED BY <2>1, <1>8
<1> HIDE DEF d, y
<1>15. /\ h \in Pipe!ByteStreamType /\ h.got = y /\ Aside(h, g)
       /\ h.bytes = g.bytes /\ h.rbuf = g.rbuf /\ h.lines = g.lines /\ h.ended = g.ended
  BY <1>8, <1>12, <1>13 DEF Pipe!ByteStreamType, Byte, Aside
<1>16. /\ h.mode = p.mode /\ h.data = d /\ h.pos = p.pos /\ h.wbuf = p.wbuf /\ h.bytes = p.bytes
       /\ h.rbuf = p.rbuf /\ h.lines = p.lines /\ h.ended = p.ended
  BY <1>12, <1>15 DEF Aside, Besides
<1>17. Placed(h)
  <2>1. Piece(<< >>, b + n, b + n)
    BY <1>8, NoPiece
  <2>2. /\ Piece(h.bytes, b + n, b + n) /\ Piece(h.rbuf, b + n, b + n) /\ Piece(h.data, b + n, c)
        /\ Piece(h.wbuf, c, h.pos) /\ Len(h.got) <= b + n
        /\ h.mode # "line" => h.bytes = << >> /\ Piece(h.got, 0, b + n)
    BY <1>2, <1>6, <1>7, <1>14, <1>15, <1>16, <2>1
  <2> QED BY <1>8, <2>2 DEF Placed
<1>18. Held(h) /\ Asleep(h)
  <2>1. Held(g)
    BY <1>1, <1>3, <1>8, <1>9, <1>11, TakenIsHeld
  <2>2. Asleep(g)
    <3>1. p.parked \subseteq Sides
      BY <1>1, PipeFields
    <3> QED BY <1>1, <1>12, <3>1, ReaderLeavesNobody
  <2> QED BY <1>15, <2>1, <2>2, AsideIsGood
<1> QED BY <1>15, <1>16, <1>17, <1>18, MoreIsGood

(* The end: everything was written, and nothing is on its way. *)
LEMMA EndIsGood ==
  ASSUME NEW p, PipeGood(p), p.rbuf = << >>, p.data = << >>, p.closed, NEW h, h = Pipe!End(p)
  PROVE  /\ PipeGood(h) /\ Len(h.got) <= Bytes /\ (p.mode # "line" => Len(h.got) = Bytes)
         /\ h.mode = p.mode /\ h.got = p.got /\ h.bytes = p.bytes
<1>1. p \in Pipe!ByteStreamType /\ Placed(p) /\ Held(p) /\ Handed(p) /\ Asleep(p)
  BY DEF PipeGood
<1>2. PICK o \in Nat, a \in Nat, b \in Nat, c \in Nat :
        /\ Piece(p.bytes, o, a) /\ Piece(p.rbuf, a, b) /\ Piece(p.data, b, c) /\ Piece(p.wbuf, c, p.pos)
        /\ Len(p.got) <= o
        /\ p.mode # "line" => p.bytes = << >> /\ Piece(p.got, 0, o)
  BY <1>1 DEF Placed
<1>3. p.pos = Bytes /\ p.wbuf = << >> /\ Bytes \in Nat /\ p.got \in Seq(Byte)
  BY <1>1, PipeSizes, PipeFields DEF Held
<1>4. a = Bytes /\ o <= Bytes /\ (p.bytes = << >> => o = Bytes)
  <2>1. /\ Len(p.rbuf) = 0 /\ a + Len(p.rbuf) = b /\ Len(p.data) = 0 /\ b + Len(p.data) = c
        /\ Len(p.wbuf) = 0 /\ c + Len(p.wbuf) = p.pos
    BY <1>2, <1>3, PieceEnds
  <2>2. a = Bytes
    BY <1>3, <2>1
  <2>3. o <= a /\ o + Len(p.bytes) = a /\ (p.bytes = << >> => Len(p.bytes) = 0)
    BY <1>2, PieceEnds
  <2> QED BY <2>2, <2>3
<1>5. Len(p.got) <= Bytes /\ (p.mode # "line" => Len(p.got) = Bytes)
  <2>1. Len(p.got) \in Nat
    BY <1>3, LenProperties
  <2>2. p.mode # "line" => 0 + Len(p.got) = o
    BY <1>2 DEF Piece
  <2> QED BY <1>2, <1>3, <1>4, <2>1, <2>2
<1> DEFINE ended == p.ended \cup {"reader"}
<1>6. ended \in SUBSET Sides /\ ("writer" \in ended <=> "writer" \in p.ended)
  BY <1>1, PipeFields DEF Sides
<1>7. h = [p EXCEPT !.ended = ended]
  BY <1>1 DEF Pipe!End, Pipe!ByteStreamType
<1> HIDE DEF ended
<1>8. /\ h \in Pipe!ByteStreamType /\ Aside(h, p) /\ h.rbuf = p.rbuf
      /\ h.bytes = p.bytes /\ h.got = p.got /\ h.lines = p.lines
  BY <1>1, <1>6, <1>7 DEF Pipe!ByteStreamType, Sides, Aside
<1>9. Held(h) /\ Asleep(h)
  BY <1>1, <1>8, AsideIsGood
<1>10. Placed(h)
  BY <1>1, <1>8 DEF Placed, Aside
<1>11. Handed(h)
  BY <1>1, <1>5, <1>8 DEF Handed, Aside
<1> QED BY <1>5, <1>8, <1>9, <1>10, <1>11 DEF PipeGood, Aside

LEMMA ReadSomeIsGood ==
  ASSUME NEW p, PipeGood(p), p.mode # "line", "reader" \notin p.ended, "reader" \notin p.parked,
         NEW size \in Nat, NEW h, h = Pipe!ReadSome(p, size)
  PROVE  PipeGood(h)
<1>1. CASE p.rbuf # << >>
  BY <1>1, TakeBufferedIsGood DEF Pipe!ReadSome
<1>2. CASE p.rbuf = << >> /\ p.data = << >>
  <2>1. h = IF p.closed THEN Pipe!End(p) ELSE Pipe!Park(p, "reader")
    BY <1>2 DEF Pipe!ReadSome
  <2>2. CASE p.closed
    BY <1>2, <2>1, <2>2, EndIsGood
  <2>3. CASE ~p.closed
    BY <1>2, <2>1, <2>3, PipeSleeps DEF Sides
  <2> QED BY <2>2, <2>3
<1>3. CASE p.rbuf = << >> /\ p.data # << >>
  <2>1. h = IF p.wrapped /\ size < BufferSize THEN Pipe!TakeBuffered(Pipe!FillBuffer(p), size)
            ELSE Pipe!ReadThrough(p, size)
    BY <1>3 DEF Pipe!ReadSome
  <2>2. CASE p.wrapped /\ size < BufferSize
    <3>1. PICK g : g = Pipe!FillBuffer(p)
      OBVIOUS
    <3>2. PipeGood(g) /\ g.mode # "line" /\ "reader" \notin g.ended
      BY <3>1, FillIsGood
    <3>3. h = Pipe!TakeBuffered(g, size)
      BY <2>1, <2>2, <3>1
    <3> QED BY <3>2, <3>3, TakeBufferedIsGood
  <2>3. CASE ~(p.wrapped /\ size < BufferSize)
    <3>1. h = Pipe!ReadThrough(p, size)
      BY <2>1, <2>3
    <3> QED BY <1>3, <3>1, ReadThroughIsGood
  <2> QED BY <2>2, <2>3
<1> QED BY <1>1, <1>2, <1>3

LEMMA ReturnedIsGood ==
  ASSUME NEW p, PipeGood(p), Len(p.got) <= Bytes,
         p.mode # "line" => Len(p.got) = Bytes \/ Len(p.got) \in Delimiters,
         NEW h, h = Pipe!Returned(p)
  PROVE  PipeGood(h)
<1>1. p \in Pipe!ByteStreamType /\ Placed(p) /\ Held(p) /\ Handed(p) /\ Asleep(p)
  BY DEF PipeGood
<1> DEFINE lines == p.lines \cup {Len(p.got)}
<1>2. lines \in SUBSET (0 .. Bytes)
  <2>1. p.got \in Seq(Byte) /\ p.lines \in SUBSET (0 .. Bytes) /\ Bytes \in Nat
    BY <1>1, PipeFields, PipeSizes
  <2>2. Len(p.got) \in 0 .. Bytes
    BY <2>1, LenProperties
  <2> QED BY <2>1, <2>2
<1>3. h = [p EXCEPT !.lines = lines]
  BY <1>1 DEF Pipe!Returned, Pipe!ByteStreamType
<1>4. p.mode # "line" => \A n \in lines : n = Bytes \/ n \in Delimiters
  BY <1>1 DEF Handed
<1> HIDE DEF lines
<1>5. /\ h \in Pipe!ByteStreamType /\ Aside(h, p) /\ h.rbuf = p.rbuf
      /\ h.bytes = p.bytes /\ h.got = p.got /\ h.lines = lines /\ h.ended = p.ended
  BY <1>1, <1>2, <1>3 DEF Pipe!ByteStreamType, Aside
<1>6. Held(h) /\ Asleep(h)
  BY <1>1, <1>5, AsideIsGood
<1>7. Placed(h)
  BY <1>1, <1>5 DEF Placed, Aside
<1>8. Handed(h)
  BY <1>1, <1>4, <1>5 DEF Handed, Aside
<1> QED BY <1>5, <1>6, <1>7, <1>8 DEF PipeGood

(* A line, or what there is of it, goes from the buffer to the caller. *)
LEMMA LineIsGood ==
  ASSUME NEW p, PipeGood(p), p.mode # "line", "reader" \notin p.ended, p.rbuf # << >>,
         NEW h, h = [Pipe!Consume(p) EXCEPT !.got = @ \o Pipe!Line(p)]
  PROVE  /\ PipeGood(h) /\ Len(h.got) <= Bytes
         /\ Pipe!Last(h.got) \in Delimiters => Len(h.got) \in Delimiters
<1>1. p \in Pipe!ByteStreamType /\ Placed(p) /\ Held(p) /\ Handed(p) /\ Asleep(p)
  BY DEF PipeGood
<1>2. PICK o \in Nat, a \in Nat, b \in Nat, c \in Nat :
        /\ Piece(p.bytes, o, a) /\ Piece(p.rbuf, a, b) /\ Piece(p.data, b, c) /\ Piece(p.wbuf, c, p.pos)
        /\ Len(p.got) <= o /\ p.bytes = << >> /\ Piece(p.got, 0, o)
  BY <1>1 DEF Placed
<1>3. o = a
  <2>1. Len(p.bytes) = 0 /\ o + Len(p.bytes) = a
    BY <1>2, PieceEnds
  <2> QED BY <2>1
<1>4. PICK n : n = Pipe!NextDelimiter(p)
  OBVIOUS
<1>5. n \in Nat /\ n # 0 /\ n <= Len(p.rbuf)
  <2>1. n \in 1 .. Len(p.rbuf)
    BY <1>2, <1>4, DelimiterInBuffer
  <2>2. Len(p.rbuf) \in Nat
    BY <1>2, PieceEnds
  <2> QED BY <2>1, <2>2
<1> DEFINE x == SubSeq(p.rbuf, n + 1, Len(p.rbuf))
           y == p.got \o SubSeq(p.rbuf, 1, n)
<1>6. Piece(SubSeq(p.rbuf, 1, n), a, a + n) /\ Piece(x, a + n, b)
  BY <1>2, <1>5, PieceCut
<1>7. Piece(y, 0, a + n)
  BY <1>2, <1>3, <1>6, PieceJoin
<1>8. x \in Seq(Byte) /\ y \in Seq(Byte) /\ a + n \in Nat
  BY <1>6, <1>7 DEF Piece
<1>9. h = [p EXCEPT !.rbuf = x, !.got = y]
  BY <1>1, <1>4 DEF Pipe!Consume, Pipe!Line, Pipe!ByteStreamType
<1> HIDE DEF x, y
<1>10. /\ h \in Pipe!ByteStreamType /\ h.rbuf = x /\ h.got = y /\ Aside(h, p)
       /\ h.bytes = p.bytes /\ h.lines = p.lines /\ h.ended = p.ended
  BY <1>1, <1>8, <1>9 DEF Pipe!ByteStreamType, Byte, Aside
<1>11. Len(y) = a + n /\ a + n # 0 /\ y # << >> /\ a + n <= Bytes
  <2>1. /\ Len(y) \in Nat /\ 0 + Len(y) = a + n /\ (y = << >> <=> Len(y) = 0)
        /\ (y # << >> => a + n <= Bytes)
    BY <1>7, PieceEnds
  <2>2. a + n # 0
    BY <1>5
  <2> QED BY <2>1, <2>2
<1>12. Placed(h)
  <2>1. Piece(<< >>, a + n, a + n)
    BY <1>8, NoPiece
  <2>2. Len(h.got) <= a + n
    BY <1>8, <1>10, <1>11
  <2>3. /\ Piece(h.bytes, a + n, a + n) /\ Piece(h.rbuf, a + n, b) /\ Piece(h.data, b, c) /\ Piece(h.wbuf, c, h.pos)
        /\ h.mode # "line" => h.bytes = << >> /\ Piece(h.got, 0, a + n)
    BY <1>2, <1>6, <1>7, <1>10, <2>1 DEF Aside
  <2> QED BY <1>8, <2>2, <2>3 DEF Placed
<1>13. Held(h) /\ Asleep(h)
  BY <1>1, <1>10, AsideIsGood
<1>14. h.mode = p.mode
  BY <1>10 DEF Aside
<1>15. PipeGood(h)
  BY <1>10, <1>12, <1>13, <1>14, MoreIsGood
<1>16. Pipe!Last(h.got) = Len(h.got)
  <2>1. Pipe!Last(y) = y[Len(y)]
    BY DEF Pipe!Last
  <2>2. Len(y) \in 1 .. Len(y)
    BY <1>8, <1>11
  <2>3. y[Len(y)] = 0 + Len(y)
    BY <1>7, <2>2 DEF Piece
  <2>4. 0 + Len(y) = Len(y)
    BY <1>8, <1>11
  <2> QED BY <1>10, <2>1, <2>3, <2>4
<1> QED BY <1>10, <1>11, <1>15, <1>16

(* The same for read_line, which holds it back. *)
LEMMA LineIsHeld ==
  ASSUME NEW p, PipeGood(p), p.mode = "line", p.rbuf # << >>,
         NEW h, h = [Pipe!Consume(p) EXCEPT !.bytes = @ \o Pipe!Line(p)]
  PROVE  PipeGood(h) /\ h.mode = "line"
<1>1. p \in Pipe!ByteStreamType /\ Placed(p) /\ Held(p) /\ Handed(p) /\ Asleep(p)
  BY DEF PipeGood
<1>2. PICK o \in Nat, a \in Nat, b \in Nat, c \in Nat :
        /\ Piece(p.bytes, o, a) /\ Piece(p.rbuf, a, b) /\ Piece(p.data, b, c) /\ Piece(p.wbuf, c, p.pos)
        /\ Len(p.got) <= o
  BY <1>1 DEF Placed
<1>3. PICK n : n = Pipe!NextDelimiter(p)
  OBVIOUS
<1>4. n \in Nat /\ n <= Len(p.rbuf)
  <2>1. n \in 1 .. Len(p.rbuf)
    BY <1>2, <1>3, DelimiterInBuffer
  <2>2. Len(p.rbuf) \in Nat
    BY <1>2, PieceEnds
  <2> QED BY <2>1, <2>2
<1> DEFINE x == SubSeq(p.rbuf, n + 1, Len(p.rbuf))
           y == p.bytes \o SubSeq(p.rbuf, 1, n)
<1>5. Piece(SubSeq(p.rbuf, 1, n), a, a + n) /\ Piece(x, a + n, b)
  BY <1>2, <1>4, PieceCut
<1>6. Piece(y, o, a + n)
  BY <1>2, <1>5, PieceJoin
<1>7. x \in Seq(Byte) /\ y \in Seq(Byte) /\ a + n \in Nat
  BY <1>5, <1>6 DEF Piece
<1>8. h = [p EXCEPT !.rbuf = x, !.bytes = y]
  BY <1>1, <1>3 DEF Pipe!Consume, Pipe!Line, Pipe!ByteStreamType
<1> HIDE DEF x, y
<1>9. /\ h \in Pipe!ByteStreamType /\ h.rbuf = x /\ h.bytes = y /\ Aside(h, p)
      /\ h.got = p.got /\ h.lines = p.lines /\ h.ended = p.ended
  BY <1>1, <1>7, <1>8 DEF Pipe!ByteStreamType, Byte, Aside
<1>10. h.mode = "line"
  BY <1>9 DEF Aside
<1>11. Placed(h)
  <2>1. /\ Piece(h.bytes, o, a + n) /\ Piece(h.rbuf, a + n, b) /\ Piece(h.data, b, c) /\ Piece(h.wbuf, c, h.pos)
        /\ Len(h.got) <= o
    BY <1>2, <1>5, <1>6, <1>9 DEF Aside
  <2> QED BY <1>7, <1>10, <2>1 DEF Placed
<1>12. Held(h) /\ Asleep(h)
  BY <1>1, <1>9, AsideIsGood
<1> QED BY <1>9, <1>10, <1>11, <1>12 DEF PipeGood, Handed

(* What read_line held back is handed over, or dropped. *)
LEMMA HandedOverIsGood ==
  ASSUME NEW p, PipeGood(p), p.mode = "line", NEW h,
         h = Pipe!HandOver(p) \/ h = [p EXCEPT !.bytes = << >>]
  PROVE  PipeGood(h)
<1>1. p \in Pipe!ByteStreamType /\ Placed(p) /\ Held(p) /\ Handed(p) /\ Asleep(p)
  BY DEF PipeGood
<1>2. PICK o \in Nat, a \in Nat, b \in Nat, c \in Nat :
        /\ Piece(p.bytes, o, a) /\ Piece(p.rbuf, a, b) /\ Piece(p.data, b, c) /\ Piece(p.wbuf, c, p.pos)
        /\ Len(p.got) <= o
  BY <1>1 DEF Placed
<1>3. Piece(<< >>, a, a) /\ << >> \in Seq(Byte)
  BY NoPiece DEF Piece
<1>4. ASSUME NEW got \in Seq(Byte), Len(got) <= a, NEW g, g = [p EXCEPT !.got = got, !.bytes = << >>]
      PROVE  PipeGood(g) /\ g.got = got /\ g.mode = "line"
  <2>1. /\ g \in Pipe!ByteStreamType /\ g.rbuf = p.rbuf /\ g.bytes = << >> /\ Aside(g, p)
        /\ g.got = got /\ g.lines = p.lines /\ g.ended = p.ended
    BY <1>1, <1>3, <1>4 DEF Pipe!ByteStreamType, Byte, Aside
  <2>2. Placed(g)
    <3>1. /\ Piece(g.bytes, a, a) /\ Piece(g.rbuf, a, b) /\ Piece(g.data, b, c) /\ Piece(g.wbuf, c, g.pos)
          /\ Len(g.got) <= a /\ g.mode = "line"
      BY <1>2, <1>3, <1>4, <2>1 DEF Aside
    <3> QED BY <3>1 DEF Placed
  <2>3. Held(g) /\ Asleep(g)
    BY <1>1, <2>1, AsideIsGood
  <2>4. g.mode = "line"
    BY <2>1 DEF Aside
  <2> QED BY <2>1, <2>2, <2>3, <2>4 DEF PipeGood, Handed
<1>5. /\ p.got \in Seq(Byte) /\ p.bytes \in Seq(Byte) /\ Len(p.got) \in Nat /\ Len(p.bytes) \in Nat
      /\ o + Len(p.bytes) = a /\ o <= a
  BY <1>1, <1>2, PipeFields, LenProperties, PieceEnds
<1>6. CASE h = [p EXCEPT !.bytes = << >>]
  <2>1. h = [p EXCEPT !.got = p.got, !.bytes = << >>]
    BY <1>1, <1>6 DEF Pipe!ByteStreamType
  <2>2. Len(p.got) <= a
    BY <1>2, <1>5
  <2> QED BY <1>4, <1>5, <2>1, <2>2
<1>7. CASE h = Pipe!HandOver(p)
  <2> DEFINE got == p.got \o p.bytes
  <2>1. PICK g : g = [p EXCEPT !.got = got, !.bytes = << >>]
    OBVIOUS
  <2>2. h = Pipe!Returned(g)
    BY <1>1, <1>7, <2>1 DEF Pipe!HandOver, Pipe!ByteStreamType
  <2>3. got \in Seq(Byte) /\ Len(got) = Len(p.got) + Len(p.bytes)
    BY <1>5, ConcatProperties
  <2> HIDE DEF got
  <2>4. Len(got) <= a /\ Len(got) \in Nat
    <3>1. \A k, l \in Nat : k <= o /\ o + l = a => k + l <= a /\ k + l \in Nat
      OBVIOUS
    <3> QED BY <1>2, <1>5, <2>3, <3>1
  <2>5. PipeGood(g) /\ g.got = got /\ g.mode = "line"
    BY <1>4, <2>1, <2>3, <2>4
  <2>6. a <= p.pos /\ p.pos <= Bytes
    <3>1. a <= b /\ b <= c /\ c <= p.pos
      BY <1>2, PieceEnds
    <3>2. p.pos \in 0 .. Bytes /\ Bytes \in Nat
      BY <1>1, PipeFields, PipeSizes
    <3> QED BY <3>1, <3>2
  <2>7. Len(g.got) <= Bytes
    <3>1. p.pos \in Nat /\ Bytes \in Nat
      BY <1>1, PipeFields, PipeSizes
    <3> QED BY <2>4, <2>5, <2>6, <3>1
  <2> QED BY <2>2, <2>5, <2>7, ReturnedIsGood
<1> QED BY <1>6, <1>7

LEMMA PipeReader ==
  ASSUME PipeInv, Pipe!Runs("reader"), NEW p, p = Pipe!Polls("reader")
  PROVE  PipeGood(p) /\ "reader" \notin p.parked /\ "reader" \notin p.ended /\ p.mode = pipe.mode
<1>1. PipeGood(p) /\ "reader" \notin p.parked /\ Untouched(p, pipe)
  BY PipePolls DEF Sides
<1> QED BY <1>1 DEF Untouched, Pipe!Runs

LEMMA ReaderIsGood ==
  ASSUME PipeInv, Pipe!Read \/ Pipe!ReadToEnd \/ Pipe!ReadUntil \/ Pipe!ReadLine
  PROVE  PipeInv'
<1>1. PICK h : h = pipe'
  OBVIOUS
<1> SUFFICES PipeGood(h)
  BY <1>1 DEF PipeInv, PipeGood, Placed, Held, Handed, Asleep
<1>2. PICK p : p = Pipe!Polls("reader")
  OBVIOUS
<1>3. Pipe!Runs("reader")
  BY DEF Pipe!Read, Pipe!ReadToEnd, Pipe!ReadUntil, Pipe!ReadLine
<1>4. PipeGood(p) /\ "reader" \notin p.parked /\ "reader" \notin p.ended /\ p.mode = pipe.mode
  BY <1>2, <1>3, PipeReader
<1>5. CASE Pipe!Read
  <2>1. h = Pipe!ReadSome(p, ReadSize) /\ p.mode # "line" /\ ReadSize \in Nat
    BY <1>1, <1>2, <1>4, <1>5, PipeSizes DEF Pipe!Read
  <2> QED BY <1>4, <2>1, ReadSomeIsGood
<1>6. CASE Pipe!ReadToEnd
  <2>1. PICK spare \in 1 .. Bytes : h = Pipe!ReadSome(p, spare)
    BY <1>1, <1>2, <1>6 DEF Pipe!ReadToEnd
  <2>2. p.mode # "line" /\ spare \in Nat
    BY <1>4, <1>6, PipeSizes DEF Pipe!ReadToEnd
  <2> QED BY <1>4, <2>1, <2>2, ReadSomeIsGood
<1>7. CASE Pipe!ReadUntil
  <2>1. p.mode # "line"
    BY <1>4, <1>7 DEF Pipe!ReadUntil
  <2>2. CASE p.rbuf # << >>
    <3>1. PICK q : q = [Pipe!Consume(p) EXCEPT !.got = @ \o Pipe!Line(p)]
      OBVIOUS
    <3>2. h = IF Pipe!Last(q.got) \in Delimiters THEN Pipe!Returned(q) ELSE q
      BY <1>1, <1>2, <1>7, <2>2, <3>1 DEF Pipe!ReadUntil
    <3>3. PipeGood(q) /\ Len(q.got) <= Bytes /\ (Pipe!Last(q.got) \in Delimiters => Len(q.got) \in Delimiters)
      BY <1>4, <2>1, <2>2, <3>1, LineIsGood
    <3>4. CASE Pipe!Last(q.got) \in Delimiters
      BY <3>2, <3>3, <3>4, ReturnedIsGood
    <3>5. CASE Pipe!Last(q.got) \notin Delimiters
      BY <3>2, <3>3, <3>5
    <3> QED BY <3>4, <3>5
  <2>3. CASE p.rbuf = << >> /\ p.data # << >>
    <3>1. h = Pipe!FillBuffer(p)
      BY <1>1, <1>2, <1>7, <2>3 DEF Pipe!ReadUntil
    <3> QED BY <1>4, <3>1, FillIsGood
  <2>4. CASE p.rbuf = << >> /\ p.data = << >>
    <3>1. h = IF p.closed THEN Pipe!Returned(Pipe!End(p)) ELSE Pipe!Park(p, "reader")
      BY <1>1, <1>2, <1>7, <2>4 DEF Pipe!ReadUntil
    <3>2. CASE p.closed
      <4>1. PICK g : g = Pipe!End(p)
        OBVIOUS
      <4>2. PipeGood(g) /\ Len(g.got) <= Bytes /\ Len(g.got) = Bytes
        BY <1>4, <2>1, <2>4, <3>2, <4>1, EndIsGood
      <4>3. h = Pipe!Returned(g)
        BY <3>1, <3>2, <4>1
      <4> QED BY <4>2, <4>3, ReturnedIsGood
    <3>3. CASE ~p.closed
      BY <1>4, <2>4, <3>1, <3>3, PipeSleeps DEF Sides
    <3> QED BY <3>2, <3>3
  <2> QED BY <2>2, <2>3, <2>4
<1>8. CASE Pipe!ReadLine
  <2>1. p.mode = "line"
    BY <1>4, <1>8 DEF Pipe!ReadLine
  <2>2. CASE p.rbuf # << >>
    <3>1. PICK q : q = [Pipe!Consume(p) EXCEPT !.bytes = @ \o Pipe!Line(p)]
      OBVIOUS
    <3>2. h = IF Pipe!Last(q.bytes) \in Delimiters THEN Pipe!HandOver(q) ELSE q
      BY <1>1, <1>2, <1>8, <2>2, <3>1 DEF Pipe!ReadLine
    <3>3. PipeGood(q) /\ q.mode = "line"
      BY <1>4, <2>1, <2>2, <3>1, LineIsHeld
    <3>4. CASE Pipe!Last(q.bytes) \in Delimiters
      BY <3>2, <3>3, <3>4, HandedOverIsGood
    <3>5. CASE Pipe!Last(q.bytes) \notin Delimiters
      BY <3>2, <3>3, <3>5
    <3> QED BY <3>4, <3>5
  <2>3. CASE p.rbuf = << >> /\ p.data # << >>
    <3>1. h = Pipe!FillBuffer(p)
      BY <1>1, <1>2, <1>8, <2>3 DEF Pipe!ReadLine
    <3> QED BY <1>4, <3>1, FillIsGood
  <2>4. CASE p.rbuf = << >> /\ p.data = << >>
    <3>1. h = IF p.closed THEN Pipe!HandOver(Pipe!End(p)) ELSE [Pipe!Park(p, "reader") EXCEPT !.bytes = << >>]
      BY <1>1, <1>2, <1>8, <2>4 DEF Pipe!ReadLine
    <3>2. CASE p.closed
      <4>1. PICK g : g = Pipe!End(p)
        OBVIOUS
      <4>2. PipeGood(g) /\ g.mode = "line"
        BY <1>4, <2>1, <2>4, <3>2, <4>1, EndIsGood
      <4>3. h = Pipe!HandOver(g)
        BY <3>1, <3>2, <4>1
      <4> QED BY <4>2, <4>3, HandedOverIsGood
    <3>3. CASE ~p.closed
      <4>1. PICK g : g = Pipe!Park(p, "reader")
        OBVIOUS
      <4>2. PipeGood(g) /\ Untouched(g, p)
        BY <1>4, <2>4, <3>3, <4>1, PipeSleeps DEF Sides
      <4>3. g.mode = "line" /\ h = [g EXCEPT !.bytes = << >>]
        BY <2>1, <3>1, <3>3, <4>1, <4>2 DEF Untouched
      <4> QED BY <4>2, <4>3, HandedOverIsGood
    <3> QED BY <3>2, <3>3
  <2> QED BY <2>2, <2>3, <2>4
<1> QED BY <1>5, <1>6, <1>7, <1>8

LEMMA PipeInit == ASSUME Pipe!Init PROVE PipeInv
<1>1. PICK mode \in Modes, wrapped \in BOOLEAN :
        pipe = [ mode |-> mode, wrapped |-> wrapped, data |-> << >>, closed |-> FALSE,
                 wakers |-> {}, parked |-> {}, woken |-> {}, pos |-> 0, wbuf |-> << >>,
                 drains |-> FALSE, rbuf |-> << >>, bytes |-> << >>, got |-> << >>, lines |-> {}, ended |-> {},
                 dropped |-> {} ]
  BY DEF Pipe!Init
<1>2. Piece(<< >>, 0, 0) /\ << >> \in Seq(Byte) /\ Len(<< >>) = 0 /\ 0 \in 0 .. Bytes
  BY NoPiece, EmptySeq, PipeSizes
<1>3. pipe \in Pipe!ByteStreamType
  BY <1>1, <1>2 DEF Pipe!ByteStreamType, Byte
<1>4. /\ pipe.wrapped \in BOOLEAN /\ pipe.data = << >> /\ ~pipe.closed /\ pipe.pos = 0 /\ pipe.wbuf = << >>
      /\ ~pipe.drains /\ pipe.rbuf = << >> /\ pipe.bytes = << >> /\ pipe.got = << >>
      /\ pipe.lines = {} /\ pipe.ended = {} /\ pipe.parked = {}
  BY <1>1
<1>5. Placed(pipe)
  <2>1. /\ Piece(pipe.bytes, 0, 0) /\ Piece(pipe.rbuf, 0, 0) /\ Piece(pipe.data, 0, 0) /\ Piece(pipe.wbuf, 0, pipe.pos)
        /\ Len(pipe.got) <= 0 /\ pipe.bytes = << >> /\ Piece(pipe.got, 0, 0) /\ 0 \in Nat
    BY <1>2, <1>4
  <2> QED BY <2>1 DEF Placed
<1>6. Held(pipe)
  BY <1>2, <1>4, PipeSizes DEF Held
<1>7. Handed(pipe) /\ Asleep(pipe)
  BY <1>4 DEF Handed, Asleep
<1> QED BY <1>3, <1>5, <1>6, <1>7 DEF PipeInv, PipeGood

(* An end that is dropped leaves the stream as it is. *)
LEMMA DropIsGood ==
  ASSUME PipeInv, NEW who \in Sides, Pipe!DropEnd(who)
  PROVE  PipeInv'
<1>1. PICK h : h = pipe'
  OBVIOUS
<1> SUFFICES PipeGood(h)
  BY <1>1 DEF PipeInv, PipeGood, Placed, Held, Handed, Asleep
<1>2. /\ pipe \in Pipe!ByteStreamType /\ Placed(pipe) /\ Held(pipe) /\ Handed(pipe) /\ Asleep(pipe)
  BY DEF PipeInv, PipeGood
<1>3. PICK dropped : dropped = pipe.dropped \cup {who}
  OBVIOUS
<1>4. dropped \in SUBSET {"reader", "writer"}
  BY <1>2, <1>3 DEF Pipe!ByteStreamType, Sides
<1>5. h = [pipe EXCEPT !.dropped = dropped]
  BY <1>1, <1>2, <1>3 DEF Pipe!DropEnd, Pipe!ByteStreamType
<1>6. /\ h \in Pipe!ByteStreamType /\ Untouched(h, pipe)
      /\ h.parked = pipe.parked /\ h.wakers = pipe.wakers /\ h.woken = pipe.woken
  BY <1>2, <1>4, <1>5 DEF Pipe!ByteStreamType, Untouched
<1>7. Placed(h) /\ Held(h) /\ Handed(h)
  BY <1>2, <1>6, UntouchedIsGood
<1>8. Asleep(h)
  BY <1>2, <1>6 DEF Asleep, Untouched
<1> QED BY <1>6, <1>7, <1>8 DEF PipeGood

LEMMA PipeNext == ASSUME PipeInv, [Pipe!Next]_pipe PROVE PipeInv'
<1>1. CASE UNCHANGED pipe
  BY <1>1 DEF PipeInv, PipeGood, Placed, Held, Handed, Asleep
<1>2. ASSUME NEW who \in {"reader", "writer"}, Pipe!DropEnd(who) PROVE PipeInv'
  BY <1>2, DropIsGood DEF Sides
<1> QED BY <1>1, <1>2, WriterIsGood, ReaderIsGood DEF Pipe!Next

(* What the inductive invariant says.  A reader's lines are complete only  *)
(* without read_line, which drops bytes: LinesAreWhole is violated.        *)
LEMMA PipeShows ==
  ASSUME PipeInv
  PROVE  /\ Pipe!TypeOK
         /\ "line" \notin Modes => Pipe!NothingIsLost /\ Pipe!PipeKeepsMoving
<1>1. pipe \in Pipe!ByteStreamType /\ Placed(pipe) /\ Held(pipe) /\ Handed(pipe) /\ Asleep(pipe)
  BY DEF PipeInv, PipeGood
<1>2. ASSUME "line" \notin Modes PROVE Pipe!NothingIsLost /\ Pipe!PipeKeepsMoving
  <2>1. pipe.mode # "line"
    BY <1>1, <1>2, PipeFields
  <2>2. PICK o \in Nat, a \in Nat, b \in Nat, c \in Nat :
          /\ Piece(pipe.bytes, o, a) /\ Piece(pipe.rbuf, a, b) /\ Piece(pipe.data, b, c) /\ Piece(pipe.wbuf, c, pipe.pos)
          /\ Piece(pipe.got, 0, o)
    BY <1>1, <2>1 DEF Placed
  <2>3. Piece(pipe.got \o pipe.bytes, 0, a)
    BY <2>2, PieceJoin
  <2>4. Piece(pipe.got \o pipe.bytes \o pipe.rbuf, 0, b)
    BY <2>2, <2>3, PieceJoin
  <2>5. Piece(pipe.got \o pipe.bytes \o pipe.rbuf \o pipe.data, 0, c)
    BY <2>2, <2>4, PieceJoin
  <2>6. Piece(pipe.got \o pipe.bytes \o pipe.rbuf \o pipe.data \o pipe.wbuf, 0, pipe.pos)
    BY <2>2, <2>5, PieceJoin
  <2>7. Pipe!NothingIsLost
    BY <1>1, <2>1, <2>6, PieceIsAll DEF Pipe!NothingIsLost, Handed
  <2>8. Len(pipe.data) = PipeSize => Pipe!Room(pipe) = 0
    BY PipeSizes DEF Pipe!Room
(* Both sleep at opposite states of the stream; a writer that has ended    *)
(* has closed it; a reader that has ended has read everything.             *)
  <2>9. PICK asleep : asleep = pipe.parked \ pipe.woken
    OBVIOUS
  <2>10. /\ Pipe!Asleep \subseteq asleep
         /\ \A who \in asleep : who \in pipe.wakers
         /\ "reader" \in asleep => Len(pipe.data) = 0 /\ pipe.data = << >> /\ ~pipe.closed
         /\ "writer" \in asleep => Len(pipe.data) = PipeSize
    <3>1. Pipe!Asleep \subseteq asleep /\ Len(<< >>) = 0
      BY <2>9, EmptySeq DEF Pipe!Asleep
    <3> QED BY <1>1, <2>9, <3>1 DEF Asleep
  <2>11. PipeSize # 0
    BY PipeSizes
  <2>12. ASSUME "reader" \in Pipe!Asleep PROVE Pipe!Runs("writer") \/ "writer" \in pipe.dropped
    <3>1. "writer" \notin pipe.ended /\ "writer" \notin asleep
      BY <1>1, <2>10, <2>11, <2>12 DEF Held
    <3> QED BY <2>9, <3>1 DEF Pipe!Runs
  <2>13. ASSUME "writer" \in Pipe!Asleep PROVE Pipe!Runs("reader") \/ "reader" \in pipe.dropped
    <3>1. Len(pipe.data) = PipeSize /\ "reader" \notin asleep
      BY <2>10, <2>11, <2>13
    <3>2. "reader" \notin pipe.ended
      <4>1. SUFFICES ASSUME "reader" \in pipe.ended PROVE FALSE
        OBVIOUS
      <4>2. Len(pipe.got) = Bytes /\ pipe.pos \in 0 .. Bytes /\ Bytes \in Nat
        BY <1>1, <2>1, <4>1, PipeFields, PipeSizes DEF Handed
      <4>3. /\ o = 0 + Len(pipe.got) /\ o <= a /\ a <= b /\ b + Len(pipe.data) = c /\ c <= pipe.pos
        BY <2>2, PieceEnds
      <4>4. Len(pipe.data) \in Nat
        BY <1>1, PipeFields, LenProperties
      <4> QED BY <2>11, <3>1, <4>2, <4>3, <4>4
    <3> QED BY <2>9, <3>1, <3>2 DEF Pipe!Runs
  <2>14. \A n \in pipe.lines : n = Bytes \/ n \in Delimiters
    BY <1>1, <2>1 DEF Handed
  <2>15. Pipe!PipeKeepsMoving
    BY <2>8, <2>10, <2>12, <2>13, <2>14 DEF Pipe!PipeKeepsMoving
  <2> QED BY <2>7, <2>15
<1> QED BY <1>1, <1>2 DEF Pipe!TypeOK

-----------------------------------------------------------------------------
(* ReadBuf *)

(* What is shown in a buffer taken from this one follows from this. *)
Shows(r) ==
  /\ r \in Buffer!ReadBufType /\ r.filled <= r.initialized
  /\ \A i \in 1 .. Capacity : i <= r.initialized => i \in r.real

BufferInv == Shows(rb)

LEMMA BufferPairs ==
  ASSUME NEW m \in Nat, NEW n \in Nat
  PROVE  /\ Buffer!Max({m, n}) = IF m >= n THEN m ELSE n
         /\ Buffer!Min({m, n}) = IF m <= n THEN m ELSE n
<1>1. \A x \in {m, n} : (\A y \in {m, n} : x >= y) <=> x = IF m >= n THEN m ELSE n
  OBVIOUS
<1>2. \A x \in {m, n} : (\A y \in {m, n} : x <= y) <=> x = IF m <= n THEN m ELSE n
  OBVIOUS
<1> QED BY <1>1, <1>2 DEF Buffer!Max, Buffer!Min

LEMMA BufferShows == ASSUME BufferInv PROVE Buffer!TypeOK /\ Buffer!ShownIsWritten
<1>1. /\ Capacity \in Nat /\ rb.filled \in Nat /\ rb.initialized \in Nat
      /\ rb.initialized <= Capacity /\ rb.filled <= rb.initialized
  BY ByteLibraryAssumption DEF Buffer!ReadBufAssumption, BufferInv, Shows, Buffer!ReadBufType
<1>2. ASSUME NEW n \in 0 .. Capacity PROVE Buffer!After(Buffer!Taken(n).initialized) \subseteq rb.real
  <2> DEFINE shown == IF rb.initialized > rb.filled THEN rb.initialized - rb.filled ELSE 0
             max == Buffer!Min({Buffer!Remaining, n})
  <2>1. /\ Buffer!Remaining \in Nat /\ n \in Nat
        /\ shown \in Nat /\ rb.filled + shown <= rb.initialized
    BY <1>1 DEF Buffer!Remaining
  <2>2. Buffer!Taken(n).initialized = Buffer!Min({shown, max})
    BY DEF Buffer!Taken
  <2> HIDE DEF shown
  <2>3. max \in Nat
    <3>1. Buffer!Min({Buffer!Remaining, n}) = IF Buffer!Remaining <= n THEN Buffer!Remaining ELSE n
      BY <2>1, BufferPairs
    <3> QED BY <2>1, <3>1
  <2> HIDE DEF max
  <2>4. Buffer!Min({shown, max}) \in Nat /\ Buffer!Min({shown, max}) <= shown
    <3>1. Buffer!Min({shown, max}) = IF shown <= max THEN shown ELSE max
      BY <2>1, <2>3, BufferPairs
    <3> QED BY <2>1, <2>3, <3>1
  <2>5. \A i \in rb.filled + 1 .. rb.filled + Buffer!Min({shown, max}) :
          i \in 1 .. Capacity /\ i <= rb.initialized
    BY <1>1, <2>1, <2>4
  <2> QED BY <2>2, <2>5 DEF Buffer!After, BufferInv, Shows
<1>3. 1 .. rb.initialized \subseteq rb.real
  BY <1>1 DEF BufferInv, Shows
<1> QED BY <1>1, <1>2, <1>3 DEF Buffer!ShownIsWritten, Buffer!TypeOK, BufferInv, Shows

LEMMA BufferInit == ASSUME Buffer!Init PROVE BufferInv
<1>1. Capacity \in Nat
  BY ByteLibraryAssumption DEF Buffer!ReadBufAssumption
<1> QED BY <1>1 DEF Buffer!Init, Buffer!New, Buffer!Uninit, BufferInv, Shows, Buffer!ReadBufType

LEMMA BufferNext == ASSUME BufferInv, [Buffer!Next]_rb PROVE BufferInv'
<1>1. Capacity \in Nat
  BY ByteLibraryAssumption DEF Buffer!ReadBufAssumption
<1>2. PICK h : h = rb'
  OBVIOUS
<1>3. /\ Shows(rb) /\ rb \in Buffer!ReadBufType
      /\ rb.filled \in 0 .. Capacity /\ rb.initialized \in 0 .. Capacity /\ rb.real \in SUBSET (1 .. Capacity)
  BY DEF BufferInv, Shows, Buffer!ReadBufType
<1> SUFFICES Shows(h)
  BY <1>2 DEF BufferInv
<1>4. ASSUME NEW n \in 1 .. Capacity, Buffer!WriteUnfilled(n) PROVE Shows(h)
  BY <1>2, <1>3, <1>4 DEF Buffer!WriteUnfilled, Shows, Buffer!ReadBufType
(* The operations that show more of what was written. *)
<1>5. ASSUME NEW real \in SUBSET (1 .. Capacity), NEW filled \in 0 .. Capacity,
             NEW initialized \in 0 .. Capacity, filled <= initialized,
             \A i \in 1 .. Capacity : i <= initialized => i \in real,
             h = [rb EXCEPT !.real = real, !.filled = filled, !.initialized = initialized]
      PROVE  Shows(h)
  <2>1. /\ h \in Buffer!ReadBufType /\ h.real = real /\ h.filled = filled /\ h.initialized = initialized
    BY <1>3, <1>5 DEF Buffer!ReadBufType
  <2> QED BY <1>5, <2>1 DEF Shows
<1>6. ASSUME NEW n \in 1 .. Capacity, Buffer!InitializeUnfilledTo(n) PROVE Shows(h)
  <2> DEFINE end == rb.filled + n
             real == rb.real \cup (rb.initialized + 1 .. end)
  <2>1. end \in 0 .. Capacity
    BY <1>1, <1>3, <1>6 DEF Buffer!InitializeUnfilledTo, Buffer!Remaining
  <2>2. CASE rb.initialized < end
    <3>1. real \in SUBSET (1 .. Capacity) /\ rb.filled <= end
          /\ \A i \in 1 .. Capacity : i <= end => i \in real
      BY <1>1, <1>3, <2>1, <2>2 DEF Shows
    <3>2. h = [rb EXCEPT !.real = real, !.filled = rb.filled, !.initialized = end]
      BY <1>2, <1>3, <1>6, <2>2 DEF Buffer!InitializeUnfilledTo, Buffer!ReadBufType
    <3> HIDE DEF end, real
    <3> QED BY <1>3, <1>5, <2>1, <3>1, <3>2
  <2>3. CASE ~(rb.initialized < end)
    BY <1>2, <1>3, <1>6, <2>3 DEF Buffer!InitializeUnfilledTo
  <2> QED BY <2>2, <2>3
<1>7. ASSUME NEW n \in Nat, Buffer!SetFilled(n) PROVE Shows(h)
  <2>1. n \in 0 .. Capacity /\ n <= rb.initialized
    BY <1>1, <1>3, <1>7 DEF Buffer!SetFilled, Buffer!UpToInitialized
  <2>2. h = [rb EXCEPT !.real = rb.real, !.filled = n, !.initialized = rb.initialized]
    BY <1>2, <1>3, <1>7 DEF Buffer!SetFilled, Buffer!ReadBufType
  <2>3. \A i \in 1 .. Capacity : i <= rb.initialized => i \in rb.real
    BY <1>3 DEF Shows
  <2> QED BY <1>3, <1>5, <2>1, <2>2, <2>3
<1>8. ASSUME NEW n \in 1 .. Capacity, n <= Buffer!Remaining
      PROVE  LET m == Buffer!Max({rb.initialized, rb.filled + n}) IN
             /\ rb.filled + n \in 0 .. Capacity /\ m \in 0 .. Capacity
             /\ rb.filled + n <= m /\ rb.filled <= m
             /\ Buffer!After(n) \subseteq 1 .. Capacity
             /\ \A i \in 1 .. Capacity : i <= m => i \in rb.real \cup Buffer!After(n)
  <2>1. rb.filled + n \in 0 .. Capacity
    BY <1>1, <1>3, <1>8 DEF Buffer!Remaining
  <2>2. Buffer!Max({rb.initialized, rb.filled + n}) =
          IF rb.initialized >= rb.filled + n THEN rb.initialized ELSE rb.filled + n
    BY <1>1, <1>3, <2>1, BufferPairs
  <2> QED BY <1>1, <1>3, <2>1, <2>2 DEF Shows, Buffer!After
<1>9. ASSUME NEW n \in 1 .. Capacity, Buffer!AssumeInit(n) PROVE Shows(h)
  <2> DEFINE m == Buffer!Max({rb.initialized, rb.filled + n})
  <2>1. /\ m \in 0 .. Capacity /\ rb.filled <= m
        /\ \A i \in 1 .. Capacity : i <= m => i \in rb.real
    BY <1>8, <1>9 DEF Buffer!AssumeInit
  <2>2. h = [rb EXCEPT !.real = rb.real, !.filled = rb.filled, !.initialized = m]
    BY <1>2, <1>3, <1>9 DEF Buffer!AssumeInit, Buffer!ReadBufType
  <2> HIDE DEF m
  <2> QED BY <1>3, <1>5, <2>1, <2>2
<1>10. ASSUME NEW n \in 1 .. Capacity, Buffer!PutSlice(n) PROVE Shows(h)
  <2> DEFINE m == Buffer!Max({rb.initialized, rb.filled + n})
             real == rb.real \cup Buffer!After(n)
  <2>1. /\ m \in 0 .. Capacity /\ rb.filled + n <= m /\ rb.filled + n \in 0 .. Capacity
        /\ real \in SUBSET (1 .. Capacity)
        /\ \A i \in 1 .. Capacity : i <= m => i \in real
    BY <1>3, <1>8, <1>10 DEF Buffer!PutSlice
  <2>2. h = [rb EXCEPT !.real = real, !.filled = rb.filled + n, !.initialized = m]
    BY <1>2, <1>3, <1>10 DEF Buffer!PutSlice, Buffer!ReadBufType
  <2> HIDE DEF m, real
  <2> QED BY <1>3, <1>5, <2>1, <2>2
<1>11. ASSUME NEW n \in 1 .. Capacity, NEW k \in 1 .. n, Buffer!PutIntoTaken(n, k) PROVE Shows(h)
  <2>1. Buffer!Remaining \in Nat /\ n \in Nat /\ k \in 1 .. Capacity
    BY <1>1, <1>3, <1>11 DEF Buffer!Remaining, Shows
  <2>2. Buffer!Min({Buffer!Remaining, n}) <= Buffer!Remaining /\ Buffer!Min({Buffer!Remaining, n}) \in Nat
    BY <2>1, BufferPairs
  <2>3. k <= Buffer!Remaining
    BY <1>11, <2>1, <2>2 DEF Buffer!PutIntoTaken, Buffer!Taken
  <2>4. Buffer!After(k) \subseteq 1 .. Capacity
    BY <1>8, <2>1, <2>3
  <2>5. h = [rb EXCEPT !.real = rb.real \cup Buffer!After(k), !.filled = rb.filled, !.initialized = rb.initialized]
    BY <1>2, <1>3, <1>11 DEF Buffer!PutIntoTaken, Buffer!ReadBufType
  <2>6. /\ rb.real \cup Buffer!After(k) \in SUBSET (1 .. Capacity)
        /\ \A i \in 1 .. Capacity : i <= rb.initialized => i \in rb.real \cup Buffer!After(k)
    BY <1>3, <2>4 DEF Shows
  <2> QED BY <1>3, <1>5, <2>5, <2>6 DEF Shows
<1>12. CASE Buffer!Clear
  <2>1. h = [rb EXCEPT !.real = rb.real, !.filled = 0, !.initialized = rb.initialized]
    BY <1>2, <1>3, <1>12 DEF Buffer!Clear, Buffer!ReadBufType
  <2>2. /\ 0 \in 0 .. Capacity /\ 0 <= rb.initialized
        /\ \A i \in 1 .. Capacity : i <= rb.initialized => i \in rb.real
    BY <1>1, <1>3 DEF Shows
  <2> QED BY <1>3, <1>5, <2>1, <2>2
<1>13. ASSUME NEW n \in 1 .. Capacity, Buffer!Advance(n) PROVE Shows(h)
  <2>1. rb.filled + n \in Nat
    BY <1>1, <1>3
  <2> QED BY <1>7, <1>13, <2>1 DEF Buffer!Advance
<1>14. CASE UNCHANGED rb
  <2>1. h = rb
    BY <1>2, <1>14
  <2> QED BY <1>3, <2>1 DEF Shows
<1>15. \A n \in 1 .. Capacity : n \in Nat
  BY <1>1
<1> QED BY <1>4, <1>6, <1>7, <1>9, <1>10, <1>11, <1>12, <1>13, <1>14, <1>15 DEF Buffer!Next

=============================================================================
