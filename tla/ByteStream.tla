----------------------------- MODULE ByteStream ------------------------------
(***************************************************************************)
(* Bytes on their way from a writing task to a reading one through the     *)
(* shim's io types: write_all, perhaps into a BufWriter, one direction of  *)
(* a duplex stream, and on the other side, perhaps behind a BufReader, one *)
(* of the ways to read.  Either end may be dropped at any time, which      *)
(* tells the other nothing.  A byte is its position in what is written.  A *)
(* poll is a loop of calls that each take the stream's mutex; one call is  *)
(* one step, so that the tasks may be on different threads.                *)
(***************************************************************************)
EXTENDS Naturals, Sequences, SequencesExt, FiniteSetsExt

CONSTANTS
  Bytes,       \* how many bytes are written
  Delimiters,  \* the bytes that end a line
  PipeSize,    \* max_buf_size of the duplex stream
  BufferSize,  \* capacity of BufReader and BufWriter
  ReadSize,    \* length of the buffers that read() is given
  Modes        \* the ways to read that are used

ByteStreamAssumption ==
  /\ Bytes \in Nat /\ Delimiters \subseteq 1 .. Bytes
  /\ {PipeSize, BufferSize, ReadSize} \subseteq Nat \ {0}
  /\ Modes \subseteq {"read", "to_end", "line", "until"}

VARIABLE pipe

ByteStreamType ==
  [ mode    : Modes,
    wrapped : BOOLEAN,                 \* BufReader and BufWriter are there
    data    : Seq(1 .. Bytes),         \* DuplexBuffer
    closed  : BOOLEAN,
    wakers  : SUBSET {"reader", "writer"},   \* read_waker, write_waker
    parked  : SUBSET {"reader", "writer"},
    woken   : SUBSET {"reader", "writer"},
    pos     : 0 .. Bytes,              \* how much write_all has given away
    wbuf    : Seq(1 .. Bytes),         \* BufWriter::buf
    drains  : BOOLEAN,                 \* a poll of BufWriter is emptying it
    rbuf    : Seq(1 .. Bytes),         \* BufReader::buf, from pos to cap
    bytes   : Seq(1 .. Bytes),         \* a local variable of ReadLine::poll
    got     : Seq(1 .. Bytes),         \* what the reading caller has
    lines   : SUBSET (0 .. Bytes),     \* Len(got) when a line was returned
    ended   : SUBSET {"reader", "writer"},
    dropped : SUBSET {"reader", "writer"} ]

TypeOK == pipe \in ByteStreamType

Init ==
  \E mode \in Modes, wrapped \in BOOLEAN :
    /\ mode \in {"line", "until"} => wrapped
    /\ pipe = [ mode |-> mode, wrapped |-> wrapped, data |-> << >>, closed |-> FALSE,
                wakers |-> {}, parked |-> {}, woken |-> {}, pos |-> 0, wbuf |-> << >>,
                drains |-> FALSE, rbuf |-> << >>, bytes |-> << >>, got |-> << >>, lines |-> {}, ended |-> {},
                dropped |-> {} ]

-----------------------------------------------------------------------------
(* The duplex stream *)

Runs(who) ==
  /\ who \notin pipe.ended \cup pipe.dropped
  /\ who \in pipe.parked => who \in pipe.woken

(* A poll that starts, or goes on. *)
Polls(who) == [pipe EXCEPT !.parked = @ \ {who}, !.woken = @ \ {who}]

Wake(p, who) ==
  IF who \in p.wakers
  THEN [p EXCEPT !.woken = @ \cup {who}, !.wakers = @ \ {who}] ELSE p

Park(p, who) == [p EXCEPT !.wakers = @ \cup {who}, !.parked = @ \cup {who}]

Room(p) == PipeSize - Len(p.data)

DuplexWrite(p, seq, n) ==
  Wake([p EXCEPT !.data = @ \o SubSeq(seq, 1, n)], "reader")

(* The first n bytes leave it, to the reader's caller or its BufReader.    *)
DuplexRead(p, n) == Wake([p EXCEPT !.data = SubSeq(@, n + 1, Len(@))], "writer")

-----------------------------------------------------------------------------
(* The writer: write_all, then shutdown *)

(* Part of the loop that empties the buffer; Pending leaves the loop.      *)
FlushBuffer(p) ==
  LET n == Min({Len(p.wbuf), Room(p)}) IN
  IF n = 0 THEN [Park(p, "writer") EXCEPT !.drains = FALSE]
  ELSE [DuplexWrite(p, p.wbuf, n) EXCEPT !.wbuf = SubSeq(@, n + 1, Len(@)),
                                         !.drains = n < Len(p.wbuf)]

Rest(p) == [i \in 1 .. Bytes - p.pos |-> p.pos + i]

WriteThrough(p) ==
  LET n == Min({Bytes - p.pos, Room(p)}) IN
  IF n = 0 THEN Park(p, "writer")
  ELSE [DuplexWrite(p, Rest(p), n) EXCEPT !.pos = @ + n]

(* A full buffer is emptied before anything more goes into it; after a     *)
(* wait the next poll finds it no longer full and fills it up again.       *)
BufferedWrite(p) ==
  LET n == Min({Bytes - p.pos, BufferSize - Len(p.wbuf)}) IN
  IF p.drains \/ n = 0 THEN FlushBuffer(p)
  ELSE [p EXCEPT !.wbuf = @ \o SubSeq(Rest(p), 1, n), !.pos = @ + n]

WriteAll ==
  /\ Runs("writer") /\ pipe.pos < Bytes
  /\ pipe' = IF pipe.wrapped THEN BufferedWrite(Polls("writer"))
             ELSE WriteThrough(Polls("writer"))

CloseUnflushed(p) ==           \* mutant: shutdown forgets what is buffered
  Wake([p EXCEPT !.closed = TRUE, !.ended = @ \cup {"writer"}], "reader")

CloseOrFlush(p) ==
  IF p.wbuf # << >> THEN FlushBuffer(p)
  ELSE Wake([p EXCEPT !.closed = TRUE, !.ended = @ \cup {"writer"}], "reader")

Shutdown ==
  /\ Runs("writer") /\ pipe.pos = Bytes
  /\ pipe' = CloseOrFlush(Polls("writer"))

-----------------------------------------------------------------------------
(* The reader *)

End(p) == [p EXCEPT !.ended = @ \cup {"reader"}]

TakeBuffered(p, size) ==
  LET n == Min({Len(p.rbuf), size}) IN
  [p EXCEPT !.rbuf = SubSeq(@, n + 1, Len(@)), !.got = @ \o SubSeq(p.rbuf, 1, n)]

(* poll_fill_buf *)
FillBuffer(p) ==
  LET n == Min({Len(p.data), BufferSize}) IN
  [DuplexRead(p, n) EXCEPT !.rbuf = @ \o SubSeq(p.data, 1, n)]

ReadThrough(p, size) ==
  LET n == Min({Len(p.data), size}) IN
  [DuplexRead(p, n) EXCEPT !.got = @ \o SubSeq(p.data, 1, n)]

(* poll_read of the stream or of a BufReader, which reads directly into a  *)
(* buffer that is large enough.  A read of 0 bytes is the end.             *)
ReadSome(p, size) ==
  CASE p.rbuf # << >> -> TakeBuffered(p, size)
    [] p.rbuf = << >> /\ p.data = << >> -> IF p.closed THEN End(p) ELSE Park(p, "reader")
    [] OTHER ->
         IF p.wrapped /\ size < BufferSize
         THEN TakeBuffered(FillBuffer(p), size)
         ELSE ReadThrough(p, size)

Read ==
  /\ Runs("reader") /\ pipe.mode = "read"
  /\ pipe' = ReadSome(Polls("reader"), ReadSize)

(* read_to_end reads into whatever its Vec has to spare. *)
ReadToEnd ==
  /\ Runs("reader") /\ pipe.mode = "to_end"
  /\ \E spare \in 1 .. Bytes : pipe' = ReadSome(Polls("reader"), spare)

(* read_until looks for the delimiter in what is buffered, takes that much *)
(* or everything, and asks for more.                                       *)
NextDelimiter(p) ==
  LET at == {i \in 1 .. Len(p.rbuf) : p.rbuf[i] \in Delimiters} IN
  IF at = {} THEN Len(p.rbuf) ELSE Min(at)

Line(p) == SubSeq(p.rbuf, 1, NextDelimiter(p))
Consume(p) == [p EXCEPT !.rbuf = SubSeq(@, NextDelimiter(p) + 1, Len(@))]

Returned(p) == [p EXCEPT !.lines = @ \cup {Len(p.got)}]

ReadUntil ==
  /\ Runs("reader") /\ pipe.mode = "until"
  /\ LET p == Polls("reader") IN
     pipe' = CASE p.rbuf # << >> ->
                    LET q == [Consume(p) EXCEPT !.got = @ \o Line(p)] IN
                    IF Last(q.got) \in Delimiters THEN Returned(q) ELSE q
               [] p.rbuf = << >> /\ p.data # << >> -> FillBuffer(p)
               [] OTHER -> IF p.closed THEN Returned(End(p)) ELSE Park(p, "reader")

(* read_line collects in a variable of its poll, so a poll that has to     *)
(* wait drops what it collected; a line, or the end, hands it over.        *)
HandOver(p) == Returned([p EXCEPT !.got = @ \o p.bytes, !.bytes = << >>])

ReadLine ==
  /\ Runs("reader") /\ pipe.mode = "line"
  /\ LET p == Polls("reader") IN
     pipe' = CASE p.rbuf # << >> ->
                    LET q == [Consume(p) EXCEPT !.bytes = @ \o Line(p)] IN
                    IF Last(q.bytes) \in Delimiters THEN HandOver(q) ELSE q
               [] p.rbuf = << >> /\ p.data # << >> -> FillBuffer(p)
               [] OTHER -> IF p.closed THEN HandOver(End(p))
                           ELSE [Park(p, "reader") EXCEPT !.bytes = << >>]

(* An end is dropped, with whoever waits at it: nothing is closed, and     *)
(* what it has left in the stream stays.                                   *)
DropEnd(who) ==
  /\ who \notin pipe.ended \cup pipe.dropped
  /\ pipe' = [pipe EXCEPT !.dropped = @ \cup {who}]

Next ==
  \/ WriteAll \/ Shutdown \/ Read \/ ReadToEnd \/ ReadUntil \/ ReadLine
  \/ \E who \in {"reader", "writer"} : DropEnd(who)

Spec == Init /\ [][Next]_pipe

-----------------------------------------------------------------------------
(* What was written is, in order and once each, what the reader has, what  *)
(* its buffer holds, what is in the stream, and what the writer's buffer   *)
(* holds; a reader that saw the end has all of it.                         *)
NothingIsLost ==
  /\ pipe.got \o pipe.bytes \o pipe.rbuf \o pipe.data \o pipe.wbuf = [i \in 1 .. pipe.pos |-> i]
  /\ "reader" \in pipe.ended => Len(pipe.got) = Bytes

Asleep == pipe.parked \ (pipe.woken \cup pipe.dropped)

(* A reader sleeps only at an empty open stream, a writer only at a full   *)
(* one, both with their wakers in it, and while one sleeps the other gets  *)
(* on, or was dropped; and read_until returns at each delimiter and at the *)
(* end, nowhere else.                                                      *)
PipeKeepsMoving ==
  /\ Asleep \subseteq pipe.wakers
  /\ "reader" \in Asleep =>
       pipe.data = << >> /\ ~pipe.closed /\ (Runs("writer") \/ "writer" \in pipe.dropped)
  /\ "writer" \in Asleep =>
       Room(pipe) = 0 /\ (Runs("reader") \/ "reader" \in pipe.dropped)
  /\ \A n \in pipe.lines : n = Bytes \/ n \in Delimiters

(* While one sleeps the other gets on.  It is not so: an end that is       *)
(* dropped without a shutdown leaves the other waiting for ever.           *)
NobodyWaitsForTheGone == Asleep # {} => pipe.dropped = {}

=============================================================================
