---- MODULE Framing ----
(***************************************************************************)
(* The wire format (internal/protocol/codec.go) in one direction of a      *)
(* control connection: WriteMsg is two writes, a big-endian length and a   *)
(* JSON payload; ReadMsg is two ReadFulls.  A read deadline (the echo loop *)
(* of the bufferbloat handler, the client's abort) may pass between any    *)
(* two bytes, the writer may close in the middle of a frame, and the       *)
(* goroutine that readMTUResult leaves behind reads from the same stream.  *)
(*                                                                         *)
(* Bytes have the values that matter: a length below 256 has three zero    *)
(* bytes, and a payload is printable text, each byte at least 32.          *)
(***************************************************************************)
EXTENDS Naturals, Sequences

CONSTANTS Sizes,          \* the length of the payload of each frame
          MaxMessageSize, \* maxMessageSize
          MaxDeadlines    \* bound: read deadlines that pass

\* WriteMsg sends nothing that ReadMsg would refuse (codec.go compares both with
\* maxMessageSize, 1 MiB).
ASSUME SizesAssumption ==
  Sizes \in Seq(1..255) /\ MaxMessageSize \in Nat /\ MaxMessageSize >= 255 /\ MaxDeadlines \in Nat

VARIABLES
  written,   \* bytes on the wire
  closed,    \* the writer has closed the connection
  taken,     \* bytes read off the wire
  reader,    \* ReadMsg of each reader (Call)
  got,       \* the last frame that ReadMsg returned to the main reader
  torn,      \* a read of the main reader was cut short, or shared
  deadlines  \* read deadlines that have passed

vars == <<written, closed, taken, reader, got, torn, deadlines>>

HeaderSize == 4
Text == 34

\* the position in front of each frame, and of the end
Start[n \in 1..Len(Sizes) + 1] == IF n = 1 THEN 0 ELSE Start[n - 1] + HeaderSize + Sizes[n - 1]
Total == Start[Len(Sizes) + 1]
Boundary(i) == \E n \in DOMAIN Start : Start[n] = i
FrameAt(i) == CHOOSE n \in DOMAIN Sizes : Start[n] < i /\ i <= Start[n + 1]
FramesIn(i) == CHOOSE n \in 0..Len(Sizes) : Start[n + 1] <= i /\ (n = Len(Sizes) \/ i < Start[n + 2])

Byte(i) == LET n == FrameAt(i) IN
  IF i < Start[n] + HeaderSize THEN 0 ELSE IF i = Start[n] + HeaderSize THEN Sizes[n] ELSE Text

BigEndian(b) == b[4] + 256 * b[3] + 65536 * b[2] + 16777216 * b[1]

\* ReadMsg of a reader that has read "have" of "want" bytes: the header's, or
\* those of the payload of frame "of" (0 when they are not the bytes of one).
\* json.Unmarshal accepts such a payload and nothing else that can be cut out
\* of the stream: a nested object has no length in front of it.
Readers == {"main", "stray"}
Call(at, want) == [at |-> at, want |-> want, have |-> 0, header |-> <<>>, of |-> 0]
Decodes(c) == c.of # 0 /\ c.have = Sizes[c.of]

\* the payload that byte i + 1 continues, given "have" bytes of it
PayloadAt(i, have, of) ==
  LET N == {n \in DOMAIN Sizes : i = Start[n] + HeaderSize + have /\ (have = 0 \/ n = of)}
  IN  IF N = {} THEN 0 ELSE CHOOSE n \in N : TRUE

TypeOK ==
  /\ written \in 0..Total /\ closed \in BOOLEAN /\ taken \in 0..written
  /\ reader \in [Readers -> [at : {"idle", "header", "payload", "stopped"},
                             want : 0..MaxMessageSize, have : 0..MaxMessageSize,
                             header : Seq(0..255), of : 0..Len(Sizes)]]
  /\ \A r \in Readers : reader[r].have <= reader[r].want
  /\ got \in 0..Len(Sizes) /\ torn \in BOOLEAN /\ deadlines \in 0..MaxDeadlines

Init ==
  /\ written = 0 /\ closed = FALSE /\ taken = 0 /\ got = 0 /\ torn = FALSE /\ deadlines = 0
  /\ reader = [r \in Readers |-> Call("idle", 0)]

(***************************************************************************)
(* WriteMsg.                                                               *)
(***************************************************************************)
write == <<taken, reader, got, torn, deadlines>>

WriteHeader ==
  /\ ~closed /\ written < Total /\ Boundary(written)
  /\ written' = written + HeaderSize
  /\ UNCHANGED <<write, closed>>

WritePayload ==
  /\ ~closed /\ ~Boundary(written)
  /\ written' = written + Sizes[FrameAt(written)]
  /\ UNCHANGED <<write, closed>>

CloseWriter ==                   \* after any of the writes
  /\ ~closed /\ closed' = TRUE
  /\ UNCHANGED <<write, written>>

(***************************************************************************)
(* ReadMsg.                                                                *)
(***************************************************************************)
Set(r, call) == reader' = [reader EXCEPT ![r] = call]

\* The main reader gives up after an error (Session.Run) or goes on with the
\* next test (most of the client's reads); the stray one reads once.
Fail(r) == \E at \in IF r = "main" THEN {"idle", "stopped"} ELSE {"stopped"} : Set(r, Call(at, 0))

BeginRead(r) ==
  /\ reader[r].at = "idle"
  /\ Set(r, Call("header", HeaderSize))
  /\ torn' = (torn \/ r = "stray")
  /\ UNCHANGED <<written, closed, taken, got, deadlines>>

AnyBytes(r) == reader[r].have > 0     \* mutant: one Read instead of io.ReadFull
Full(r) == reader[r].have = reader[r].want

ReadSome(c, n) ==                \* the next n bytes
  [c EXCEPT !.have = @ + n,
            !.header = IF c.at = "header" THEN @ \o [i \in 1..n |-> Byte(taken + i)] ELSE @,
            !.of = IF c.at = "payload" THEN PayloadAt(taken, c.have, @) ELSE @]

Read(r) ==                       \* io.ReadFull: what has arrived, until there is enough
  /\ reader[r].at \in {"header", "payload"} /\ ~Full(r)
  /\ \E n \in 1..written - taken :
       /\ reader[r].have + n <= reader[r].want
       /\ Set(r, ReadSome(reader[r], n)) /\ taken' = taken + n
  /\ UNCHANGED <<written, closed, got, torn, deadlines>>

NoLimit(size) == FALSE           \* mutant: any length is believed
TooLarge(size) == size > MaxMessageSize
Padded(h) == h \o [i \in 1..HeaderSize - Len(h) |-> 0]

HeaderRead(r) ==
  /\ reader[r].at = "header" /\ Full(r)
  /\ LET size == BigEndian(Padded(reader[r].header))
     IN  IF TooLarge(size) THEN Fail(r) ELSE Set(r, Call("payload", size))
  /\ UNCHANGED <<written, closed, taken, got, torn, deadlines>>

PayloadRead(r) ==
  /\ reader[r].at = "payload" /\ Full(r)
  /\ IF Decodes(reader[r])
       THEN /\ got' = IF r = "main" THEN reader[r].of ELSE got
            /\ Set(r, Call(IF r = "main" THEN "idle" ELSE "stopped", 0))
       ELSE Fail(r) /\ UNCHANGED got
  /\ UNCHANGED <<written, closed, taken, torn, deadlines>>

Midway(r) == reader[r].at = "payload" \/ reader[r].have > 0

ReadDeadline ==                  \* of the main reader; what it has read is dropped
  /\ reader["main"].at \in {"header", "payload"} /\ ~Full("main")
  /\ deadlines < MaxDeadlines /\ deadlines' = deadlines + 1
  /\ Fail("main")
  /\ torn' = (torn \/ Midway("main"))
  /\ UNCHANGED <<written, closed, taken, got>>

StaysOpen == FALSE               \* mutant: the end of the stream is not an error
AtEOF == closed /\ taken = written

ReadEOF(r) ==
  /\ reader[r].at \in {"header", "payload"} /\ ~Full(r) /\ AtEOF
  /\ Set(r, Call("stopped", 0))
  /\ UNCHANGED <<written, closed, taken, got, torn, deadlines>>

Writing == WriteHeader \/ WritePayload
Reading(r) == Read(r) \/ HeaderRead(r) \/ PayloadRead(r) \/ ReadEOF(r)

Next == Writing \/ CloseWriter \/ ReadDeadline \/ \E r \in Readers : BeginRead(r) \/ Reading(r)

\* Both programs run, and a connection is closed in the end.  Nothing starts
\* a second reader, and no deadline has to pass.
Spec == /\ Init /\ [][Next]_vars
        /\ WF_vars(Writing) /\ WF_vars(CloseWriter) /\ WF_vars(BeginRead("main"))
        /\ \A r \in Readers : WF_vars(Reading(r))

(***************************************************************************)
(* Properties.                                                             *)
(***************************************************************************)
\* ReadMsg returns frames in order, each at most once, never a mixture of two,
\* and without a gap until a read is torn: a deadline that passes between two
\* frames costs nothing, one within a frame may cost the frames after it.
Channel == INSTANCE FrameChannel WITH sent <- FramesIn(written)
ImplementsChannel == Channel!Spec

\* Between two calls of ReadMsg the stream stands between two frames, unless
\* a read was torn: an error of the decoder alone never leaves a frame half
\* read.
InStep == reader["main"].at = "idle" /\ ~torn => Boundary(taken)

\* Reads come to an end: the frames written whole before the connection is
\* closed are all returned, and a reader that has lost its place is not left
\* waiting for a length it made up.
ReadsReturn ==
  /\ closed /\ ~torn ~> got = FramesIn(written) \/ torn \/ deadlines > 0
  /\ [](reader["main"].at \in {"header", "payload"} => <>(reader["main"].at \in {"idle", "stopped"}))
====
