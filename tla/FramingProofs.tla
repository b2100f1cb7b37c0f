---- MODULE FramingProofs ----
(***************************************************************************)
(* Proofs about Framing, for any sequence of frames: type correctness,     *)
(* that an unbroken reader stays in step with the writer, and that the     *)
(* byte stream implements FrameChannel.                                    *)
(***************************************************************************)
EXTENDS Framing, Foundations

(***************************************************************************)
(* Positions in the stream.                                                *)
(***************************************************************************)
N == Len(Sizes)

LEMMA SizesType == N \in Nat /\ \A n \in 1..N : Sizes[n] \in 1..255
<1> DEFINE S == 1..255
<1>1. Sizes \in Seq(S)
  BY SizesAssumption
<1> HIDE DEF S
<1>2. Len(Sizes) \in Nat /\ \A n \in 1..Len(Sizes) : Sizes[n] \in S
  BY <1>1
<1> QED BY <1>2 DEF N, S

\* Start is the function its definition describes.
LEMMA Starts ==
  /\ Start \in [1..N + 1 -> Nat] /\ Start[1] = 0
  /\ \A n \in 1..N : Start[n + 1] = Start[n] + 4 + Sizes[n]
<1> DEFINE body == [p \in (1..N) \X Nat |-> p[2] + 4 + Sizes[p[1]]]
           Body(g) == [n \in 1..N + 1 |-> IF n = 1 THEN 0 ELSE g[n - 1] + HeaderSize + Sizes[n - 1]]
<1>1. body \in [(1..N) \X Nat -> Nat] /\ 0 \in Nat
  <2>1. ASSUME NEW p \in (1..N) \X Nat PROVE p[2] + 4 + Sizes[p[1]] \in Nat
    <3>1. p[1] \in 1..N /\ p[2] \in Nat
      OBVIOUS
    <3>2. Sizes[p[1]] \in 1..255
      BY <3>1, SizesType
    <3> QED BY <3>1, <3>2
  <2> QED BY <2>1
<1>2. PICK f : IsLoop(f, N, Nat, 0, body)
  <2> HIDE DEF body
  <2> QED BY <1>1, SizesType, LoopExists
<1>3. /\ f \in [0..N -> Nat] /\ f[0] = 0
      /\ \A n \in 1..N : f[n] = f[n - 1] + 4 + Sizes[n]
  <2>1. f \in [0..N -> Nat] /\ f[0] = 0
    BY <1>2 DEF IsLoop
  <2>2. ASSUME NEW n \in 1..N PROVE f[n] = f[n - 1] + 4 + Sizes[n]
    <3>1. f[n - 1] \in Nat
      <4>1. n - 1 \in 0..N
        BY SizesType
      <4> QED BY <2>1, <4>1
    <3>3. f[n] = body[<<n, f[n - 1]>>]
      <4> HIDE DEF body
      <4> QED BY <1>2 DEF IsLoop
    <3>2. <<n, f[n - 1]>> \in (1..N) \X Nat
      BY <3>1
    <3> QED BY <3>2, <3>3
  <2> QED BY <2>1, <2>2
<1> DEFINE g == [n \in 1..N + 1 |-> f[n - 1]]
<1>4. /\ g \in [1..N + 1 -> Nat] /\ g[1] = 0
      /\ \A n \in 1..N : g[n + 1] = g[n] + 4 + Sizes[n]
  <2>1. \A n \in 1..N : n \in 1..N + 1 /\ n + 1 \in 1..N + 1 /\ (n + 1) - 1 = n
    BY SizesType
  <2> QED BY <1>3, <2>1, SizesType
<1>5. g = Body(g)
  <2>1. ASSUME NEW n \in 1..N + 1 PROVE g[n] = Body(g)[n]
    <3>1. CASE n = 1
      BY <1>4, <3>1
    <3>2. CASE n # 1
      <4>1. n - 1 \in 1..N /\ (n - 1) + 1 = n
        BY <3>2, SizesType
      <4>2. g[n] = g[n - 1] + 4 + Sizes[n - 1]
        <5> HIDE DEF g
        <5> QED BY <1>4, <4>1
      <4> HIDE DEF g
      <4> QED BY <4>2, <3>2 DEF HeaderSize
    <3> QED BY <3>1, <3>2
  <2> DEFINE h == Body(g)
  <2>2. h = [n \in 1..N + 1 |-> h[n]] /\ g = [n \in 1..N + 1 |-> g[n]]
    OBVIOUS
  <2> HIDE DEF g, h
  <2>3. \A n \in 1..N + 1 : g[n] = h[n]
    BY <2>1 DEF h
  <2> QED BY <2>2, <2>3 DEF h
<1>6. Start = Body(Start)
  <2>1. Start = CHOOSE h : h = Body(h)
    BY DEF Start, N
  <2> HIDE DEF Body
  <2> QED BY <1>5, <2>1
<1>7. DOMAIN Start = 1..N + 1 /\ Start[1] = 0
      /\ \A n \in 1..N : Start[n + 1] = Start[n] + 4 + Sizes[n]
  <2>1. DOMAIN Body(Start) = 1..N + 1
    OBVIOUS
  <2>2. ASSUME NEW n \in 1..N + 1
        PROVE  Body(Start)[n] = IF n = 1 THEN 0 ELSE Start[n - 1] + HeaderSize + Sizes[n - 1]
    OBVIOUS
  <2> HIDE DEF Body
  <2>3. \A n \in 1..N + 1 : Start[n] = IF n = 1 THEN 0 ELSE Start[n - 1] + HeaderSize + Sizes[n - 1]
    BY <1>6, <2>2
  <2>4. 1 \in 1..N + 1 /\ \A n \in 1..N : n + 1 \in 1..N + 1 /\ n + 1 # 1 /\ (n + 1) - 1 = n
    BY SizesType
  <2> QED BY <1>6, <2>1, <2>3, <2>4 DEF HeaderSize
<1> DEFINE T == {m \in Nat : m <= N => Start[m + 1] = g[m + 1]}
<1>8. \A m \in Nat : m \in T
  <2> HIDE DEF g
  <2>1. 0 \in T
    BY <1>4, <1>7
  <2>2. ASSUME NEW m \in Nat, m \in T PROVE m + 1 \in T
    <3> SUFFICES ASSUME m + 1 <= N PROVE Start[(m + 1) + 1] = g[(m + 1) + 1]
      OBVIOUS
    <3>1. m + 1 \in 1..N /\ Start[m + 1] = g[m + 1]
      BY <2>2, SizesType
    <3> QED BY <1>4, <1>7, <3>1
  <2> HIDE DEF T
  <2> QED BY <2>1, <2>2, Induction
<1>9. \A n \in 1..N + 1 : Start[n] = g[n]
  <2> SUFFICES ASSUME NEW n \in 1..N + 1 PROVE Start[n] = g[n]
    OBVIOUS
  <2>1. n - 1 \in Nat /\ n - 1 <= N /\ (n - 1) + 1 = n
    BY SizesType
  <2> HIDE DEF g
  <2> QED BY <1>8, <2>1
<1>10. Start = [n \in 1..N + 1 |-> Start[n]]
  BY <1>6
<1> HIDE DEF g
<1>11. \A n \in 1..N + 1 : Start[n] \in Nat
  BY <1>4, <1>9
<1> QED BY <1>7, <1>10, <1>11

\* A frame comes after those before it, with its header and its payload.
LEMMA Monotone ==
  ASSUME NEW m \in 1..N + 1, NEW n \in 1..N + 1, m < n
  PROVE  m \in 1..N /\ Start[m] + 4 < Start[m + 1] /\ Start[m + 1] <= Start[n]
<1> DEFINE T == {k \in Nat : k <= N => Start[m + 1] <= Start[k + 1] \/ k < m}
<1>1. m \in 1..N /\ Start[m] + 4 < Start[m + 1] /\ Start[m + 1] \in Nat
  <2>1. m \in 1..N
    BY SizesType
  <2>2. Sizes[m] \in 1..255 /\ Start[m + 1] = Start[m] + 4 + Sizes[m] /\ Start[m] \in Nat
    BY <2>1, SizesType, Starts
  <2> QED BY <2>1, <2>2
<1>2. 0 \in T
  OBVIOUS
<1>3. ASSUME NEW k \in Nat, k \in T PROVE k + 1 \in T
  <2> SUFFICES ASSUME k + 1 <= N, ~(k + 1 < m) PROVE Start[m + 1] <= Start[(k + 1) + 1]
    OBVIOUS
  <2>1. CASE k + 1 = m
    BY <2>1, <1>1
  <2>2. CASE k >= m
    <3>1. k + 1 \in 1..N /\ Start[m + 1] <= Start[k + 1]
      BY <1>3, <2>2, SizesType
    <3>2. Start[(k + 1) + 1] = Start[k + 1] + 4 + Sizes[k + 1] /\ Sizes[k + 1] \in 1..255
      BY <3>1, Starts, SizesType
    <3>3. Start[k + 1] \in Nat
      BY <3>1, Starts, SizesType
    <3> HIDE DEF T
    <3> DEFINE a == Start[k + 1]
               b == Start[m + 1]
               z == Sizes[k + 1]
    <3>4. a \in Nat /\ b \in Nat /\ z \in 1..255 /\ b <= a /\ Start[(k + 1) + 1] = a + 4 + z
      BY <1>1, <3>1, <3>2, <3>3
    <3> HIDE DEF a, b, z
    <3>5. b <= Start[(k + 1) + 1]
      BY <3>4
    <3> QED BY <3>5 DEF b
  <2> QED BY <2>1, <2>2, SizesType
<1>4. n - 1 \in T
  <2> HIDE DEF T
  <2>1. n - 1 \in Nat
    OBVIOUS
  <2> QED BY <1>2, <1>3, <2>1, Induction
<1>5. n - 1 <= N /\ (n - 1) + 1 = n /\ ~(n - 1 < m)
  BY SizesType
<1> QED BY <1>1, <1>4, <1>5

\* Every frame, and the end, has one place.
LEMMA Increasing ==
  ASSUME NEW m \in 1..N + 1, NEW n \in 1..N + 1
  PROVE  /\ m < n => Start[m] + 4 < Start[n]
         /\ m <= n => Start[m] <= Start[n]
         /\ Start[m] = Start[n] => m = n
<1>1. Start[m] \in Nat /\ Start[n] \in Nat
  BY Starts
<1>2. m < n => Start[m] + 4 < Start[n]
  <2> SUFFICES ASSUME m < n PROVE Start[m] + 4 < Start[n]
    OBVIOUS
  <2>1. m \in 1..N /\ Start[m] + 4 < Start[m + 1] /\ Start[m + 1] <= Start[n]
    BY Monotone
  <2>2. Start[m + 1] \in Nat
    BY <2>1, Starts, SizesType
  <2> QED BY <1>1, <2>1, <2>2
<1>3. n < m => Start[n] + 4 < Start[m]
  <2> SUFFICES ASSUME n < m PROVE Start[n] + 4 < Start[m]
    OBVIOUS
  <2>1. n \in 1..N /\ Start[n] + 4 < Start[n + 1] /\ Start[n + 1] <= Start[m]
    BY Monotone
  <2>2. Start[n + 1] \in Nat
    BY <2>1, Starts, SizesType
  <2> QED BY <1>1, <2>1, <2>2
<1> QED BY <1>1, <1>2, <1>3, SizesType

LEMMA TotalIs == Total = Start[N + 1] /\ Total \in Nat /\ \A n \in 1..N + 1 : Start[n] <= Total
<1>1. Total = Start[N + 1] /\ N + 1 \in 1..N + 1
  BY SizesType DEF Total, N
<1>2. \A n \in 1..N + 1 : Start[n] <= Start[N + 1]
  BY <1>1, Increasing, SizesType
<1> QED BY <1>1, <1>2, Starts

\* The frame of a byte.
LEMMA FrameAtIs ==
  ASSUME NEW i \in Nat, NEW n \in 1..N, Start[n] < i, i <= Start[n + 1]
  PROVE  FrameAt(i) = n
<1> DEFINE P(k) == Start[k] < i /\ i <= Start[k + 1]
<1>1. ASSUME NEW k \in 1..N, P(k) PROVE k = n
  <2>1. /\ k \in 1..N + 1 /\ k + 1 \in 1..N + 1 /\ n \in 1..N + 1 /\ n + 1 \in 1..N + 1
    BY SizesType
  <2>2. Start[k] \in Nat /\ Start[k + 1] \in Nat /\ Start[n] \in Nat /\ Start[n + 1] \in Nat
    BY <2>1, Starts
  <2>3. k < n => Start[k + 1] <= Start[n]
    BY <2>1, Monotone
  <2>4. n < k => Start[n + 1] <= Start[k]
    BY <2>1, Monotone
  <2> QED BY <1>1, <2>2, <2>3, <2>4
<1>2. DOMAIN Sizes = 1..N
  BY SizesAssumption DEF N
<1>3. FrameAt(i) = CHOOSE k \in 1..N : P(k)
  BY <1>2 DEF FrameAt
<1>4. P(n)
  OBVIOUS
<1> HIDE DEF P
<1> QED BY <1>1, <1>3, <1>4

LEMMA FrameAtExists ==
  ASSUME NEW i \in 1..Total
  PROVE  FrameAt(i) \in 1..N /\ Start[FrameAt(i)] < i /\ i <= Start[FrameAt(i) + 1]
<1> DEFINE T == {k \in Nat : k \in 1..N + 1 /\ i <= Start[k]}
<1>1. N + 1 \in T
  BY TotalIs, SizesType
<1>2. PICK k \in T : \A m \in T : k <= m
  <2>1. T \in SUBSET Nat /\ T # {}
    BY <1>1
  <2> HIDE DEF T
  <2> QED BY <2>1, LeastElement
<1>3. k # 1
  BY Starts
<1>4. k - 1 \in 1..N /\ (k - 1) + 1 = k /\ k - 1 \in Nat /\ k - 1 \in 1..N + 1
  BY <1>3, SizesType
<1>5. ~(i <= Start[k - 1]) /\ i <= Start[k]
  BY <1>2, <1>4
<1>6. Start[k - 1] \in Nat
  BY <1>4, Starts
<1>7. Start[k - 1] < i /\ i <= Start[(k - 1) + 1]
  BY <1>4, <1>5, <1>6
<1>8. FrameAt(i) = k - 1
  BY <1>4, <1>7, FrameAtIs
<1> QED BY <1>4, <1>7, <1>8

\* The frames that are complete in the first i bytes.
LEMMA FramesInIs ==
  ASSUME NEW i \in Nat, NEW n \in 0..N, Start[n + 1] <= i, n = N \/ i < Start[n + 2]
  PROVE  FramesIn(i) = n
<1> DEFINE P(k) == Start[k + 1] <= i /\ (k = N \/ i < Start[k + 2])
<1>1. ASSUME NEW k \in 0..N, P(k) PROVE k = n
  <2>1. k + 1 \in 1..N + 1 /\ n + 1 \in 1..N + 1
    BY SizesType
  <2>2. ASSUME k < n PROVE FALSE
    <3>1. k # N /\ i < Start[k + 2] /\ k + 2 \in 1..N + 1 /\ k + 2 <= n + 1
      BY <1>1, <2>2, SizesType
    <3>2. Start[k + 2] <= Start[n + 1]
      BY <3>1, <2>1, Increasing
    <3>3. Start[k + 2] \in Nat /\ Start[n + 1] \in Nat
      BY <3>1, <2>1, Starts
    <3> QED BY <3>1, <3>2, <3>3
  <2>3. ASSUME n < k PROVE FALSE
    <3>1. n # N /\ i < Start[n + 2] /\ n + 2 \in 1..N + 1 /\ n + 2 <= k + 1
      BY <1>1, <2>3, SizesType
    <3>2. Start[n + 2] <= Start[k + 1]
      BY <3>1, <2>1, Increasing
    <3>3. Start[n + 2] \in Nat /\ Start[k + 1] \in Nat
      BY <3>1, <2>1, Starts
    <3> QED BY <1>1, <3>1, <3>2, <3>3
  <2> QED BY <2>2, <2>3, SizesType
<1>2. FramesIn(i) = CHOOSE k \in 0..N : P(k)
  BY DEF FramesIn, N
<1>3. P(n)
  OBVIOUS
<1> HIDE DEF P
<1> QED BY <1>1, <1>2, <1>3

LEMMA FramesInExists ==
  ASSUME NEW i \in 0..Total
  PROVE  /\ FramesIn(i) \in 0..N /\ Start[FramesIn(i) + 1] <= i
         /\ FramesIn(i) = N \/ i < Start[FramesIn(i) + 2]
<1>1. CASE i = Total
  <2>1. N \in 0..N /\ Start[N + 1] <= i /\ i \in Nat
    BY <1>1, TotalIs, SizesType
  <2> QED BY <2>1, FramesInIs
<1>2. CASE i < Total
  <2>1. i + 1 \in 1..Total
    BY <1>2, TotalIs
  <2> DEFINE k == FrameAt(i + 1)
  <2>2. k \in 1..N /\ Start[k] < i + 1 /\ i + 1 <= Start[k + 1]
    BY <2>1, FrameAtExists
  <2> HIDE DEF k
  <2>3. k - 1 \in 0..N /\ (k - 1) + 1 = k /\ (k - 1) + 2 = k + 1 /\ k \in 1..N + 1 /\ k + 1 \in 1..N + 1
    BY <2>2, SizesType
  <2>4. Start[k] <= i /\ i < Start[k + 1] /\ i \in Nat
    BY <2>2, <2>3, Starts, TotalIs
  <2>5. FramesIn(i) = k - 1
    BY <2>3, <2>4, FramesInIs
  <2> QED BY <2>3, <2>4, <2>5
<1> QED BY <1>1, <1>2, TotalIs

\* A frame that ends within the first i bytes is one of those.
LEMMA FramesInCovers ==
  ASSUME NEW i \in 0..Total, NEW n \in 0..N, Start[n + 1] <= i
  PROVE  n <= FramesIn(i)
<1> DEFINE k == FramesIn(i)
<1>1. k \in 0..N /\ (k = N \/ i < Start[k + 2]) /\ i \in Nat
  BY FramesInExists, TotalIs
<1> HIDE DEF k
<1> SUFFICES ASSUME k < n PROVE FALSE
  BY <1>1, SizesType DEF k
<1>2. k # N /\ k + 2 \in 1..N + 1 /\ n + 1 \in 1..N + 1 /\ k + 2 <= n + 1
  BY <1>1, SizesType
<1>3. Start[k + 2] <= Start[n + 1] /\ Start[k + 2] \in Nat /\ Start[n + 1] \in Nat
  BY <1>2, Increasing, Starts
<1> QED BY <1>1, <1>2, <1>3

(***************************************************************************)
(* What the stream holds.                                                  *)
(***************************************************************************)
LEMMA Bytes ==
  ASSUME NEW i \in 1..Total
  PROVE  Byte(i) \in 0..255
<1>1. FrameAt(i) \in 1..N
  BY FrameAtExists
<1>2. Sizes[FrameAt(i)] \in 1..255
  BY <1>1, SizesType
<1> QED BY <1>2 DEF Byte, Text

\* The header of a frame.
LEMMA HeaderBytes ==
  ASSUME NEW n \in 1..N, NEW j \in 1..4
  PROVE  Byte(Start[n] + j) = IF j = 4 THEN Sizes[n] ELSE 0
<1>1. /\ Start[n] \in Nat /\ Start[n + 1] = Start[n] + 4 + Sizes[n] /\ Sizes[n] \in 1..255
  BY Starts, SizesType
<1>2. FrameAt(Start[n] + j) = n
  <2>1. Start[n] + j \in Nat /\ Start[n] < Start[n] + j /\ Start[n] + j <= Start[n + 1]
    BY <1>1
  <2> QED BY <2>1, FrameAtIs
<1>3. Byte(Start[n] + j) = IF Start[n] + j < Start[n] + 4 THEN 0
                           ELSE IF Start[n] + j = Start[n] + 4 THEN Sizes[n] ELSE Text
  BY <1>2 DEF Byte, HeaderSize
<1> QED BY <1>1, <1>3

\* The payload that the next bytes continue, if any.
LEMMA PayloadAtIs ==
  ASSUME NEW i \in Nat, NEW have \in Nat, NEW of
  PROVE  \/ PayloadAt(i, have, of) = 0
         \/ /\ PayloadAt(i, have, of) \in 1..N
            /\ i = Start[PayloadAt(i, have, of)] + 4 + have
            /\ have = 0 \/ PayloadAt(i, have, of) = of
<1> DEFINE S == {n \in 1..N : i = Start[n] + 4 + have /\ (have = 0 \/ n = of)}
<1>1. DOMAIN Sizes = 1..N
  BY SizesAssumption DEF N
<1>2. PayloadAt(i, have, of) = IF S = {} THEN 0 ELSE CHOOSE n \in S : TRUE
  BY <1>1 DEF PayloadAt, HeaderSize
<1>3. CASE S = {}
  BY <1>2, <1>3
<1>4. CASE S # {}
  <2>1. PayloadAt(i, have, of) \in S
    <3> HIDE DEF S
    <3> QED BY <1>2, <1>4
  <2> QED BY <2>1
<1> QED BY <1>3, <1>4

LEMMA PayloadAtFrame ==
  ASSUME NEW n \in 1..N, NEW have \in Nat, NEW of, have = 0 \/ of = n
  PROVE  PayloadAt(Start[n] + 4 + have, have, of) = n
<1> DEFINE i == Start[n] + 4 + have
           S == {k \in 1..N : i = Start[k] + 4 + have /\ (have = 0 \/ k = of)}
<1>1. DOMAIN Sizes = 1..N
  BY SizesAssumption DEF N
<1>2. PayloadAt(i, have, of) = IF S = {} THEN 0 ELSE CHOOSE k \in S : TRUE
  BY <1>1 DEF PayloadAt, HeaderSize
<1>3. n \in S
  BY SizesType, Starts
<1>4. ASSUME NEW k \in S PROVE k = n
  <2>1. k \in 1..N + 1 /\ n \in 1..N + 1 /\ Start[k] \in Nat /\ Start[n] \in Nat
    BY SizesType, Starts
  <2>2. Start[k] = Start[n]
    BY <2>1
  <2> QED BY <2>1, <2>2, Increasing
<1> HIDE DEF S
<1> QED BY <1>2, <1>3, <1>4

(***************************************************************************)
(* The inductive invariant.                                                *)
(***************************************************************************)
Calls == [at : {"idle", "header", "payload", "stopped"},
          want : 0..MaxMessageSize, have : 0..MaxMessageSize,
          header : Seq(0..255), of : 0..N]

\* The writer stands in front of a frame, or between its header and payload.
WriterInv == \E n \in 1..N + 1 : written = Start[n] \/ (n \in 1..N /\ written = Start[n] + 4)

\* What a call of ReadMsg has kept.
Sane(c) == /\ c.at = "header" => c.want = 4 /\ Len(c.header) = c.have
           /\ c.at # "payload" => c.of = 0

\* The main reader has passed the frame it returned last, and a payload that
\* it has the first bytes of belongs to a later one.
AheadInv ==
  LET c == reader["main"] IN
  /\ Start[got + 1] <= taken
  /\ c.of # 0 => got < c.of /\ Start[c.of] + 4 + c.have <= taken

\* A reader that was never torn is at the frame after the last one returned,
\* and has read nothing else.
InPlace(c, t, g) ==
  /\ c.at = "idle" => t = Start[g + 1]
  /\ c.at = "header" =>
       /\ t = Start[g + 1] + c.have
       /\ \A j \in 1..c.have : g < N /\ c.header[j] = IF j = 4 THEN Sizes[g + 1] ELSE 0
  /\ c.at = "payload" =>
       /\ g < N /\ c.want = Sizes[g + 1] /\ t = Start[g + 1] + 4 + c.have
       /\ c.have > 0 => c.of = g + 1

StepInv == ~torn => reader["stray"].at = "idle" /\ InPlace(reader["main"], taken, got)

IInv == TypeOK /\ WriterInv /\ (\A r \in Readers : Sane(reader[r])) /\ AheadInv /\ StepInv

(***************************************************************************)
(* Calls of ReadMsg.                                                       *)
(***************************************************************************)
LEMMA TypeIs ==
  TypeOK <=> /\ written \in 0..Total /\ closed \in BOOLEAN /\ taken \in 0..written
             /\ reader \in [Readers -> Calls] /\ \A r \in Readers : reader[r].have <= reader[r].want
             /\ got \in 0..N /\ torn \in BOOLEAN /\ deadlines \in 0..MaxDeadlines
BY DEF TypeOK, Calls, N

LEMMA FreshCall ==
  ASSUME NEW at \in {"idle", "header", "payload", "stopped"}, NEW want \in 0..MaxMessageSize
  PROVE  /\ Call(at, want) \in Calls
         /\ Call(at, want).at = at /\ Call(at, want).want = want /\ Call(at, want).have = 0
         /\ Len(Call(at, want).header) = 0 /\ Call(at, want).of = 0
<1>1. 0 \in 0..MaxMessageSize /\ 0 \in 0..N
  BY SizesAssumption, SizesType
<1>2. <<>> \in Seq(0..255) /\ Len(<<>>) = 0
  OBVIOUS
<1> QED BY <1>1, <1>2 DEF Call, Calls

LEMMA SetIs ==
  ASSUME reader \in [Readers -> Calls], NEW r \in Readers, NEW c \in Calls, Set(r, c)
  PROVE  /\ reader' \in [Readers -> Calls] /\ reader'[r] = c
         /\ \A q \in Readers : q # r => reader'[q] = reader[q]
BY DEF Set

\* A reader begins or leaves a call.
LEMMA FreshInv ==
  ASSUME IInv, NEW r \in Readers,
         NEW at \in {"idle", "header", "payload", "stopped"}, NEW want \in 0..MaxMessageSize,
         at = "header" => want = 4, Set(r, Call(at, want)),
         UNCHANGED <<written, closed, taken, got>>,
         torn' \in BOOLEAN, deadlines' \in 0..MaxDeadlines,
         ~torn' => ~torn /\ r = "main" /\ InPlace(Call(at, want), taken, got)
  PROVE  IInv'
<1> DEFINE c == Call(at, want)
<1>1. /\ c \in Calls /\ c.at = at /\ c.want = want /\ c.have = 0
      /\ Len(c.header) = 0 /\ c.of = 0
  BY FreshCall
<1>2. Sane(c)
  BY <1>1 DEF Sane
<1>3. ~torn' => ~torn /\ r = "main" /\ InPlace(c, taken, got)
  OBVIOUS
<1>4. /\ written \in 0..Total /\ closed \in BOOLEAN /\ taken \in 0..written
      /\ reader \in [Readers -> Calls] /\ \A q \in Readers : reader[q].have <= reader[q].want
      /\ got \in 0..N
  BY TypeIs DEF IInv
<1>5. /\ reader' \in [Readers -> Calls] /\ reader'[r] = c
      /\ \A q \in Readers : q # r => reader'[q] = reader[q]
  BY <1>4, <1>1, SetIs
<1> HIDE DEF c
<1>6. TypeOK'
  <2>1. \A q \in Readers : reader'[q].have <= reader'[q].want
    BY <1>1, <1>4, <1>5
  <2> QED BY <1>4, <1>5, <2>1 DEF TypeOK, Calls, N
<1>7. \A q \in Readers : Sane(reader'[q])
  BY <1>2, <1>5 DEF IInv
<1>8. AheadInv'
  <2>1. "main" \in Readers
    BY DEF Readers
  <2> QED BY <1>1, <1>5, <2>1 DEF IInv, AheadInv
<1>9. StepInv'
  <2>1. "stray" \in Readers /\ "main" \in Readers
    BY DEF Readers
  <2>2. ~torn' => reader'["stray"].at = "idle" /\ reader'["main"] = c
    BY <1>3, <1>5, <2>1 DEF IInv, StepInv
  <2> QED BY <1>3, <2>2 DEF StepInv
<1>10. WriterInv'
  BY DEF IInv, WriterInv
<1> QED BY <1>6, <1>7, <1>8, <1>9, <1>10 DEF IInv, Sane

LEMMA InitInv == Init => IInv
<1> SUFFICES ASSUME Init PROVE IInv
  OBVIOUS
<1> DEFINE c == Call("idle", 0)
<1>1. /\ c \in Calls /\ c.at = "idle" /\ c.want = 0 /\ c.have = 0 /\ c.of = 0
  BY FreshCall, SizesAssumption
<1>2. reader = [r \in Readers |-> c]
  BY DEF Init
<1> HIDE DEF c
<1>3. TypeOK
  <2>1. 0 \in 0..Total /\ 0 \in 0..N /\ 0 \in 0..MaxDeadlines
    BY TotalIs, SizesType, SizesAssumption
  <2>2. reader \in [Readers -> Calls] /\ \A r \in Readers : reader[r].have <= reader[r].want
    BY <1>1, <1>2
  <2>3. /\ written \in 0..Total /\ closed \in BOOLEAN /\ taken \in 0..written
        /\ got \in 0..N /\ torn \in BOOLEAN /\ deadlines \in 0..MaxDeadlines
    <3>1. closed \in BOOLEAN /\ torn \in BOOLEAN
      BY DEF Init
    <3>2. written = 0 /\ taken = 0 /\ got = 0 /\ deadlines = 0
      BY DEF Init
    <3>3. written \in 0..Total /\ taken \in 0..written /\ got \in 0..N /\ deadlines \in 0..MaxDeadlines
      BY <2>1, <3>2
    <3> QED BY <3>1, <3>3
  <2> QED BY <2>2, <2>3, TypeIs
<1>4. "main" \in Readers /\ "stray" \in Readers
  BY DEF Readers
<1>5. Start[1] = 0 /\ 1 \in 1..N + 1
  BY Starts, SizesType
<1>6. WriterInv
  BY <1>5 DEF WriterInv, Init
<1>7. AheadInv
  BY <1>1, <1>2, <1>4, <1>5 DEF AheadInv, Init
<1>8. StepInv
  BY <1>1, <1>2, <1>4, <1>5 DEF StepInv, InPlace, Init
<1>9. \A r \in Readers : Sane(reader[r])
  BY <1>1, <1>2 DEF Sane
<1> QED BY <1>3, <1>6, <1>7, <1>8, <1>9 DEF IInv

(***************************************************************************)
(* The writer.                                                             *)
(***************************************************************************)
\* The places the writer stops at.
LEMMA Places ==
  ASSUME TypeOK, WriterInv
  PROVE  /\ Boundary(written) => \E n \in 1..N + 1 : written = Start[n]
         /\ ~Boundary(written) => \E n \in 1..N : /\ written = Start[n] + 4
                                                  /\ FrameAt(written) = n
<1>1. DOMAIN Start = 1..N + 1
  BY Starts
<1>2. ASSUME ~Boundary(written)
      PROVE  \E n \in 1..N : written = Start[n] + 4 /\ FrameAt(written) = n
  <2>1. PICK n \in 1..N : written = Start[n] + 4
    BY <1>1, <1>2 DEF WriterInv, Boundary
  <2>2. /\ Start[n] \in Nat /\ Start[n + 1] = Start[n] + 4 + Sizes[n] /\ Sizes[n] \in 1..255
    BY Starts, SizesType
  <2>3. written \in Nat /\ Start[n] < written /\ written <= Start[n + 1]
    BY <2>1, <2>2
  <2> QED BY <2>1, <2>3, FrameAtIs
<1> QED BY <1>1, <1>2 DEF Boundary

LEMMA WriteHeaderIs ==
  ASSUME TypeOK, WriterInv, WriteHeader
  PROVE  \E n \in 1..N : written = Start[n] /\ written' = Start[n] + 4 /\ written' \in 0..Total
<1>1. PICK n \in 1..N + 1 : written = Start[n]
  BY Places DEF WriteHeader
<1>2. n # N + 1
  BY <1>1, TotalIs DEF WriteHeader
<1>3. n \in 1..N /\ n + 1 \in 1..N + 1
  BY <1>2, SizesType
<1>4. /\ Start[n] \in Nat /\ Start[n + 1] = Start[n] + 4 + Sizes[n] /\ Sizes[n] \in 1..255
      /\ Start[n + 1] <= Total /\ Total \in Nat
  BY <1>3, Starts, SizesType, TotalIs
<1>5. written' = Start[n] + 4
  BY <1>1 DEF WriteHeader, HeaderSize
<1> QED BY <1>1, <1>3, <1>4, <1>5

LEMMA WritePayloadIs ==
  ASSUME TypeOK, WriterInv, WritePayload
  PROVE  \E n \in 1..N : /\ written = Start[n] + 4 /\ written' = Start[n + 1]
                         /\ written' \in 0..Total /\ written <= written'
<1>1. PICK n \in 1..N : written = Start[n] + 4 /\ FrameAt(written) = n
  BY Places DEF WritePayload
<1>2. n + 1 \in 1..N + 1
  BY SizesType
<1>3. /\ Start[n] \in Nat /\ Start[n + 1] = Start[n] + 4 + Sizes[n] /\ Sizes[n] \in 1..255
      /\ Start[n + 1] <= Total /\ Total \in Nat
  BY <1>2, Starts, SizesType, TotalIs
<1>4. written' = written + Sizes[n]
  BY <1>1 DEF WritePayload
<1> QED BY <1>1, <1>3, <1>4

LEMMA WriterStep ==
  ASSUME IInv, Writing \/ CloseWriter
  PROVE  IInv'
<1>1. UNCHANGED <<taken, reader, got, torn, deadlines>> /\ closed' \in BOOLEAN
  BY DEF Writing, WriteHeader, WritePayload, CloseWriter, write, IInv, TypeOK
<1>2. written' \in 0..Total /\ taken \in 0..written' /\ WriterInv'
  <2>1. TypeOK /\ WriterInv /\ taken \in 0..written /\ written \in 0..Total /\ Total \in Nat
    BY TypeIs, TotalIs DEF IInv
  <2>2. CASE WriteHeader
    <3>1. PICK n \in 1..N : written = Start[n] /\ written' = Start[n] + 4 /\ written' \in 0..Total
      BY <2>1, <2>2, WriteHeaderIs
    <3>2. n \in 1..N + 1 /\ Start[n] \in Nat
      BY SizesType, Starts
    <3> QED BY <2>1, <3>1, <3>2 DEF WriterInv
  <2>3. CASE WritePayload
    <3>1. PICK n \in 1..N : /\ written = Start[n] + 4 /\ written' = Start[n + 1]
                            /\ written' \in 0..Total /\ written <= written'
      BY <2>1, <2>3, WritePayloadIs
    <3>2. n + 1 \in 1..N + 1
      BY SizesType
    <3> QED BY <2>1, <3>1, <3>2 DEF WriterInv
  <2>4. CASE CloseWriter
    BY <2>1, <2>4 DEF CloseWriter, write, WriterInv
  <2> QED BY <2>2, <2>3, <2>4 DEF Writing
<1>3. TypeOK'
  BY <1>1, <1>2, TypeIs DEF IInv, TypeOK
<1> QED BY <1>1, <1>2, <1>3 DEF IInv, AheadInv, StepInv, InPlace, Sane

(***************************************************************************)
(* The reader: the next bytes.                                             *)
(***************************************************************************)
\* What n more bytes of a header are.
LEMMA HeaderGrows ==
  ASSUME TypeOK, NEW n \in 1..written - taken, NEW h \in Seq(0..255)
  PROVE  /\ h \o [i \in 1..n |-> Byte(taken + i)] \in Seq(0..255)
         /\ Len(h \o [i \in 1..n |-> Byte(taken + i)]) = Len(h) + n
         /\ \A j \in 1..Len(h) + n : (h \o [i \in 1..n |-> Byte(taken + i)])[j] =
              IF j <= Len(h) THEN h[j] ELSE Byte(taken + (j - Len(h)))
<1> DEFINE S == 0..255
           q == [i \in 1..n |-> Byte(taken + i)]
<1>1. \A i \in 1..n : Byte(taken + i) \in S
  <2> SUFFICES ASSUME NEW i \in 1..n PROVE Byte(taken + i) \in S
    OBVIOUS
  <2>1. taken + i \in 1..Total
    BY TypeIs, TotalIs
  <2> QED BY <2>1, Bytes
<1>2. q \in [1..n -> S] /\ n \in Nat /\ \A i \in 1..n : q[i] = Byte(taken + i)
  <2> HIDE DEF S
  <2>1. n \in Nat
    BY TypeIs, TotalIs
  <2> QED BY <1>1, <2>1
<1> HIDE DEF S, q
<1>3. q \in Seq(S) /\ Len(q) = n
  BY <1>2
<1>4. h \in Seq(S) /\ Len(h) \in Nat
  BY DEF S
<1>5. /\ h \o q \in Seq(S) /\ Len(h \o q) = Len(h) + n
      /\ \A j \in 1..Len(h) + n : (h \o q)[j] = IF j <= Len(h) THEN h[j] ELSE q[j - Len(h)]
  <2>1. /\ h \o q \in Seq(S) /\ Len(h \o q) = Len(h) + Len(q)
        /\ \A i \in 1..Len(h) + Len(q) : (h \o q)[i] = IF i <= Len(h) THEN h[i] ELSE q[i - Len(h)]
    <3>1. q \in Seq(S)
      BY <1>3
    <3>2. h \in Seq(S)
      BY <1>4
    <3> QED BY <3>1, <3>2, ConcatProperties
  <2> QED BY <1>3, <2>1
<1>6. \A j \in 1..Len(h) + n : ~(j <= Len(h)) => q[j - Len(h)] = Byte(taken + (j - Len(h)))
  BY <1>2, <1>4
<1> QED BY <1>5, <1>6 DEF S, q

\* The call with n more bytes.
LEMMA ReadSomeIs ==
  ASSUME IInv, NEW r \in Readers, NEW n \in 1..written - taken,
         reader[r].at \in {"header", "payload"}, reader[r].have + n <= reader[r].want
  PROVE  LET c == reader[r]
             d == ReadSome(c, n) IN
         /\ d \in Calls /\ d.at = c.at /\ d.want = c.want /\ d.have = c.have + n
         /\ d.at = "header" => /\ d.of = c.of /\ Len(d.header) = Len(c.header) + n
                               /\ \A j \in 1..Len(d.header) :
                                    d.header[j] = IF j <= Len(c.header) THEN c.header[j]
                                                  ELSE Byte(taken + (j - Len(c.header)))
         /\ d.at = "payload" => d.of = PayloadAt(taken, c.have, c.of)
<1> DEFINE c == reader[r]
           h == IF c.at = "header" THEN c.header \o [i \in 1..n |-> Byte(taken + i)] ELSE c.header
           o == IF c.at = "payload" THEN PayloadAt(taken, c.have, c.of) ELSE c.of
           d == [c EXCEPT !.have = c.have + n, !.header = h, !.of = o]
<1>1. TypeOK
  BY DEF IInv
<1>2. c \in Calls
  BY <1>1, TypeIs
<1>3. n \in Nat /\ taken \in Nat
  BY <1>1, TypeIs, TotalIs
<1>4. c.have \in Nat /\ c.have + n \in 0..MaxMessageSize
  <2>1. c.have \in 0..MaxMessageSize /\ c.want \in 0..MaxMessageSize
    BY <1>2 DEF Calls
  <2> QED BY <1>3, <2>1, SizesAssumption
<1>5. c.header \in Seq(0..255) /\ c.of \in 0..N
  BY <1>2 DEF Calls
<1>6. /\ h \in Seq(0..255)
      /\ c.at = "header" =>
           /\ Len(h) = Len(c.header) + n
           /\ \A j \in 1..Len(h) :
                h[j] = IF j <= Len(c.header) THEN c.header[j] ELSE Byte(taken + (j - Len(c.header)))
  <2>1. CASE c.at = "header"
    <3> DEFINE more == c.header \o [i \in 1..n |-> Byte(taken + i)]
    <3>1. /\ more \in Seq(0..255) /\ Len(more) = Len(c.header) + n
          /\ \A j \in 1..Len(c.header) + n :
               more[j] = IF j <= Len(c.header) THEN c.header[j] ELSE Byte(taken + (j - Len(c.header)))
      <4> DEFINE k == c.header
      <4>1. k \in Seq(0..255)
        BY <1>5
      <4> HIDE DEF k
      <4>2. /\ k \o [i \in 1..n |-> Byte(taken + i)] \in Seq(0..255)
            /\ Len(k \o [i \in 1..n |-> Byte(taken + i)]) = Len(k) + n
            /\ \A j \in 1..Len(k) + n : (k \o [i \in 1..n |-> Byte(taken + i)])[j] =
                 IF j <= Len(k) THEN k[j] ELSE Byte(taken + (j - Len(k)))
        BY <1>1, <4>1, HeaderGrows
      <4> QED BY <4>2 DEF k
    <3>2. h = more
      BY <2>1
    <3> HIDE DEF more, h
    <3> QED BY <3>1, <3>2
  <2>2. CASE c.at # "header"
    BY <1>5, <2>2
  <2> QED BY <2>1, <2>2
<1>7. o \in 0..N
  <2>1. PayloadAt(taken, c.have, c.of) \in 0..N
    <3>1. \/ PayloadAt(taken, c.have, c.of) = 0
          \/ PayloadAt(taken, c.have, c.of) \in 1..N
      BY <1>3, <1>4, PayloadAtIs
    <3> QED BY <3>1, SizesType
  <2> QED BY <2>1, <1>5
<1>8. ReadSome(c, n) = d
  BY DEF ReadSome
<1> HIDE DEF c, h, o
<1>9. /\ d \in Calls /\ d.at = c.at /\ d.want = c.want /\ d.have = c.have + n
      /\ d.header = h /\ d.of = o
  BY <1>2, <1>4, <1>6, <1>7 DEF Calls
<1> HIDE DEF d
<1>10. c.at = "header" => o = c.of
  BY DEF o
<1>11. c.at = "payload" => o = PayloadAt(taken, c.have, c.of)
  BY DEF o
<1>12. /\ d.at = "header" => /\ d.of = c.of /\ Len(d.header) = Len(c.header) + n
                             /\ \A j \in 1..Len(d.header) :
                                  d.header[j] = IF j <= Len(c.header) THEN c.header[j]
                                                ELSE Byte(taken + (j - Len(c.header)))
       /\ d.at = "payload" => d.of = PayloadAt(taken, c.have, c.of)
  BY <1>6, <1>9, <1>10, <1>11
<1> QED BY <1>8, <1>9, <1>12 DEF c

\* The next bytes of a reader that is in place are those it waits for.
LEMMA ReadInPlace ==
  ASSUME IInv, NEW n \in 1..written - taken, ~torn,
         reader["main"].at \in {"header", "payload"}, reader["main"].have + n <= reader["main"].want
  PROVE  InPlace(ReadSome(reader["main"], n), taken + n, got)
<1> DEFINE c == reader["main"]
           d == ReadSome(c, n)
<1>1. "main" \in Readers
  BY DEF Readers
<1>2. /\ d \in Calls /\ d.at = c.at /\ d.want = c.want /\ d.have = c.have + n
      /\ d.at = "header" => /\ d.of = c.of /\ Len(d.header) = Len(c.header) + n
                            /\ \A j \in 1..Len(d.header) :
                                 d.header[j] = IF j <= Len(c.header) THEN c.header[j]
                                               ELSE Byte(taken + (j - Len(c.header)))
      /\ d.at = "payload" => d.of = PayloadAt(taken, c.have, c.of)
  BY <1>1, ReadSomeIs
<1>3. /\ c \in Calls /\ n \in Nat \ {0} /\ taken \in Nat /\ taken + n <= Total /\ got \in 0..N
  BY <1>1, TypeIs, TotalIs DEF IInv
<1>4. Sane(c) /\ InPlace(c, taken, got)
  BY <1>1 DEF IInv, StepInv
<1>5. c.at \in {"header", "payload"} /\ c.have + n <= c.want
  OBVIOUS
<1>6. c.have \in Nat /\ c.want \in Nat
  BY <1>3, SizesAssumption DEF Calls
<1> HIDE DEF d, c
<1>7. ASSUME c.at = "header" PROVE InPlace(d, taken + n, got)
  <2>1. c.want = 4 /\ Len(c.header) = c.have /\ taken = Start[got + 1] + c.have
    BY <1>4, <1>7 DEF Sane, InPlace
  <2>2. got + 1 \in 1..N + 1 /\ Start[got + 1] \in Nat
    BY <1>3, Starts, SizesType
  <2>3. got # N
    BY <1>3, <1>6, <2>1, <2>2, TotalIs
  <2>4. got < N /\ got + 1 \in 1..N
    BY <1>3, <2>3, SizesType
  <2>5. ASSUME NEW j \in 1..d.have PROVE d.header[j] = IF j = 4 THEN Sizes[got + 1] ELSE 0
    <3>1. j \in 1..4 /\ j \in 1..Len(d.header) /\ Len(c.header) = c.have
      BY <1>2, <1>3, <1>5, <1>6, <1>7, <2>1
    <3>2. CASE j <= c.have
      <4>1. j \in 1..c.have /\ d.header[j] = c.header[j]
        BY <1>2, <1>7, <3>1, <3>2
      <4>2. c.header[j] = IF j = 4 THEN Sizes[got + 1] ELSE 0
        BY <1>4, <1>7, <4>1 DEF InPlace
      <4> QED BY <4>1, <4>2
    <3>3. CASE ~(j <= c.have)
      <4>1. d.header[j] = Byte(taken + (j - c.have))
        BY <1>2, <1>7, <3>1, <3>3
      <4>2. taken + (j - c.have) = Start[got + 1] + j
        BY <1>6, <2>1, <2>2, <3>1
      <4>3. Byte(Start[got + 1] + j) = IF j = 4 THEN Sizes[got + 1] ELSE 0
        BY <2>4, <3>1, HeaderBytes
      <4> QED BY <4>1, <4>2, <4>3
    <3> QED BY <3>2, <3>3
  <2>6. taken + n = Start[got + 1] + d.have
    BY <1>2, <1>3, <1>6, <2>1, <2>2
  <2> QED BY <1>2, <1>7, <2>4, <2>5, <2>6 DEF InPlace
<1>8. ASSUME c.at = "payload" PROVE InPlace(d, taken + n, got)
  <2>1. /\ got < N /\ c.want = Sizes[got + 1] /\ taken = Start[got + 1] + 4 + c.have
        /\ c.have > 0 => c.of = got + 1
    BY <1>4, <1>8 DEF InPlace
  <2>2. got + 1 \in 1..N /\ Start[got + 1] \in Nat
    BY <1>3, <2>1, Starts, SizesType
  <2>3. c.have = 0 \/ c.of = got + 1
    BY <1>6, <2>1
  <2>4. d.of = got + 1
    BY <1>2, <1>6, <1>8, <2>1, <2>2, <2>3, PayloadAtFrame
  <2>5. taken + n = Start[got + 1] + 4 + d.have
    BY <1>2, <1>3, <1>6, <2>1, <2>2
  <2> QED BY <1>2, <1>8, <2>1, <2>4, <2>5 DEF InPlace
<1> QED BY <1>5, <1>7, <1>8 DEF c, d

LEMMA ReadInv ==
  ASSUME IInv, NEW r \in Readers, Read(r)
  PROVE  IInv'
<1>1. PICK n \in 1..written - taken :
        /\ reader[r].have + n <= reader[r].want
        /\ Set(r, ReadSome(reader[r], n)) /\ taken' = taken + n
  BY DEF Read
<1>2. reader[r].at \in {"header", "payload"} /\ UNCHANGED <<written, closed, got, torn, deadlines>>
  BY DEF Read
<1> DEFINE c == reader[r]
           d == ReadSome(c, n)
<1>3. /\ d \in Calls /\ d.at = c.at /\ d.want = c.want /\ d.have = c.have + n
      /\ d.at = "header" => /\ d.of = c.of /\ Len(d.header) = Len(c.header) + n
      /\ d.at = "payload" => d.of = PayloadAt(taken, c.have, c.of)
  BY <1>1, <1>2, ReadSomeIs
<1>4. /\ written \in 0..Total /\ closed \in BOOLEAN /\ taken \in 0..written
      /\ reader \in [Readers -> Calls] /\ \A q \in Readers : reader[q].have <= reader[q].want
      /\ got \in 0..N /\ torn \in BOOLEAN /\ deadlines \in 0..MaxDeadlines
      /\ c \in Calls /\ n \in Nat \ {0} /\ taken \in Nat /\ Total \in Nat
  BY TypeIs, TotalIs DEF IInv
<1>5. /\ reader' \in [Readers -> Calls] /\ reader'[r] = d
      /\ \A q \in Readers : q # r => reader'[q] = reader[q]
  <2> HIDE DEF d
  <2>1. Set(r, d)
    BY <1>1 DEF d
  <2> QED BY <1>3, <1>4, <2>1, SetIs
<1>6. c.at \in {"header", "payload"} /\ c.have + n <= c.want /\ c.have \in Nat /\ c.of \in 0..N
  BY <1>1, <1>2, <1>4, SizesAssumption DEF Calls
<1>7. Sane(c) /\ (r = "main" => AheadInv)
  BY DEF IInv
<1>8. ~torn => r = "main" /\ InPlace(d, taken + n, got)
  <2>1. ~torn => r # "stray"
    BY <1>2 DEF IInv, StepInv
  <2> QED BY <1>1, <1>2, <2>1, ReadInPlace DEF Readers
<1> HIDE DEF d
<1>9. TypeOK'
  <2>1. taken' \in 0..written'
    BY <1>1, <1>2, <1>4
  <2>2. \A q \in Readers : reader'[q].have <= reader'[q].want
    BY <1>3, <1>4, <1>5, <1>6
  <2> QED BY <1>2, <1>4, <1>5, <2>1, <2>2 DEF TypeOK, Calls, N
<1>10. \A q \in Readers : Sane(reader'[q])
  <2>1. Sane(d)
    BY <1>3, <1>6, <1>7 DEF Sane
  <2> QED BY <1>5, <2>1 DEF IInv
<1>11. AheadInv'
  <2>1. "main" \in Readers
    BY DEF Readers
  <2>2. got + 1 \in 1..N + 1 /\ Start[got + 1] \in Nat /\ Start[got + 1] <= taken
    BY <1>4, Starts, SizesType DEF IInv, AheadInv
  <2>3. Start[got + 1] <= taken'
    BY <1>1, <1>4, <2>2
  <2>4. CASE r # "main"
    <3>1. reader'["main"] = reader["main"]
      BY <1>5, <2>1, <2>4
    <3>2. reader["main"].of \in 0..N /\ reader["main"].have \in Nat
      BY <1>4, <2>1, SizesAssumption DEF Calls
    <3>3. ASSUME reader["main"].of # 0
          PROVE  got < reader["main"].of /\ Start[reader["main"].of] + 4 + reader["main"].have <= taken'
      <4>1. /\ got < reader["main"].of
            /\ Start[reader["main"].of] + 4 + reader["main"].have <= taken
        BY <3>3 DEF IInv, AheadInv
      <4>2. Start[reader["main"].of] \in Nat
        <5>1. reader["main"].of \in 1..N + 1
          BY <3>2, <3>3, SizesType
        <5> QED BY <5>1, Starts
      <4> QED BY <1>1, <1>4, <3>2, <4>1, <4>2
    <3> QED BY <1>2, <2>3, <3>1, <3>3 DEF AheadInv
  <2>5. CASE r = "main"
    <3>1. CASE d.at = "header"
      <4>1. d.of = 0
        BY <1>3, <1>7, <3>1 DEF Sane
      <4> QED BY <1>2, <1>5, <2>3, <2>5, <4>1 DEF AheadInv
    <3>2. CASE d.at = "payload" /\ d.of # 0
      <4>1. /\ d.of \in 1..N /\ taken = Start[d.of] + 4 + c.have
            /\ c.have = 0 \/ d.of = c.of
        BY <1>3, <1>4, <1>6, <3>2, PayloadAtIs
      <4>2. Start[d.of] \in Nat /\ d.of \in 1..N + 1
        BY <4>1, Starts, SizesType
      <4>3. got < d.of
        <5>1. CASE c.have = 0
          <6>1. Start[got + 1] <= Start[d.of] + 4
            BY <2>2, <4>1, <4>2, <5>1
          <6>2. d.of < got + 1 => Start[d.of] + 4 < Start[got + 1]
            BY <2>2, <4>2, Increasing
          <6> QED BY <1>4, <2>2, <4>1, <4>2, <6>1, <6>2, SizesType
        <5>2. CASE c.have # 0
          BY <1>7, <2>5, <3>2, <4>1, <5>2 DEF AheadInv
        <5> QED BY <5>1, <5>2
      <4>4. Start[d.of] + 4 + d.have <= taken'
        <5> DEFINE a == Start[d.of]
        <5>1. /\ a \in Nat /\ c.have \in Nat /\ n \in Nat /\ taken = a + 4 + c.have
              /\ taken' = taken + n /\ d.have = c.have + n
          BY <1>1, <1>3, <1>4, <1>6, <4>1, <4>2
        <5> HIDE DEF a
        <5>2. a + 4 + d.have <= taken'
          BY <5>1
        <5> QED BY <5>2 DEF a
      <4> QED BY <1>2, <1>5, <2>3, <2>5, <4>3, <4>4 DEF AheadInv
    <3>3. CASE d.of = 0
      BY <1>2, <1>5, <2>3, <2>5, <3>3 DEF AheadInv
    <3> QED BY <1>3, <1>6, <3>1, <3>2, <3>3
  <2> QED BY <2>4, <2>5
<1>12. StepInv'
  <2>1. "stray" \in Readers /\ "main" \in Readers /\ "stray" # "main"
    BY DEF Readers
  <2>2. ~torn => reader'["stray"].at = "idle" /\ reader'["main"] = d
    BY <1>5, <1>8, <2>1 DEF IInv, StepInv
  <2> QED BY <1>1, <1>2, <1>8, <2>2 DEF StepInv
<1>13. WriterInv'
  BY <1>2 DEF IInv, WriterInv
<1> QED BY <1>9, <1>10, <1>11, <1>12, <1>13 DEF IInv, Sane

(***************************************************************************)
(* The reader: calls that begin and end.                                   *)
(***************************************************************************)
\* What the reader waits for is not negative, and neither is what it has.
LEMMA CallTypes ==
  ASSUME IInv, NEW r \in Readers
  PROVE  /\ reader[r] \in Calls /\ reader[r].have \in Nat /\ reader[r].want \in Nat
         /\ reader[r].of \in 0..N /\ got \in 0..N
         /\ ~torn => r = "main" \/ reader[r].at = "idle"
<1>1. reader[r] \in Calls /\ got \in 0..N
  BY TypeIs DEF IInv
<1>2. reader[r].have \in 0..MaxMessageSize /\ reader[r].want \in 0..MaxMessageSize /\ reader[r].of \in 0..N
  BY <1>1 DEF Calls
<1>3. ~torn => r = "main" \/ reader[r].at = "idle"
  BY DEF IInv, StepInv, Readers
<1> QED BY <1>1, <1>2, <1>3, SizesAssumption

LEMMA Unchanged ==
  ASSUME IInv, UNCHANGED <<torn, deadlines>>
  PROVE  torn' \in BOOLEAN /\ deadlines' \in 0..MaxDeadlines
BY DEF IInv, TypeOK

LEMMA BeginReadInv ==
  ASSUME IInv, NEW r \in Readers, BeginRead(r)
  PROVE  IInv'
<1> DEFINE c == Call("header", HeaderSize)
<1>1. /\ reader[r].at = "idle" /\ Set(r, c) /\ torn' = (torn \/ r = "stray")
      /\ UNCHANGED <<written, closed, taken, got, deadlines>>
  BY DEF BeginRead
<1>2. HeaderSize = 4 /\ HeaderSize \in 0..MaxMessageSize
  BY SizesAssumption DEF HeaderSize
<1>3. torn' \in BOOLEAN /\ deadlines' \in 0..MaxDeadlines
  BY <1>1 DEF IInv, TypeOK
<1>4. ASSUME ~torn' PROVE ~torn /\ r = "main" /\ InPlace(c, taken, got)
  <2>1. ~torn /\ r = "main"
    BY <1>1, <1>4 DEF Readers
  <2>2. taken = Start[got + 1]
    BY <1>1, <2>1 DEF IInv, StepInv, InPlace
  <2>3. c.at = "header" /\ c.have = 0
    BY <1>2, FreshCall
  <2>4. got + 1 \in 1..N + 1
    BY CallTypes, SizesType
  <2>5. Start[got + 1] \in Nat
    BY <2>4, Starts
  <2> HIDE DEF c
  <2>6. taken = Start[got + 1] + c.have /\ 1..c.have = {}
    BY <2>2, <2>3, <2>5
  <2> QED BY <2>1, <2>3, <2>6 DEF InPlace
<1> QED BY <1>1, <1>2, <1>3, <1>4, FreshInv

\* An error ends the call of a reader that was torn, or that is between frames.
LEMMA FailInv ==
  ASSUME IInv, NEW r \in Readers, Fail(r), UNCHANGED <<written, closed, taken, got>>,
         torn' \in BOOLEAN, deadlines' \in 0..MaxDeadlines,
         ~torn' => ~torn /\ r = "main" /\ taken = Start[got + 1]
  PROVE  IInv'
<1>1. PICK at \in {"idle", "stopped"} : Set(r, Call(at, 0))
  BY DEF Fail
<1>2. 0 \in 0..MaxMessageSize /\ Call(at, 0).at = at
  BY SizesAssumption, FreshCall
<1>3. ~torn' => ~torn /\ r = "main" /\ InPlace(Call(at, 0), taken, got)
  BY <1>2 DEF InPlace
<1> QED BY <1>1, <1>2, <1>3, FreshInv

\* A sequence is not changed by nothing that follows it.
LEMMA Prefix ==
  ASSUME NEW S, NEW h \in Seq(S), NEW z \in Seq(S), Len(h) = 4, Len(z) = 0
  PROVE  \A i \in 1..4 : (h \o z)[i] = h[i] /\ h[i] \in S
<1>1. z = <<>>
  <2>1. (z # <<>>) => (Len(z) \in Nat \ {0})
    BY EmptySeq
  <2> QED BY <2>1
<1>2. h \o z = h
  BY <1>1, ConcatEmptySeq
<1>3. \A i \in 1..4 : h[i] \in S
  BY ElementOfSeq
<1> QED BY <1>2, <1>3

\* The four bytes of a header, most significant first.
LEMMA BigEndianIs ==
  ASSUME NEW h \in Seq(0..255), Len(h) = 4
  PROVE  /\ BigEndian(Padded(h)) \in Nat
         /\ \A s \in 0..255 : h[1] = 0 /\ h[2] = 0 /\ h[3] = 0 /\ h[4] = s => BigEndian(Padded(h)) = s
<1> DEFINE S == 0..255
           z == [i \in 1..HeaderSize - Len(h) |-> 0]
<1>1. z \in Seq(S) /\ Len(z) = 0
  BY DEF HeaderSize
<1>2. h \in Seq(S)
  OBVIOUS
<1> HIDE DEF S, z
<1> DEFINE p == h \o z
<1>3. \A i \in 1..4 : p[i] = h[i] /\ h[i] \in S
  BY <1>1, <1>2, Prefix
<1>4. Padded(h) = p
  BY DEF Padded, z
<1> HIDE DEF p
<1>5. p[1] = h[1] /\ p[2] = h[2] /\ p[3] = h[3] /\ p[4] = h[4]
  BY <1>3
<1>6. h[1] \in 0..255 /\ h[2] \in 0..255 /\ h[3] \in 0..255 /\ h[4] \in 0..255
  BY <1>3 DEF S
<1>7. BigEndian(p) = h[4] + 256 * h[3] + 65536 * h[2] + 16777216 * h[1]
  BY <1>5 DEF BigEndian
<1> DEFINE a == h[1]
           b == h[2]
           c == h[3]
           d == h[4]
<1>8. BigEndian(p) = d + 256 * c + 65536 * b + 16777216 * a
  BY <1>7
<1>9. a \in 0..255 /\ b \in 0..255 /\ c \in 0..255 /\ d \in 0..255
  BY <1>6
<1> HIDE DEF a, b, c, d
<1>10. BigEndian(p) \in Nat /\ (a = 0 /\ b = 0 /\ c = 0 => BigEndian(p) = d)
  BY <1>8, <1>9
<1> QED BY <1>4, <1>10 DEF a, b, c, d

LEMMA HeaderReadInv ==
  ASSUME IInv, NEW r \in Readers, HeaderRead(r)
  PROVE  IInv'
<1> DEFINE c == reader[r]
           size == BigEndian(Padded(c.header))
<1>1. /\ c.at = "header" /\ c.have = c.want
      /\ IF TooLarge(size) THEN Fail(r) ELSE Set(r, Call("payload", size))
      /\ UNCHANGED <<written, closed, taken, got, torn, deadlines>>
  BY DEF HeaderRead, Full
<1>2. torn' \in BOOLEAN /\ deadlines' \in 0..MaxDeadlines
  BY <1>1, Unchanged
<1>3. Sane(c) /\ c \in Calls /\ c.have \in Nat /\ got \in 0..N
  BY CallTypes DEF IInv
<1>4. c.header \in Seq(0..255) /\ Len(c.header) = 4 /\ c.have = 4
  BY <1>1, <1>3 DEF Sane, Calls
<1>5. size \in Nat
  BY <1>4, BigEndianIs
<1>6. ASSUME ~torn
      PROVE  /\ r = "main" /\ size = Sizes[got + 1] /\ size \in 1..255 /\ got < N
             /\ taken = Start[got + 1] + 4
  <2>1. r = "main" /\ InPlace(c, taken, got)
    <3>1. r = "main"
      BY <1>1, <1>6, CallTypes
    <3> QED BY <1>6, <3>1 DEF IInv, StepInv
  <2>2. /\ taken = Start[got + 1] + 4
        /\ \A j \in 1..4 : got < N /\ c.header[j] = IF j = 4 THEN Sizes[got + 1] ELSE 0
    BY <1>1, <1>4, <2>1 DEF InPlace
  <2>3. 1 \in 1..4 /\ 2 \in 1..4 /\ 3 \in 1..4 /\ 4 \in 1..4
    OBVIOUS
  <2>4. got < N /\ c.header[1] = 0 /\ c.header[2] = 0 /\ c.header[3] = 0 /\ c.header[4] = Sizes[got + 1]
    BY <2>2, <2>3
  <2>5. Sizes[got + 1] \in 1..255
    BY <1>3, <2>4, SizesType
  <2>6. size = Sizes[got + 1]
    <3>1. Sizes[got + 1] \in 0..255
      BY <2>5
    <3> QED BY <1>4, <2>4, <3>1, BigEndianIs
  <2> QED BY <2>1, <2>2, <2>4, <2>5, <2>6
<1> HIDE DEF size
<1>7. CASE TooLarge(size)
  <2>1. ASSUME ~torn PROVE FALSE
    <3>1. size \in 1..255
      BY <1>6, <2>1
    <3>2. size > MaxMessageSize /\ MaxMessageSize >= 255 /\ MaxMessageSize \in Nat
      BY <1>7, SizesAssumption DEF TooLarge
    <3> QED BY <3>1, <3>2
  <2> QED BY <1>1, <1>2, <1>7, <2>1, FailInv
<1>8. CASE ~TooLarge(size)
  <2>1. size \in 0..MaxMessageSize
    BY <1>5, <1>8, SizesAssumption DEF TooLarge
  <2> DEFINE d == Call("payload", size)
  <2>2. d.at = "payload" /\ d.want = size /\ d.have = 0
    BY <2>1, FreshCall
  <2>3. ~torn' => ~torn /\ r = "main" /\ InPlace(d, taken, got)
    <3> SUFFICES ASSUME ~torn PROVE r = "main" /\ InPlace(d, taken, got)
      BY <1>1
    <3>1. /\ r = "main" /\ size = Sizes[got + 1] /\ got < N /\ taken = Start[got + 1] + 4
      BY <1>6
    <3>2. got + 1 \in 1..N + 1
      BY <1>3, SizesType
    <3>3. Start[got + 1] \in Nat
      BY <3>2, Starts
    <3> HIDE DEF d
    <3>4. taken = Start[got + 1] + 4 + d.have /\ ~(d.have > 0)
      BY <2>2, <3>1, <3>3
    <3> QED BY <2>2, <3>1, <3>4 DEF InPlace
  <2>4. Set(r, Call("payload", size))
    BY <1>1, <1>8
  <2> QED BY <1>1, <1>2, <2>1, <2>3, <2>4, FreshInv
<1> QED BY <1>7, <1>8

LEMMA ReadDeadlineInv ==
  ASSUME IInv, ReadDeadline
  PROVE  IInv'
<1> DEFINE c == reader["main"]
<1>1. /\ c.at \in {"header", "payload"} /\ deadlines < MaxDeadlines /\ deadlines' = deadlines + 1
      /\ Fail("main") /\ torn' = (torn \/ c.at = "payload" \/ c.have > 0)
      /\ UNCHANGED <<written, closed, taken, got>>
  BY DEF ReadDeadline, Midway
<1>2. "main" \in Readers
  BY DEF Readers
<1>3. torn' \in BOOLEAN
  BY <1>1 DEF IInv, TypeOK
<1>4. deadlines' \in 0..MaxDeadlines
  <2>1. deadlines \in 0..MaxDeadlines /\ MaxDeadlines \in Nat
    BY TypeIs, SizesAssumption DEF IInv
  <2> QED BY <1>1, <2>1
<1>5. c.have \in Nat /\ got \in 0..N
  BY <1>2, CallTypes
<1>6. ASSUME ~torn' PROVE ~torn /\ taken = Start[got + 1]
  <2>1. ~torn /\ c.at = "header" /\ ~(c.have > 0)
    BY <1>1, <1>6
  <2>2. c.have = 0
    BY <1>5, <2>1
  <2>3. taken = Start[got + 1] + c.have
    BY <2>1 DEF IInv, StepInv, InPlace
  <2>4. got + 1 \in 1..N + 1
    BY <1>5, SizesType
  <2>5. Start[got + 1] \in Nat
    BY <2>4, Starts
  <2> QED BY <2>1, <2>2, <2>3, <2>5
<1> QED BY <1>1, <1>2, <1>3, <1>4, <1>6, FailInv

LEMMA ReadEOFInv ==
  ASSUME IInv, NEW r \in Readers, ReadEOF(r)
  PROVE  IInv'
<1>1. /\ reader[r].at \in {"header", "payload"} /\ Set(r, Call("stopped", 0))
      /\ UNCHANGED <<written, closed, taken, got, torn, deadlines>>
  BY DEF ReadEOF
<1>2. torn' \in BOOLEAN /\ deadlines' \in 0..MaxDeadlines
  BY <1>1, Unchanged
<1>3. 0 \in 0..MaxMessageSize /\ Call("stopped", 0).at = "stopped"
  BY SizesAssumption, FreshCall
<1>4. ~torn' => ~torn /\ r = "main" /\ InPlace(Call("stopped", 0), taken, got)
  <2>1. ~torn => r = "main"
    BY <1>1, CallTypes
  <2> QED BY <1>1, <1>3, <2>1 DEF InPlace
<1> QED BY <1>1, <1>2, <1>3, <1>4, FreshInv

\* What a whole payload tells.
LEMMA WholePayload ==
  ASSUME IInv, NEW r \in Readers, reader[r].at = "payload", Full(r)
  PROVE  /\ ~torn => /\ r = "main" /\ Decodes(reader[r]) /\ reader[r].of = got + 1
                     /\ got < N /\ taken = Start[got + 2]
         /\ r = "main" /\ Decodes(reader[r]) =>
              /\ got < reader[r].of /\ reader[r].of \in 1..N
              /\ Start[reader[r].of + 1] \in Nat /\ Start[reader[r].of + 1] <= taken
<1> DEFINE c == reader[r]
<1>1. c.have \in Nat /\ c.of \in 0..N /\ got \in 0..N /\ c.have = c.want
  BY CallTypes DEF Full
<1>2. ASSUME ~torn
      PROVE  /\ r = "main" /\ Decodes(c) /\ c.of = got + 1
             /\ got < N /\ taken = Start[got + 2]
  <2>1. r = "main"
    BY <1>2, CallTypes
  <2>2. /\ got < N /\ c.want = Sizes[got + 1] /\ taken = Start[got + 1] + 4 + c.have
        /\ c.have > 0 => c.of = got + 1
    BY <1>2, <2>1 DEF IInv, StepInv, InPlace
  <2>3. got + 1 \in 1..N /\ (got + 1) + 1 = got + 2 /\ got + 1 # 0
    BY <1>1, <2>2, SizesType
  <2>4. Sizes[got + 1] \in 1..255 /\ Start[got + 2] = Start[got + 1] + 4 + Sizes[got + 1]
    BY <2>3, Starts, SizesType
  <2>5. c.have > 0
    BY <1>1, <2>2, <2>4
  <2> QED BY <1>1, <2>1, <2>2, <2>3, <2>4, <2>5 DEF Decodes
<1>3. ASSUME r = "main", Decodes(c)
      PROVE  got < c.of /\ c.of \in 1..N /\ Start[c.of + 1] \in Nat /\ Start[c.of + 1] <= taken
  <2>1. c.of # 0 /\ c.have = Sizes[c.of]
    BY <1>3 DEF Decodes
  <2>2. got < c.of /\ Start[c.of] + 4 + c.have <= taken
    BY <1>3, <2>1 DEF IInv, AheadInv
  <2>3. c.of \in 1..N
    BY <1>1, <2>1, SizesType
  <2> DEFINE n == c.of
  <2>4. n \in 1..N
    BY <2>3
  <2> HIDE DEF n
  <2>5. Start[n + 1] = Start[n] + 4 + Sizes[n] /\ n + 1 \in 1..N + 1
    BY <2>4, Starts, SizesType
  <2>6. Start[n + 1] \in Nat
    BY <2>5, Starts
  <2>7. Start[n] + 4 + Sizes[n] <= taken
    BY <2>1, <2>2 DEF n
  <2>8. Start[n + 1] <= taken
    BY <2>5, <2>7
  <2> QED BY <2>2, <2>4, <2>6, <2>8 DEF n
<1> QED BY <1>2, <1>3

LEMMA PayloadReadInv ==
  ASSUME IInv, NEW r \in Readers, PayloadRead(r)
  PROVE  IInv'
<1> DEFINE c == reader[r]
           at == IF r = "main" THEN "idle" ELSE "stopped"
           d == Call(at, 0)
<1>1. /\ c.at = "payload" /\ Full(r)
      /\ UNCHANGED <<written, closed, taken, torn, deadlines>>
  BY DEF PayloadRead
<1>2. torn' \in BOOLEAN /\ deadlines' \in 0..MaxDeadlines
  BY <1>1, Unchanged
<1>3. CASE ~Decodes(c)
  <2>1. torn
    BY <1>1, <1>3, WholePayload
  <2>2. Fail(r) /\ got' = got
    BY <1>3 DEF PayloadRead
  <2> QED BY <1>1, <1>2, <2>1, <2>2, FailInv
<1>4. 0 \in 0..MaxMessageSize /\ at \in {"idle", "header", "payload", "stopped"} /\ at # "header"
  BY SizesAssumption
<1>5. CASE Decodes(c) /\ r # "main"
  <2>1. torn
    BY <1>1, <1>5, WholePayload
  <2>2. Set(r, d) /\ got' = got
    BY <1>5 DEF PayloadRead
  <2> HIDE DEF at
  <2> QED BY <1>1, <1>2, <1>4, <2>1, <2>2, FreshInv
<1>6. CASE Decodes(c) /\ r = "main"
  <2>1. Set("main", d) /\ got' = c.of
    BY <1>6 DEF PayloadRead
  <2>2. /\ got < c.of /\ c.of \in 1..N /\ Start[c.of + 1] \in Nat /\ Start[c.of + 1] <= taken
        /\ ~torn => c.of = got + 1 /\ taken = Start[got + 2]
    BY <1>1, <1>6, WholePayload
  <2>3. /\ d \in Calls /\ d.at = "idle" /\ d.want = 0 /\ d.have = 0 /\ d.of = 0
    <3>1. at = "idle"
      BY <1>6
    <3> QED BY <1>4, <3>1, FreshCall
  <2>4. /\ written \in 0..Total /\ closed \in BOOLEAN /\ taken \in 0..written
        /\ reader \in [Readers -> Calls] /\ \A q \in Readers : reader[q].have <= reader[q].want
        /\ got \in 0..N /\ torn \in BOOLEAN /\ deadlines \in 0..MaxDeadlines
    BY TypeIs DEF IInv
  <2> HIDE DEF d, at
  <2>5. /\ reader' \in [Readers -> Calls] /\ reader'["main"] = d
        /\ \A q \in Readers : q # "main" => reader'[q] = reader[q]
    BY <1>6, <2>1, <2>3, <2>4, SetIs
  <2>6. TypeOK'
    <3>1. \A q \in Readers : reader'[q].have <= reader'[q].want
      BY <2>3, <2>4, <2>5
    <3>2. got' \in 0..N
      BY <2>1, <2>2, SizesType
    <3> QED BY <1>1, <2>4, <2>5, <3>1, <3>2 DEF TypeOK, Calls, N
  <2>7. \A q \in Readers : Sane(reader'[q])
    <3>1. Sane(d)
      BY <2>3 DEF Sane
    <3> QED BY <2>5, <3>1 DEF IInv
  <2>8. AheadInv'
    BY <1>1, <2>1, <2>2, <2>3, <2>5 DEF AheadInv
  <2>9. StepInv'
    <3>1. "stray" \in Readers /\ "stray" # "main"
      BY DEF Readers
    <3>2. ~torn' => reader'["stray"].at = "idle"
      BY <1>1, <2>5, <3>1 DEF IInv, StepInv
    <3>3. ~torn' => taken' = Start[got' + 1]
      <4>1. (got + 1) + 1 = got + 2
        BY <2>4
      <4> QED BY <1>1, <2>1, <2>2, <4>1
    <3> QED BY <2>3, <2>5, <3>2, <3>3 DEF StepInv, InPlace
  <2>10. WriterInv'
    BY <1>1 DEF IInv, WriterInv
  <2> QED BY <2>6, <2>7, <2>8, <2>9, <2>10 DEF IInv, Sane
<1> QED BY <1>3, <1>5, <1>6

LEMMA NextInv ==
  ASSUME IInv, [Next]_vars
  PROVE  IInv'
<1>1. CASE UNCHANGED vars
  BY <1>1 DEF vars, IInv, TypeOK, WriterInv, AheadInv, StepInv, InPlace, Sane
<1>2. ASSUME NEW r \in Readers, Reading(r) PROVE IInv'
  BY <1>2, ReadInv, HeaderReadInv, PayloadReadInv, ReadEOFInv DEF Reading
<1> QED BY <1>1, <1>2, WriterStep, ReadDeadlineInv, BeginReadInv DEF Next

LEMMA Invariant == Spec => []IInv
BY InitInv, NextInv, PTL DEF Spec

(***************************************************************************)
(* Theorems.                                                               *)
(***************************************************************************)
\* The readers and the writer stay within their types: no read takes a byte
\* that was not written, and no length that ReadMsg believes is above
\* maxMessageSize, whatever it takes for a header.
THEOREM TypeCorrect == Spec => []TypeOK
BY Invariant, PTL DEF IInv

\* Between two calls of ReadMsg the stream stands between two frames, unless a
\* read was torn.
THEOREM StaysInStep == Spec => []InStep
<1>1. IInv => InStep
  <2> SUFFICES ASSUME IInv, reader["main"].at = "idle", ~torn PROVE Boundary(taken)
    BY DEF InStep
  <2>1. taken = Start[got + 1] /\ got \in 0..N
    BY TypeIs DEF IInv, StepInv, InPlace
  <2>2. got + 1 \in 1..N + 1
    BY <2>1, SizesType
  <2> QED BY <2>1, <2>2, Starts DEF Boundary
<1> QED BY <1>1, Invariant, PTL

(***************************************************************************)
(* Refinement.                                                             *)
(***************************************************************************)
LEMMA RefinesInit == Init => Channel!Init
<1> SUFFICES ASSUME Init PROVE Channel!Init
  OBVIOUS
<1>1. FramesIn(0) = 0
  <2>1. 0 \in 0..Total
    BY TotalIs
  <2>2. FramesIn(0) \in 0..N /\ Start[FramesIn(0) + 1] <= 0
    BY <2>1, FramesInExists
  <2>3. FramesIn(0) + 1 \in 1..N + 1 /\ 1 \in 1..N + 1
    BY <2>2, SizesType
  <2>4. Start[1] = 0 /\ Start[FramesIn(0) + 1] \in Nat
    BY <2>3, Starts
  <2>5. Start[1] = Start[FramesIn(0) + 1]
    BY <2>2, <2>4
  <2> QED BY <2>2, <2>3, <2>5, Increasing
<1> QED BY <1>1 DEF Channel!Init, Init

\* Only the second of WriteMsg's two writes makes a frame whole.
LEMMA RefinesWriting ==
  ASSUME IInv
  PROVE  /\ WriteHeader => FramesIn(written') = FramesIn(written)
         /\ WritePayload => FramesIn(written') = FramesIn(written) + 1
<1>1. TypeOK /\ WriterInv
  BY DEF IInv
<1>2. ASSUME WriteHeader PROVE FramesIn(written') = FramesIn(written)
  <2>1. PICK n \in 1..N : written = Start[n] /\ written' = Start[n] + 4
    BY <1>1, <1>2, WriteHeaderIs
  <2>2. n - 1 \in 0..N /\ (n - 1) + 1 = n /\ (n - 1) + 2 = n + 1 /\ n \in 1..N + 1
    BY SizesType
  <2>3. Start[n] \in Nat /\ Start[n + 1] = Start[n] + 4 + Sizes[n] /\ Sizes[n] \in 1..255
    BY <2>2, Starts, SizesType
  <2>4. FramesIn(written) = n - 1
    <3>1. written \in Nat /\ Start[(n - 1) + 1] <= written /\ written < Start[(n - 1) + 2]
      BY <2>1, <2>2, <2>3
    <3> QED BY <2>2, <3>1, FramesInIs
  <2>5. FramesIn(written') = n - 1
    <3>1. written' \in Nat /\ Start[(n - 1) + 1] <= written' /\ written' < Start[(n - 1) + 2]
      BY <2>1, <2>2, <2>3
    <3> QED BY <2>2, <3>1, FramesInIs
  <2> QED BY <2>4, <2>5
<1>3. ASSUME WritePayload PROVE FramesIn(written') = FramesIn(written) + 1
  <2>1. PICK n \in 1..N : written = Start[n] + 4 /\ written' = Start[n + 1]
    BY <1>1, <1>3, WritePayloadIs
  <2>2. /\ n - 1 \in 0..N /\ (n - 1) + 1 = n /\ (n - 1) + 2 = n + 1 /\ n \in 1..N + 1
        /\ n \in 0..N /\ n + 1 \in 1..N + 1
    BY SizesType
  <2>3. /\ Start[n] \in Nat /\ Start[n + 1] = Start[n] + 4 + Sizes[n] /\ Sizes[n] \in 1..255
        /\ Start[n + 1] \in Nat
    BY <2>2, Starts, SizesType
  <2>4. FramesIn(written) = n - 1
    <3>1. written \in Nat /\ Start[(n - 1) + 1] <= written /\ written < Start[(n - 1) + 2]
      BY <2>1, <2>2, <2>3
    <3> QED BY <2>2, <3>1, FramesInIs
  <2>5. FramesIn(written') = n
    <3>1. n # N => written' < Start[n + 2]
      <4> SUFFICES ASSUME n # N PROVE written' < Start[n + 2]
        OBVIOUS
      <4>1. n + 1 \in 1..N /\ n + 2 \in 1..N + 1 /\ n + 1 < n + 2
        BY SizesType
      <4>2. Start[n + 1] + 4 < Start[n + 2] /\ Start[n + 2] \in Nat
        BY <2>2, <4>1, Increasing, Starts
      <4> QED BY <2>1, <2>3, <4>2
    <3>2. written' \in Nat /\ Start[n + 1] <= written'
      BY <2>1, <2>3
    <3> QED BY <2>2, <3>1, <3>2, FramesInIs
  <2> QED BY <2>4, <2>5
<1> QED BY <1>2, <1>3

LEMMA RefinesStep ==
  ASSUME IInv, [Next]_vars
  PROVE  [Channel!Next]_(Channel!vars)
<1> USE DEF Channel!Next, Channel!vars
<1>1. CASE WriteHeader
  BY <1>1, RefinesWriting DEF WriteHeader, write
<1>2. CASE WritePayload
  BY <1>2, RefinesWriting DEF WritePayload, write, Channel!Send
<1>3. CASE CloseWriter
  BY <1>3 DEF CloseWriter, write
<1>4. CASE ReadDeadline
  <2>1. torn' = torn \/ torn' = TRUE
    BY <1>4 DEF ReadDeadline, IInv, TypeOK
  <2> QED BY <1>4, <2>1 DEF ReadDeadline, Channel!Tear
<1>5. ASSUME NEW r \in Readers, BeginRead(r) PROVE [Channel!Next]_(Channel!vars)
  <2>1. torn' = torn \/ torn' = TRUE
    BY <1>5 DEF BeginRead, IInv, TypeOK
  <2> QED BY <1>5, <2>1 DEF BeginRead, Channel!Tear
<1>6. ASSUME NEW r \in Readers, Read(r) \/ HeaderRead(r) \/ ReadEOF(r)
      PROVE  [Channel!Next]_(Channel!vars)
  BY <1>6 DEF Read, HeaderRead, ReadEOF
<1>7. ASSUME NEW r \in Readers, PayloadRead(r) PROVE [Channel!Next]_(Channel!vars)
  <2>1. UNCHANGED <<written, torn>> /\ reader[r].at = "payload" /\ Full(r)
    BY <1>7 DEF PayloadRead
  <2>2. CASE got' = got
    BY <2>1, <2>2
  <2>3. CASE got' # got
    <3>1. r = "main" /\ Decodes(reader[r]) /\ got' = reader[r].of
      BY <1>7, <2>3 DEF PayloadRead
    <3>2. /\ got < got' /\ got' \in 1..N
          /\ Start[got' + 1] \in Nat /\ Start[got' + 1] <= taken
          /\ ~torn => got' = got + 1
      BY <2>1, <3>1, WholePayload
    <3>3. taken \in 0..written /\ written \in 0..Total /\ Total \in Nat /\ got \in 0..N
      BY TypeIs, TotalIs DEF IInv
    <3>4. got' <= FramesIn(written) /\ FramesIn(written) \in Nat
      <4>1. got' \in 0..N /\ Start[got' + 1] <= written
        BY <3>2, <3>3, SizesType
      <4> QED BY <3>3, <4>1, FramesInCovers, FramesInExists
    <3>5. got < FramesIn(written) /\ got' \in IF torn THEN got + 1..FramesIn(written) ELSE {got + 1}
      BY <3>2, <3>3, <3>4
    <3> QED BY <2>1, <3>5 DEF Channel!Deliver
  <2> QED BY <2>2, <2>3
<1>8. CASE UNCHANGED vars
  BY <1>8 DEF vars
<1> QED BY <1>1, <1>2, <1>3, <1>4, <1>5, <1>6, <1>7, <1>8 DEF Next, Writing, Reading

\* ReadMsg returns frames in order, each at most once and never a mixture of
\* two, whatever was torn; and none is missing as long as nothing was.
THEOREM Implements == Spec => ImplementsChannel
BY Invariant, RefinesInit, RefinesStep, PTL DEF Spec, ImplementsChannel, Channel!Spec
====
