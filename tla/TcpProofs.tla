---- MODULE TcpProofs ----
(***************************************************************************)
(* Proofs about TcpTest: what the counters and reports of the two sides    *)
(* say of the bytes that the streams carried, for any number of streams,   *)
(* duration, size of a Write and room in the network.                      *)
(***************************************************************************)
EXTENDS TcpTest, Foundations, TLAPS

USE TcpAssumption

(***************************************************************************)
(* The invariant.                                                          *)
(***************************************************************************)
Wrote == [s \in Streams |-> stream[s].wrote]
Read  == [s \in Streams |-> stream[s].read]

\* The streams are opened, and accepted, in order.
OpenInv ==
  \E k \in 0..N : \E j \in 0..k :
    \A s \in Streams : /\ stream[s].client # "none" <=> s <= k
                       /\ stream[s].server # "none" <=> s <= j

\* A sender has counted what it wrote on a stream, but for the Write that is
\* under way, or that the deadline interrupted.
Counts(counted) ==
  /\ total[Sender] = Sum(counted)
  /\ \A s \in Streams :
       /\ stream[s].wrote - counted[s] \in 0..Chunk - 1
       /\ stream[s][Sender] # "done" => stream[s].wrote - counted[s] = stream[s].chunk

CountInv ==
  /\ \A s \in Streams : stream[s].read <= stream[s].wrote
  /\ total[Receiver] = Sum(Read)
  /\ \E counted \in [Streams -> 0..MaxUnits] : Counts(counted)

EndInv ==
  /\ client = "start" => now = 0
  /\ server = "await" => now <= MaxLag
  /\ client \in {"result", "intervals", "done"} => report = total["client"] /\ Running("client") = {}
  /\ server = "done" => Running("server") = {}
  /\ loop.last <= total["client"]

IInv == TypeOK /\ OpenInv /\ CountInv /\ EndInv

(***************************************************************************)
(* Streams.                                                                *)
(***************************************************************************)
LEMMA SidesOf ==
  /\ Sender \in Sides /\ Receiver \in Sides /\ Sender # Receiver
  /\ \A side \in Sides : side = Sender \/ side = Receiver
BY DEF Sender, Receiver, Sides

LEMMA Fields ==
  ASSUME NEW r \in Stream, NEW g \in Goroutine
  PROVE  /\ \A side \in Sides : r[side] \in Goroutine
         /\ r.wrote \in 0..MaxUnits /\ r.read \in 0..MaxUnits /\ r.chunk \in 0..Chunk - 1
         /\ \A side \in Sides, c \in 0..Chunk - 1 :
              LET e == [r EXCEPT ![side] = g, !.chunk = c]
              IN  /\ e \in Stream /\ e[side] = g /\ \A other \in Sides : other # side => e[other] = r[other]
                  /\ e.wrote = r.wrote /\ e.read = r.read /\ e.chunk = c
<1>1. CASE TRUE
  BY DEF Stream, Sides, Goroutine
<1> QED BY <1>1

LEMMA SumIs == \A f : Sum(f) = SumTo(f, N)
BY DEF Sum, SumTo

LEMMA ReadType == TypeOK => Read \in [1..N -> Int] /\ \A s \in Streams : Read[s] \in 0..MaxUnits
BY DEF TypeOK, Stream, Read, Streams

\* A step that carries nothing.
LEMMA SameCounts ==
  ASSUME TypeOK, CountInv, UNCHANGED <<reverse, total>>, stream' \in [Streams -> Stream],
         \A s \in Streams : /\ stream'[s].wrote = stream[s].wrote /\ stream'[s].read = stream[s].read
                            /\ stream'[s][Sender] # "done" => /\ stream'[s].chunk = stream[s].chunk
                                                              /\ stream[s][Sender] # "done"
  PROVE  CountInv'
<1>1. Sender' = Sender /\ Receiver' = Receiver
  BY DEF Sender, Receiver
<1>2. Read' = Read
  BY DEF Read
<1>3. PICK counted \in [Streams -> 0..MaxUnits] : Counts(counted)
  BY DEF CountInv
<1>4. Counts(counted)'
  BY <1>1, <1>3 DEF Counts
<1>5. total'[Receiver'] = Sum(Read)'
  <2>1. Sum(Read)' = Sum(Read)
    BY <1>2 DEF Sum
  <2> QED BY <1>1, <2>1 DEF CountInv
<1> QED BY <1>3, <1>4, <1>5 DEF CountInv

LEMMA Still ==
  ASSUME TypeOK, OpenInv, CountInv, UNCHANGED <<reverse, stream, total>>
  PROVE  OpenInv' /\ CountInv'
<1>1. OpenInv'
  BY DEF OpenInv
<1>2. CountInv'
  BY SameCounts DEF TypeOK
<1> QED BY <1>1, <1>2

(***************************************************************************)
(* The initial states.                                                     *)
(***************************************************************************)
LEMMA InitInv == Init => IInv
<1> SUFFICES ASSUME Init PROVE IInv
  OBVIOUS
<1>1. MaxTotal \in Nat /\ MaxTime \in Nat /\ 0 \in 0..Chunk - 1
  BY DEF MaxTotal, MaxTime
<1>2. TypeOK
  <2>1. stream \in [Streams -> Stream]
    BY <1>1 DEF Init, Stream, Goroutine
  <2>2. deadline \in [Sides -> 0..MaxTime] /\ total \in [Sides -> 0..MaxTotal]
    BY <1>1 DEF Init
  <2>3. loop \in [at : Goroutine, last : 0..MaxTotal]
    BY <1>1 DEF Init, Goroutine
  <2>4. now \in 0..MaxTime /\ report \in 0..MaxTotal
    BY <1>1 DEF Init
  <2>5. /\ client \in {"start", "open", "wait", "result", "intervals", "done", "failed"}
        /\ server \in {"await", "accept", "wait", "done"}
        /\ reverse \in BOOLEAN /\ cut \in BOOLEAN
    BY DEF Init
  <2> QED BY <2>1, <2>2, <2>3, <2>4, <2>5 DEF TypeOK
<1>3. OpenInv
  <2>1. \A s \in Streams : ~(s <= 0) /\ stream[s].client = "none" /\ stream[s].server = "none"
    BY DEF Init, Streams
  <2>2. 0 \in 0..N /\ 0 \in 0..0
    OBVIOUS
  <2> QED BY <2>1, <2>2 DEF OpenInv
<1>4. CountInv
  <2> DEFINE zero == [s \in Streams |-> 0]
  <2>1. zero \in [Streams -> 0..MaxUnits] /\ zero \in [1..N -> Int] /\ \A s \in 1..N : zero[s] \in 0..0
    BY DEF Streams
  <2>2. Read = zero /\ \A s \in Streams : stream[s].wrote = 0 /\ stream[s].read = 0 /\ stream[s].chunk = 0
    BY DEF Init, Read
  <2>3. \A s \in Streams : zero[s] = 0
    OBVIOUS
  <2> HIDE DEF zero
  <2>4. Sum(zero) = 0
    <3>1. SumTo(zero, N) \in 0..N * 0
      BY <2>1, SumBounds
    <3> QED BY <3>1, SumIs
  <2>5. total[Sender] = 0 /\ total[Receiver] = 0
    BY SidesOf DEF Init
  <2>6. Counts(zero)
    BY <1>1, <2>2, <2>3, <2>4, <2>5 DEF Counts
  <2> QED BY <2>1, <2>2, <2>4, <2>5, <2>6 DEF CountInv
<1>5. EndInv
  BY DEF Init, EndInv, Sides
<1> QED BY <1>2, <1>3, <1>4, <1>5 DEF IInv

(***************************************************************************)
(* The main goroutines, the progress loop and the environment.             *)
(***************************************************************************)
LEMMA MainType ==
  ASSUME IInv, \/ ClientStarts \/ AllOpen \/ ClientWait \/ ReadResult \/ TakeIntervals \/ ProgressLoop
               \/ ServerStarts \/ AllAccepted \/ Tick \/ CutNetwork \/ UNCHANGED vars
  PROVE  TypeOK' /\ UNCHANGED <<reverse, stream, total>>
<1>1. UNCHANGED <<reverse, stream, total>>
  BY DEF ClientStarts, AllOpen, ClientWait, ReadResult, TakeIntervals, ProgressLoop, ServerStarts, AllAccepted,
         Tick, CutNetwork, vars, fixed, data
<1>2. /\ reverse \in BOOLEAN /\ now \in 0..MaxTime
      /\ client \in {"start", "open", "wait", "result", "intervals", "done", "failed"}
      /\ server \in {"await", "accept", "wait", "done"}
      /\ deadline \in [Sides -> 0..MaxTime]
      /\ stream \in [Streams -> Stream]
      /\ total \in [Sides -> 0..MaxTotal]
      /\ loop \in [at : Goroutine, last : 0..MaxTotal]
      /\ report \in 0..MaxTotal /\ cut \in BOOLEAN
      /\ client = "start" => now = 0
      /\ server = "await" => now <= MaxLag
  BY DEF IInv, TypeOK, EndInv
<1>3. now' \in 0..MaxTime /\ cut' \in BOOLEAN
  <2>1. CASE Tick
    BY <1>2, <2>1 DEF Tick, MaxTime
  <2>2. CASE CutNetwork
    BY <1>2, <2>2 DEF CutNetwork
  <2>3. CASE ~Tick /\ ~CutNetwork
    <3>1. UNCHANGED <<now, cut>>
      BY <2>3 DEF ClientStarts, AllOpen, ClientWait, ReadResult, TakeIntervals, ProgressLoop, ServerStarts,
                  AllAccepted, vars, fixed, data
    <3> QED BY <1>2, <3>1
  <2> QED BY <2>1, <2>2, <2>3
<1>4. deadline' \in [Sides -> 0..MaxTime]
  <2>1. ClientStarts \/ ServerStarts => now + Duration \in 0..MaxTime
    BY <1>2 DEF ClientStarts, ServerStarts, MaxTime
  <2>2. \/ UNCHANGED deadline
        \/ \E side \in Sides : deadline' = [deadline EXCEPT ![side] = now + Duration] /\ (ClientStarts \/ ServerStarts)
    BY DEF ClientStarts, AllOpen, ClientWait, ReadResult, TakeIntervals, ProgressLoop, ServerStarts, AllAccepted,
           Tick, CutNetwork, vars, fixed, data, Sides
  <2> QED BY <1>2, <2>1, <2>2
<1>5. /\ client' \in {"start", "open", "wait", "result", "intervals", "done", "failed"}
      /\ server' \in {"await", "accept", "wait", "done"}
  BY <1>2 DEF ClientStarts, AllOpen, ClientWait, ReadResult, TakeIntervals, ProgressLoop, ServerStarts, AllAccepted,
              Tick, CutNetwork, vars, fixed, data
<1>6. report' \in 0..MaxTotal
  <2>1. report' = report \/ report' = total["client"]
    BY DEF ClientStarts, AllOpen, ClientWait, ReadResult, TakeIntervals, ProgressLoop, ServerStarts, AllAccepted,
           Tick, CutNetwork, vars, fixed, data
  <2> QED BY <1>2, <2>1 DEF Sides
<1>7. loop' \in [at : Goroutine, last : 0..MaxTotal]
  <2>1. \/ loop' = loop \/ \E at \in Goroutine : loop' = [loop EXCEPT !.at = at]
        \/ \E at \in Goroutine : loop' = [at |-> at, last |-> total["client"]]
    BY DEF ClientStarts, AllOpen, ClientWait, ReadResult, TakeIntervals, ProgressLoop, ServerStarts, AllAccepted,
           Tick, CutNetwork, vars, fixed, data, Goroutine
  <2> QED BY <1>2, <2>1 DEF Sides
<1> QED BY <1>1, <1>2, <1>3, <1>4, <1>5, <1>6, <1>7 DEF TypeOK

LEMMA MainInv ==
  ASSUME IInv, \/ ClientStarts \/ AllOpen \/ ClientWait \/ ReadResult \/ TakeIntervals \/ ProgressLoop
               \/ ServerStarts \/ AllAccepted \/ Tick \/ CutNetwork \/ UNCHANGED vars
  PROVE  IInv'
<1>1. TypeOK' /\ UNCHANGED <<reverse, stream, total>>
  BY MainType
<1>2. OpenInv' /\ CountInv'
  BY <1>1, Still DEF IInv
<1>3. total["client"] \in Nat /\ loop \in [at : Goroutine, last : 0..MaxTotal] /\ now \in Nat
  BY DEF IInv, TypeOK, Sides
<1>4. \A side \in Sides : Running(side)' = Running(side)
  BY <1>1 DEF Running
<1>5. (client = "start" => now = 0)' /\ (server = "await" => now <= MaxLag)'
  BY <1>3 DEF IInv, EndInv, ClientStarts, AllOpen, ClientWait, ReadResult, TakeIntervals, ProgressLoop, ServerStarts,
              AllAccepted, Tick, CutNetwork, vars, fixed, data
<1>6. (client \in {"result", "intervals", "done"} => report = total["client"] /\ Running("client") = {})'
  <2>1. CASE ClientWait
    BY <1>1, <1>4, <2>1 DEF ClientWait, WaitOver, Sides
  <2>2. CASE ~ClientWait
    <3>1. /\ report' = report
          /\ client' \in {"result", "intervals", "done"} => client \in {"result", "intervals", "done"}
      BY <2>2 DEF ClientStarts, AllOpen, ReadResult, TakeIntervals, ProgressLoop, ServerStarts, AllAccepted,
                  Tick, CutNetwork, vars, fixed, data
    <3> QED BY <1>1, <1>4, <3>1 DEF IInv, EndInv, Sides
  <2> QED BY <2>1, <2>2
<1>7. (server = "done" => Running("server") = {})'
  <2>1. server' = "done" => server = "done"
    BY DEF ClientStarts, AllOpen, ClientWait, ReadResult, TakeIntervals, ProgressLoop, ServerStarts, AllAccepted,
           Tick, CutNetwork, vars, fixed, data
  <2> QED BY <1>4, <2>1 DEF IInv, EndInv, Sides
<1>8. (loop.last <= total["client"])'
  <2>1. loop'.last = loop.last \/ loop'.last = total["client"]
    BY <1>3 DEF ClientStarts, AllOpen, ClientWait, ReadResult, TakeIntervals, ProgressLoop, ServerStarts, AllAccepted,
           Tick, CutNetwork, vars, fixed, data
  <2> QED BY <1>1, <1>3, <2>1 DEF IInv, EndInv
<1> QED BY <1>1, <1>2, <1>5, <1>6, <1>7, <1>8 DEF IInv, EndInv

(***************************************************************************)
(* Streams are opened and accepted in order.                               *)
(***************************************************************************)
LEMMA FirstStreams ==
  ASSUME NEW k \in 0..N, NEW P \in SUBSET Streams, \A s \in Streams : s \in P <=> s <= k
  PROVE  Cardinality(P) = k
<1>1. P = 1..k
  <2>1. \A s \in P : s \in 1..k
    BY DEF Streams
  <2>2. \A s \in 1..k : s \in Streams /\ s <= k
    BY DEF Streams
  <2> QED BY <2>1, <2>2
<1>2. Cardinality(1..k) = k
  BY FS_Interval
<1> QED BY <1>1, <1>2

\* A goroutine starts on the next stream, or ends.
LEMMA Begins ==
  ASSUME TypeOK, NEW side \in Sides, NEW n \in Streams, stream' = [stream EXCEPT ![n][side] = "run"]
  PROVE  /\ stream' \in [Streams -> Stream]
         /\ \A s \in Streams : s # n => stream'[s] = stream[s]
         /\ \A other \in Sides : other # side => stream'[n][other] = stream[n][other]
         /\ stream'[n][side] = "run" /\ stream'[n].wrote = stream[n].wrote
         /\ stream'[n].read = stream[n].read /\ stream'[n].chunk = stream[n].chunk
<1>1. stream \in [Streams -> Stream] /\ stream[n] \in Stream /\ "run" \in Goroutine
  BY DEF TypeOK, Goroutine
<1> DEFINE e == [stream[n] EXCEPT ![side] = "run"]
<1>2. /\ e \in Stream /\ e[side] = "run" /\ \A other \in Sides : other # side => e[other] = stream[n][other]
      /\ e.wrote = stream[n].wrote /\ e.read = stream[n].read /\ e.chunk = stream[n].chunk
  BY <1>1 DEF Stream, Sides, Goroutine
<1>3. stream' = [stream EXCEPT ![n] = e]
  OBVIOUS
<1> HIDE DEF e
<1> QED BY <1>1, <1>2, <1>3

LEMMA OpenInvStep ==
  ASSUME IInv, OpenStream
  PROVE  IInv'
<1>1. PICK k \in 0..N : \E j \in 0..k : \A s \in Streams : /\ stream[s].client # "none" <=> s <= k
                                                           /\ stream[s].server # "none" <=> s <= j
  BY DEF IInv, OpenInv
<1>2. PICK j \in 0..k : \A s \in Streams : /\ stream[s].client # "none" <=> s <= k
                                           /\ stream[s].server # "none" <=> s <= j
  BY <1>1
<1>3. Dialed = k
  <2> DEFINE P == {s \in Streams : stream[s].client # "none"}
  <2>1. P \in SUBSET Streams /\ \A s \in Streams : s \in P <=> s <= k
    BY <1>2
  <2> HIDE DEF P
  <2>2. Cardinality(P) = k
    BY <2>1, FirstStreams
  <2> QED BY <2>2 DEF P, Dialed
<1>4. CASE client' = "failed" /\ UNCHANGED stream
  <2>1. UNCHANGED <<fixed, data, server, deadline, stream>> /\ client' = "failed"
    BY <1>4 DEF OpenStream
  <2>2. OpenInv' /\ CountInv'
    BY <2>1, Still DEF IInv, fixed, data
  <2>3. TypeOK'
    BY <2>1 DEF IInv, TypeOK, fixed, data
  <2>4. EndInv'
    BY <2>1 DEF IInv, EndInv, Running, fixed, data
  <2> QED BY <2>2, <2>3, <2>4 DEF IInv
<1>5. CASE Listening /\ stream' = [stream EXCEPT ![Dialed + 1].client = "run"] /\ UNCHANGED client
  <2>1. /\ UNCHANGED <<reverse, now, cut, total, loop, report, server, deadline, client>>
        /\ client = "open" /\ server # "done"
    BY <1>5 DEF OpenStream, fixed, data, Listening
  <2>2. k + 1 \in Streams /\ k + 1 \in 0..N /\ j \in 0..k + 1
    BY <1>3 DEF OpenStream, Streams
  <2>3. stream' = [stream EXCEPT ![k + 1]["client"] = "run"] /\ "client" \in Sides
    BY <1>3, <1>5 DEF Sides
  <2>4. /\ stream' \in [Streams -> Stream]
        /\ \A s \in Streams : s # k + 1 => stream'[s] = stream[s]
        /\ stream'[k + 1].server = stream[k + 1].server
        /\ stream'[k + 1].client = "run" /\ stream'[k + 1].wrote = stream[k + 1].wrote
        /\ stream'[k + 1].read = stream[k + 1].read /\ stream'[k + 1].chunk = stream[k + 1].chunk
    BY <2>2, <2>3, Begins DEF IInv, Sides
  <2>5. OpenInv'
    <3>1. \A s \in Streams : /\ stream'[s].client # "none" <=> s <= k + 1
                             /\ stream'[s].server # "none" <=> s <= j
      BY <1>2, <2>2, <2>4 DEF Streams
    <3> QED BY <2>2, <3>1 DEF OpenInv
  <2>6. CountInv'
    <3>1. stream[k + 1].client = "none"
      BY <1>2, <2>2 DEF Streams
    <3>2. \A s \in Streams :
            /\ stream'[s].wrote = stream[s].wrote /\ stream'[s].read = stream[s].read
            /\ stream'[s][Sender] # "done" => /\ stream'[s].chunk = stream[s].chunk
                                              /\ stream[s][Sender] # "done"
      BY <2>4, <3>1 DEF Sender
    <3> QED BY <2>1, <2>4, <3>2, SameCounts DEF IInv
  <2>7. TypeOK'
    BY <2>1, <2>4 DEF IInv, TypeOK
  <2>8. EndInv'
    BY <2>1 DEF IInv, EndInv
  <2> QED BY <2>5, <2>6, <2>7, <2>8 DEF IInv
<1> QED BY <1>4, <1>5 DEF OpenStream

LEMMA AcceptInv ==
  ASSUME IInv, Accept
  PROVE  IInv'
<1>1. PICK k \in 0..N : \E j \in 0..k : \A s \in Streams : /\ stream[s].client # "none" <=> s <= k
                                                           /\ stream[s].server # "none" <=> s <= j
  BY DEF IInv, OpenInv
<1>2. PICK j \in 0..k : \A s \in Streams : /\ stream[s].client # "none" <=> s <= k
                                           /\ stream[s].server # "none" <=> s <= j
  BY <1>1
<1>3. Dialed = k
  <2> DEFINE P == {s \in Streams : stream[s].client # "none"}
  <2>1. P \in SUBSET Streams /\ \A s \in Streams : s \in P <=> s <= k
    BY <1>2
  <2> HIDE DEF P
  <2>2. Cardinality(P) = k
    BY <2>1, FirstStreams
  <2> QED BY <2>2 DEF P, Dialed
<1>4. Accepted = j
  <2> DEFINE P == {s \in Streams : stream[s].server # "none"}
  <2>1. P \in SUBSET Streams /\ j \in 0..N /\ \A s \in Streams : s \in P <=> s <= j
    BY <1>2
  <2> HIDE DEF P
  <2>2. Cardinality(P) = j
    BY <2>1, FirstStreams
  <2> QED BY <2>2 DEF P, Accepted
<1>5. CASE server' = "wait" /\ UNCHANGED stream
  <2>1. UNCHANGED <<fixed, data, client, deadline, stream>> /\ server' = "wait"
    BY <1>5 DEF Accept
  <2>2. OpenInv' /\ CountInv'
    BY <2>1, Still DEF IInv, fixed, data
  <2>3. TypeOK'
    BY <2>1 DEF IInv, TypeOK, fixed, data
  <2>4. EndInv'
    BY <2>1 DEF IInv, EndInv, Running, fixed, data
  <2> QED BY <2>2, <2>3, <2>4 DEF IInv
<1>6. CASE Accepted < Dialed /\ stream' = [stream EXCEPT ![Accepted + 1].server = "run"] /\ UNCHANGED server
  <2>1. /\ UNCHANGED <<reverse, now, cut, total, loop, report, server, deadline, client>>
        /\ server = "accept"
    BY <1>6 DEF Accept, fixed, data
  <2>2. j + 1 \in Streams /\ j + 1 \in 0..k
    BY <1>3, <1>4, <1>6 DEF Streams
  <2>3. stream' = [stream EXCEPT ![j + 1]["server"] = "run"] /\ "server" \in Sides
    BY <1>4, <1>6 DEF Sides
  <2>4. /\ stream' \in [Streams -> Stream]
        /\ \A s \in Streams : s # j + 1 => stream'[s] = stream[s]
        /\ stream'[j + 1].client = stream[j + 1].client
        /\ stream'[j + 1].server = "run" /\ stream'[j + 1].wrote = stream[j + 1].wrote
        /\ stream'[j + 1].read = stream[j + 1].read /\ stream'[j + 1].chunk = stream[j + 1].chunk
    BY <2>2, <2>3, Begins DEF IInv, Sides
  <2>5. OpenInv'
    <3>1. \A s \in Streams : /\ stream'[s].client # "none" <=> s <= k
                             /\ stream'[s].server # "none" <=> s <= j + 1
      BY <1>2, <2>2, <2>4 DEF Streams
    <3> QED BY <2>2, <3>1 DEF OpenInv
  <2>6. CountInv'
    <3>1. stream[j + 1].server = "none"
      BY <1>2, <2>2 DEF Streams
    <3>2. \A s \in Streams :
            /\ stream'[s].wrote = stream[s].wrote /\ stream'[s].read = stream[s].read
            /\ stream'[s][Sender] # "done" => /\ stream'[s].chunk = stream[s].chunk
                                              /\ stream[s][Sender] # "done"
      BY <2>4, <3>1 DEF Sender
    <3> QED BY <2>1, <2>4, <3>2, SameCounts DEF IInv
  <2>7. TypeOK'
    BY <2>1, <2>4 DEF IInv, TypeOK
  <2>8. EndInv'
    <3>1. Running("client")' = Running("client")
      BY <2>4 DEF Running
    <3> QED BY <2>1, <3>1 DEF IInv, EndInv
  <2> QED BY <2>5, <2>6, <2>7, <2>8 DEF IInv
<1> QED BY <1>5, <1>6 DEF Accept

LEMMA HandlerReturnsInv ==
  ASSUME IInv, HandlerReturns
  PROVE  IInv'
<1>1. PICK k \in 0..N : \E j \in 0..k : \A s \in Streams : /\ stream[s].client # "none" <=> s <= k
                                                           /\ stream[s].server # "none" <=> s <= j
  BY DEF IInv, OpenInv
<1>2. PICK j \in 0..k : \A s \in Streams : /\ stream[s].client # "none" <=> s <= k
                                           /\ stream[s].server # "none" <=> s <= j
  BY <1>1
<1>3. /\ UNCHANGED <<reverse, now, cut, total, loop, report, client, deadline>>
      /\ server' = "done" /\ Running("server") = {}
      /\ stream \in [Streams -> Stream]
  BY DEF HandlerReturns, fixed, data, WaitOver, IInv, TypeOK
<1>4. /\ stream' \in [Streams -> Stream]
      /\ \A s \in Streams :
           /\ stream'[s].client = stream[s].client /\ stream'[s].wrote = stream[s].wrote
           /\ stream'[s].read = stream[s].read /\ stream'[s].chunk = stream[s].chunk
           /\ stream'[s].server = IF stream[s].client # "none" THEN "done" ELSE stream[s].server
  BY <1>3 DEF HandlerReturns, Stream, Goroutine
<1>5. OpenInv'
  <2>1. \A s \in Streams : /\ stream'[s].client # "none" <=> s <= k
                           /\ stream'[s].server # "none" <=> s <= k
    BY <1>2, <1>4 DEF Streams
  <2>2. k \in 0..k
    OBVIOUS
  <2> QED BY <2>1, <2>2 DEF OpenInv
<1>6. CountInv'
  <2>1. \A s \in Streams :
          /\ stream'[s].wrote = stream[s].wrote /\ stream'[s].read = stream[s].read
          /\ stream'[s][Sender] # "done" => /\ stream'[s].chunk = stream[s].chunk
                                            /\ stream[s][Sender] # "done"
    <3>1. \A s \in Streams : stream[s].client = "none" => stream[s].server = "none"
      BY <1>2 DEF Streams
    <3> QED BY <1>4, <3>1 DEF Sender
  <2> QED BY <1>3, <1>4, <2>1, SameCounts DEF IInv
<1>7. TypeOK'
  BY <1>3, <1>4 DEF IInv, TypeOK
<1>8. EndInv'
  <2>1. Running("client")' = Running("client")
    BY <1>4 DEF Running
  <2>2. Running("server")' = {}
    <3>1. \A s \in Streams : stream[s].client = "none" => stream[s].server = "none"
      BY <1>2 DEF Streams
    <3> QED BY <1>4, <3>1 DEF Running
  <2> QED BY <1>3, <2>1, <2>2 DEF IInv, EndInv
<1> QED BY <1>5, <1>6, <1>7, <1>8 DEF IInv

(***************************************************************************)
(* The goroutines of a stream.                                             *)
(***************************************************************************)
LEMMA Remainder ==
  ASSUME NEW c \in 0..Chunk - 1
  PROVE  (c + 1) % Chunk = IF c + 1 = Chunk THEN 0 ELSE c + 1
OBVIOUS

\* What any of them does to the reports.
LEMMA DataEnds ==
  ASSUME IInv, UNCHANGED around, total' \in [Sides -> 0..MaxTotal],
         \A side \in Sides : /\ total'[side] >= total[side]
                             /\ Running(side)' \subseteq Running(side)
                             /\ Running(side) = {} => total'[side] = total[side]
  PROVE  EndInv'
<1>1. UNCHANGED <<reverse, now, cut, client, server, deadline, loop, report>> /\ "client" \in Sides /\ "server" \in Sides
  BY DEF around, fixed, Sides
<1>2. loop.last \in Nat /\ total["client"] \in Nat /\ total'["client"] \in Nat
  BY <1>1 DEF IInv, TypeOK
<1>3. loop.last <= total'["client"]
  BY <1>1, <1>2 DEF IInv, EndInv
<1> QED BY <1>1, <1>3 DEF IInv, EndInv

LEMMA Exits ==
  ASSUME IInv, NEW s \in Streams, NEW side \in Sides, stream[s][side] = "run", Exit(s, side),
         UNCHANGED <<around, total>>
  PROVE  IInv'
<1>1. UNCHANGED <<reverse, now, cut, client, server, deadline, loop, report, total>>
  BY DEF around, fixed
<1>2. stream \in [Streams -> Stream] /\ stream[s] \in Stream /\ "done" \in Goroutine /\ 0 \in 0..Chunk - 1
  BY DEF IInv, TypeOK, Goroutine
<1> DEFINE e == [stream[s] EXCEPT ![side] = "done", !.chunk = IF side = Sender THEN 0 ELSE @]
<1>3. /\ e \in Stream /\ e[side] = "done" /\ \A other \in Sides : other # side => e[other] = stream[s][other]
      /\ e.wrote = stream[s].wrote /\ e.read = stream[s].read
      /\ side # Sender => e.chunk = stream[s].chunk
  BY <1>2 DEF Stream, Sides, Goroutine
<1>4. stream' = [stream EXCEPT ![s] = e]
  BY <1>2 DEF Exit, Sides, Stream
<1> HIDE DEF e
<1>5. /\ stream' \in [Streams -> Stream] /\ stream'[s] = e
      /\ \A r \in Streams : r # s => stream'[r] = stream[r]
  BY <1>2, <1>3, <1>4
<1>6. \A r \in Streams, other \in Sides : \/ stream'[r][other] = stream[r][other]
                                          \/ stream'[r][other] = "done" /\ stream[r][other] = "run"
  BY <1>3, <1>5
<1>7. OpenInv'
  <2>1. \A r \in Streams : /\ stream'[r].client # "none" <=> stream[r].client # "none"
                           /\ stream'[r].server # "none" <=> stream[r].server # "none"
    BY <1>6 DEF Sides
  <2> QED BY <2>1 DEF IInv, OpenInv
<1>8. CountInv'
  <2>1. \A r \in Streams :
          /\ stream'[r].wrote = stream[r].wrote /\ stream'[r].read = stream[r].read
          /\ stream'[r][Sender] # "done" => /\ stream'[r].chunk = stream[r].chunk
                                            /\ stream[r][Sender] # "done"
    BY <1>3, <1>5, SidesOf
  <2> QED BY <1>1, <1>5, <2>1, SameCounts DEF IInv
<1>9. TypeOK'
  BY <1>1, <1>5 DEF IInv, TypeOK
<1>10. EndInv'
  <2>1. \A other \in Sides : Running(other)' \subseteq Running(other)
    BY <1>6 DEF Running
  <2>2. total \in [Sides -> 0..MaxTotal] /\ \A other \in Sides : total[other] \in Nat
    BY DEF IInv, TypeOK
  <2> QED BY <1>1, <2>1, <2>2, DataEnds
<1> QED BY <1>7, <1>8, <1>9, <1>10 DEF IInv

LEMMA WriteInv ==
  ASSUME IInv, NEW s \in Streams, WriteUnit(s)
  PROVE  IInv'
<1> DEFINE n == IF stream[s].chunk + 1 = Chunk THEN Chunk ELSE 0
           e == [stream[s] EXCEPT !.wrote = @ + 1, !.chunk = (@ + 1) % Chunk]
<1>1. UNCHANGED <<reverse, now, cut, client, server, deadline, loop, report>> /\ UNCHANGED around
  BY DEF WriteUnit, around, fixed
<1>2. /\ stream \in [Streams -> Stream] /\ stream[s] \in Stream /\ total \in [Sides -> 0..MaxTotal]
      /\ stream[s].chunk \in 0..Chunk - 1 /\ stream[s].wrote \in 0..MaxUnits /\ stream[s].wrote < MaxUnits
      /\ stream[s].read \in 0..MaxUnits /\ stream[s][Sender] = "run"
  BY DEF IInv, TypeOK, Stream, WriteUnit
<1>3. (stream[s].chunk + 1) % Chunk = IF stream[s].chunk + 1 = Chunk THEN 0 ELSE stream[s].chunk + 1
  BY <1>2, Remainder
<1>4. (stream[s].chunk + 1) % Chunk \in 0..Chunk - 1
  BY <1>2, <1>3
<1>5. /\ e \in Stream /\ \A other \in Sides : e[other] = stream[s][other]
      /\ e.wrote = stream[s].wrote + 1 /\ e.read = stream[s].read
      /\ e.chunk = (stream[s].chunk + 1) % Chunk
  <2> DEFINE c == (stream[s].chunk + 1) % Chunk
             w == stream[s].wrote + 1
  <2>1. c \in 0..Chunk - 1 /\ w \in 0..MaxUnits
    BY <1>2, <1>4
  <2>2. e = [stream[s] EXCEPT !.wrote = w, !.chunk = c]
    BY <1>2 DEF Stream
  <2> HIDE DEF c, w, e
  <2>3. /\ e \in Stream /\ \A other \in Sides : e[other] = stream[s][other]
        /\ e.wrote = w /\ e.read = stream[s].read /\ e.chunk = c
    BY <1>2, <2>1, <2>2 DEF Stream, Sides
  <2> QED BY <2>3 DEF c, w
<1>6. stream' = [stream EXCEPT ![s] = e]
  BY <1>2 DEF WriteUnit, Stream
<1>7. total' = [total EXCEPT ![Sender] = @ + n]
  BY DEF WriteUnit, WriteReturns
<1> HIDE DEF e
<1>8. /\ stream' \in [Streams -> Stream] /\ stream'[s] = e
      /\ \A r \in Streams : r # s => stream'[r] = stream[r]
  BY <1>2, <1>5, <1>6
<1>9. Sender' = Sender /\ Receiver' = Receiver
  BY <1>1 DEF Sender, Receiver
<1>10. PICK counted \in [Streams -> 0..MaxUnits] : Counts(counted)
  BY DEF IInv, CountInv
<1>11. n \in Nat /\ counted[s] \in 0..MaxUnits /\ stream[s].wrote - counted[s] = stream[s].chunk
  BY <1>2, <1>10 DEF Counts
<1>12. /\ stream[s].wrote + 1 - (counted[s] + n) = (stream[s].chunk + 1) % Chunk
       /\ counted[s] + n \in 0..MaxUnits
  <2>1. CASE stream[s].chunk + 1 = Chunk
    <3>1. n = Chunk /\ (stream[s].chunk + 1) % Chunk = 0
      BY <1>3, <2>1
    <3> HIDE DEF n
    <3> QED BY <1>2, <1>11, <2>1, <3>1
  <2>2. CASE stream[s].chunk + 1 # Chunk
    <3>1. n = 0 /\ (stream[s].chunk + 1) % Chunk = stream[s].chunk + 1
      BY <1>3, <2>2
    <3> HIDE DEF n
    <3> QED BY <1>2, <1>11, <2>2, <3>1
  <2> QED BY <2>1, <2>2
<1> HIDE DEF n
<1>13. PICK more \in [Streams -> 0..MaxUnits] :
         more[s] = counted[s] + n /\ \A r \in Streams : r # s => more[r] = counted[r]
  <2>1. [counted EXCEPT ![s] = @ + n] \in [Streams -> 0..MaxUnits]
    BY <1>12
  <2> QED BY <2>1
<1>13a. stream'[s].wrote - more[s] = stream'[s].chunk /\ stream'[s].chunk \in 0..Chunk - 1
  <2>1. /\ stream'[s].wrote = stream[s].wrote + 1 /\ more[s] = counted[s] + n
        /\ stream'[s].chunk = (stream[s].chunk + 1) % Chunk
    BY <1>5, <1>8, <1>13
  <2>2. stream'[s].wrote - more[s] = stream[s].wrote + 1 - (counted[s] + n)
    BY <1>2, <1>11, <2>1
  <2> QED BY <1>4, <1>12, <2>1, <2>2
<1>14. Sum(more) = Sum(counted) + n /\ Sum(more) \in 0..MaxTotal
  <2>1. more \in [1..N -> Int] /\ counted \in [1..N -> Int] /\ s \in 1..N
    BY <1>13 DEF Streams
  <2>2. \A r \in 1..N : r # s => more[r] = counted[r]
    BY <1>13 DEF Streams
  <2>3. SumTo(more, N) = SumTo(counted, N) + (more[s] - counted[s])
    BY <2>1, <2>2, SumChange
  <2>4. SumTo(more, N) \in 0..N * MaxUnits
    <3>1. \A r \in 1..N : more[r] \in 0..MaxUnits
      BY <1>13 DEF Streams
    <3> QED BY <2>1, <3>1, SumBounds
  <2>5. more[s] - counted[s] = n
    BY <1>11, <1>13
  <2> QED BY <2>3, <2>4, <2>5, SumIs DEF MaxTotal
<1>15. /\ total' \in [Sides -> 0..MaxTotal] /\ total'[Sender] = Sum(more)
       /\ total'[Receiver] = total[Receiver] /\ total'[Sender] >= total[Sender]
  <2>1. total[Sender] + n = Sum(more)
    BY <1>10, <1>14 DEF Counts
  <2>2. total[Sender] \in Nat
    BY <1>2, SidesOf
  <2> QED BY <1>2, <1>7, <1>11, <1>14, <2>1, <2>2, SidesOf
<1>16. \A side \in Sides : Running(side)' = Running(side)
  BY <1>5, <1>8 DEF Running
<1>17. OpenInv'
  <2>1. \A r \in Streams : stream'[r].client = stream[r].client /\ stream'[r].server = stream[r].server
    BY <1>5, <1>8 DEF Sides
  <2> QED BY <2>1 DEF IInv, OpenInv
<1>18. CountInv'
  <2>1. \A r \in Streams : (stream[r].read <= stream[r].wrote)'
    BY <1>2, <1>5, <1>8 DEF IInv, CountInv
  <2>2. (total[Receiver] = Sum(Read))'
    <3>1. Read' = Read
      BY <1>5, <1>8 DEF Read
    <3>2. Sum(Read)' = Sum(Read)
      BY <3>1 DEF Sum
    <3> QED BY <1>9, <1>15, <3>2 DEF IInv, CountInv
  <2>3. Counts(more)'
    <3>1. \A r \in Streams : stream'[r].wrote - more[r] \in 0..Chunk - 1
      <4>1. stream'[s].wrote - more[s] \in 0..Chunk - 1
        BY <1>13a
      <4>2. ASSUME NEW r \in Streams, r # s PROVE stream'[r].wrote - more[r] \in 0..Chunk - 1
        <5>1. stream'[r] = stream[r] /\ more[r] = counted[r]
          BY <1>8, <1>13, <4>2
        <5> QED BY <1>10, <5>1 DEF Counts
      <4> QED BY <4>1, <4>2
    <3>2. \A r \in Streams : stream'[r][Sender] # "done" => stream'[r].wrote - more[r] = stream'[r].chunk
      <4>1. stream'[s].wrote - more[s] = stream'[s].chunk
        BY <1>13a
      <4>2. ASSUME NEW r \in Streams, r # s, stream'[r][Sender] # "done"
            PROVE  stream'[r].wrote - more[r] = stream'[r].chunk
        <5>1. stream'[r] = stream[r] /\ more[r] = counted[r]
          BY <1>8, <1>13, <4>2
        <5> QED BY <1>10, <4>2, <5>1 DEF Counts
      <4> QED BY <4>1, <4>2
    <3> QED BY <1>9, <1>15, <3>1, <3>2 DEF Counts
  <2> QED BY <1>13, <2>1, <2>2, <2>3 DEF CountInv
<1>19. TypeOK'
  BY <1>1, <1>8, <1>15 DEF IInv, TypeOK
<1>20. EndInv'
  <2>1. \A side \in Sides : /\ total'[side] >= total[side]
                            /\ Running(side)' \subseteq Running(side)
                            /\ Running(side) = {} => total'[side] = total[side]
    <3>1. s \in Running(Sender)
      BY <1>2 DEF Running
    <3>2. total[Receiver] \in Nat
      BY <1>2, SidesOf
    <3> QED BY <1>15, <1>16, <3>1, <3>2, SidesOf
  <2> QED BY <1>1, <1>15, <2>1, DataEnds
<1> QED BY <1>17, <1>18, <1>19, <1>20 DEF IInv

LEMMA ReadInv ==
  ASSUME IInv, NEW s \in Streams, ReadUnits(s)
  PROVE  IInv'
<1>1. PICK n \in 1..stream[s].wrote - stream[s].read :
        /\ stream' = [stream EXCEPT ![s].read = @ + n]
        /\ total' = [total EXCEPT ![Receiver] = @ + n]
  BY DEF ReadUnits
<1>2. UNCHANGED <<reverse, now, cut, client, server, deadline, loop, report>> /\ UNCHANGED around
  BY DEF ReadUnits, around, fixed
<1>3. /\ stream \in [Streams -> Stream] /\ stream[s] \in Stream /\ total \in [Sides -> 0..MaxTotal]
      /\ stream[s].wrote \in 0..MaxUnits /\ stream[s].read \in 0..MaxUnits /\ stream[s][Receiver] = "run"
  BY DEF IInv, TypeOK, Stream, ReadUnits
<1>4. n \in Nat \ {0} /\ stream[s].read + n \in 0..MaxUnits /\ stream[s].read + n <= stream[s].wrote
  BY <1>3
<1> DEFINE e == [stream[s] EXCEPT !.read = @ + n]
<1>5. /\ e \in Stream /\ \A other \in Sides : e[other] = stream[s][other]
      /\ e.wrote = stream[s].wrote /\ e.read = stream[s].read + n /\ e.chunk = stream[s].chunk
  BY <1>3, <1>4 DEF Stream, Sides
<1>6. stream' = [stream EXCEPT ![s] = e]
  BY <1>1, <1>3 DEF Stream
<1> HIDE DEF e
<1>7. /\ stream' \in [Streams -> Stream] /\ stream'[s] = e
      /\ \A r \in Streams : r # s => stream'[r] = stream[r]
  BY <1>3, <1>5, <1>6
<1>8. Sender' = Sender /\ Receiver' = Receiver
  BY <1>2 DEF Sender, Receiver
<1>9. Sum(Read)' = Sum(Read) + n /\ Sum(Read)' \in 0..MaxTotal
  <2> DEFINE f == Read
             g == [r \in Streams |-> stream'[r].read]
  <2>1. /\ f \in [1..N -> Int] /\ g \in [1..N -> Int] /\ s \in 1..N
        /\ \A r \in 1..N : g[r] \in 0..MaxUnits
        /\ \A r \in 1..N : r # s => g[r] = f[r]
        /\ g[s] - f[s] = n
    <3>1. \A r \in Streams : stream[r] \in Stream /\ stream'[r] \in Stream
      BY <1>3, <1>7
    <3>2. \A r \in Streams : stream[r].read \in 0..MaxUnits /\ stream'[r].read \in 0..MaxUnits
      BY <3>1 DEF Stream
    <3>3. \A r \in Streams : f[r] = stream[r].read /\ g[r] = stream'[r].read
      BY DEF Read
    <3>4. f \in [1..N -> Int] /\ g \in [1..N -> Int] /\ \A r \in 1..N : g[r] \in 0..MaxUnits
      BY <3>2 DEF Read, Streams
    <3>5. stream'[s].read = stream[s].read + n /\ \A r \in Streams : r # s => stream'[r].read = stream[r].read
      BY <1>5, <1>7
    <3> HIDE DEF f, g
    <3>6. g[s] - f[s] = n
      BY <1>3, <1>4, <3>3, <3>5
    <3>7. s \in 1..N /\ \A r \in 1..N : r # s => g[r] = f[r]
      BY <3>3, <3>5 DEF Streams
    <3> QED BY <3>4, <3>6, <3>7
  <2>2. Sum(Read)' = Sum(g) /\ Sum(Read) = Sum(f)
    BY DEF Sum, Read
  <2> HIDE DEF f, g
  <2>3. SumTo(g, N) = SumTo(f, N) + (g[s] - f[s])
    BY <2>1, SumChange
  <2>4. SumTo(g, N) \in 0..N * MaxUnits
    BY <2>1, SumBounds
  <2> QED BY <2>1, <2>2, <2>3, <2>4, SumIs DEF MaxTotal
<1>10. /\ total' \in [Sides -> 0..MaxTotal] /\ total'[Receiver] = Sum(Read)'
       /\ total'[Sender] = total[Sender] /\ total'[Receiver] >= total[Receiver]
  <2>1. total[Receiver] + n = Sum(Read)'
    BY <1>9 DEF IInv, CountInv
  <2>2. total[Receiver] \in Nat
    BY <1>3, SidesOf
  <2> QED BY <1>1, <1>3, <1>4, <1>9, <2>1, <2>2, SidesOf
<1>11. \A side \in Sides : Running(side)' = Running(side)
  BY <1>5, <1>7 DEF Running
<1>12. OpenInv'
  <2>1. \A r \in Streams : stream'[r].client = stream[r].client /\ stream'[r].server = stream[r].server
    BY <1>5, <1>7 DEF Sides
  <2> QED BY <2>1 DEF IInv, OpenInv
<1>13. CountInv'
  <2>1. \A r \in Streams : (stream[r].read <= stream[r].wrote)'
    BY <1>4, <1>5, <1>7 DEF IInv, CountInv
  <2>2. (total[Receiver] = Sum(Read))'
    BY <1>8, <1>10
  <2>3. PICK counted \in [Streams -> 0..MaxUnits] : Counts(counted)
    BY DEF IInv, CountInv
  <2>4. Counts(counted)'
    <3>1. \A r \in Streams : /\ stream'[r].wrote = stream[r].wrote /\ stream'[r].chunk = stream[r].chunk
                             /\ stream'[r][Sender] = stream[r][Sender]
      BY <1>5, <1>7, SidesOf
    <3> QED BY <1>8, <1>10, <2>3, <3>1 DEF Counts
  <2> QED BY <2>1, <2>2, <2>3, <2>4 DEF CountInv
<1>14. TypeOK'
  BY <1>2, <1>7, <1>10 DEF IInv, TypeOK
<1>15. EndInv'
  <2>1. \A side \in Sides : /\ total'[side] >= total[side]
                            /\ Running(side)' \subseteq Running(side)
                            /\ Running(side) = {} => total'[side] = total[side]
    <3>1. s \in Running(Receiver)
      BY <1>3 DEF Running
    <3>2. total[Sender] \in Nat
      BY <1>3, SidesOf
    <3> QED BY <1>10, <1>11, <3>1, <3>2, SidesOf
  <2> QED BY <1>2, <1>10, <2>1, DataEnds
<1> QED BY <1>12, <1>13, <1>14, <1>15 DEF IInv

LEMMA StepInv == IInv /\ [Next]_vars => IInv'
<1> SUFFICES ASSUME IInv, [Next]_vars PROVE IInv'
  OBVIOUS
<1>1. ASSUME NEW s \in Streams, SendEnds(s) PROVE IInv'
  <2>1. stream[s][Sender] = "run" /\ Exit(s, Sender) /\ UNCHANGED <<around, total>>
    BY <1>1 DEF SendEnds
  <2> QED BY <2>1, SidesOf, Exits
<1>2. ASSUME NEW s \in Streams, RecvEnds(s) PROVE IInv'
  <2>1. stream[s][Receiver] = "run" /\ Exit(s, Receiver) /\ UNCHANGED <<around, total>>
    BY <1>2 DEF RecvEnds
  <2> QED BY <2>1, SidesOf, Exits
<1>3. ASSUME NEW s \in Streams, Data(s) PROVE IInv'
  BY <1>1, <1>2, <1>3, WriteInv, ReadInv DEF Data
<1>4. CASE RunTCPClient \/ ProgressLoop \/ Tick \/ CutNetwork \/ UNCHANGED vars
  BY <1>4, MainInv, OpenInvStep DEF RunTCPClient
<1>5. CASE HandleTCPServer \/ Accept
  BY <1>5, MainInv, AcceptInv, HandlerReturnsInv DEF HandleTCPServer
<1> QED BY <1>3, <1>4, <1>5 DEF Next

LEMMA Invariant == Spec => []IInv
BY InitInv, StepInv, PTL DEF Spec

(***************************************************************************)
(* The theorems.                                                           *)
(***************************************************************************)

\* Every variable has its type; in particular no counter exceeds what the
\* streams can have carried, and every deadline lies within the bound on time.
THEOREM TypeCorrect == Spec => []TypeOK
BY Invariant, PTL DEF IInv

\* Neither side reports before its goroutines have stopped, and the intervals of
\* the progress loop never add up to more than the total.
THEOREM Final == Spec => []ReportsAreFinal
<1>1. IInv => ReportsAreFinal
  BY DEF IInv, EndInv, ReportsAreFinal
<1> QED BY <1>1, Invariant, PTL

\* The sender's counter lags behind what the kernel took by less than one Write
\* per stream, and the totals of both sides agree up to that.
THEOREM CountersFollow == Spec => []CountersFollowBytes
<1>1. IInv => CountersFollowBytes
  <2> SUFFICES ASSUME IInv PROVE CountersFollowBytes
    OBVIOUS
  <2>1. PICK counted \in [Streams -> 0..MaxUnits] : Counts(counted)
    BY DEF IInv, CountInv
  <2>2. /\ Wrote \in [1..N -> Int] /\ Wrote = [s \in Streams |-> stream[s].wrote]
        /\ counted \in [1..N -> Int] /\ Chunk - 1 \in Nat
    BY DEF Wrote, IInv, TypeOK, Stream, Streams
  <2>3. \A s \in 1..N : Wrote[s] - counted[s] \in 0..Chunk - 1
    BY <2>1 DEF Wrote, Counts, Streams
  <2>4. SumTo(Wrote, N) - SumTo(counted, N) \in 0..N * (Chunk - 1)
    BY <2>2, <2>3, SumsApart
  <2>5. Written = SumTo(Wrote, N) /\ total[Sender] = SumTo(counted, N)
    BY <2>1, <2>2, SumIs DEF Written, Counts
  <2>6. SenderCount
    BY <2>4, <2>5 DEF SenderCount
  <2>7. TotalsAgree
    <3> SUFFICES ASSUME \A s \in Streams : stream[s].read = stream[s].wrote
                 PROVE  total[Receiver] - total[Sender] \in 0..N * (Chunk - 1)
      BY DEF TotalsAgree
    <3>1. Read = Wrote
      BY DEF Read, Wrote
    <3>2. total[Receiver] = SumTo(Wrote, N)
      BY <3>1, SumIs DEF IInv, CountInv
    <3> QED BY <2>4, <2>5, <3>2
  <2> QED BY <2>6, <2>7 DEF CountersFollowBytes
<1> QED BY <1>1, Invariant, PTL
====
