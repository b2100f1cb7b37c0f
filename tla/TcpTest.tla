---- MODULE TcpTest ----
(***************************************************************************)
(* The data phase of the TCP test (internal/tests/tcp.go), upload or       *)
(* download, from the test_start on: the client opens its streams one by   *)
(* one, the handler accepts them, and a goroutine at each end of a stream  *)
(* sends or receives until its deadline, adding to a counter that the main *)
(* goroutine reads after a wait group.  The client also samples its        *)
(* counter every second.                                                   *)
(*                                                                         *)
(* Time is counted in seconds.  Bytes are units: a Write asks the kernel   *)
(* for Chunk of them (128 KiB), and the kernel takes them one by one while *)
(* there is room, so that a deadline may pass in the middle.               *)
(***************************************************************************)
EXTENDS Integers, FiniteSets

CONSTANTS N,         \* streams
          Duration,  \* seconds
          Grace,     \* what a receiver waits after the deadline (2 s)
          Chunk,     \* units of a Write
          Room,      \* units in flight on a stream
          MaxUnits,  \* bound: units written to a stream
          MaxLag     \* bound: seconds that the test_start is under way

ASSUME TcpAssumption ==
  /\ N \in Nat \ {0} /\ Duration \in Nat \ {0} /\ Grace \in Nat \ {0} /\ Chunk \in Nat \ {0}
  /\ Room \in Nat \ {0} /\ MaxUnits \in Nat /\ MaxLag \in Nat

MaxTime  == MaxLag + Duration + Grace   \* then every deadline has passed
MaxTotal == N * MaxUnits

VARIABLES
  reverse,   \* download: the server sends
  now,       \* the clock
  client,    \* main goroutine of RunTCPClient
  server,    \* goroutine of handleTCPServer
  deadline,  \* deadline of each side, once its test has started
  stream,    \* each stream: the goroutine of each side, bytes, see Stream
  total,     \* totalBytes of each side
  loop,      \* tcpProgressLoop: [at, last]; its intervals add up to lastBytes
  report,    \* BytesTotal of the client's result
  cut        \* the network carries no data any more

vars == <<reverse, now, client, server, deadline, stream, total, loop, report, cut>>

Sides   == {"client", "server"}
Streams == 1..N

Goroutine == {"none", "run", "done"}
Stream == [client : Goroutine, server : Goroutine,
           wrote : 0..MaxUnits,   \* units the kernel took from the sender
           chunk : 0..Chunk - 1,  \* of these, in the Write that has not returned
           read  : 0..MaxUnits]   \* units read by the receiver

Sender   == IF reverse THEN "server" ELSE "client"
Receiver == IF reverse THEN "client" ELSE "server"
Dialed   == Cardinality({s \in Streams : stream[s].client # "none"})
Accepted == Cardinality({s \in Streams : stream[s].server # "none"})

Running(side) == {s \in Streams : stream[s][side] = "run"}
GoesOn(side) == TRUE             \* mutant: nobody waits
WaitOver(side) == Running(side) = {}

TypeOK ==
  /\ reverse \in BOOLEAN /\ now \in 0..MaxTime
  /\ client \in {"start", "open", "wait", "result", "intervals", "done", "failed"}
  /\ server \in {"await", "accept", "wait", "done"}
  /\ deadline \in [Sides -> 0..MaxTime]
  /\ stream \in [Streams -> Stream]
  /\ total \in [Sides -> 0..MaxTotal]
  /\ loop \in [at : Goroutine, last : 0..MaxTotal]
  /\ report \in 0..MaxTotal /\ cut \in BOOLEAN

Init ==
  /\ reverse \in BOOLEAN /\ now = 0 /\ client = "start" /\ server = "await"
  /\ deadline = [side \in Sides |-> 0] /\ total = [side \in Sides |-> 0] /\ report = 0
  /\ stream = [s \in Streams |-> [client |-> "none", server |-> "none",
                                  wrote |-> 0, chunk |-> 0, read |-> 0]] /\ cut = FALSE
  /\ loop = [at |-> "none", last |-> 0]

(***************************************************************************)
(* RunTCPClient.                                                           *)
(***************************************************************************)
data == <<total, loop, report>>
fixed == <<reverse, now, cut>>

ClientStarts ==
  /\ client = "start" /\ client' = "open"
  /\ deadline' = [deadline EXCEPT !["client"] = now + Duration]
  /\ UNCHANGED <<fixed, data, server, stream>>

Listening == server # "done"

OpenStream ==                    \* tcpClientOpenStreams, one turn of its loop
  /\ client = "open" /\ Dialed < N
  /\ \/ Listening /\ stream' = [stream EXCEPT ![Dialed + 1].client = "run"] /\ UNCHANGED client
     \/ client' = "failed" /\ UNCHANGED stream
  /\ UNCHANGED <<fixed, data, server, deadline>>

AllOpen ==
  /\ client = "open" /\ Dialed = N /\ client' = "wait"
  /\ loop' = [loop EXCEPT !.at = "run"]
  /\ UNCHANGED <<fixed, total, report, server, deadline, stream>>

ClientWait ==                    \* wg.Wait, and then the counter is read
  /\ client = "wait" /\ WaitOver("client")
  /\ client' = "result" /\ report' = total["client"]
  /\ UNCHANGED <<fixed, total, loop, server, deadline, stream>>

ReadResult ==                    \* the frame is ignored, it only has to come
  /\ client = "result" /\ server = "done" /\ client' = "intervals"
  /\ UNCHANGED <<fixed, data, server, deadline, stream>>

TakeIntervals ==
  /\ client = "intervals" /\ loop.at = "done" /\ client' = "done"
  /\ UNCHANGED <<fixed, data, server, deadline, stream>>

RunTCPClient == ClientStarts \/ OpenStream \/ AllOpen \/ ClientWait \/ ReadResult \/ TakeIntervals

ProgressLoop ==                  \* a tick, or at any time the end of the context
  /\ loop.at = "run"
  /\ \/ loop' = [at   |-> IF now >= deadline["client"] THEN "done" ELSE "run",
                 last |-> total["client"]]
     \/ loop' = [loop EXCEPT !.at = "done"]
  /\ UNCHANGED <<fixed, client, server, deadline, stream, total, report>>

(***************************************************************************)
(* handleTCPServer.                                                        *)
(***************************************************************************)
ServerStarts ==
  /\ server = "await" /\ client # "start" /\ server' = "accept"
  /\ deadline' = [deadline EXCEPT !["server"] = now + Duration]
  /\ UNCHANGED <<fixed, data, client, stream>>

OneTooMany == N + 1              \* mutant: i <= p.Streams
ToAccept == N

Accept ==
  /\ server = "accept" /\ Accepted < ToAccept
  /\ \/ /\ Accepted < Dialed
        /\ stream' = [stream EXCEPT ![Accepted + 1].server = "run"]
        /\ UNCHANGED server
     \/ server' = "wait" /\ UNCHANGED stream   \* out of descriptors
  /\ UNCHANGED <<fixed, data, client, deadline>>

AllAccepted ==
  /\ server = "accept" /\ Accepted = ToAccept /\ server' = "wait"
  /\ UNCHANGED <<fixed, data, client, deadline, stream>>

HandlerReturns ==                \* wg.Wait; closing the listener resets what waits there
  /\ server = "wait" /\ WaitOver("server") /\ server' = "done"
  /\ stream' = [s \in Streams |->
                  IF stream[s].client # "none" THEN [stream[s] EXCEPT !.server = "done"] ELSE stream[s]]
  /\ UNCHANGED <<fixed, data, client, deadline>>

HandleTCPServer == ServerStarts \/ (Accept /\ server' = "accept") \/ AllAccepted \/ HandlerReturns

(***************************************************************************)
(* tcpServerSend and tcpServerRecv, on either side.                        *)
(***************************************************************************)
around == <<fixed, client, server, deadline, loop, report>>

Exit(s, side) == stream' = [stream EXCEPT ![s][side] = "done", ![s].chunk = IF side = Sender THEN 0 ELSE @]

CountedEarly(units) == units = 1   \* mutant: counted when it is handed over
WriteReturns(units) == units = Chunk

\* The kernel takes one more unit; a Write that has all of its units returns,
\* and only then they are counted.
WriteUnit(s) ==
  /\ stream[s][Sender] = "run" /\ now < deadline[Sender]
  /\ stream[s].wrote - stream[s].read < Room /\ stream[s].wrote < MaxUnits
  /\ stream[s][Receiver] # "done" /\ ~cut
  /\ stream' = [stream EXCEPT ![s].wrote = @ + 1, ![s].chunk = (@ + 1) % Chunk]
  /\ total' = [total EXCEPT ![Sender] = @ + IF WriteReturns(stream[s].chunk + 1) THEN Chunk ELSE 0]
  /\ UNCHANGED around

SendEnds(s) ==                   \* the deadline, or a connection that was reset
  /\ stream[s][Sender] = "run"
  /\ now >= deadline[Sender] \/ stream[s][Receiver] = "done"
  /\ Exit(s, Sender)
  /\ UNCHANGED <<around, total>>

NoReadDeadline == FALSE          \* mutant: only the end of the stream ends it
ReadDeadline == now >= deadline[Receiver] + Grace

ReadUnits(s) ==
  /\ stream[s][Receiver] = "run" /\ ~ReadDeadline /\ ~cut
  /\ \E n \in 1..stream[s].wrote - stream[s].read :
       /\ stream' = [stream EXCEPT ![s].read = @ + n]
       /\ total' = [total EXCEPT ![Receiver] = @ + n]
  /\ UNCHANGED around

AtEnd(s) == stream[s][Sender] = "done" /\ stream[s].read = stream[s].wrote /\ ~cut

RecvEnds(s) ==
  /\ stream[s][Receiver] = "run" /\ (ReadDeadline \/ AtEnd(s))
  /\ Exit(s, Receiver)
  /\ UNCHANGED <<around, total>>

Data(s) == WriteUnit(s) \/ SendEnds(s) \/ ReadUnits(s) \/ RecvEnds(s)

(***************************************************************************)
(* The environment.                                                        *)
(***************************************************************************)
Tick ==
  /\ now < MaxTime /\ now' = now + 1
  /\ client # "start" /\ (server = "await" => now < MaxLag)
  /\ UNCHANGED <<reverse, cut, client, server, deadline, stream, data>>

CutNetwork ==
  /\ cut' = TRUE
  /\ UNCHANGED <<reverse, now, client, server, deadline, stream, data>>

Next == RunTCPClient \/ ProgressLoop \/ HandleTCPServer \/ Accept \/ (\E s \in Streams : Data(s))
        \/ Tick \/ CutNetwork

\* All goroutines run and the clock goes on; no dial and no accept has to
\* fail, and nothing has to be cut.
Spec == /\ Init /\ [][Next]_vars
        /\ WF_vars(RunTCPClient) /\ WF_vars(HandleTCPServer) /\ WF_vars(ProgressLoop)
        /\ WF_vars(Tick) /\ \A s \in Streams : WF_vars(Data(s))

(***************************************************************************)
(* Properties.                                                             *)
(***************************************************************************)
Sum(f) ==                        \* over the streams
  LET sum[s \in 0..N] == IF s = 0 THEN 0 ELSE sum[s - 1] + f[s]
  IN  sum[N]

Written == Sum([s \in Streams |-> stream[s].wrote])

\* A sender's counter lags behind what the kernel took by less than one Write
\* per stream (the one a deadline interrupts is not counted), and never leads.
SenderCount ==
  LET lag == Written - total[Sender] IN lag >= 0 /\ lag <= N * (Chunk - 1)

\* A byte is received at most once, and all are, unless the receiver gave up:
\* the totals of the two sides then differ only by interrupted Writes.
TotalsAgree ==
  client = "done" /\ (\A s \in Streams : stream[s].read = stream[s].wrote) =>
    total[Receiver] - total[Sender] \in 0..N * (Chunk - 1)

\* The counters say what the streams carried, while they run and afterwards.
CountersFollowBytes == SenderCount /\ TotalsAgree

\* Neither side reports before its goroutines have stopped: the total of the
\* result is final, the handler leaves no stream behind, and the intervals of
\* the progress loop, which samples meanwhile, never add up to more.
ReportsAreFinal ==
  /\ client \in {"result", "intervals", "done"} => report = total["client"] /\ Running("client") = {}
  /\ server = "done" => Running("server") = {}
  /\ client = "done" => loop.last <= report

\* Every goroutine of a stream ends, though its peer, the network or the dial
\* of the next stream fails.
StreamsEnd == <>[](\A side \in Sides : Running(side) = {})

\* The test ends if its streams were opened: the handler, which accepts without
\* a deadline, returns, and so does the client.
TestEnds == Dialed = N ~> client = "done" /\ server = "done"
====
