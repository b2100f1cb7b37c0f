---- MODULE Control ----
(***************************************************************************)
(* The control channel: one client (internal/client: Run, executeTests,    *)
(* runTest, connect, close) that runs a plan of tests, one after the       *)
(* other, over one TCP connection, against the session loop of the server  *)
(* (internal/server/session.go) and its test handlers (internal/tests).    *)
(*                                                                         *)
(* Frames are whole here, and each direction is FIFO.  Requests and        *)
(* replies carry no identifier in the code: the number of the request a    *)
(* frame belongs to is kept only to state the properties, and no guard     *)
(* reads it but the one that says whether a data port is still listening.  *)
(* Data channels are reduced to whether they could be opened.              *)
(*                                                                         *)
(* What a run of the client is asked to do, what its server offers and     *)
(* what may go wrong is a scenario, chosen in the initial state.           *)
(***************************************************************************)
EXTENDS Naturals, Sequences, FiniteSets

CONSTANTS Scenarios,    \* see Scenario
          Samples,      \* bound: samples of an echo phase (20 and 10 in the code)
          MaxAttempts   \* bound: maxRetries of runPing (5 in the code)

TestKinds == {"latency", "mtu", "tcp", "udp", "jitter", "bufferbloat", "bidir", "dns", "connect"}

FaultKinds == {"timeout",   \* the context of a test expires
               "abort",     \* the user interrupts the client
               "crash",     \* the client's process is killed: its kernel closes for it
               "shutdown",  \* the server's context is cancelled
               "refused",   \* a connection, or its handshake, is refused
               "listen",    \* a handler fails before it is ready
               "stream",    \* a TCP data stream cannot be opened
               "overrun",   \* the goodbye of bufferbloat comes after the server's deadline
               "stall"}     \* the MTU result takes longer than 15 s

Scenario == [tests     : Seq(TestKinds),       \* Config.Tests
             ping      : BOOLEAN,              \* Config.Ping
             offers    : SUBSET TestKinds,     \* the server's registered tests
             dialFails : SUBSET {"mtu", "udp", "jitter"},  \* UDP sockets that cannot be opened
             faults    : SUBSET FaultKinds]

ASSUME ScenariosAssumption == \A s \in Scenarios : s \in Scenario
ASSUME SamplesAssumption   == Samples \in Nat \ {0}
ASSUME AttemptsAssumption  == MaxAttempts \in Nat \ {0}

VARIABLES
  scene,    \* the scenario
  main,     \* the goroutine of Client.Run
  attempt,  \* attempts of runPing so far
  cur,      \* index in Plan of the test in progress
  outcome,  \* what became of each test
  ip,       \* next step of the test's goroutine (ClientProgram)
  sample,   \* what is left of an echo phase: [left, waiting]
  port,     \* the request whose ready announced the data port, 0 if none did
  res,      \* the channel ch of runTest: "none", "ok" or "err"
  req,      \* requests sent so far: the number of the current one
  last,     \* the last frame a test read, and the step that read it
  ctx,      \* the client's context is cancelled
  watch,    \* the goroutine of Run that waits for that: "waiting", "cutting", "done"
  expired,  \* the deadline of testCtx has passed
  conn,     \* c.conn: "nil", "open", "cut" (deadline in the past), "garbled", "closed"
  stray,    \* a goroutine of readMTUResult still reads from conn
  up, down, \* frames in flight to the server and to the client
  srv,      \* the session: [at, kind, id, step, left] (InSession)
  fed,      \* the client opened the data streams of the server's TCP test
  alive     \* the server's context is not cancelled

clientVars == <<scene, attempt, main, cur, outcome, ip, sample, port, res, req, last, expired, fed>>
serverVars == <<srv, alive>>
netVars    == <<conn, stray, up, down>>
vars == <<clientVars, ctx, watch, netVars, serverVars>>

Faults    == scene.faults
DialFails == scene.dialFails

ClientOnly == {"dns", "connect", "bidir"}
DefaultTests == <<"mtu", "latency", "tcp", "bufferbloat", "udp", "jitter">>
FilterTests(tests, offers) ==
  LET Supported(t) == offers = {} \/ t \in offers \cup ClientOnly
      filtered[i \in 0..Len(tests)] ==    \* after i turns of the loop
        IF i = 0 THEN <<>>
        ELSE IF Supported(tests[i]) THEN Append(filtered[i - 1], tests[i]) ELSE filtered[i - 1]
  IN  filtered[Len(tests)]

Plan == FilterTests(IF scene.tests = <<>> THEN DefaultTests ELSE scene.tests, scene.offers)

(***************************************************************************)
(* The tests.  Each is a straight line of steps for the client, and one    *)
(* for the handler of the request it sends; a step may leave the line with *)
(* an error, which ends the test or the handler.                           *)
(***************************************************************************)
Request(k) == <<"req", k>>
Step(s)    == <<s, "">>

LatencyStepsNoResult == <<Request("latency"), Step("ready"), Step("samples")>>  \* mutant
LatencySteps == <<Request("latency"), Step("ready"), Step("samples"), Step("result")>>
MTUSteps     == <<Request("mtu"), Step("ready"), Step("dial"), Step("load"), Step("fallback")>>
TCPStepsNoResult == <<Request("tcp"), Step("ready"), Step("start"), Step("open"), Step("load")>>  \* mutant
TCPSteps     == <<Request("tcp"), Step("ready"), Step("start"), Step("open"), Step("load"), Step("result")>>
UDPSteps     == <<Request("udp"), Step("ready"), Step("dial"), Step("start"), Step("load"), Step("result")>>
JitterSteps  == <<Request("jitter"), Step("ready"), Step("dial"), Step("start"), Step("load"), Step("must")>>
BloatSteps   == LatencySteps \o
                <<Request("bufferbloat"), Step("ready"), Step("start"), Step("probe"), Step("goodbye"), Step("result")>>
BidirSteps   == TCPSteps \o TCPSteps

ClientProgram(k) ==
  CASE k = "latency" -> LatencySteps [] k = "mtu" -> MTUSteps [] k = "tcp" -> TCPSteps
    [] k = "udp" -> UDPSteps [] k = "jitter" -> JitterSteps
    [] k = "bufferbloat" -> BloatSteps [] k = "bidir" -> BidirSteps
    [] k \in {"dns", "connect"} -> <<>>

LatencyHandler == <<"ready", "echo">>
MTUHandler     == <<"ready", "load">>
TCPHandler     == <<"ready", "await", "accept">>
UDPHandlerTakes  == <<"ready", "awaitOrEnd", "load">>  \* mutant: no error for another frame
UDPHandler     == <<"ready", "await", "load">>
JitterHandler  == <<"ready", "await", "load">>
BloatHandler   == <<"ready", "awaitOrEnd", "echoUntil">>

Handler(k) ==
  CASE k = "latency" -> LatencyHandler [] k = "mtu" -> MTUHandler [] k = "tcp" -> TCPHandler
    [] k = "udp" -> UDPHandler [] k = "jitter" -> JitterHandler
    [] k = "bufferbloat" -> BloatHandler

(***************************************************************************)
(* Frames and connections.                                                 *)
(***************************************************************************)
Frame(t, n, k) == [type |-> t, id |-> n, kind |-> k]
NoFrame == [step |-> "none", type |-> "none", id |-> 0, req |-> 0]

FrameTypes == {"hello", "hello_ack", "test_req", "test_ready", "test_start", "test_result", "error", "goodbye"}
Frames == [type : FrameTypes, id : Nat, kind : TestKinds \cup {"none"}]

InSession(at) == [at |-> at, kind |-> "none", id |-> 0, step |-> 0, left |-> 0]

EchoCountShort == Samples - 1    \* mutant: off by one in the echo loop
EchoCount == Samples

TestCtxDone == ctx \/ expired

ReadingSteps == {"ready", "samples", "probe", "result", "must", "fallback"}

TypeOK ==
  /\ scene \in Scenarios
  /\ main \in {"dial", "hello", "ack", "pause", "next", "testing", "draining", "closing", "done"}
  /\ attempt \in 0..MaxAttempts
  /\ watch \in {"waiting", "cutting", "done"}
  /\ cur \in 0..Len(Plan)
  /\ outcome \in [1..Len(Plan) -> {"todo", "ok", "failed"}]
  /\ ip \in Nat
  /\ sample \in [left : 0..Samples, waiting : BOOLEAN]
  /\ port \in Nat
  /\ res \in {"none", "ok", "err"}
  /\ req \in Nat
  /\ last \in [step : ReadingSteps \cup {"none"}, type : FrameTypes \cup {"none"}, id : Nat, req : Nat]
  /\ ctx \in BOOLEAN /\ expired \in BOOLEAN
  /\ conn \in {"nil", "open", "cut", "garbled", "closed"}
  /\ stray \in BOOLEAN /\ fed \in BOOLEAN /\ alive \in BOOLEAN
  /\ up \in Seq(Frames) /\ down \in Seq(Frames)
  /\ srv \in [at : {"hello", "poll", "read", "handler", "error", "ended"}, kind : TestKinds \cup {"none"},
              id : Nat, step : Nat, left : Nat]

Init ==
  /\ scene \in Scenarios /\ attempt = 0 /\ watch = "waiting"
  /\ main = "dial" /\ cur = 0 /\ outcome = [j \in 1..Len(Plan) |-> "todo"]
  /\ ip = 0 /\ sample = [left |-> 0, waiting |-> FALSE] /\ port = 0 /\ res = "none"
  /\ req = 0 /\ last = NoFrame /\ ctx = FALSE /\ expired = FALSE
  /\ conn = "nil" /\ stray = FALSE /\ up = <<>> /\ down = <<>>
  /\ srv = InSession("ended") /\ fed = FALSE /\ alive = TRUE

(***************************************************************************)
(* The goroutine of the test: dispatchTest and the Run...Client functions. *)
(***************************************************************************)
Program == ClientProgram(Plan[cur])

At(s) == /\ main \in {"testing", "draining"} /\ res = "none"
         /\ ip \in 1..Len(Program) /\ Program[ip][1] = s

Reading == /\ \E s \in ReadingSteps : At(s)
           /\ At("samples") \/ At("probe") => sample.waiting

Proceed == ip' = ip + 1 /\ res' = IF ip = Len(Program) THEN "ok" ELSE "none"
Fail    == UNCHANGED ip /\ res' = "err"

\* WriteMsg: what is written to a session that has ended is lost, or fails.
Send(f) ==
  /\ conn \in {"open", "garbled"}
  /\ up' = IF srv.at = "ended" THEN up ELSE Append(up, f)
SendFails == (conn \in {"cut", "closed"} \/ srv.at = "ended") /\ UNCHANGED up

\* ReadMsg: a reader left behind by the MTU test is first in line.
Incoming == IF conn = "open" /\ ~stray /\ down # <<>> THEN {Head(down)} ELSE {}
Take(f) ==
  /\ down' = Tail(down)
  /\ last' = [step |-> Program[ip][1], type |-> f.type, id |-> f.id, req |-> req]
\* end of file, a reset (what was buffered is gone), a deadline, a length out of range
ReceiveFails == (conn # "open" \/ srv.at = "ended") /\ down' = <<>> /\ UNCHANGED last

elsewhere == <<scene, attempt, main, cur, outcome, expired, ctx, watch, conn, serverVars>>

SendRequest ==
  /\ At("req")
  /\ \/ /\ req' = req + 1
        /\ Send(Frame("test_req", req + 1, Program[ip][2]))
        /\ Proceed
     \/ SendFails /\ Fail /\ UNCHANGED req
  /\ port' = 0
  /\ UNCHANGED <<elsewhere, sample, last, fed, stray, down>>

AwaitReady ==                     \* anything but an error is taken for a ready
  /\ At("ready")
  /\ \/ \E f \in Incoming :
          /\ Take(f)
          /\ IF f.type = "error" THEN Fail ELSE Proceed
          /\ port' = IF f.type = "test_ready" THEN f.id ELSE 0
     \/ ReceiveFails /\ Fail /\ UNCHANGED port
  /\ sample' = [left |-> Samples, waiting |-> FALSE]
  /\ UNCHANGED <<elsewhere, req, fed, stray, up>>

quiet == <<elsewhere, req, port, fed, stray>>

DialUDP ==
  /\ At("dial")
  /\ IF Plan[cur] \in DialFails THEN Fail ELSE Proceed
  /\ UNCHANGED <<quiet, sample, last, up, down>>

SendStart ==
  /\ At("start")
  /\ \/ Send(Frame("test_start", req, "none")) /\ Proceed
     \/ SendFails /\ Fail
  /\ UNCHANGED <<quiet, sample, last, down>>

Listening == srv.at = "handler" /\ srv.kind = "tcp" /\ srv.id = port

OpenStreams ==                    \* all of them, or an error
  /\ At("open")
  /\ \/ Listening /\ Proceed /\ fed' = TRUE
     \/ (~Listening \/ "stream" \in Faults) /\ Fail /\ UNCHANGED fed
  /\ UNCHANGED <<elsewhere, req, port, stray, sample, last, up, down>>

Load ==                           \* the data phase, bounded by its own deadlines
  /\ At("load") /\ Proceed
  /\ UNCHANGED <<quiet, sample, last, up, down>>

AlwaysMore == TRUE               \* mutant: the loop does not count its samples
MoreSamples == sample.left > 0

Ping ==
  /\ At("samples") \/ At("probe")
  /\ ~sample.waiting /\ MoreSamples /\ ~TestCtxDone
  /\ \/ /\ Send(Frame("test_start", req, "none"))
        /\ sample' = [sample EXCEPT !.waiting = TRUE]
        /\ UNCHANGED <<ip, res>>
     \/ SendFails /\ UNCHANGED sample /\ IF At("probe") THEN Proceed ELSE Fail
  /\ UNCHANGED <<quiet, last, down>>

Pong ==                           \* whatever frame comes is the answer
  /\ At("samples") \/ At("probe")
  /\ sample.waiting
  /\ \/ \E f \in Incoming :
          /\ Take(f)
          /\ sample' = [left |-> sample.left - 1, waiting |-> FALSE]
          /\ UNCHANGED <<ip, res>>
     \/ ReceiveFails /\ UNCHANGED sample /\ IF At("probe") THEN Proceed ELSE Fail
  /\ UNCHANGED <<quiet, up>>

SamplesDone ==                    \* the probe also ends at its deadline
  /\ ~sample.waiting
  /\ \/ At("samples") /\ (~MoreSamples \/ TestCtxDone)
     \/ At("probe")
  /\ Proceed
  /\ UNCHANGED <<quiet, sample, last, up, down>>

SayGoodbye ==                     \* ends the echo loop of the bufferbloat handler
  /\ At("goodbye")
  /\ Send(Frame("goodbye", req, "none")) \/ SendFails
  /\ Proceed
  /\ UNCHANGED <<quiet, sample, last, down>>

AwaitResult ==                    \* only the jitter test looks at the error
  /\ At("result") \/ At("must")
  /\ \/ \E f \in Incoming : Take(f) /\ Proceed
     \/ ReceiveFails /\ IF At("must") THEN Fail ELSE Proceed
  /\ UNCHANGED <<quiet, sample, up>>

AwaitMTUResult ==                 \* a result, an error, or the local fallback
  /\ At("fallback") /\ Proceed
  /\ \/ (\E f \in Incoming : Take(f)) /\ UNCHANGED stray
     \/ ReceiveFails /\ UNCHANGED stray
     \/ ("stall" \in Faults \/ TestCtxDone) /\ stray' = TRUE /\ UNCHANGED <<down, last>>
  /\ UNCHANGED <<elsewhere, req, port, fed, sample, up>>

LocalTest ==                      \* dns and connect: no control connection
  /\ main \in {"testing", "draining"} /\ res = "none" /\ Program = <<>>
  /\ res' = "ok"                 \* also if every lookup or dial failed
  /\ UNCHANGED <<quiet, ip, sample, last, up, down>>

StrayReads ==                     \* a whole frame, or half of it if another reader waits
  /\ stray /\ stray' = FALSE
  /\ \/ conn = "open" /\ down # <<>> /\ down' = Tail(down) /\ UNCHANGED conn
     \/ conn = "open" /\ down # <<>> /\ Reading /\ conn' = "garbled" /\ UNCHANGED down
     \/ (conn # "open" \/ srv.at = "ended") /\ down' = <<>> /\ UNCHANGED conn
  /\ UNCHANGED <<clientVars, ctx, watch, up, serverVars>>

TestStep ==
  \/ SendRequest \/ AwaitReady \/ DialUDP \/ SendStart \/ OpenStreams \/ Load
  \/ Ping \/ Pong \/ SamplesDone \/ SayGoodbye \/ AwaitResult \/ AwaitMTUResult \/ LocalTest

(***************************************************************************)
(* Run, runPing, connect and close.  connect stores the connection before  *)
(* its handshake, and a handshake that fails leaves it there.              *)
(***************************************************************************)
inTest == <<ip, sample, port, res, req, last, fed>>
given  == <<scene, cur, outcome, inTest, expired, ctx, alive>>

KeepOpen == UNCHANGED <<conn, down>>  \* mutant: c.conn.Close is missing
CloseConn == conn' = (IF conn = "nil" THEN "nil" ELSE "closed") /\ down' = <<>>

Refusing == ~alive \/ "refused" \in Faults

Connected == main' = IF scene.ping THEN "closing" ELSE "next"
NoCount == UNCHANGED attempt     \* mutant: the attempts are not counted
CountAttempt == attempt' = attempt + 1
AfterPing == main' = IF attempt + 1 < MaxAttempts THEN "pause" ELSE "done"
\* runPing closes what is left and tries again.  The goodbye that close writes
\* first does not arrive: the connection was cut, or the session is over.
ConnectFails ==
  IF scene.ping
    THEN CountAttempt /\ AfterPing /\ CloseConn
    ELSE /\ main' = IF cur = 0 THEN "done" ELSE "next"
         /\ UNCHANGED <<attempt, conn, down>>

NewConnection ==
  /\ conn' = "open" /\ up' = <<>> /\ down' = <<>> /\ stray' = FALSE
  /\ srv' \in {InSession(at) : at \in {"hello"} \cup IF Refusing THEN {"ended"} ELSE {}}

\* DialContext fails on a cancelled context, unless it was just done; a
\* deadline on its way to the connection that is replaced is lost.
Dial ==
  /\ main = "dial"
  /\ \/ /\ NewConnection
        /\ main' = "hello"
        /\ watch' = IF watch = "cutting" THEN "done" ELSE watch
        /\ UNCHANGED attempt
     \/ /\ ctx \/ Refusing
        /\ ConnectFails
        /\ UNCHANGED <<watch, up, srv, stray>>
  /\ UNCHANGED given

SayHello ==
  /\ main = "hello"
  /\ \/ Send(Frame("hello", 0, "none")) /\ main' = "ack" /\ UNCHANGED <<attempt, conn, down>>
     \/ SendFails /\ ConnectFails
  /\ UNCHANGED <<given, watch, srv, stray>>

AwaitAck ==
  /\ main = "ack"
  /\ \/ \E f \in Incoming :
          /\ f.type = "hello_ack" /\ Connected
          /\ down' = Tail(down) /\ UNCHANGED <<attempt, conn>>
     \/ (conn # "open" \/ (srv.at = "ended" /\ down = <<>>)) /\ ConnectFails
  /\ UNCHANGED <<given, watch, srv, stray, up>>

PingAgain ==                     \* after two seconds, or not at all
  /\ main = "pause"
  /\ main' \in {"dial"} \cup IF ctx THEN {"done"} ELSE {}
  /\ UNCHANGED <<given, attempt, watch, netVars, srv>>

Close ==                         \* goodbye if it can still be written, then Close
  /\ main = "closing" /\ main' = "done"
  /\ Send(Frame("goodbye", 0, "none")) \/ SendFails
  /\ CloseConn
  /\ UNCHANGED <<given, attempt, watch, stray, srv>>

Connecting == Dial \/ SayHello \/ AwaitAck \/ PingAgain \/ Close

(***************************************************************************)
(* executeTests and runTest.                                               *)
(***************************************************************************)
others == <<scene, attempt, cur, inTest, ctx, watch, serverVars>>

AlwaysBegin == cur < Len(Plan)   \* mutant: the context is not looked at
MayBegin == ~ctx /\ cur < Len(Plan)

StartTest ==
  /\ main = "next" /\ MayBegin
  /\ main' = "testing" /\ cur' = cur + 1
  /\ ip' = 1 /\ res' = "none" /\ expired' = FALSE /\ last' = NoFrame
  /\ UNCHANGED <<scene, attempt, outcome, sample, port, req, fed, ctx, watch, netVars, serverVars>>

Record(o) == outcome' = [outcome EXCEPT ![cur] = o]

TakeResult ==                     \* runTest's select: the result arm
  /\ main = "testing" /\ res # "none"
  /\ Record(IF res = "ok" THEN "ok" ELSE "failed")
  /\ main' = IF res = "err" /\ ctx THEN "closing" ELSE "next"
  /\ UNCHANGED <<others, expired, netVars>>

Expire ==
  /\ "timeout" \in Faults /\ main = "testing" /\ ~expired
  /\ expired' = TRUE
  /\ UNCHANGED <<others, main, outcome, netVars>>

GiveUp ==                         \* the other arm: testCtx.Done, and c.conn.Close
  /\ main = "testing" /\ TestCtxDone
  /\ main' = "draining" /\ CloseConn
  /\ UNCHANGED <<others, outcome, expired, stray, up>>

Drained ==                        \* <-ch, then connect again unless aborted
  /\ main = "draining" /\ res # "none"
  /\ Record("failed")
  /\ main' = IF ctx THEN "closing" ELSE "dial"
  /\ UNCHANGED <<others, expired, netVars>>

StopTests ==
  /\ main = "next" /\ ~MayBegin
  /\ main' = "closing"
  /\ UNCHANGED <<others, outcome, expired, netVars>>

Testing == StartTest \/ TakeResult \/ GiveUp \/ Drained \/ StopTests

ClientMain == Connecting \/ Testing

(***************************************************************************)
(* The abort: a signal cancels the context, and a goroutine of Run reads   *)
(* c.conn, which the main goroutine may be about to replace, and then sets *)
(* a deadline in the past on it, once.                                     *)
(***************************************************************************)
Abort ==
  /\ "abort" \in Faults /\ ~ctx /\ main # "done" /\ ctx' = TRUE
  /\ UNCHANGED <<clientVars, watch, netVars, serverVars>>

WatchAbort ==
  /\ ctx /\ watch = "waiting" /\ main # "done"
  /\ watch' = IF conn = "nil" THEN "done" ELSE "cutting"
  /\ UNCHANGED <<clientVars, ctx, netVars, serverVars>>

CutConnection ==
  /\ watch = "cutting" /\ main # "done" /\ watch' = "done"
  /\ conn' = IF conn = "closed" THEN "closed" ELSE "cut"
  /\ UNCHANGED <<clientVars, ctx, stray, up, down, serverVars>>

Crash ==                         \* at any point, without a goodbye
  /\ "crash" \in Faults /\ main # "done" /\ main' = "done"
  /\ UNCHANGED <<scene, attempt, cur, outcome, inTest, expired, ctx, watch, netVars, serverVars>>

(***************************************************************************)
(* The session on the server.                                              *)
(***************************************************************************)
Reply(t) == down' = IF conn \in {"closed", "nil"} THEN down ELSE Append(down, Frame(t, srv.id, "none"))
Arrived  == IF up = <<>> THEN {} ELSE {Head(up)}
NoHangup == FALSE                \* mutant: the end of the connection goes unnoticed
\* A read sees the end of the connection after the frames that were sent before
\* it or, if it is a reset, in their place.
Hangup   == (conn = "closed" \/ main = "done") /\ up' = <<>>

InHandler(s) == srv.at = "handler" /\ srv.step \in 1..Len(Handler(srv.kind))
                /\ Handler(srv.kind)[srv.step] = s
NextStep == [srv EXCEPT !.step = @ + 1]
GoTo(at) == [srv EXCEPT !.at = at]

aside == <<scene, attempt, watch, main, cur, outcome, inTest, expired, ctx, conn, stray, alive>>
besides == <<scene, attempt, watch, main, cur, outcome, ip, sample, port, res, req, last, expired, ctx, conn, stray, alive>>

Greet ==                          \* newSession: the handshake (its deadline is in Server)
  /\ srv.at = "hello"
  /\ \/ \E f \in Arrived :
          /\ up' = Tail(up) /\ f.type = "hello"
          /\ Reply("hello_ack") /\ srv' = GoTo("poll")
     \/ Hangup /\ srv' = GoTo("ended") /\ UNCHANGED down
  /\ UNCHANGED aside

Poll ==
  /\ srv.at = "poll"
  /\ srv' = GoTo(IF alive THEN "read" ELSE "ended")
  /\ UNCHANGED <<aside, up, down>>

ServedBy(k) ==                    \* an unknown test, or a handler that fails at once
  IF k \notin scene.offers THEN {"error"}
  ELSE {"handler"} \cup IF "listen" \in Faults THEN {"error"} ELSE {}

ReadRequest ==
  /\ srv.at = "read"
  /\ \/ \E f \in Arrived :
          /\ up' = Tail(up)
          /\ IF f.type = "test_req"
               THEN /\ srv' \in {[at |-> at, kind |-> f.kind, id |-> f.id, step |-> 1, left |-> EchoCount] :
                                   at \in ServedBy(f.kind)}
                    /\ fed' = FALSE
               ELSE srv' = GoTo("ended") /\ UNCHANGED fed
     \/ Hangup /\ srv' = GoTo("ended") /\ UNCHANGED fed
  /\ UNCHANGED <<besides, down>>

SendReady ==
  /\ InHandler("ready")
  /\ \/ Reply("test_ready") /\ srv' = NextStep
     \/ conn = "closed" /\ srv' = GoTo("error") /\ UNCHANGED down
  /\ UNCHANGED <<aside, up>>

AwaitStart ==
  /\ InHandler("await") \/ InHandler("awaitOrEnd")
  /\ \/ \E f \in Arrived :
          /\ up' = Tail(up)
          /\ srv' = IF f.type = "test_start" THEN NextStep
                    ELSE IF InHandler("await") THEN GoTo("error")
                    ELSE [srv EXCEPT !.step = Len(Handler(srv.kind)) + 1]
     \/ Hangup /\ srv' = GoTo("error")
  /\ UNCHANGED <<aside, down>>

Echo ==                           \* handleLatencyServer's loop
  /\ InHandler("echo")
  /\ \/ srv.left = 0 /\ srv' = NextStep /\ UNCHANGED <<up, down>>
     \/ srv.left > 0 /\ \E f \in Arrived :
          /\ up' = Tail(up)
          /\ IF f.type = "test_start"
               THEN srv' = [srv EXCEPT !.left = @ - 1] /\ Reply("test_start")
               ELSE srv' = NextStep /\ UNCHANGED down
     \/ srv.left > 0 /\ Hangup /\ srv' = GoTo("error") /\ UNCHANGED down
  /\ UNCHANGED aside

\* An echo answered after the deadline is the last: the loop ends with it.  The
\* client's own deadline is over by then, and only its goodbye is still to come.
PastDeadline ==
  /\ "overrun" \in Faults
  /\ sample.left < Samples /\ ~sample.waiting /\ ~At("probe")
  /\ UNCHANGED up

EchoUntil ==                      \* bloatServerEchoLoop: a goodbye, an error or the deadline
  /\ InHandler("echoUntil")
  /\ \/ \E f \in Arrived :
          /\ up' = Tail(up)
          /\ srv' = IF f.type = "goodbye" THEN NextStep ELSE srv
          /\ IF f.type = "test_start" THEN Reply("test_start") ELSE UNCHANGED down
     \/ (Hangup \/ PastDeadline) /\ srv' = NextStep /\ UNCHANGED down
  /\ UNCHANGED aside

ServeData ==                      \* the UDP phases end by their own deadlines,
  /\ \/ InHandler("load")         \* Accept waits for every stream
     \/ InHandler("accept") /\ fed
  /\ srv' = NextStep
  /\ UNCHANGED <<aside, up, down>>

Answer ==                         \* the result, or the error of the handler
  /\ srv' = GoTo("poll")
  /\ \/ /\ srv.at = "handler" /\ srv.step > Len(Handler(srv.kind))
        /\ Reply("test_result")
     \/ srv.at = "error" /\ Reply("error")
  /\ UNCHANGED <<aside, up>>

Shutdown ==
  /\ "shutdown" \in Faults /\ alive /\ alive' = FALSE
  /\ UNCHANGED <<clientVars, ctx, watch, netVars, srv>>

Session == Greet \/ Poll \/ ReadRequest \/ SendReady \/ AwaitStart \/ Echo \/ EchoUntil \/ ServeData \/ Answer

Next == TestStep \/ StrayReads \/ ClientMain \/ Expire \/ Abort \/ WatchAbort \/ CutConnection \/ Crash
        \/ Session \/ Shutdown

Spec == Init /\ [][Next]_vars

(***************************************************************************)
(* Fairness.  The goroutines of both programs are scheduled, and a test's  *)
(* timer fires.  Nobody has to abort, and a reconnection may fail.         *)
(***************************************************************************)
FairSpec == /\ Spec
            /\ WF_vars(TestStep) /\ WF_vars(ClientMain) /\ WF_vars(Session)
            /\ WF_vars(Expire) /\ WF_vars(WatchAbort \/ CutConnection)

(***************************************************************************)
(* Properties.                                                             *)
(***************************************************************************)
\* Every frame a test reads was written for the request it is waiting on:
\* frames carry no identifier, so only the order of the connection, and a
\* new connection after a timeout, keep one test from reading the answers of
\* another (runTest, the Run...Client functions, Session.Run).  The one
\* exception is the error of a handler whose client could not open its socket.
FramesPaired ==
  \/ last.id = last.req
  \/ DialFails # {} /\ last.type = "error" /\ last.id = last.req - 1

\* The client never checks the type of most frames it reads; the protocol
\* makes each of them the one the step expects.
Expected(step) ==
  CASE step = "ready" -> {"test_ready", "error"}
    [] step \in {"samples", "probe"} -> {"test_start"}
    [] OTHER -> {"test_result"}
FramesExpected == last.step # "none" => last.type \in Expected(last.step)

\* Between two tests nothing of the first one is left on the connection, and
\* the session is back in Run's loop: the next test starts from the state the
\* first one started from.  (A socket that could not be opened, a stream that
\* never connects, a deadline that passes on the server first and the reader of
\* an MTU result that was given up do leave something behind.)
QuietBetweenTests ==
  main = "next" /\ conn = "open" /\ srv.at # "ended"
      /\ DialFails = {} /\ Faults \cap {"stream", "overrun"} = {} /\ ~stray =>
    up = <<>> /\ down = <<>> /\ srv.at \in {"poll", "read"}

\* "Run processes test requests until the client disconnects or context is
\* cancelled" (session.go): no test of the plan ends the session.
SessionOutlivesTests ==
  srv.at = "ended" /\ conn = "open" => Refusing \/ main = "done"

\* "Consume the server's test_result message" (latency.go): the last frame the
\* latency test reads is its result.
LatencyReadsItsResult ==
  last.step = "result" /\ cur > 0 /\ Plan[cur] = "latency" => last.type = "test_result"

\* What the server does not offer is filtered out, unless it names nothing; but
\* bidir needs the server's tcp handler (isClientOnly), and bufferbloat its
\* latency handler.
Unserved(k) ==
  \E i \in DOMAIN ClientProgram(k) :
    ClientProgram(k)[i][1] = "req" /\ ClientProgram(k)[i][2] \notin scene.offers

\* A UDP socket that cannot be opened leaves the handler waiting for a
\* test_start: the next request is refused in its place, and nothing more.
LeftWaiting(i, j) == Plan[i] \in DialFails /\ \A k \in i + 1..j - 1 : ClientProgram(Plan[k]) = <<>>
OneFailureCostsOneTest ==
  Faults = {} =>
    \A j \in 1..Len(Plan) :
      outcome[j] = "failed" => \/ Plan[j] \in DialFails \/ Unserved(Plan[j])
                               \/ \E i \in 1..j - 1 : LeftWaiting(i, j)

\* connect overwrites c.conn without closing it: whenever it does, the old
\* connection has been closed (runTest before it connects again, runPing after
\* a failure), so that no session of the server is left to a forgotten socket.
NoConnectionForgotten == [][main = "dial" /\ main' = "hello" => conn \in {"nil", "closed"}]_vars

\* The watcher cuts one connection, once, and may miss the one that connect is
\* about to store; whichever it was, a test is never left reading from a
\* connection that the abort did not reach.
AbortReachesTests == watch = "done" /\ main \in {"testing", "draining"} => conn \in {"cut", "closed"}

\* The client always finishes, whatever goes wrong on the network, with the user
\* or in the server: each test is bounded by its timer, the attempts of a ping are
\* counted, and closing the connection frees a goroutine blocked in a read.  The
\* server is this one, which answers a hello or closes: connect waits for the
\* answer with no deadline.
Terminates == <>(main = "done")

\* "until the client disconnects" (session.go): the session ends after its
\* client, even if it is in the middle of a handler then.
SessionReleased == main = "done" ~> srv.at = "ended"

\* It does, whether the client said goodbye, closed or was killed, unless the TCP
\* handler waits for a data stream that was never opened, which it accepts
\* without a deadline.  (This is the last session; Server has all of them.)
ReleasedIfFed == main = "done" ~> (srv.at = "ended" \/ (InHandler("accept") /\ ~fed))
====
