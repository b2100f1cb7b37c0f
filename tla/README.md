# Formal model of gospeed

TLA+ modules that describe gospeed's server, its client, the control protocol
between them, its framing, the data phases of the TCP, UDP and MTU tests, and what
the client makes of its measurements; model checked with TLC, and but for
liveness proved with TLAPS. Paths are relative to the repository.

## 1. The system

gospeed measures a network path. One process (`cmd/gospeed-server`) serves any
number of clients (`cmd/gospeed`). A client keeps one TCP *control* connection
and runs a list of tests over it, one after the other; each test may open its
own TCP streams or UDP socket for data.

| component | state | operations | talks to |
|---|---|---|---|
| **Server** `internal/server/server.go` | listener, `sessions` map, wait group, context | accept loop (three variants), `handleConn`, the goroutine that closes the listener | Session, by a goroutine per connection |
| **Session** `internal/server/session.go` | its connection, a context of its own, the read deadline | `newSession`, `handshake`, `Run`, `handleTestRequest` | a handler, by a call; the client, by frames |
| **Handler registry** `internal/server/handler.go` | `handlers`, filled by `init` functions | `RegisterHandler`, `RegisteredTests` | read by Session |
| **Client** `internal/client/client.go` | `conn`, `completed`, the context, one goroutine per test | `Run`, `connect`, `executeTests`, `runTest`, `close`, `runPing`, `filterTests`, `estimateUDPBandwidth` | Session, by frames; each test, by a channel |
| **Codec** `internal/protocol` | none | `WriteMsg`, `ReadMsg`, `DecodeBody` | the connection |
| **Latency** `internal/tests/latency.go` | samples | echo loop on the control connection | |
| **TCP, bidir** `tcp.go`, `bidir.go` | byte counter, streams | handler accepts N streams; client opens them | |
| **UDP** `udp.go` | sequence numbers, counters | rate-limited sender, receiver | |
| **Jitter** `jitter.go` | arrival times | paced sender, receiver | |
| **Bufferbloat** `bufferbloat.go` | two deadlines, load streams | a latency test, then an echo loop under load, ended by a goodbye or a deadline | |
| **MTU** `mtu.go` | search bounds, server's maximum | binary search, probes, terminators, result reader | |
| **DNS, connect** `dns.go`, `connect.go` | samples | client only | resolver, kernel |
| **Grades, report** `internal/results` | the history file | thresholds, overall grade, tables, JSON, CSV | |
| TLS, platform, version, launchers | | certificates, socket options, build data, wrappers | |

### What is hard

* **Goroutines and shutdown.** Cancellation, the listener, the wait group and
  one goroutine per connection race with each other; a session does not look at
  its context while it reads. (`Server`)
* **A protocol without identifiers.** Frames do not say which request they
  belong to, and most are read without looking at their type. Pairing rests on
  the order of the connection, on each test consuming exactly what its handler
  writes, and on a new connection after a timeout. (`Control`)
* **Timeouts.** A test's timer races with its result; the client then closes
  the connection to free the test's goroutine and reconnects; `time.After` in
  the MTU test leaves a reader behind; the two ends of the bufferbloat phase
  have a deadline each. (`Control`)
* **Failures half way.** A socket that cannot be opened, a handler that fails,
  a stream that never connects leave the other side waiting. (`Control`)
* **Torn frames.** A frame is two writes, and a deadline or a second reader can fall
  into the middle of it; nothing marks where the next one begins. (`Framing`)
* **Counters shared by goroutines.** Each end of a TCP stream counts in a goroutine
  of its own, up to a deadline of its own; the result is read after a wait group
  and sampled before it. (`TcpTest`)
* **Lost, late, duplicated and oversized datagrams.** (`UdpTest`, `MTUDiscovery`)
* **One history file for all clients**, appended to while it is read. (`Report`)

### What makes each component correct

* Server: it returns nil only when everything it admitted is over; the map and
  the contexts do not leak; silent and vanished clients are got rid of.
* Session: one answer per request; no test ends a session; nothing begins after
  cancellation but what had already been read.
* Client: a test reads only what was written for it; one failure costs one
  test; no connection is forgotten; an abort reaches the test in progress; the
  program ends.
* Codec: frames come out in the order they went in, none twice, none made of two;
  none is missing unless a read was torn.
* TCP: what is counted is what the kernel carried, but for an interrupted write; the
  result is final; every goroutine ends.
* UDP: loss and reordering are what happened on the network, as far as one counter
  and one number can tell; the sender keeps its rate.
* MTU: the search is exact, the report is never too large and, without loss,
  off by less than a probe step; the test ends.
* Grades: a worse network never gets a better grade; the overall grade is the worst.
* History: a torn write costs one report, and the latest reports are shown.

## 2. The modules

| module | models | kind |
|---|---|---|
| `ServerPromise` | what the server promises, without goroutines | abstract specification |
| `Server` | `internal/server`, with clients as environment | detailed specification; implements `ServerPromise` |
| `ServerProofs` | | proofs about `Server` |
| `Control` | one client (`client.go`, the `Run...Client` functions) against a session and the handlers | composition |
| `MCControl` | | scenarios for TLC |
| `ControlProofs` | | proofs about `Control` |
| `FrameChannel` | what the control protocol expects of its framing | abstract specification |
| `Framing` | `codec.go`, one direction, byte by byte | detailed specification; implements `FrameChannel` |
| `MCFraming` | | two frames for TLC |
| `FramingProofs` | | proofs about `Framing` |
| `TcpTest` | the data phase of `tcp.go`, both sides | detailed specification |
| `TcpProofs` | | proofs about `TcpTest` |
| `UdpTest` | the data phase of `udp.go`, both sides; uses `Assessment` | detailed specification |
| `UdpProofs` | | proofs about `UdpTest` |
| `MTUDiscovery` | `mtu.go`, both sides and the datagrams | detailed specification |
| `MTUProofs` | | proofs about `MTUDiscovery` |
| `Assessment` | `grade.go`, `ComputeOverallGrade`, the grades of `client.go`, `estimateUDPBandwidth` | operators |
| `Report` | `executeTests`, `outputReport`, `history.go`, for several clients; uses `Assessment` | composition |
| `MCReport` | | clients and measurements for TLC |
| `ReportProofs` | | proofs about `Assessment` and `Report` |
| `Foundations` | | lemmas for the proofs: induction, loops, sums, maxima, short sequences |

How they fit: `Control` takes frames as whole, which is what `FrameChannel` promises and
`Framing` implements; it takes the sessions of other connections, and the handshake's
deadline, for granted, which `Server` models; and it takes a data phase for one step,
which `TcpTest`, `UdpTest` and `MTUDiscovery` open up. `Report` takes the outcome of
a test for a choice among measurements.

### Server

`pc[c]` is where the goroutine of connection `c` stands:
`none → backlog → hello → ack → store → poll → read → handle → reply → poll … →
delete → close → done → exited`. Each action is one statement that other
goroutines can see: `Accept` is `Accept` plus `wg.Add(1)` plus `newSession` up
to its first read; `StoreSession` and `DeleteSession` are the two map operations of
`handleConn`; `LeaveRun` is the deferred `cancel`; `WgDone` the deferred
`wg.Done`. `main` is the goroutine that called `ListenAndServe`. The variable
`method` tells `ListenAndServe` and `ListenAndServeTLS` (log an accept error
and go on) from `ListenAndServeWithListener` (return it).

A frame is chosen when it is read, from the kinds the code distinguishes, since
the server never relates two frames. A handler is a step that takes time and
returns a result, an error or a panic. Session identifiers are 64 random bits and
taken to be unique. A panic inside `handleConn` outside a handler is not modelled:
no statement there panics.

### Control

`Control` is the product of five actors: the goroutine of `Client.Run` (`main`, with
`runPing`'s `attempt`), the goroutine of the current test (`ip`, `sample`, `res`), the
session of the current connection (`srv`), the goroutine an MTU test may leave behind
(`stray`), and the one that waits for the abort (`watch`). `up` and `down` are the
frames in flight.

A `Scenario`, chosen in the initial state, says which tests the client was asked for,
whether it only pings, what the server offers, and what may go wrong. The plan is
what `filterTests` makes of it (`FilterTests`).

`connect` is three steps, `Dial`, `SayHello` and `AwaitAck`: the connection is in
`c.conn` from the first on, and stays there when a later one fails. The watcher is two,
because it looks at `c.conn` and then sets a deadline on what it read (`WatchAbort`,
`CutConnection`); if the main goroutine stores a new connection between the two, the
deadline goes to the old one.

A test is a straight line of steps (`LatencySteps` … `BidirSteps`), its handler
another (`LatencyHandler` … `BloatHandler`); the steps are the reads and writes
of the Go function in its order, and one action per kind of step holds that
step's guard and its error path. An error ends the test and leaves the frames
where they are, as the `return nil, err` of the code does. Each frame carries the
number of the request it belongs to, as a ghost: only `OpenStreams` looks at it,
to know whether the port it was told is still listening.

A reader left behind may take half a frame from the next test; the connection is then
`garbled`, and every later read of it fails. That it fails for ever is right for the
frames of this protocol: a read out of step consumes a length out of range, four
bytes at a time, and falls back into step only where four bytes are left before the
next frame (`Framing` has the general case).

What a `select` may choose is a choice: when the timer of a test and its result
are both ready, `TakeResult` and `GiveUp` are both enabled.

A read of the session sees the end of a connection after the frames before it or, if it
was a reset, in their place (`Hangup`). `Crash` is a client that is killed: its kernel
closes the connection, with no goodbye. The goodbye that `close` writes in `runPing` after
a failed attempt has no effect, since the connection is cut or the session over then.
`PastDeadline` is the end of bufferbloat's echo loop by its deadline, after a last echo.

The session of an abandoned connection is dropped from the state when the client
reconnects; that it ends is `ReleasedIfFed` for the last session and
`DeadPeerReleased` in `Server` for all, except for a TCP handler that still waits for a
stream. Data phases (`Load`, `ServeData`) take
one step: their own deadlines bound them in the code.

`LocalTest` always succeeds, since `RunDNSClient` and `RunConnectClient` return no error
even if no lookup and no dial did.

### Framing

The bytes of the frames are laid out by `Start`: four bytes of length, then the
payload. `written` and `taken` are positions on that line, `reader[r]` is the call of
`ReadMsg` in progress. Bytes have the values that matter: a small length has three
zero bytes, and text has none below 32, so that four bytes of text are a length above
`maxMessageSize`. `torn` remembers that a read of the main reader was cut short, or
that a second reader took part. After an error the main reader either stops, as
`Session.Run` does, or calls `ReadMsg` again, as the next test does.

### TcpTest

Time is in seconds, bytes in units. A `Write` hands `Chunk` units to the kernel, which
takes them one by one while `Room` is left, so that a deadline can fall in between;
`WriteUnit` adds to the counter only with the last of them. `reverse` chooses who
sends. `HandlerReturns` closes the listener, and so resets the streams that were
dialled and never accepted. The `test_start` is under way for up to `MaxLag` seconds, so
the two deadlines differ. `CutNetwork` is the peer or the path vanishing.

### UdpTest

Time is in the sender's intervals of 10 ms. `SendNow`, `StartSpin` and `SpinEnds` are the
turns of the loop, and `now` may pass any number of intervals between two of them.
`Receive` takes any sequence number that was sent, in any order, up to `MaxDups` of them
again. `seen`, `late` and `dups` are ghosts: what really happened, against which the
counters are compared. Decoding the data header is the identity on sequence numbers.

### Assessment and Report

Figures are integers (milliseconds, kbit/s, per mille), grades 1 to 5. In `Report` each
client collects measurements (`RunTest`), grades them and appends one line with one
`Write`, all of it, a part of it or nothing (`SaveHistory`). The file is a sequence of
tokens; `IsEntry` is `splitLines` and `json.Unmarshal`: one whole object between
newlines, and `Entries` the loop that collects them. `Snapshots` are what `ReadFile` may see while the last write is under way.

### MTUDiscovery

`Local` and `Path` are the payloads that the client's interface accepts and that
the path carries; `lossy` says whether a datagram that fits may be lost. `Write`
is a datagram's whole life. The server keeps only a maximum, so reordering shows
only as a probe overtaken by the terminator, that is, lost. `ServerTimeout` is
enabled once the client has sent everything and waits, because it sends every few
milliseconds and the server waits ten seconds. A client that was interrupted does not
wait: `ctx.Done` stays closed, and the `select` of `readMTUResult` takes at most a reply
that has already arrived (`ServerCancelled`). A write fails for its size and nothing
else: that an ICMP error of an earlier datagram fails one, which the code takes for
the same, is not modelled.

## 3. The runs

| run | module, bounds | expects | shows |
|---|---|---|---|
| `Server` | 2 connections, 2 frames each, both accept loops | pass | nil only when drained, no leak, one answer per request, `ImplementsPromise`; silent handshakes and, provided that handlers return, vanished peers and shutdown, under fairness |
| `ServerIdle` | 1 connection | violation | `RunEndsOnCancel`: finding 1 |
| `Control` | 2 samples, 3 ping attempts, seven scenarios (below) | pass | pairing, silence between tests, no forgotten connection, one failure costs one test, termination on both sides |
| `ControlOverrun` | bufferbloat, udp, jitter; a ping answered after the deadline | violation | `SessionOutlivesTests`: finding 2 |
| `ControlIPv6` | mtu, latency, tcp; no probe socket | violation | `LatencyReadsItsResult`: finding 3 |
| `ControlStream` | tcp; a stream that cannot be opened | violation | `SessionReleased`: finding 4 |
| `MTU` | the code's 548..8972 and 20 steps, ten limits each for interface and path, with and without loss | pass | exact search, safe and close report, termination |
| `MTUSilent` | one limit, loss | violation | `ReportsAnArrival`: finding 5 |
| `Framing` | frames of 4 and 5 bytes, one deadline, a second reader | pass | `ImplementsChannel`, and no read blocks for good |
| `TcpTest` | 2 streams, 3 units each, writes of 2, 1 s plus 1 s of grace, 1 s of lag | pass | counters against bytes, final results, the end of every goroutine |
| `UdpTest` | 6 datagrams, 2 duplicates, 3 intervals and a grace of 1 | pass | loss, reordering and rate against what happened |
| `Report` | 3 clients, 1 or 2 tests of 11 kinds of figures, 1 entry shown | pass | monotone grades, the worst wins, torn writes, the latest are shown |

The scenarios of `Control` (`MCControl`):

* `Calm`: the default plan, no fault: no test fails.
* `Older`: bidir, udp, latency, dns, jitter against a server that offers only latency
  and jitter.
* `NoDial`: six tests, no UDP socket can be opened. The next request pays for it, and
  nothing more.
* `Stuck`: mtu, latency, tcp, bidir, dns with timeouts, a stream that never connects and
  an MTU result that stalls: a wedged handler and a reader left behind.
* `Pinged`: a ping with refused connections, an abort and a shutdown.
* `Killed`: mtu, tcp, bufferbloat, jitter, and a client that is killed at any point, also
  after a timeout.
* `Troubled`: bufferbloat, tcp, latency with timeouts, an abort, a shutdown, refused
  reconnections and failing handlers at any point.

Every property of a passing run is broken by a *mutant* of a definition, a
plausible slip in the code (a deadline that is not set, a dropped `wg.Done`, an echo
loop one short, a test that does not read its result …). The mutants stand
in the modules next to the definition they change, marked `mutant`.

### Why the bounds are enough

Two connections suffice for what connections share: the wait group, the map, the
listener and the context are symmetric in them, and `ServerProofs` removes the
bound. Two frames let a session answer one request and begin a second; a late
request needs one. In `Control`, two samples instead of 10 or 20 reach both
ends of the echo loop and its middle, every test occurs with a test before and after
it, and three attempts of a ping have a first, a middle and a last. Two frames let
`Framing` lose its place in one and find, or miss, the next; the payload of the first
is as long as a header, the case in which a reader falls back into step. Two streams
let one be dialled and the other not, or be accepted before the other; three units
with writes of two leave one write interrupted. Six datagrams, two to an interval's
budget, fill three intervals. Three clients append between two
others, and the figures stand on both sides of the thresholds that matter. The MTU run
uses the code's numbers; the limits stand on, next to and between the ends of the
range, with the common sizes 1472 and 4352 among them.

### Fairness

* `Server!Scheduled`: a goroutine that can run does; an armed deadline fires;
  `Accept` returns once the listener is closed. Nothing obliges a client to send or to
  leave, anybody to cancel, or a handler to return: that of the TCP test need not
  (finding 4). What needs the return of a handler says so: `HandlersReturn(c)`, no
  handler of `c` runs for ever, is a premise of `DeadPeerReleased`, `ShutdownCompletes`
  and `RunEndsOnCancel`. `ShutdownCompletes` has a second one, that no client stays for
  ever: `ServerIdle` shows that shutdown depends on it even if every handler returns.
* `Control!FairSpec`: the goroutines of the test, of `Run` and of the session run,
  and the timer of a test fires (`context.WithTimeout`), where the run has
  timeouts at all.
* `MTUDiscovery!FairSpec`: the client's goroutine runs; every wait has a timer.
  Interruptions (`ctx.Done`) are not fair.
* `Framing!Spec`: writer and reader run, and the connection is closed in the end.
* `TcpTest!Spec`: all goroutines and the clock run; no dial or accept has to fail.
  `TestEnds` has the premise that all streams were opened (finding 4).
* `UdpTest!Spec`: both goroutines and the clock run; no datagram has to arrive.

`Report` has no liveness: nothing waits there.

Deadlock checking is off: a client that has finished and a server whose clients
are gone are final states.

## 4. The proofs

`ServerProofs`, for every finite `Conns`, every `MaxFrames` and both variants of
the accept loop:

* The inductive invariant `IInv` adds to the type invariant that the wait group
  *is* the number of goroutines between `Accept` and `wg.Done` (`WgCounts`), that
  waiting implies cancellation and having returned nil implies no live goroutine
  (`MainInv`), where a session with a late request may stand (`LateInv`) and how
  many replies it owes at each point (`ReplyInv`). `DrainedBeforeNil` alone is not
  inductive: it says nothing before the last `wg.Done`.
* From it: `TypeCorrect`, `DrainedReturn`, `SessionsMap`, `HandshakeDeadline`,
  `ContextsReleased` and the three together as `ResourcesReleased`, `OneLateRequest`,
  `RepliesMatch`, and `TestsSpareSessions` as an action property.
* `Refinement`: under the mapping `StageOf`, `LifeOf` every step of `Server` is a
  step of `ServerPromise` or a stutter. The step that needs the invariant is
  `WaitReturns`: a counter of zero means that every connection is outside or ended.

`MTUProofs`, for every range, number of divisions, header size and set of limits:

* `SearchInv` is the loop invariant of the binary search; `ServerInv` bounds what
  the server has seen by both limits; `ProbeInv` says that, without loss, either
  a probe less than a step below the limit has arrived or the next one is within
  a step of it.
* From them: `TypeCorrect`, `SearchFindsLimit`, `ReportIsCarried`, `ReportIsClose`.

`UdpProofs`, for every duration, packet size, budget and number of datagrams:

* `IInv` says that what was sent fits the intervals that have begun, those before
  `started` in full and `used` in the current one (`BudgetInv`); that `recv` is the
  number of datagrams in `seen` plus the duplicates (`CountInv`); that what was counted as
  out of order was late, and that `lastSeq` is the largest number seen as long as nothing
  was counted (`OrderInv`); and that a result is computed from counters that no longer
  change (`ResultInv`). `RateIsLimited` needs the first because it does not say how much
  of the current interval is spent, `LossIsMissing` the second and the last.
* From it: `TypeCorrect`, `LossCounted`, `ReorderingCounted`, `RateBounded`,
  `UnreadGradedWorst`.

`ControlProofs`, for every set of scenarios (any list of tests, any offer of the server,
any faults), any number of samples and of attempts:

* `TypeInv` and `ConnInv` give `TypeCorrect`, `AbortReaches` and `NoneForgotten`.
  `ConnInv` says that the connection is closed whenever another is dialled and that a
  watcher that is done has cut the one a test uses; the property is not inductive alone,
  because the watcher reads `c.conn` before it cuts.
* `Coupling` relates the two programs, which is what nothing in the code states: for each
  step of each test (`Wire`) it lists where the session may be and what is on the wire in
  either direction, with what an earlier test may have left (`LeftUDP`, `LeftTCP`,
  `LeftMTU` between tests, `AfterUDP`, `AfterTCP`, `AfterMTU` behind the next request).
  It is the invariant that pairing rests on: a read is right because only one frame can be
  in front of it, and this depends on every step before. `CoupledAlways` proves it
  inductive; `Paired`, `AsExpected` and `QuietBetween` follow.
* `Usual` excludes the two failures of findings 2 and 3, after which frames are read out
  of turn (`ControlIPv6`, `ControlOverrun`); `Paired`, `AsExpected` and `OneFailure` have
  it as a premise.
  Timeouts, aborts, shutdown, lost streams, stalled results, refused connections, failing
  handlers and the UDP sockets of the other tests stay in.
* `Orderly` adds, for scenarios without faults but sockets, that each failure has a cause
  and that a handler left waiting can only spoil the next request: `OneFailure`, and
  `SessionOutlives`, that no test ends the session then (the counterpart of finding 2).

`FramingProofs`, for every sequence of frames, every limit of at least 255 and
any number of deadlines:

* `WriterInv` (the writer stands before a frame or between header and payload), `Sane`
  (what a call has kept), `AheadInv` (the main reader is past the frame it returned last,
  and a payload of which it has the first bytes is of a later one, torn or not) and
  `StepInv` (a reader that was never torn has read the bytes of the next frame and nothing
  else).
* From them: `TypeCorrect`, `StaysInStep`, and `Implements`, the refinement of
  `FrameChannel`. `AheadInv` is what refinement needs after a torn read: whatever four
  bytes a reader takes for a length, a payload that it decodes is a frame after the last.

`TcpProofs`, for any number of streams, any sizes and times: `IInv` says which goroutines
exist for how many streams (`OpenInv`), that a counter is the sum of what its goroutines
counted (`CountInv`), and that nobody reports before they are done (`EndInv`).
`CountersFollowBytes` speaks of a sum of differences that are known one by one, and a
goroutine that has ended forgets its `chunk`; so `CountInv` states that *some* `counted`,
below `wrote` by less than a `Write`, adds up to the sender's counter, and each step
names the next witness. From it: `TypeCorrect`, `Final`, `CountersFollow`.

`ReportProofs`, for all measurements and any clients, tests and limit:

* Every grade is monotone in its figure (`SmallerIsBetter`, `LargerIsBetter`), so is the
  grade of the tests that combine two (`WorseFiguresWorseGrade`: latency, udp, bidir), and `RoundedUp` is what the
  rate's rounding does. The overall grade and the best throughput are running maxima, from
  which `GradesFollow` and `RateFollows` follow for lists of any length.
* `IInv` says that a client writes once; that the entry of a successful write is never the
  last token of the file, and that a newline follows its own object (`FileInv`); and that
  the file and the torn writes are paid for by clients that have ended (`CountInv`). A
  later append then cannot touch a readable saved entry (`SavedStays`). `TearCosts` is not
  inductive: a torn line costs nothing until somebody appends to it, and then a
  report; `CountInv` charges an unfinished last line one report in advance.
* `LatestShown`: an induction over the tokens of the file shows that `Entries` has every
  entry, followed by no more entries than follow it in the file (`Listed`); and an entry
  of another client than the last line's is the same in every snapshot.

`Foundations` holds what these share. Induction is over a *set* of numbers that contains 0
and every successor, since the provers cannot instantiate a lemma with an operator; from
it come the functions that recursion on `0..n` defines (`LoopExists`), running maxima and
sums.

Proved and not also model checked: the type invariants of `Server`, `UdpTest` and
`MTUDiscovery`, `SessionSurvivesTests` (a test that fails or panics does not end its
session), `UnreadIsWorst` (a UDP result that cannot be read is graded as total loss) and
`Coupled`.

The assumptions are those named `ASSUME` in the modules: the set of connections or
clients is finite, sizes are positive, the range is not empty, `maxMessageSize` (1 MiB)
exceeds the frames of `Framing`, and measurements are records of integers, where
throughputs are not negative.

Only model checked: liveness, everywhere (`DeadPeerReleased`, `HandshakeEnds`,
`ShutdownCompletes` of `Server`, `Terminates` and `ReleasedIfFed` of `Control`,
`ReadsReturn`, `StreamsEnd`, `TestEnds` and the termination of the UDP and MTU tests),
and that the scenarios that `Usual` excludes go wrong, which are findings.

## 5. Findings

1. `session.go:74` says `Run` goes on "until the client disconnects or context is
   cancelled". The context is polled between frames only, and `ReadMsg` has no
   deadline (`session.go:85`): a silent client keeps the session, and the server
   from returning (`ServerIdle`).
2. The same comment, and `bufferbloat.go:79`: the echo loop of the handler has a
   deadline of its own. A ping that is answered after it is its last; the goodbye that
   follows (`bufferbloat.go:148`) is taken by `Run` (`session.go:92`) for the end of the
   session, and all later tests fail (`ControlOverrun`).
3. `latency.go:100`, "Consume the server's test_result message": after an MTU test
   whose probe socket could not be opened (`mtu.go:126` formats an IPv6 host
   without brackets) every frame is one test late, and the latency test consumes
   an echo in its place (`ControlIPv6`).
4. The comment of `session.go:74` again: `handleTCPServer` accepts one connection per
   stream without a deadline (`tcp.go:59`). When a stream cannot be opened the
   session stays after its client has gone (`ControlStream`), and so does the wait
   group.
5. `mtu.go:82`, "letting the server report the largest one that arrived": when no probe
   arrived, and a terminator or the server's timeout ends its loop, the server reports 28 (`mtu.go:78`), which the client takes for an MTU
   instead of falling back to its interface (`MTUSilent`).

Noted without a run: `RunMTUClient` "discovers the path MTU" up to a probe step
only (`WithinOneStep`): with an interface limit of 8972 and a path limit of 1472 the
report is 1422 + 28. `bidir.go:9` and the repository's README call the bidirectional
test simultaneous; `RunBidirClient` runs an upload and then a download. The "ceil to
nearest 50 Mbps" of `client.go:431` drops the fraction of a Mbit/s first, and below
1 Mbit/s gives 0, which `udpSendLoop` takes for unlimited (`RateFollowsThroughput` states
both). The bufferbloat test without a sample under load, the jitter test with fewer
than three arrivals, and the DNS and connect tests without a success report perfect
figures and get an A. `runTest`'s `recover` is not in the goroutine that runs the test and
cannot catch its panic.

## 6. Not modelled

* JSON, formatting, colours, CSV, progress: no property is about them.
* Statistics of latency and jitter samples: floating point. The data phase of the jitter
  test is arrival times only, and the load of the bufferbloat test shares nothing with
  the exchange beside it.
* A connection that the network breaks while both programs live and neither has cut or
  closed it, between client and session (`Server` has it, as a client that leaves;
  `TcpTest` for data streams). A ping of the bufferbloat test that is more than a second
  late: `Run` would read it like the goodbye of finding 2. A server that never answers a
  hello (`client.go:221` has no deadline); `Terminates` is about this server.
* TLS and certificates: calls into libraries.
* Launchers, packaging, manifests, flags, the health endpoint: no protocol.
* Functions that nothing calls: `WriteSessionID`, `ReadSessionID`, `RunTCPReceiveOnly`.

## 7. Plan

Done, in the order of importance: `ServerPromise`, `Server`, `ServerProofs`, `Control`,
`ControlProofs`, `MTUDiscovery`, `MTUProofs`, `Framing`, `FramingProofs`, `TcpTest`,
`TcpProofs`, `UdpTest`, `UdpProofs`, `Assessment`, `Report`, `ReportProofs`; every
invariant that a passing run checks is proved, three of them of `Control` under `Usual`.
Next:

1. An abstract "one test at a time" specification that `Control` implements as long as
   `Usual` holds, from `Coupled`.
2. `SessionOutlives` under timeouts and failing handlers as well.
3. That `filterTests` keeps the order of the plan and drops just what is not offered, as
   `Listed` says of `Entries`.
