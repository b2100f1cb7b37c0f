---- MODULE ControlProofs ----
(***************************************************************************)
(* Proofs about Control, for every set of scenarios: any list of tests,    *)
(* any offer of the server, any faults, any number of samples.             *)
(*                                                                         *)
(* TypeInv types the state, ConnInv says which connection the watcher and  *)
(* connect look at, and Coupling says, for each step of each test, where   *)
(* the session may be and what is on the wire.  Orderly adds that each     *)
(* failure has a cause, where only sockets fail.                           *)
(***************************************************************************)
EXTENDS Control, Foundations, TLAPS

USE ScenariosAssumption, SamplesAssumption, AttemptsAssumption

\* The steps of a test other than its requests.
StepNames == {"ready", "samples", "dial", "load", "fallback", "start", "open", "result", "must",
              "probe", "goodbye"}
AnyStep == {Request(k) : k \in TestKinds} \cup {Step(s) : s \in StepNames}

\* A sequence written out has these elements.
LEMMA Tuples ==
  ASSUME NEW S, NEW a \in S, NEW b \in S, NEW c \in S, NEW d \in S, NEW e \in S, NEW f \in S
  PROVE  /\ <<a, b, c, d>> \in Seq(S) /\ Len(<<a, b, c, d>>) = 4
         /\ <<a, b, c, d>>[1] = a /\ <<a, b, c, d>>[2] = b /\ <<a, b, c, d>>[3] = c /\ <<a, b, c, d>>[4] = d
         /\ <<a, b, c, d, e>> \in Seq(S) /\ Len(<<a, b, c, d, e>>) = 5
         /\ <<a, b, c, d, e>>[1] = a /\ <<a, b, c, d, e>>[2] = b /\ <<a, b, c, d, e>>[3] = c
         /\ <<a, b, c, d, e>>[4] = d /\ <<a, b, c, d, e>>[5] = e
         /\ <<a, b, c, d, e, f>> \in Seq(S) /\ Len(<<a, b, c, d, e, f>>) = 6
         /\ <<a, b, c, d, e, f>>[1] = a /\ <<a, b, c, d, e, f>>[2] = b /\ <<a, b, c, d, e, f>>[3] = c
         /\ <<a, b, c, d, e, f>>[4] = d /\ <<a, b, c, d, e, f>>[5] = e /\ <<a, b, c, d, e, f>>[6] = f
OBVIOUS

\* A step of a table is a step.
LEMMA StepTypes ==
  /\ \A k \in TestKinds : Request(k) \in AnyStep
  /\ \A s \in StepNames : Step(s) \in AnyStep
BY DEF AnyStep

\* The steps of each test, one by one.
LEMMA Tables ==
  /\ LatencySteps \in Seq(AnyStep) /\ Len(LatencySteps) = 4
  /\ LatencySteps[1] = Request("latency") /\ LatencySteps[2] = Step("ready")
  /\ LatencySteps[3] = Step("samples") /\ LatencySteps[4] = Step("result")
  /\ MTUSteps \in Seq(AnyStep) /\ Len(MTUSteps) = 5
  /\ MTUSteps[1] = Request("mtu") /\ MTUSteps[2] = Step("ready")
  /\ MTUSteps[3] = Step("dial") /\ MTUSteps[4] = Step("load") /\ MTUSteps[5] = Step("fallback")
  /\ TCPSteps \in Seq(AnyStep) /\ Len(TCPSteps) = 6
  /\ TCPSteps[1] = Request("tcp") /\ TCPSteps[2] = Step("ready") /\ TCPSteps[3] = Step("start")
  /\ TCPSteps[4] = Step("open") /\ TCPSteps[5] = Step("load") /\ TCPSteps[6] = Step("result")
  /\ UDPSteps \in Seq(AnyStep) /\ Len(UDPSteps) = 6
  /\ UDPSteps[1] = Request("udp") /\ UDPSteps[2] = Step("ready") /\ UDPSteps[3] = Step("dial")
  /\ UDPSteps[4] = Step("start") /\ UDPSteps[5] = Step("load") /\ UDPSteps[6] = Step("result")
  /\ JitterSteps \in Seq(AnyStep) /\ Len(JitterSteps) = 6
  /\ JitterSteps[1] = Request("jitter") /\ JitterSteps[2] = Step("ready") /\ JitterSteps[3] = Step("dial")
  /\ JitterSteps[4] = Step("start") /\ JitterSteps[5] = Step("load") /\ JitterSteps[6] = Step("must")
<1>1. LatencySteps \in Seq(AnyStep) /\ Len(LatencySteps) = 4
  /\ LatencySteps[1] = Request("latency") /\ LatencySteps[2] = Step("ready")
  /\ LatencySteps[3] = Step("samples") /\ LatencySteps[4] = Step("result")
  BY StepTypes, Tuples DEF TestKinds, StepNames, LatencySteps
<1>2. MTUSteps \in Seq(AnyStep) /\ Len(MTUSteps) = 5
  /\ MTUSteps[1] = Request("mtu") /\ MTUSteps[2] = Step("ready")
  /\ MTUSteps[3] = Step("dial") /\ MTUSteps[4] = Step("load") /\ MTUSteps[5] = Step("fallback")
  BY StepTypes, Tuples DEF TestKinds, StepNames, MTUSteps
<1>3. TCPSteps \in Seq(AnyStep) /\ Len(TCPSteps) = 6
  /\ TCPSteps[1] = Request("tcp") /\ TCPSteps[2] = Step("ready") /\ TCPSteps[3] = Step("start")
  /\ TCPSteps[4] = Step("open") /\ TCPSteps[5] = Step("load") /\ TCPSteps[6] = Step("result")
  BY StepTypes, Tuples DEF TestKinds, StepNames, TCPSteps
<1>4. UDPSteps \in Seq(AnyStep) /\ Len(UDPSteps) = 6
  /\ UDPSteps[1] = Request("udp") /\ UDPSteps[2] = Step("ready") /\ UDPSteps[3] = Step("dial")
  /\ UDPSteps[4] = Step("start") /\ UDPSteps[5] = Step("load") /\ UDPSteps[6] = Step("result")
  BY StepTypes, Tuples DEF TestKinds, StepNames, UDPSteps
<1>5. JitterSteps \in Seq(AnyStep) /\ Len(JitterSteps) = 6
  /\ JitterSteps[1] = Request("jitter") /\ JitterSteps[2] = Step("ready") /\ JitterSteps[3] = Step("dial")
  /\ JitterSteps[4] = Step("start") /\ JitterSteps[5] = Step("load") /\ JitterSteps[6] = Step("must")
  BY StepTypes, Tuples DEF TestKinds, StepNames, JitterSteps
<1> QED BY <1>1, <1>2, <1>3, <1>4, <1>5

\* Of the two downloads and uploads of -d both, the second follows the first.
LEMMA BidirTable ==
  /\ Len(BidirSteps) = 12
  /\ \A i \in 1..6 : BidirSteps[i] = TCPSteps[i] /\ BidirSteps[i + 6] = TCPSteps[i]
<1>1. TCPSteps \in Seq(AnyStep) /\ Len(TCPSteps) = 6
  BY Tables
<1>2. Len(BidirSteps) = 12 /\ \A i \in 1..12 : BidirSteps[i] = IF i <= 6 THEN TCPSteps[i] ELSE TCPSteps[i - 6]
  <2>1. /\ Len(TCPSteps \o TCPSteps) = Len(TCPSteps) + Len(TCPSteps)
        /\ \A i \in 1..Len(TCPSteps) + Len(TCPSteps) : (TCPSteps \o TCPSteps)[i] =
             IF i <= Len(TCPSteps) THEN TCPSteps[i] ELSE TCPSteps[i - Len(TCPSteps)]
    BY <1>1, ConcatProperties
  <2> QED BY <1>1, <2>1 DEF BidirSteps
<1> QED BY <1>2

BloatOnly == <<Request("bufferbloat"), Step("ready"), Step("start"), Step("probe"), Step("goodbye"), Step("result")>>

\* Of bufferbloat, the probe under load follows a latency test.
LEMMA BloatTable ==
  /\ Len(BloatSteps) = 10
  /\ \A i \in 1..4 : BloatSteps[i] = LatencySteps[i]
  /\ BloatSteps[5] = Request("bufferbloat") /\ BloatSteps[6] = Step("ready") /\ BloatSteps[7] = Step("start")
  /\ BloatSteps[8] = Step("probe") /\ BloatSteps[9] = Step("goodbye") /\ BloatSteps[10] = Step("result")
<1>1. LatencySteps \in Seq(AnyStep) /\ Len(LatencySteps) = 4
  BY Tables
<1>2. /\ BloatOnly \in Seq(AnyStep) /\ Len(BloatOnly) = 6
      /\ BloatOnly[1] = Request("bufferbloat") /\ BloatOnly[2] = Step("ready") /\ BloatOnly[3] = Step("start")
      /\ BloatOnly[4] = Step("probe") /\ BloatOnly[5] = Step("goodbye") /\ BloatOnly[6] = Step("result")
  BY StepTypes, Tuples DEF TestKinds, StepNames, BloatOnly
<1>3. BloatSteps = LatencySteps \o BloatOnly
  BY DEF BloatSteps, BloatOnly
<1>4. Len(BloatSteps) = 10 /\ \A i \in 1..10 : BloatSteps[i] = IF i <= 4 THEN LatencySteps[i] ELSE BloatOnly[i - 4]
  <2>1. /\ Len(LatencySteps \o BloatOnly) = Len(LatencySteps) + Len(BloatOnly)
        /\ \A i \in 1..Len(LatencySteps) + Len(BloatOnly) : (LatencySteps \o BloatOnly)[i] =
             IF i <= Len(LatencySteps) THEN LatencySteps[i] ELSE BloatOnly[i - Len(LatencySteps)]
    BY <1>1, <1>2, ConcatProperties
  <2>2. Len(LatencySteps) = 4 /\ Len(BloatOnly) = 6
    BY <1>1, <1>2
  <2> QED BY <1>3, <2>1, <2>2
<1> QED BY <1>2, <1>4

(***************************************************************************)
(* A test is one request or two: the kind of the request that a step       *)
(* belongs to, the steps of a request, and which of them follows which.    *)
(***************************************************************************)
Requests == {"latency", "mtu", "tcp", "udp", "jitter", "bufferbloat"}

\* The kind of the request that step i of a test k belongs to.
RequestOf(k, i) == IF k = "bidir" THEN "tcp" ELSE IF k = "bufferbloat" /\ i <= 4 THEN "latency" ELSE k

\* The steps that end a request.
Final(s) == s \in {"result", "must", "fallback"}

\* The steps that may follow step s of a request of kind k.
After(k, s) ==
  CASE s = "ready"   -> IF k = "latency" THEN "samples" ELSE IF k \in {"tcp", "bufferbloat"} THEN "start" ELSE "dial"
    [] s = "samples" -> "result"
    [] s = "dial"    -> IF k = "mtu" THEN "load" ELSE "start"
    [] s = "start"   -> IF k = "tcp" THEN "open" ELSE IF k = "bufferbloat" THEN "probe" ELSE "load"
    [] s = "open"    -> "load"
    [] s = "load"    -> IF k = "mtu" THEN "fallback" ELSE IF k = "jitter" THEN "must" ELSE "result"
    [] s = "probe"   -> "goodbye"
    [] s = "goodbye" -> "result"

\* The steps of a request of kind k, after it.
StepsOf(k) ==
  CASE k = "latency" -> {"ready", "samples", "result"}
    [] k = "mtu" -> {"ready", "dial", "load", "fallback"}
    [] k = "tcp" -> {"ready", "start", "open", "load", "result"}
    [] k = "udp" -> {"ready", "dial", "start", "load", "result"}
    [] k = "jitter" -> {"ready", "dial", "start", "load", "must"}
    [] k = "bufferbloat" -> {"ready", "start", "probe", "goodbye", "result"}

\* What a step and its successor in the line of a test are.
InOrder(p, k, i) ==
  LET m == RequestOf(k, i)
      s == p[i][1]
  IN  /\ m \in Requests
      /\ \E j \in 1..Len(p) : p[j][1] = "req" /\ p[j][2] = m
      /\ s = "req" => p[i][2] = m /\ i < Len(p) /\ p[i + 1][1] = "ready" /\ RequestOf(k, i + 1) = m
      /\ s # "req" => s \in StepsOf(m) /\ i > 1
      /\ s # "req" /\ Final(s) => i = Len(p) \/ p[i + 1][1] = "req"
      /\ s # "req" /\ ~Final(s) => i < Len(p) /\ p[i + 1][1] = After(m, s) /\ RequestOf(k, i + 1) = m

\* The two parts of a step.
LEMMA Parts ==
  /\ \A k \in TestKinds : Request(k)[1] = "req" /\ Request(k)[2] = k
  /\ \A s \in StepNames : Step(s)[1] = s
BY DEF Request, Step

\* Every step of every test is in order: this is what the proofs use of the tables.
LEMMA ProgramInOrder ==
  ASSUME NEW k \in TestKinds
  PROVE  /\ Len(ClientProgram(k)) \in Nat
         /\ \A i \in 1..Len(ClientProgram(k)) : InOrder(ClientProgram(k), k, i)
         /\ ClientProgram(k) # <<>> => Len(ClientProgram(k)) > 0 /\ ClientProgram(k)[1][1] = "req"
<1> DEFINE p == ClientProgram(k)
<1> USE DEF TestKinds, StepNames, Requests, RequestOf, Final, After, StepsOf, InOrder
<1>1. CASE k = "latency"
  <2>1. p = LatencySteps
    BY <1>1 DEF ClientProgram
  <2> HIDE DEF p
  <2>2. Len(p) = 4
        /\ p[1] = Request("latency") /\ p[2] = Step("ready") /\ p[3] = Step("samples")
        /\ p[4] = Step("result")
    BY <2>1, Tables
  <2>3. /\ p[1][1] = "req" /\ p[1][2] = "latency" /\ p[2][1] = "ready" /\ p[3][1] = "samples"
        /\ p[4][1] = "result"
    BY <2>2, Parts
  <2>4. ASSUME NEW i \in 1..4 PROVE InOrder(p, k, i)
    BY <1>1, <2>2, <2>3
  <2> HIDE DEF InOrder
  <2> QED BY <2>2, <2>3, <2>4 DEF p
<1>2. CASE k = "mtu"
  <2>1. p = MTUSteps
    BY <1>2 DEF ClientProgram
  <2> HIDE DEF p
  <2>2. Len(p) = 5
        /\ p[1] = Request("mtu") /\ p[2] = Step("ready") /\ p[3] = Step("dial")
        /\ p[4] = Step("load") /\ p[5] = Step("fallback")
    BY <2>1, Tables
  <2>3. /\ p[1][1] = "req" /\ p[1][2] = "mtu" /\ p[2][1] = "ready" /\ p[3][1] = "dial"
        /\ p[4][1] = "load" /\ p[5][1] = "fallback"
    BY <2>2, Parts
  <2>4. ASSUME NEW i \in 1..5 PROVE InOrder(p, k, i)
    BY <1>2, <2>2, <2>3
  <2> HIDE DEF InOrder
  <2> QED BY <2>2, <2>3, <2>4 DEF p
<1>3. CASE k = "tcp"
  <2>1. p = TCPSteps
    BY <1>3 DEF ClientProgram
  <2> HIDE DEF p
  <2>2. Len(p) = 6
        /\ p[1] = Request("tcp") /\ p[2] = Step("ready") /\ p[3] = Step("start")
        /\ p[4] = Step("open") /\ p[5] = Step("load") /\ p[6] = Step("result")
    BY <2>1, Tables
  <2>3. /\ p[1][1] = "req" /\ p[1][2] = "tcp" /\ p[2][1] = "ready" /\ p[3][1] = "start"
        /\ p[4][1] = "open" /\ p[5][1] = "load" /\ p[6][1] = "result"
    BY <2>2, Parts
  <2>4. ASSUME NEW i \in 1..6 PROVE InOrder(p, k, i)
    BY <1>3, <2>2, <2>3
  <2> HIDE DEF InOrder
  <2> QED BY <2>2, <2>3, <2>4 DEF p
<1>4. CASE k = "udp"
  <2>1. p = UDPSteps
    BY <1>4 DEF ClientProgram
  <2> HIDE DEF p
  <2>2. Len(p) = 6
        /\ p[1] = Request("udp") /\ p[2] = Step("ready") /\ p[3] = Step("dial")
        /\ p[4] = Step("start") /\ p[5] = Step("load") /\ p[6] = Step("result")
    BY <2>1, Tables
  <2>3. /\ p[1][1] = "req" /\ p[1][2] = "udp" /\ p[2][1] = "ready" /\ p[3][1] = "dial"
        /\ p[4][1] = "start" /\ p[5][1] = "load" /\ p[6][1] = "result"
    BY <2>2, Parts
  <2>4. ASSUME NEW i \in 1..6 PROVE InOrder(p, k, i)
    BY <1>4, <2>2, <2>3
  <2> HIDE DEF InOrder
  <2> QED BY <2>2, <2>3, <2>4 DEF p
<1>5. CASE k = "jitter"
  <2>1. p = JitterSteps
    BY <1>5 DEF ClientProgram
  <2> HIDE DEF p
  <2>2. Len(p) = 6
        /\ p[1] = Request("jitter") /\ p[2] = Step("ready") /\ p[3] = Step("dial")
        /\ p[4] = Step("start") /\ p[5] = Step("load") /\ p[6] = Step("must")
    BY <2>1, Tables
  <2>3. /\ p[1][1] = "req" /\ p[1][2] = "jitter" /\ p[2][1] = "ready" /\ p[3][1] = "dial"
        /\ p[4][1] = "start" /\ p[5][1] = "load" /\ p[6][1] = "must"
    BY <2>2, Parts
  <2>4. ASSUME NEW i \in 1..6 PROVE InOrder(p, k, i)
    BY <1>5, <2>2, <2>3
  <2> HIDE DEF InOrder
  <2> QED BY <2>2, <2>3, <2>4 DEF p
<1>6. CASE k = "bufferbloat"
  <2>1. p = BloatSteps
    BY <1>6 DEF ClientProgram
  <2> HIDE DEF p
  <2>2. Len(p) = 10
        /\ p[1] = Request("latency") /\ p[2] = Step("ready") /\ p[3] = Step("samples")
        /\ p[4] = Step("result") /\ p[5] = Request("bufferbloat") /\ p[6] = Step("ready")
        /\ p[7] = Step("start") /\ p[8] = Step("probe") /\ p[9] = Step("goodbye")
        /\ p[10] = Step("result")
    BY <2>1, Tables, BloatTable
  <2>3. /\ p[1][1] = "req" /\ p[1][2] = "latency" /\ p[2][1] = "ready" /\ p[3][1] = "samples"
        /\ p[4][1] = "result" /\ p[5][1] = "req" /\ p[5][2] = "bufferbloat" /\ p[6][1] = "ready"
        /\ p[7][1] = "start" /\ p[8][1] = "probe" /\ p[9][1] = "goodbye"
        /\ p[10][1] = "result"
    BY <2>2, Parts
  <2>4. ASSUME NEW i \in 1..10 PROVE InOrder(p, k, i)
    <3>1. CASE i \in 1..5
      BY <1>6, <2>2, <2>3, <3>1
    <3>2. CASE i \in 6..10
      BY <1>6, <2>2, <2>3, <3>2
    <3> HIDE DEF InOrder
    <3> QED BY <3>1, <3>2
  <2> HIDE DEF InOrder
  <2> QED BY <2>2, <2>3, <2>4 DEF p
<1>7. CASE k = "bidir"
  <2>1. p = BidirSteps
    BY <1>7 DEF ClientProgram
  <2> HIDE DEF p
  <2>2. Len(p) = 12
        /\ p[1] = Request("tcp") /\ p[2] = Step("ready") /\ p[3] = Step("start")
        /\ p[4] = Step("open") /\ p[5] = Step("load") /\ p[6] = Step("result")
        /\ p[7] = Request("tcp") /\ p[8] = Step("ready") /\ p[9] = Step("start")
        /\ p[10] = Step("open") /\ p[11] = Step("load") /\ p[12] = Step("result")
    BY <2>1, Tables, BidirTable
  <2>3. /\ p[1][1] = "req" /\ p[1][2] = "tcp" /\ p[2][1] = "ready" /\ p[3][1] = "start"
        /\ p[4][1] = "open" /\ p[5][1] = "load" /\ p[6][1] = "result"
        /\ p[7][1] = "req" /\ p[7][2] = "tcp" /\ p[8][1] = "ready" /\ p[9][1] = "start"
        /\ p[10][1] = "open" /\ p[11][1] = "load" /\ p[12][1] = "result"
    BY <2>2, Parts
  <2>4. ASSUME NEW i \in 1..12 PROVE InOrder(p, k, i)
    <3>1. CASE i \in 1..6
      BY <1>7, <2>2, <2>3, <3>1
    <3>2. CASE i \in 7..12
      BY <1>7, <2>2, <2>3, <3>2
    <3> HIDE DEF InOrder
    <3> QED BY <3>1, <3>2
  <2> HIDE DEF InOrder
  <2> QED BY <2>2, <2>3, <2>4 DEF p
<1>8. CASE k \in {"dns", "connect"}
  BY <1>8 DEF ClientProgram
<1> QED BY <1>1, <1>2, <1>3, <1>4, <1>5, <1>6, <1>7, <1>8

\* filterTests yields a plan of tests that exist.
LEMMA FilterTestsType ==
  ASSUME NEW tests \in Seq(TestKinds), NEW offers
  PROVE  FilterTests(tests, offers) \in Seq(TestKinds)
<1> DEFINE Supported(t) == offers = {} \/ t \in offers \cup ClientOnly
           Turn(i, kept) == IF Supported(tests[i]) THEN Append(kept, tests[i]) ELSE kept
           Body(f) == [i \in 0..Len(tests) |-> IF i = 0 THEN <<>> ELSE Turn(i, f[i - 1])]
           filtered[i \in 0..Len(tests)] ==
             IF i = 0 THEN <<>>
             ELSE IF Supported(tests[i]) THEN Append(filtered[i - 1], tests[i]) ELSE filtered[i - 1]
           body == [p \in (1..Len(tests)) \X Seq(TestKinds) |-> Turn(p[1], p[2])]
<1>1. Len(tests) \in Nat /\ <<>> \in Seq(TestKinds)
  OBVIOUS
<1>2. body \in [(1..Len(tests)) \X Seq(TestKinds) -> Seq(TestKinds)]
  OBVIOUS
<1>3. PICK f : IsLoop(f, Len(tests), Seq(TestKinds), <<>>, body)
  <2> HIDE DEF body
  <2> QED BY <1>1, <1>2, LoopExists
<1>4. f = Body(f)
  <2>1. f \in [0..Len(tests) -> Seq(TestKinds)] /\ f[0] = <<>>
    BY <1>3 DEF IsLoop
  <2>2. ASSUME NEW i \in 1..Len(tests) PROVE f[i] = Turn(i, f[i - 1])
    <3>1. <<i, f[i - 1]>> \in (1..Len(tests)) \X Seq(TestKinds)
      <4>1. i - 1 \in 0..Len(tests)
        BY <1>1
      <4>2. f[i - 1] \in Seq(TestKinds)
        BY <2>1, <4>1
      <4> QED BY <4>2
    <3>2. f[i] = body[<<i, f[i - 1]>>]
      BY <1>3 DEF IsLoop
    <3> QED BY <3>1, <3>2
  <2> HIDE DEF Turn
  <2>3. f = [i \in 0..Len(tests) |-> IF i = 0 THEN <<>> ELSE Turn(i, f[i - 1])]
    BY <2>1, <2>2
  <2> QED BY <2>3
<1>5. filtered = Body(filtered)
  <2>1. filtered = CHOOSE g : g = Body(g)
    OBVIOUS
  <2> HIDE DEF filtered, Body
  <2> QED BY <1>4, <2>1
<1>6. FilterTests(tests, offers) = filtered[Len(tests)]
  BY DEF FilterTests
<1> DEFINE T == {n \in Nat : n <= Len(tests) => filtered[n] \in Seq(TestKinds)}
<1> HIDE DEF filtered
<1>7. 0 \in T
  BY <1>1, <1>5
<1>8. ASSUME NEW n \in Nat, n \in T PROVE n + 1 \in T
  <2> SUFFICES ASSUME n + 1 <= Len(tests) PROVE filtered[n + 1] \in Seq(TestKinds)
    OBVIOUS
  <2>1. filtered[n + 1] = Turn(n + 1, filtered[n])
    <3>1. n + 1 \in 0..Len(tests) /\ n + 1 # 0 /\ (n + 1) - 1 = n
      BY <1>1
    <3> HIDE DEF Turn
    <3>2. Body(filtered)[n + 1] = Turn(n + 1, filtered[(n + 1) - 1])
      BY <3>1
    <3> HIDE DEF Body
    <3> QED BY <1>5, <3>1, <3>2
  <2>2. filtered[n] \in Seq(TestKinds) /\ tests[n + 1] \in TestKinds
    BY <1>8
  <2> QED BY <2>1, <2>2
<1>9. Len(tests) \in T
  <2> HIDE DEF T
  <2> QED BY <1>1, <1>7, <1>8, Induction
<1> QED BY <1>6, <1>9, <1>1

\* Requests name a test that has a handler.
UpFrames == {f \in Frames : f.type = "test_req" => f.kind \in Requests}

\* The type invariant, and the places that only go together: a sample is awaited
\* only while some are left, and -ping runs no test and stops in time.
TypeInv ==
  /\ TypeOK
  /\ up \in Seq(UpFrames)
  /\ srv.at = "handler" => srv.kind \in Requests
  /\ sample.waiting => sample.left > 0
  /\ scene.ping => main \notin {"next", "testing", "draining"}
  /\ scene.ping /\ main \in {"dial", "hello", "ack", "pause"} => attempt < MaxAttempts
  /\ main \in {"testing", "draining"} => cur > 0

\* The steps of each handler.
LEMMA Handlers ==
  /\ Len(Handler("latency")) = 2 /\ Handler("latency")[1] = "ready" /\ Handler("latency")[2] = "echo"
  /\ Len(Handler("mtu")) = 2 /\ Handler("mtu")[1] = "ready" /\ Handler("mtu")[2] = "load"
  /\ Len(Handler("tcp")) = 3 /\ Handler("tcp")[1] = "ready" /\ Handler("tcp")[2] = "await" /\ Handler("tcp")[3] = "accept"
  /\ Len(Handler("udp")) = 3 /\ Handler("udp")[1] = "ready" /\ Handler("udp")[2] = "await" /\ Handler("udp")[3] = "load"
  /\ Len(Handler("jitter")) = 3 /\ Handler("jitter")[1] = "ready" /\ Handler("jitter")[2] = "await"
  /\ Handler("jitter")[3] = "load"
  /\ Len(Handler("bufferbloat")) = 3 /\ Handler("bufferbloat")[1] = "ready" /\ Handler("bufferbloat")[2] = "awaitOrEnd"
  /\ Handler("bufferbloat")[3] = "echoUntil"
BY DEF Handler, LatencyHandler, MTUHandler, TCPHandler, UDPHandler, JitterHandler, BloatHandler

\* The tests of a plan exist.
LEMMA PlanType ==
  ASSUME scene \in Scenarios
  PROVE  Plan \in Seq(TestKinds) /\ Len(Plan) \in Nat
<1>1. scene.tests \in Seq(TestKinds)
  BY DEF Scenario
<1>2. DefaultTests \in Seq(TestKinds)
  <2>1. \A k \in {"mtu", "latency", "tcp", "bufferbloat", "udp", "jitter"} : k \in TestKinds
    BY DEF TestKinds
  <2> QED BY <2>1, Tuples DEF DefaultTests
<1>3. Plan \in Seq(TestKinds)
  BY <1>1, <1>2, FilterTestsType DEF Plan
<1> QED BY <1>3

\* A client that is in a test is in a step of its table.
LEMMA ProgramType ==
  ASSUME TypeInv, main \in {"testing", "draining"}
  PROVE  Plan[cur] \in TestKinds /\ Len(Program) \in Nat
<1>1. cur \in 1..Len(Plan)
  BY PlanType DEF TypeInv, TypeOK
<1>2. Plan[cur] \in TestKinds
  BY <1>1, PlanType DEF TypeInv, TypeOK
<1> QED BY <1>2, ProgramInOrder DEF Program

\* The type invariant holds at the start.
LEMMA TypeInit == Init => TypeInv
<1> SUFFICES ASSUME Init PROVE TypeInv
  OBVIOUS
<1>1. Len(Plan) \in Nat
  BY PlanType DEF Init
<1>2. up = <<>> /\ down = <<>>
  BY DEF Init
<1>3. srv \in [at : {"hello", "poll", "read", "handler", "error", "ended"}, kind : TestKinds \cup {"none"},
               id : Nat, step : Nat, left : Nat]
  BY DEF Init, InSession
<1>4. last \in [step : ReadingSteps \cup {"none"}, type : FrameTypes \cup {"none"}, id : Nat, req : Nat]
  BY DEF Init, NoFrame
<1>5. sample \in [left : 0..Samples, waiting : BOOLEAN] /\ attempt \in 0..MaxAttempts /\ attempt < MaxAttempts
  BY DEF Init
<1>6. outcome \in [1..Len(Plan) -> {"todo", "ok", "failed"}] /\ cur \in 0..Len(Plan)
  BY <1>1 DEF Init
<1>7. up \in Seq(Frames) /\ down \in Seq(Frames)
  BY <1>2
<1>8. TypeOK
  BY <1>7, <1>3, <1>4, <1>5, <1>6 DEF Init, TypeOK
<1>9. up \in Seq(UpFrames) /\ srv.at = "ended"
  BY <1>2 DEF Init, InSession
<1> QED BY <1>5, <1>8, <1>9 DEF Init, TypeInv

\* The plan follows from the scenario.
LEMMA PlanFixed == scene' = scene => Plan' = Plan
BY DEF Plan

\* The frame that can be read is the first one on the wire.
LEMMA Incoming1 ==
  ASSUME TypeInv, NEW f \in Incoming
  PROVE  /\ f = Head(down) /\ f \in Frames /\ Tail(down) \in Seq(Frames)
         /\ conn = "open" /\ ~stray /\ down # <<>>
BY DEF TypeInv, TypeOK, Incoming

\* And for the session.
LEMMA Arrived1 ==
  ASSUME TypeInv, NEW f \in Arrived
  PROVE  f = Head(up) /\ f \in UpFrames /\ Tail(up) \in Seq(UpFrames) /\ up # <<>>
BY DEF TypeInv, Arrived

\* What sending does to the wire.
LEMMA SendType ==
  ASSUME TypeInv, NEW f \in UpFrames, Send(f)
  PROVE  up' \in Seq(UpFrames)
BY DEF TypeInv, Send

\* Frames to the server are frames.
LEMMA UpType == ASSUME NEW q \in Seq(UpFrames) PROVE q \in Seq(Frames)
BY DEF UpFrames

\* What replying does to the wire.
LEMMA ReplyType ==
  ASSUME TypeInv, NEW t \in FrameTypes, Reply(t)
  PROVE  down' \in Seq(Frames)
<1>1. Frame(t, srv.id, "none") \in Frames
  BY DEF TypeInv, TypeOK, Frame, Frames
<1> QED BY <1>1 DEF TypeInv, TypeOK, Reply

\* A frame is a frame.
LEMMA FrameType ==
  ASSUME TypeInv
  PROVE  /\ \A n \in Nat, t \in FrameTypes, k \in TestKinds \cup {"none"} : Frame(t, n, k) \in Frames
         /\ req \in Nat
BY DEF TypeInv, TypeOK, Frame, Frames

\* The types of the session, of the samples and of the last frame read.
SessionAt == {"hello", "poll", "read", "handler", "error", "ended"}
Sessions == [at : SessionAt, kind : TestKinds \cup {"none"}, id : Nat, step : Nat, left : Nat]

\* A session that moves on is a session.
LEMMA SessionMoves ==
  ASSUME srv \in Sessions
  PROVE  /\ \A at \in SessionAt : GoTo(at) \in Sessions /\ GoTo(at).at = at /\ GoTo(at).kind = srv.kind
         /\ NextStep \in Sessions /\ NextStep.kind = srv.kind
         /\ \A n \in Nat : [srv EXCEPT !.step = n] \in Sessions /\ [srv EXCEPT !.step = n].kind = srv.kind
         /\ srv.left > 0 => [srv EXCEPT !.left = @ - 1] \in Sessions /\ [srv EXCEPT !.left = @ - 1].kind = srv.kind
<1>1. \A at \in SessionAt : GoTo(at) \in Sessions /\ GoTo(at).at = at /\ GoTo(at).kind = srv.kind
  BY DEF GoTo, Sessions
<1>2. NextStep \in Sessions /\ NextStep.kind = srv.kind
  BY DEF NextStep, Sessions
<1>3. \A n \in Nat : [srv EXCEPT !.step = n] \in Sessions /\ [srv EXCEPT !.step = n].kind = srv.kind
  BY DEF Sessions
<1>4. srv.left > 0 => [srv EXCEPT !.left = @ - 1] \in Sessions /\ [srv EXCEPT !.left = @ - 1].kind = srv.kind
  BY DEF Sessions
<1> QED BY <1>1, <1>2, <1>3, <1>4

\* Nothing on the wire.
LEMMA EmptyWire == <<>> \in Seq(UpFrames) /\ <<>> \in Seq(Frames)
OBVIOUS

\* The type invariant is preserved, actor by actor.
LEMMA TypeSession ==
  ASSUME TypeInv, Session
  PROVE  TypeInv'
<1>0. /\ srv \in Sessions /\ srv.at \in SessionAt
      /\ srv.at = "handler" => srv.kind \in Requests
      /\ srv.at = "handler" => Len(Handler(srv.kind)) + 1 \in Nat
      /\ up \in Seq(UpFrames) /\ down \in Seq(Frames)
  BY Handlers DEF TypeInv, TypeOK, Requests, Sessions, SessionAt
<1>1. up' \in Seq(UpFrames)
  <2>1. up' = up \/ up' = <<>> \/ \E f \in Arrived : up' = Tail(up)
    BY DEF Session, Greet, Poll, ReadRequest, SendReady, AwaitStart, Echo, EchoUntil, ServeData, Answer, Hangup, PastDeadline
  <2> QED BY <1>0, <2>1, Arrived1, EmptyWire
<1>2. down' \in Seq(Frames)
  BY <1>0, ReplyType DEF FrameTypes, Session, Greet, Poll, ReadRequest, SendReady, AwaitStart, Echo, EchoUntil, ServeData, Answer
<1>3. srv' \in Sessions /\ (srv'.at = "handler" => srv'.kind \in Requests)
  <2> USE SessionMoves, <1>0
  <2>1. CASE Greet \/ Poll \/ SendReady \/ ServeData \/ Answer
    BY <2>1 DEF Greet, Poll, SendReady, ServeData, Answer, InHandler, SessionAt
  <2>2. CASE AwaitStart
    BY <2>2 DEF AwaitStart, InHandler, SessionAt
  <2>3. CASE Echo
    BY <2>3 DEF Echo, InHandler, SessionAt
  <2>4. CASE EchoUntil
    BY <2>4 DEF EchoUntil, InHandler, SessionAt
  <2>5. CASE ReadRequest
    <3>1. CASE srv' = GoTo("ended")
      BY <3>1 DEF SessionAt
    <3>2. ASSUME NEW f \in Arrived, f.type = "test_req", NEW at \in ServedBy(f.kind),
                 srv' = [at |-> at, kind |-> f.kind, id |-> f.id, step |-> 1, left |-> EchoCount]
          PROVE  srv' \in Sessions /\ srv'.kind \in Requests
      <4>1. f.kind \in Requests /\ f.id \in Nat /\ f.kind \in TestKinds
        BY <3>2, Arrived1 DEF UpFrames, Frames, Requests, TestKinds
      <4>2. at \in SessionAt /\ EchoCount \in Nat
        BY DEF ServedBy, SessionAt, EchoCount
      <4> QED BY <3>2, <4>1, <4>2 DEF Sessions
    <3> QED BY <2>5, <3>1, <3>2 DEF ReadRequest
  <2> QED BY <2>1, <2>2, <2>3, <2>4, <2>5 DEF Session
<1>4. UNCHANGED besides /\ fed' \in BOOLEAN
  BY DEF TypeInv, TypeOK, Session, Greet, Poll, ReadRequest, SendReady, AwaitStart, Echo, EchoUntil, ServeData, Answer,
         aside, besides, inTest
<1> QED BY <1>1, <1>2, <1>3, <1>4, UpType, PlanFixed DEF TypeInv, TypeOK, besides, Sessions, SessionAt

SampleTypes == [left : 0..Samples, waiting : BOOLEAN]
LastTypes == [step : ReadingSteps \cup {"none"}, type : FrameTypes \cup {"none"}, id : Nat, req : Nat]

LEMMA TakeType ==
  ASSUME TypeInv, NEW f \in Incoming, Take(f), NEW s \in ReadingSteps, At(s)
  PROVE  down' \in Seq(Frames) /\ last' \in LastTypes
<1>1. f \in Frames /\ Tail(down) \in Seq(Frames) /\ req \in Nat
  BY Incoming1 DEF TypeInv, TypeOK
<1> QED BY <1>1 DEF Take, LastTypes, At, Frames

LEMMA TypeTestStep ==
  ASSUME TypeInv, TestStep
  PROVE  TypeInv'
<1>0. /\ up \in Seq(UpFrames) /\ down \in Seq(Frames) /\ sample \in SampleTypes
      /\ last \in LastTypes /\ req \in Nat /\ ip \in Nat /\ port \in Nat
      /\ res \in {"none", "ok", "err"}
      /\ main \in {"testing", "draining"}
  <2>1. main \in {"testing", "draining"}
    BY DEF TestStep, SendRequest, AwaitReady, DialUDP, SendStart, OpenStreams, Load, Ping, Pong, SamplesDone,
           SayGoodbye, AwaitResult, AwaitMTUResult, LocalTest, At
  <2>2. /\ up \in Seq(UpFrames) /\ down \in Seq(Frames) /\ sample \in SampleTypes
        /\ last \in LastTypes /\ req \in Nat /\ ip \in Nat /\ port \in Nat
        /\ res \in {"none", "ok", "err"}
    BY DEF TypeInv, TypeOK, SampleTypes, LastTypes
  <2> QED BY <2>1, <2>2
<1>1. /\ UNCHANGED elsewhere
      /\ stray' \in BOOLEAN /\ fed' \in BOOLEAN
  BY DEF TypeInv, TypeOK, TestStep, SendRequest, AwaitReady, DialUDP, SendStart, OpenStreams, Load, Ping, Pong,
         SamplesDone, SayGoodbye, AwaitResult, AwaitMTUResult, LocalTest, quiet
<1>2. ip' \in Nat /\ res' \in {"none", "ok", "err"}
  BY <1>0 DEF TestStep, SendRequest, AwaitReady, DialUDP, SendStart, OpenStreams, Load, Ping, Pong,
         SamplesDone, SayGoodbye, AwaitResult, AwaitMTUResult, LocalTest, Proceed, Fail
<1>3. up' \in Seq(UpFrames) /\ req' \in Nat
  <2>1. CASE SendRequest
    <3>1. CASE Send(Frame("test_req", req + 1, Program[ip][2])) /\ req' = req + 1
      <4>1. Program[ip][2] \in Requests
        <5>1. ip \in 1..Len(Program) /\ Program[ip][1] = "req"
          BY <2>1 DEF SendRequest, At
        <5> QED BY <5>1, <1>0, ProgramType, ProgramInOrder DEF Program, InOrder
      <4>2. Frame("test_req", req + 1, Program[ip][2]) \in UpFrames
        BY <4>1, <1>0 DEF Frame, UpFrames, Frames, Requests, TestKinds, FrameTypes
      <4> QED BY <3>1, <4>2, <1>0, SendType
    <3> QED BY <2>1, <3>1, <1>0 DEF SendRequest, SendFails
  <2>2. CASE ~SendRequest
    <3>1. /\ Frame("test_start", req, "none") \in UpFrames
          /\ Frame("goodbye", req, "none") \in UpFrames
      BY <1>0 DEF Frame, UpFrames, Frames, FrameTypes
    <3> QED BY <2>2, <1>0, <3>1, SendType
      DEF TestStep, AwaitReady, DialUDP, SendStart, OpenStreams, Load, Ping, Pong,
          SamplesDone, SayGoodbye, AwaitResult, AwaitMTUResult, LocalTest, quiet, SendFails
  <2> QED BY <2>1, <2>2
<1>4. down' \in Seq(Frames) /\ last' \in LastTypes
  <2>1. CASE \E f \in Incoming, s \in ReadingSteps : Take(f) /\ At(s)
    BY <2>1, TakeType
  <2>2. CASE ReceiveFails
    BY <2>2, <1>0 DEF ReceiveFails
  <2>3. CASE UNCHANGED <<down, last>>
    BY <2>3, <1>0
  <2>4. \/ \E f \in Incoming, s \in ReadingSteps : Take(f) /\ At(s)
        \/ ReceiveFails
        \/ UNCHANGED <<down, last>>
    BY DEF TestStep, SendRequest, AwaitReady, DialUDP, SendStart, OpenStreams, Load, Ping, Pong,
           SamplesDone, SayGoodbye, AwaitResult, AwaitMTUResult, LocalTest, quiet, ReadingSteps
  <2> QED BY <2>1, <2>2, <2>3, <2>4
<1>5. port' \in Nat
  BY <1>0, Incoming1 DEF TestStep, SendRequest, AwaitReady, DialUDP, SendStart, OpenStreams, Load, Ping, Pong,
         SamplesDone, SayGoodbye, AwaitResult, AwaitMTUResult, LocalTest, quiet, Frames
<1>6. sample' \in SampleTypes /\ (sample'.waiting => sample'.left > 0)
  <2>0. sample.waiting => sample.left > 0
    BY DEF TypeInv
  <2>1. CASE AwaitReady \/ Ping \/ Pong
    <3>1. CASE AwaitReady
      BY <3>1 DEF AwaitReady, SampleTypes
    <3>2. CASE Ping
      BY <3>2, <1>0, <2>0 DEF Ping, SampleTypes, MoreSamples
    <3>3. CASE Pong
      <4>1. sample.waiting /\ (sample' = [left |-> sample.left - 1, waiting |-> FALSE] \/ sample' = sample)
        BY <3>3 DEF Pong
      <4>2. sample.left - 1 \in 0..Samples
        BY <4>1, <1>0, <2>0 DEF SampleTypes
      <4>3. /\ [left |-> sample.left - 1, waiting |-> FALSE] \in SampleTypes
            /\ ~[left |-> sample.left - 1, waiting |-> FALSE].waiting
        BY <4>2 DEF SampleTypes
      <4> QED BY <4>1, <4>3, <1>0, <2>0
    <3> QED BY <2>1, <3>1, <3>2, <3>3
  <2>2. CASE ~(AwaitReady \/ Ping \/ Pong)
    <3>1. sample' = sample
      BY <2>2 DEF TestStep, SendRequest, DialUDP, SendStart, OpenStreams, Load,
         SamplesDone, SayGoodbye, AwaitResult, AwaitMTUResult, LocalTest, quiet
    <3> QED BY <1>0, <2>0, <3>1
  <2> QED BY <2>1, <2>2
<1> QED BY <1>0, <1>1, <1>2, <1>3, <1>4, <1>5, <1>6, UpType, PlanFixed
        DEF TypeInv, TypeOK, elsewhere, serverVars, SampleTypes, LastTypes

LEMMA TypeConnecting ==
  ASSUME TypeInv, Connecting
  PROVE  TypeInv'
<1>0. /\ up \in Seq(UpFrames) /\ down \in Seq(Frames) /\ srv \in Sessions
  BY DEF TypeInv, TypeOK, Sessions, SessionAt
<1>1. UNCHANGED given /\ stray' \in BOOLEAN
  BY DEF TypeInv, TypeOK, Connecting, Dial, SayHello, AwaitAck, PingAgain, Close, NewConnection, netVars
<1>2. srv' \in Sessions /\ (srv'.at = "handler" => srv' = srv)
  <2>1. InSession("hello") \in Sessions /\ InSession("ended") \in Sessions
        /\ InSession("hello").at = "hello" /\ InSession("ended").at = "ended"
    BY DEF InSession, Sessions, SessionAt
  <2>2. srv' = srv \/ srv' = InSession("hello") \/ srv' = InSession("ended")
    BY DEF Connecting, Dial, SayHello, AwaitAck, PingAgain, Close, NewConnection
  <2> QED BY <1>0, <2>1, <2>2
<1>3. up' \in Seq(UpFrames)
  <2>1. /\ Frame("hello", 0, "none") \in UpFrames
        /\ Frame("goodbye", 0, "none") \in UpFrames
    BY DEF Frame, UpFrames, Frames, FrameTypes
  <2>2. up' = up \/ up' = <<>> \/ Send(Frame("hello", 0, "none")) \/ Send(Frame("goodbye", 0, "none"))
    BY DEF Connecting, Dial, SayHello, AwaitAck, PingAgain, Close, NewConnection, SendFails, netVars
  <2> QED BY <1>0, <2>1, <2>2, SendType, EmptyWire
<1>4. down' \in Seq(Frames)
  <2>1. down' = down \/ down' = <<>> \/ \E f \in Incoming : down' = Tail(down)
    BY DEF Connecting, Dial, SayHello, AwaitAck, PingAgain, Close, NewConnection, ConnectFails, CloseConn, netVars
  <2> QED BY <1>0, <2>1, Incoming1, EmptyWire
<1>5. conn' \in {"nil", "open", "cut", "garbled", "closed"} /\ watch' \in {"waiting", "cutting", "done"}
  BY DEF TypeInv, TypeOK, Connecting, Dial, SayHello, AwaitAck, PingAgain, Close, NewConnection, ConnectFails, CloseConn, netVars
<1>a. /\ attempt \in 0..MaxAttempts
      /\ scene.ping => main \notin {"next", "testing", "draining"}
      /\ scene.ping /\ main \in {"dial", "hello", "ack", "pause"} => attempt < MaxAttempts
  BY DEF TypeInv, TypeOK
<1> DEFINE Placed == /\ main' \in {"dial", "hello", "ack", "pause", "next", "closing", "done"}
                     /\ attempt' \in 0..MaxAttempts
                     /\ scene.ping => main' # "next"
                     /\ scene.ping /\ main' \in {"dial", "hello", "ack", "pause"} => attempt' < MaxAttempts
<1>6. Placed
  <2>1. main \in {"dial", "hello", "ack"} /\ ((Connected /\ UNCHANGED attempt) \/ ConnectFails) => Placed
    BY <1>a, AttemptsAssumption DEF Connected, ConnectFails, CountAttempt, AfterPing, given
  <2>2. Dial \/ SayHello \/ AwaitAck => Placed
    BY <1>a, <2>1 DEF Dial, SayHello, AwaitAck
  <2>3. PingAgain \/ Close => Placed
    BY <1>a DEF PingAgain, Close, CountAttempt, AfterPing
  <2> QED BY <2>2, <2>3 DEF Connecting
<1>7. Plan' = Plan /\ up' \in Seq(Frames)
  BY <1>1, <1>3, UpType, PlanFixed DEF given
<1>8. TypeOK'
  <2>1. UNCHANGED <<scene, cur, outcome, ip, sample, port, res, req, last, fed, ctx, expired, alive>>
    BY <1>1 DEF given, inTest
  <2>2. /\ scene' \in Scenarios /\ cur' \in 0..Len(Plan') /\ outcome' \in [1..Len(Plan') -> {"todo", "ok", "failed"}]
        /\ ip' \in Nat /\ port' \in Nat /\ res' \in {"none", "ok", "err"} /\ req' \in Nat
        /\ sample' \in [left : 0..Samples, waiting : BOOLEAN]
        /\ last' \in [step : ReadingSteps \cup {"none"}, type : FrameTypes \cup {"none"}, id : Nat, req : Nat]
        /\ ctx' \in BOOLEAN /\ expired' \in BOOLEAN /\ fed' \in BOOLEAN /\ alive' \in BOOLEAN
    BY <1>7, <2>1 DEF TypeInv, TypeOK
  <2>3. /\ main' \in {"dial", "hello", "ack", "pause", "next", "testing", "draining", "closing", "done"}
        /\ attempt' \in 0..MaxAttempts
    BY <1>6
  <2> QED BY <1>1, <1>2, <1>4, <1>5, <1>7, <2>2, <2>3 DEF TypeOK, Sessions, SessionAt
<1>9. UNCHANGED <<scene, sample, cur>>
  BY <1>1 DEF given, inTest
<1> QED BY <1>0, <1>2, <1>3, <1>6, <1>8, <1>9 DEF TypeInv

LEMMA TypeTesting ==
  ASSUME TypeInv, Testing \/ Expire
  PROVE  TypeInv'
<1>0. Len(Plan) \in Nat /\ scene' = scene /\ Plan' = Plan
  BY PlanType, PlanFixed DEF TypeInv, TypeOK, Testing, Expire, StartTest, TakeResult, GiveUp, Drained, StopTests, others
<1>1. CASE StartTest
  <2>1. NoFrame \in LastTypes
    BY DEF NoFrame, LastTypes
  <2>2. cur + 1 \in 0..Len(Plan) /\ cur + 1 > 0
    BY <1>0, <1>1 DEF StartTest, MayBegin, TypeInv, TypeOK
  <2>3. /\ UNCHANGED <<scene, attempt, outcome, sample, port, req, fed, ctx, watch, netVars, serverVars>>
        /\ main' = "testing" /\ cur' = cur + 1 /\ ip' = 1 /\ res' = "none" /\ expired' = FALSE
        /\ last' = NoFrame /\ ~scene.ping
    BY <1>1 DEF StartTest, TypeInv
  <2>4. /\ last' \in [step : ReadingSteps \cup {"none"}, type : FrameTypes \cup {"none"}, id : Nat, req : Nat]
        /\ cur' \in 0..Len(Plan')
    BY <1>0, <2>1, <2>2, <2>3 DEF LastTypes
  <2>5. TypeOK'
    <3>1. TypeOK
      BY DEF TypeInv
    <3>2. outcome' \in [1..Len(Plan') -> {"todo", "ok", "failed"}]
      BY <1>0, <2>3, <3>1 DEF TypeOK
    <3>3. /\ scene' \in Scenarios /\ attempt' \in 0..MaxAttempts /\ watch' \in {"waiting", "cutting", "done"}
          /\ ip' \in Nat /\ sample' \in [left : 0..Samples, waiting : BOOLEAN] /\ port' \in Nat /\ req' \in Nat
          /\ res' \in {"none", "ok", "err"}
          /\ main' \in {"dial", "hello", "ack", "pause", "next", "testing", "draining", "closing", "done"}
      BY <2>3, <3>1 DEF TypeOK
    <3>4. /\ ctx' \in BOOLEAN /\ expired' \in BOOLEAN /\ stray' \in BOOLEAN /\ fed' \in BOOLEAN /\ alive' \in BOOLEAN
          /\ conn' \in {"nil", "open", "cut", "garbled", "closed"}
          /\ up' \in Seq(Frames) /\ down' \in Seq(Frames) /\ srv' = srv
      BY <2>3, <3>1 DEF TypeOK, netVars, serverVars
    <3> QED BY <2>3, <2>4, <3>1, <3>2, <3>3, <3>4 DEF TypeOK
  <2> QED BY <2>2, <2>3, <2>5 DEF TypeInv, netVars, serverVars
<1>2. CASE TakeResult \/ Expire \/ GiveUp \/ Drained \/ StopTests
  <2>1. outcome' \in [1..Len(Plan) -> {"todo", "ok", "failed"}]
    BY <1>2 DEF TypeInv, TypeOK, TakeResult, Expire, GiveUp, Drained, StopTests, Record
  <2>2. /\ UNCHANGED others /\ UNCHANGED <<stray, up>> /\ expired' \in BOOLEAN
        /\ conn' \in {"nil", "open", "cut", "garbled", "closed"}
        /\ down' \in Seq(Frames)
        /\ main' \in {"testing", "draining", "next", "closing", "dial"}
        /\ ~scene.ping
        /\ main' \in {"testing", "draining"} => cur > 0
    <3>1. <<>> \in Seq(Frames)
      OBVIOUS
    <3> QED BY <1>2, <3>1 DEF TypeInv, TypeOK, TakeResult, Expire, GiveUp, Drained, StopTests, CloseConn, netVars
  <2> QED BY <1>0, <2>1, <2>2 DEF TypeInv, TypeOK, others, inTest, serverVars
<1> QED BY <1>1, <1>2 DEF Testing

LEMMA TypeRest ==
  ASSUME TypeInv, StrayReads \/ Abort \/ WatchAbort \/ CutConnection \/ Crash \/ Shutdown \/ UNCHANGED vars
  PROVE  TypeInv'
<1>1. /\ UNCHANGED <<scene, attempt, cur, outcome, inTest, expired, up, srv>>
      /\ main' = main \/ main' = "done"
      /\ ctx' \in BOOLEAN /\ alive' \in BOOLEAN /\ stray' \in BOOLEAN
      /\ watch' \in {"waiting", "cutting", "done"}
      /\ conn' \in {"nil", "open", "cut", "garbled", "closed"}
  BY DEF TypeInv, TypeOK, StrayReads, Abort, WatchAbort, CutConnection, Crash, Shutdown, vars, clientVars, inTest,
         netVars, serverVars
<1>2. down' \in Seq(Frames)
  <2>1. down' = down \/ down' = <<>> \/ (down # <<>> /\ down' = Tail(down))
    BY DEF StrayReads, Abort, WatchAbort, CutConnection, Crash, Shutdown, vars, netVars, serverVars
  <2>2. down \in Seq(Frames)
    BY DEF TypeInv, TypeOK
  <2>3. down # <<>> => Tail(down) \in Seq(Frames)
    BY <2>2
  <2> QED BY <2>1, <2>2, <2>3, EmptyWire
<1> QED BY <1>1, <1>2, PlanFixed DEF TypeInv, TypeOK, inTest

LEMMA TypeStep == TypeInv /\ [Next]_vars => TypeInv'
BY TypeSession, TypeTestStep, TypeConnecting, TypeTesting, TypeRest DEF Next, ClientMain

\* Where the connection and its watcher can be: there is a connection from the
\* first handshake on, it is closed whenever another is dialled, and a watcher
\* that is done has reached the one that a test uses.
ConnInv ==
  /\ watch # "waiting" => ctx
  /\ watch = "cutting" \/ cur > 0 \/ main \notin {"dial", "pause", "done"} => conn # "nil"
  /\ main \in {"dial", "pause"} => conn \in {"nil", "closed"}
  /\ main = "draining" => conn = "closed"
  /\ AbortReachesTests

LEMMA ConnInit == Init => ConnInv
BY DEF Init, ConnInv, AbortReachesTests

LEMMA ConnStep == TypeInv /\ ConnInv /\ [Next]_vars => ConnInv'
<1> SUFFICES ASSUME TypeInv, ConnInv, [Next]_vars PROVE ConnInv'
  OBVIOUS
<1>0. /\ main \in {"dial", "hello", "ack", "pause", "next", "testing", "draining", "closing", "done"}
      /\ conn \in {"nil", "open", "cut", "garbled", "closed"} /\ watch \in {"waiting", "cutting", "done"}
      /\ cur \in Nat
  BY PlanType DEF TypeInv, TypeOK
<1> USE DEF ConnInv, AbortReachesTests
<1>1. CASE Connecting
  BY <1>0, <1>1 DEF Connecting, Dial, SayHello, AwaitAck, PingAgain, Close, Connected, ConnectFails, AfterPing,
                    CloseConn, NewConnection, given, netVars
<1>2. CASE Testing \/ Expire
  BY <1>0, <1>2 DEF Testing, Expire, StartTest, TakeResult, GiveUp, Drained, StopTests, MayBegin, CloseConn, others, netVars
<1>3. CASE StrayReads \/ Abort \/ WatchAbort \/ CutConnection \/ Crash \/ Shutdown \/ UNCHANGED vars
  BY <1>0, <1>3 DEF StrayReads, Abort, WatchAbort, CutConnection, Crash, Shutdown, vars, clientVars, netVars
<1>4. CASE TestStep
  <2>1. UNCHANGED elsewhere
    BY <1>4 DEF TestStep, SendRequest, AwaitReady, DialUDP, SendStart, OpenStreams, Load, Ping, Pong,
         SamplesDone, SayGoodbye, AwaitResult, AwaitMTUResult, LocalTest, quiet
  <2> QED BY <2>1 DEF elsewhere
<1>5. CASE Session
  <2>1. UNCHANGED besides
    BY <1>5 DEF Session, Greet, Poll, ReadRequest, SendReady, AwaitStart, Echo, EchoUntil, ServeData, Answer,
         aside, besides, inTest
  <2> QED BY <2>1 DEF besides
<1> QED BY <1>1, <1>2, <1>3, <1>4, <1>5 DEF Next, ClientMain

\* Every variable of the client, of the session and of the wire has its type.
THEOREM TypeCorrect == Spec => []TypeOK
<1>1. Init => TypeInv
  BY TypeInit
<1>2. TypeInv /\ [Next]_vars => TypeInv'
  BY TypeStep
<1>3. TypeInv => TypeOK
  BY DEF TypeInv
<1> QED BY <1>1, <1>2, <1>3, PTL DEF Spec

\* A deadline or a signal that has been delivered has reached the connection that
\* the tests use: it is not lost on a handshake.
THEOREM AbortReaches == Spec => []AbortReachesTests
<1>1. Init => TypeInv /\ ConnInv
  BY TypeInit, ConnInit
<1>2. TypeInv /\ ConnInv /\ [Next]_vars => TypeInv' /\ ConnInv'
  BY TypeStep, ConnStep
<1>3. ConnInv => AbortReachesTests
  BY DEF ConnInv
<1> QED BY <1>1, <1>2, <1>3, PTL DEF Spec

\* connect never drops a connection that is open.
THEOREM NoneForgotten == Spec => NoConnectionForgotten
<1>1. Init => TypeInv /\ ConnInv
  BY TypeInit, ConnInit
<1>2. TypeInv /\ ConnInv /\ [Next]_vars => TypeInv' /\ ConnInv'
  BY TypeStep, ConnStep
<1>3. ConnInv => (main = "dial" /\ main' = "hello" => conn \in {"nil", "closed"})
  BY DEF ConnInv
<1>4. ConnInv /\ [Next]_vars => [main = "dial" /\ main' = "hello" => conn \in {"nil", "closed"}]_vars
  BY <1>3
<1> QED BY <1>1, <1>2, <1>4, PTL DEF Spec, NoConnectionForgotten

(***************************************************************************)
(* What the session does, one place after the other, while its client is   *)
(* connected.                                                              *)
(***************************************************************************)
Serving == TypeInv /\ conn = "open" /\ main # "done" /\ Session

Moved(at, step, left) ==
  srv'.at = at /\ srv'.kind = srv.kind /\ srv'.id = srv.id /\ srv'.step = step /\ srv'.left = left
Answered(t) == down' = Append(down, Frame(t, srv.id, "none"))
InPlace == srv.at = "handler" /\ srv.kind \in Requests /\ srv.step \in 1..3

Left(n) == [srv EXCEPT !.left = n]

\* The fields of a session that moves on.
LEMMA Fields ==
  ASSUME TypeInv
  PROVE  /\ \A at \in SessionAt : /\ GoTo(at).at = at /\ GoTo(at).kind = srv.kind /\ GoTo(at).id = srv.id
                                  /\ GoTo(at).step = srv.step /\ GoTo(at).left = srv.left
         /\ NextStep.at = srv.at /\ NextStep.kind = srv.kind /\ NextStep.id = srv.id
         /\ NextStep.step = srv.step + 1 /\ NextStep.left = srv.left
         /\ srv.left \in Nat
         /\ \A n \in Nat : Left(n).at = srv.at /\ Left(n).kind = srv.kind /\ Left(n).id = srv.id
                           /\ Left(n).step = srv.step /\ Left(n).left = n
<1>1. srv \in Sessions
  BY DEF TypeInv, TypeOK, Sessions, SessionAt
<1>2. \A at \in SessionAt : /\ GoTo(at).at = at /\ GoTo(at).kind = srv.kind /\ GoTo(at).id = srv.id
                            /\ GoTo(at).step = srv.step /\ GoTo(at).left = srv.left
  BY <1>1 DEF GoTo, Sessions
<1>3. NextStep.at = srv.at /\ NextStep.kind = srv.kind /\ NextStep.id = srv.id
      /\ NextStep.step = srv.step + 1 /\ NextStep.left = srv.left
  BY <1>1 DEF NextStep, Sessions
<1>4. \A n \in Nat : Left(n).at = srv.at /\ Left(n).kind = srv.kind /\ Left(n).id = srv.id
                     /\ Left(n).step = srv.step /\ Left(n).left = n
  BY <1>1 DEF Sessions, Left
<1> QED BY <1>1, <1>2, <1>3, <1>4 DEF Sessions

\* The session changes nothing of the client's, and does nothing once it has ended.
LEMMA OnlyServer ==
  ASSUME Serving
  PROVE  UNCHANGED besides /\ srv.at # "ended"
BY DEF Serving, Session, Greet, Poll, ReadRequest, SendReady, AwaitStart, Echo, EchoUntil, ServeData, Answer, InHandler,
       aside, besides, inTest

\* The handshake.
LEMMA AtHello ==
  ASSUME Serving, srv.at = "hello"
  PROVE  /\ up # <<>> /\ up' = Tail(up)
         /\ srv'.at = "poll" /\ Answered("hello_ack")
<1>1. Greet
  BY DEF Serving, Session, Poll, ReadRequest, SendReady, AwaitStart, Echo, EchoUntil, ServeData, Answer, InHandler
<1> QED BY <1>1, Fields DEF Serving, Greet, Arrived, Hangup, Reply, SessionAt, Answered

\* The loop of Run.
LEMMA AtPoll ==
  ASSUME Serving, srv.at = "poll"
  PROVE  srv'.at = (IF alive THEN "read" ELSE "ended") /\ up' = up /\ down' = down /\ fed' = fed
<1>1. Poll
  BY DEF Serving, Session, Greet, ReadRequest, SendReady, AwaitStart, Echo, EchoUntil, ServeData, Answer, InHandler
<1> QED BY <1>1, Fields DEF Serving, Poll, SessionAt, aside, inTest

LEMMA AtRead ==
  ASSUME Serving, srv.at = "read"
  PROVE  /\ up # <<>> /\ up' = Tail(up) /\ down' = down
         /\ Head(up).type = "test_req" =>
              /\ srv'.kind = Head(up).kind /\ srv'.id = Head(up).id /\ srv'.step = 1 /\ srv'.left = Samples
              /\ ~fed'
              /\ \/ srv'.at = "handler"
                 \/ srv'.at = "error" /\ (Head(up).kind \notin scene.offers \/ "listen" \in Faults)
<1>1. ReadRequest
  BY DEF Serving, Session, Greet, Poll, SendReady, AwaitStart, Echo, EchoUntil, ServeData, Answer, InHandler
<1>2. up # <<>> /\ up' = Tail(up) /\ down' = down
  BY <1>1 DEF Serving, ReadRequest, Arrived, Hangup
<1>3. ASSUME Head(up).type = "test_req"
      PROVE  /\ srv' \in {[at |-> at, kind |-> Head(up).kind, id |-> Head(up).id, step |-> 1, left |-> EchoCount] :
                            at \in ServedBy(Head(up).kind)}
             /\ fed' = FALSE
  BY <1>1, <1>2, <1>3 DEF Serving, ReadRequest, Arrived, Hangup
<1> DEFINE q == Head(up)
<1> HIDE DEF q
<1>4. ASSUME q.type = "test_req"
      PROVE  /\ srv'.kind = q.kind /\ srv'.id = q.id /\ srv'.step = 1 /\ srv'.left = Samples /\ ~fed'
             /\ srv'.at = "handler" \/ (srv'.at = "error" /\ (q.kind \notin scene.offers \/ "listen" \in Faults))
  <2>1. srv' \in {[at |-> at, kind |-> q.kind, id |-> q.id, step |-> 1, left |-> EchoCount] : at \in ServedBy(q.kind)}
        /\ fed' = FALSE
    BY <1>3, <1>4 DEF q
  <2> QED BY <2>1 DEF ServedBy, EchoCount
<1> QED BY <1>2, <1>4 DEF q

\* The handlers, step by step.
LEMMA AtReady ==
  ASSUME Serving, InPlace, srv.step = 1
  PROVE  Moved("handler", 2, srv.left) /\ up' = up /\ fed' = fed /\ Answered("test_ready")
<1>1. SendReady
  BY Handlers DEF Requests, InPlace, Serving, Session, Greet, Poll, ReadRequest, AwaitStart, Echo, EchoUntil, ServeData, Answer, InHandler
<1> QED BY <1>1, Fields DEF Serving, SendReady, Reply, aside, inTest, Moved, Answered, InPlace

LEMMA AtAwait ==
  ASSUME Serving, InPlace, srv.step = 2, srv.kind \in {"tcp", "udp", "jitter", "bufferbloat"}
  PROVE  /\ up # <<>> /\ up' = Tail(up) /\ down' = down /\ fed' = fed
         /\ Head(up).type = "test_start" => Moved("handler", 3, srv.left)
         /\ Head(up).type # "test_start" /\ srv.kind # "bufferbloat" => Moved("error", 2, srv.left)
<1>1. AwaitStart
  BY Handlers DEF Requests, InPlace, Serving, Session, Greet, Poll, ReadRequest, SendReady, Echo, EchoUntil, ServeData, Answer, InHandler
<1>2. srv.kind # "bufferbloat" => InHandler("await")
  BY Handlers DEF InHandler, InPlace
<1>3. /\ up # <<>> /\ up' = Tail(up) /\ down' = down /\ fed' = fed
      /\ Head(up).type = "test_start" => srv' = NextStep
      /\ Head(up).type # "test_start" /\ InHandler("await") => srv' = GoTo("error")
  BY <1>1 DEF Serving, AwaitStart, Arrived, Hangup, aside, inTest
<1> QED BY <1>2, <1>3, Fields DEF Serving, InPlace, Moved, SessionAt

LEMMA AtEcho ==
  ASSUME Serving, InPlace, srv.step = 2, srv.kind = "latency"
  PROVE  /\ fed' = fed
         /\ srv.left = 0 => Moved("handler", 3, 0) /\ up' = up /\ down' = down
         /\ srv.left # 0 => up # <<>> /\ up' = Tail(up)
         /\ srv.left # 0 /\ Head(up).type = "test_start" => Moved("handler", 2, srv.left - 1) /\ Answered("test_start")
<1>1. Echo
  BY Handlers DEF Requests, InPlace, Serving, Session, Greet, Poll, ReadRequest, SendReady, AwaitStart, EchoUntil, ServeData, Answer, InHandler
<1>2. /\ fed' = fed
      /\ srv.left = 0 => srv' = NextStep /\ up' = up /\ down' = down
      /\ srv.left # 0 => up # <<>> /\ up' = Tail(up)
      /\ srv.left # 0 /\ Head(up).type = "test_start" => srv' = [srv EXCEPT !.left = srv.left - 1] /\ Answered("test_start")
  BY <1>1, Fields DEF Serving, Echo, Arrived, Hangup, aside, inTest, Reply, Answered
<1>3. srv.left = 0 => Moved("handler", 3, 0)
  BY <1>2, Fields DEF Serving, InPlace, Moved
<1>4. srv.left # 0 /\ Head(up).type = "test_start" => Moved("handler", 2, srv.left - 1)
  <2>1. srv.left # 0 => srv.left - 1 \in Nat
    BY Fields DEF Serving
  <2> DEFINE n == srv.left - 1
  <2> HIDE DEF n
  <2>2. srv.left # 0 /\ Head(up).type = "test_start" => n \in Nat /\ srv' = Left(n)
    BY <1>2, <2>1 DEF n, Left
  <2>3. srv.left # 0 /\ Head(up).type = "test_start" => Moved("handler", 2, n)
    BY <2>2, Fields DEF Serving, InPlace, Moved
  <2> QED BY <2>3 DEF n
<1> QED BY <1>2, <1>3, <1>4

LEMMA AtEchoUntil ==
  ASSUME Serving, InPlace, srv.step = 3, srv.kind = "bufferbloat", "overrun" \notin Faults
  PROVE  /\ up # <<>> /\ up' = Tail(up) /\ fed' = fed
         /\ Head(up).type = "test_start" => Moved("handler", 3, srv.left) /\ Answered("test_start")
         /\ Head(up).type = "goodbye" => Moved("handler", 4, srv.left) /\ down' = down
<1>1. EchoUntil
  BY Handlers DEF Requests, InPlace, Serving, Session, Greet, Poll, ReadRequest, SendReady, AwaitStart, Echo, ServeData, Answer, InHandler
<1>2. /\ up # <<>> /\ up' = Tail(up) /\ fed' = fed
      /\ Head(up).type = "test_start" => srv' = srv /\ Answered("test_start")
      /\ Head(up).type = "goodbye" => srv' = NextStep /\ down' = down
  BY <1>1 DEF Serving, EchoUntil, Arrived, Hangup, PastDeadline, aside, inTest, Reply, Answered
<1> QED BY <1>2, Fields DEF Serving, InPlace, Moved

LEMMA AtData ==
  ASSUME Serving, InPlace,
         \/ srv.step = 2 /\ srv.kind = "mtu"
         \/ srv.step = 3 /\ srv.kind \in {"tcp", "udp", "jitter"}
  PROVE  /\ Moved("handler", srv.step + 1, srv.left) /\ up' = up /\ down' = down /\ fed' = fed
         /\ srv.kind = "tcp" => fed
<1>1. ServeData
  BY Handlers DEF Requests, InPlace, Serving, Session, Greet, Poll, ReadRequest, SendReady, AwaitStart, Echo, EchoUntil, Answer, InHandler
<1>2. srv.kind = "tcp" => ~InHandler("load")
  BY Handlers DEF InHandler
<1> QED BY <1>1, <1>2, Fields DEF Serving, ServeData, aside, inTest, Moved, InPlace

LEMMA AtEnd ==
  ASSUME Serving, srv.at = "handler",
         \/ srv.step = 3 /\ srv.kind \in {"latency", "mtu"}
         \/ srv.step = 4 /\ srv.kind \in {"tcp", "udp", "jitter", "bufferbloat"}
  PROVE  srv'.at = "poll" /\ up' = up /\ fed' = fed /\ Answered("test_result")
<1>1. \A s : ~InHandler(s)
  BY Handlers DEF Requests, InHandler
<1>2. Answer
  BY <1>1 DEF Serving, Session, Greet, Poll, ReadRequest, SendReady, AwaitStart, Echo, EchoUntil, ServeData
<1> QED BY <1>2, Fields DEF Serving, Answer, Reply, Answered, SessionAt, aside, inTest

LEMMA AtError ==
  ASSUME Serving, srv.at = "error"
  PROVE  srv'.at = "poll" /\ up' = up /\ fed' = fed /\ Answered("error")
<1>1. Answer
  BY DEF Serving, Session, Greet, Poll, ReadRequest, SendReady, AwaitStart, Echo, EchoUntil, ServeData, InHandler
<1> QED BY <1>1, Fields DEF Serving, Answer, Reply, Answered, SessionAt, aside, inTest

(***************************************************************************)
(* Where the two ends are, relative to each other: for each step of a test *)
(* where the session may be meanwhile, and what is on the wire.            *)
(***************************************************************************)
\* Without the two failures after which frames are known to be read out of turn:
\* the probe socket of the MTU test, and the echo deadline of bufferbloat.
Usual == "mtu" \notin DialFails /\ "overrun" \notin Faults

Hello  == Frame("hello", 0, "none")
Ack    == Frame("hello_ack", 0, "none")
Ready  == Frame("test_ready", req, "none")
Start  == Frame("test_start", req, "none")
Result == Frame("test_result", req, "none")
Error  == Frame("error", req, "none")
Bye    == Frame("goodbye", req, "none")

\* The session is in its loop (or has ended), in a handler, or about to report
\* the error of one, with u on its way to it.
Loop(u) == (srv.at \in {"poll", "read"} /\ up = u) \/ srv.at = "ended"
In(k, n, step, u) == srv.at = "handler" /\ srv.kind = k /\ srv.id = n /\ srv.step = step /\ up = u
InError(n, u) == srv.at = "error" /\ srv.id = n /\ up = u
Gone == srv.at = "ended" /\ down = <<>>

\* Before and after hello.
Greeting == ~stray /\ down = <<>> /\ ((srv.at = "hello" /\ up = <<>> /\ srv.id = 0) \/ srv.at = "ended")
Greeted == ~stray /\ \/ srv.at = "hello" /\ up = <<Hello>> /\ down = <<>> /\ srv.id = 0
                     \/ Loop(<<>>) /\ down = <<Ack>>
                     \/ Gone

\* Between two requests: nothing is left of the first, or what a failure on the
\* client's side leaves.
Quiet == ~stray /\ Loop(<<>>) /\ down = <<>>
LeftUDP == DialFails # {} /\ ~stray /\ down = <<>> /\ \E k \in {"udp", "jitter"} : In(k, req, 2, <<>>)
LeftTCP == /\ "stream" \in Faults /\ ~fed /\ ~stray /\ down = <<>>
           /\ (In("tcp", req, 2, <<Start>>) \/ In("tcp", req, 3, <<>>))
LeftMTU == stray /\ \/ (\E step \in {2, 3} : In("mtu", req, step, <<>>)) /\ down = <<>>
                    \/ Loop(<<>>) /\ down = <<Result>>
Between == Quiet \/ Gone \/ LeftUDP \/ LeftTCP \/ LeftMTU

\* A request of kind k is sent, and its ready not read yet.
Late == IF stray THEN <<Frame("test_result", req - 1, "none")>> ELSE <<>>
Asking(k) ==
  \/ Loop(<<Frame("test_req", req, k)>>) /\ down = Late
  \/ In(k, req, 1, <<>>) /\ down = Late /\ srv.left = Samples /\ ~fed
  \/ InError(req, <<>>) /\ down = Late
  \/ In(k, req, 2, <<>>) /\ down = Append(Late, Ready) /\ srv.left = Samples /\ ~fed
  \/ k = "mtu" /\ In(k, req, 3, <<>>) /\ down = Append(Late, Ready)
  \/ Loop(<<>>) /\ down = Append(Late, Error)
  \/ k = "mtu" /\ Loop(<<>>) /\ down = Append(Append(Late, Ready), Result)
AfterMTU(k) == stray /\ down = <<>> /\ \E step \in {2, 3} : In("mtu", req - 1, step, <<Frame("test_req", req, k)>>)
AfterUDP(k) == DialFails # {} /\ ~stray /\
  \/ down = <<>> /\ \E l \in {"udp", "jitter"} : In(l, req - 1, 2, <<Frame("test_req", req, k)>>)
  \/ down = <<>> /\ InError(req - 1, <<>>)
  \/ Loop(<<>>) /\ down = <<Frame("error", req - 1, "none")>>
AfterTCP(k) == "stream" \in Faults /\ ~fed /\ ~stray /\ down = <<>> /\
  \/ In("tcp", req - 1, 2, Append(<<Frame("test_start", req - 1, "none")>>, Frame("test_req", req, k)))
  \/ In("tcp", req - 1, 3, <<Frame("test_req", req, k)>>)
Requested(k) == Gone \/ Asking(k) \/ AfterMTU(k) \/ AfterUDP(k) \/ AfterTCP(k)

\* In the samples of a latency phase.
Echoing ==
  \/ ~sample.waiting /\
       \/ In("latency", req, 2, <<>>) /\ down = <<>> /\ srv.left = sample.left
       \/ In("latency", req, 3, <<>>) /\ down = <<>> /\ sample.left = 0
       \/ Loop(<<>>) /\ down = <<Result>> /\ sample.left = 0
  \/ sample.waiting /\
       \/ In("latency", req, 2, <<Start>>) /\ down = <<>> /\ srv.left = sample.left
       \/ In("latency", req, 2, <<>>) /\ down = <<Start>> /\ srv.left = sample.left - 1
       \/ In("latency", req, 3, <<>>) /\ down = <<Start>> /\ sample.left = 1
       \/ Loop(<<>>) /\ down = Append(<<Start>>, Result) /\ sample.left = 1

\* The handler goes on by itself, from one of these steps, to its result.
Working(k, steps) ==
  \/ (\E step \in steps : In(k, req, step, <<>>)) /\ down = <<>>
  \/ Loop(<<>>) /\ down = <<Result>>

\* The handler waits for test_start; it is on its way.
Started(k) == In(k, req, 2, <<>>) /\ down = <<>> /\ ~sample.waiting /\ (k = "tcp" => ~fed /\ port = req)
Opening == /\ ~fed /\ port = req /\ down = <<>>
           /\ (In("tcp", req, 2, <<Start>>) \/ In("tcp", req, 3, <<>>))
Finishing(k) == Working(k, {3, 4}) \/ (In(k, req, 2, <<Start>>) /\ down = <<>>)

\* In the probes of bufferbloat, and after its goodbye.
Probing ==
  \/ ~sample.waiting /\ down = <<>>
       /\ (In("bufferbloat", req, 2, <<Start>>) \/ In("bufferbloat", req, 3, <<>>))
  \/ sample.waiting /\
       \/ In("bufferbloat", req, 2, Append(<<Start>>, Start)) /\ down = <<>>
       \/ In("bufferbloat", req, 3, <<Start>>) /\ down = <<>>
       \/ In("bufferbloat", req, 3, <<>>) /\ down = <<Start>>
Ending ==
  \/ Working("bufferbloat", {4})
  \/ In("bufferbloat", req, 2, Append(<<Start>>, Bye)) /\ down = <<>>
  \/ In("bufferbloat", req, 3, <<Bye>>) /\ down = <<>>

Wire(k, s) ==
  IF s = "ready" THEN Requested(k)
  ELSE ~stray /\
  CASE s = "samples" -> Echoing
    [] s = "result" /\ k = "latency" -> Working("latency", {2, 3})
    [] k = "mtu" -> Working("mtu", {2, 3})
    [] s \in {"dial", "start"} /\ k # "mtu" -> Started(k)
    [] s = "open" -> Opening
    [] s \in {"load", "result", "must"} /\ k \in {"tcp", "udp", "jitter"} -> Finishing(k)
    [] s \in {"probe", "goodbye"} -> Probing /\ (s = "goodbye" => ~sample.waiting)
    [] s = "result" /\ k = "bufferbloat" -> Ending

Kind == RequestOf(Plan[cur], ip)
AtRest == main \in {"next", "closing"} \/ (main = "testing" /\ (res # "none" \/ Program = <<>> \/ At("req")))
Coupling == Usual /\ conn = "open" =>
  /\ main = "hello" => Greeting
  /\ main = "ack" => Greeted
  /\ AtRest => Between
  /\ \A s \in StepNames : At(s) => Wire(Kind, s)

(***************************************************************************)
(* Each of them holds on whatever the session does.                        *)
(***************************************************************************)

\* The parts of a frame.
LEMMA FrameParts ==
  ASSUME NEW t, NEW n, NEW k
  PROVE  Frame(t, n, k).type = t /\ Frame(t, n, k).id = n /\ Frame(t, n, k).kind = k
BY DEF Frame

\* While the client has not said hello, nor read the answer.
LEMMA ServedGreeting == Serving /\ Greeting => FALSE
BY AtHello, OnlyServer DEF Greeting

LEMMA ServedGreeted == Serving /\ Greeted => Greeted'
<1> SUFFICES ASSUME Serving, Greeted PROVE Greeted'
  OBVIOUS
<1>0. stray' = stray /\ srv.at # "ended"
  BY OnlyServer DEF besides
<1>1. CASE srv.at = "hello"
  <2>1. up = <<Hello>> /\ down = <<>> /\ srv.id = 0 /\ ~stray
    BY <1>1 DEF Greeted, Loop, Gone
  <2>2. up' = <<>> /\ down' = <<Ack>> /\ srv'.at = "poll"
    BY <1>1, <2>1, AtHello, OneFrame DEF Answered, Ack
  <2> QED BY <1>0, <2>1, <2>2 DEF Greeted, Loop, Ack
<1>2. CASE srv.at = "poll"
  BY <1>0, <1>2, AtPoll DEF Greeted, Loop, Gone
<1>3. CASE srv.at = "read"
  BY <1>0, <1>3, AtRead DEF Greeted, Loop, Gone
<1> QED BY <1>0, <1>1, <1>2, <1>3 DEF Greeted, Loop, Gone

\* Between two requests.
LEMMA ServedBetween == Serving /\ Between => Between'
<1> SUFFICES ASSUME Serving, Between PROVE Between'
  OBVIOUS
<1>0. stray' = stray /\ req' = req /\ DialFails' = DialFails /\ Faults' = Faults /\ srv.at # "ended"
  BY OnlyServer DEF besides, DialFails, Faults
<1>1. CASE Quiet
  BY <1>0, <1>1, AtPoll, AtRead DEF Quiet, Loop, Between
<1>2. CASE LeftUDP
  BY <1>2, AtAwait DEF LeftUDP, In, InPlace, Requests
<1>3. CASE LeftTCP
  <2>1. CASE In("tcp", req, 2, <<Start>>)
    BY <1>0, <1>3, <2>1, AtAwait, OneFrame, FrameParts DEF LeftTCP, In, InPlace, Requests, Start, Moved, Between
  <2>2. CASE In("tcp", req, 3, <<>>)
    BY <1>3, <2>2, AtData DEF LeftTCP, In, InPlace, Requests
  <2> QED BY <1>3, <2>1, <2>2 DEF LeftTCP
<1>4. CASE LeftMTU
  <2>1. CASE In("mtu", req, 2, <<>>)
    BY <1>0, <1>4, <2>1, AtData DEF LeftMTU, In, InPlace, Requests, Moved, Between, Loop
  <2>2. CASE In("mtu", req, 3, <<>>)
    BY <1>0, <1>4, <2>2, AtEnd, OneFrame DEF LeftMTU, In, Between, Loop, Answered, Result
  <2>3. CASE Loop(<<>>)
    BY <1>0, <1>4, <2>3, AtPoll, AtRead DEF LeftMTU, Loop, Between, In, Result
  <2> QED BY <1>4, <2>1, <2>2, <2>3 DEF LeftMTU
<1> QED BY <1>0, <1>1, <1>2, <1>3, <1>4 DEF Between, Gone

\* While a request is on its way, and the answer to it.
LEMMA ServedAsking ==
  ASSUME Serving, NEW k \in Requests, Asking(k)
  PROVE  Asking(k)'
<1>0. /\ stray' = stray /\ req' = req /\ srv.at # "ended" /\ Late' = Late
      /\ srv.id \in Nat /\ req \in Nat
  <2>1. srv.id \in Nat /\ req \in Nat
    BY DEF Serving, TypeInv, TypeOK
  <2> QED BY <2>1, OnlyServer DEF besides, Late
<1>1. CASE Loop(<<Frame("test_req", req, k)>>) /\ down = Late
  <2> DEFINE q == Frame("test_req", req, k)
  <2>1. CASE srv.at = "poll"
    BY <1>0, <1>1, <2>1, AtPoll DEF Asking, Loop
  <2>2. CASE srv.at = "read"
    <3>1. up = <<q>> /\ q.type = "test_req" /\ q.id = req /\ q.kind = k
      BY <1>1, <2>2, FrameParts DEF Loop
    <3> HIDE DEF q
    <3>2. Head(up) = q /\ Tail(up) = <<>>
      BY <3>1, OneFrame
    <3>3. /\ up' = <<>> /\ down' = Late' /\ srv'.kind = k /\ srv'.id = req' /\ srv'.step = 1 /\ srv'.left = Samples /\ ~fed'
          /\ srv'.at \in {"handler", "error"}
      BY <1>0, <1>1, <2>2, <3>1, <3>2, AtRead
    <3> QED BY <3>3 DEF Asking, In, InError
  <2> QED BY <1>0, <1>1, <2>1, <2>2 DEF Loop
<1>2. CASE In(k, req, 1, <<>>) /\ down = Late /\ srv.left = Samples /\ ~fed
  BY <1>0, <1>2, AtReady DEF Asking, In, InPlace, Moved, Answered, Ready
<1>3. CASE InError(req, <<>>) /\ down = Late
  BY <1>0, <1>3, AtError DEF Asking, InError, Loop, Answered, Error
<1>4. CASE k = "mtu" /\ In(k, req, 2, <<>>) /\ down = Append(Late, Ready)
  BY <1>0, <1>4, AtData DEF Asking, In, InPlace, Moved, Ready
<1>5. CASE k = "mtu" /\ In(k, req, 3, <<>>) /\ down = Append(Late, Ready)
  BY <1>0, <1>5, AtEnd DEF Asking, In, Answered, Ready, Result, Loop
<1>6. CASE k = "latency" /\ In(k, req, 2, <<>>) /\ srv.left = Samples
  BY <1>6, AtEcho DEF In, InPlace
<1>7. CASE k \in {"tcp", "udp", "jitter", "bufferbloat"} /\ In(k, req, 2, <<>>)
  BY <1>7, AtAwait DEF In, InPlace
<1>8. CASE Loop(<<>>) /\ down = Append(Late, Error)
  BY <1>0, <1>8, AtPoll, AtRead DEF Asking, Loop, Error
<1>9. CASE k = "mtu" /\ Loop(<<>>) /\ down = Append(Append(Late, Ready), Result)
  BY <1>0, <1>9, AtPoll, AtRead DEF Asking, Loop, Ready, Result
<1> QED BY <1>1, <1>2, <1>3, <1>4, <1>5, <1>6, <1>7, <1>8, <1>9 DEF Asking, Requests

LEMMA ServedAfterUDP ==
  ASSUME Serving, NEW k \in Requests, AfterUDP(k)
  PROVE  AfterUDP(k)'
<1>0. stray' = stray /\ req' = req /\ srv.at # "ended" /\ DialFails' = DialFails
  BY OnlyServer DEF besides, DialFails
<1> DEFINE q == Frame("test_req", req, k)
<1>1. ASSUME NEW l \in {"udp", "jitter"}, In(l, req - 1, 2, <<q>>), down = <<>>
      PROVE  InError(req - 1, <<>>)' /\ down' = <<>>
  <2>1. q.type = "test_req"
    BY FrameParts
  <2> HIDE DEF q
  <2> QED BY <1>0, <1>1, <2>1, AtAwait, OneFrame DEF In, InError, InPlace, Requests, Moved
<1>2. CASE InError(req - 1, <<>>) /\ down = <<>>
  <2>1. srv'.at = "poll" /\ up' = <<>> /\ down' = <<Frame("error", req - 1, "none")>>
    BY <1>2, AtError, OneFrame DEF InError, Answered
  <2> QED BY <1>0, <2>1 DEF AfterUDP, Loop
<1>3. CASE Loop(<<>>) /\ down = <<Frame("error", req - 1, "none")>>
  BY <1>0, <1>3, AtPoll, AtRead DEF AfterUDP, Loop
<1> QED BY <1>0, <1>1, <1>2, <1>3 DEF AfterUDP

LEMMA ServedRequested ==
  ASSUME Serving, NEW k \in Requests, Requested(k)
  PROVE  Requested(k)'
<1>0. /\ stray' = stray /\ req' = req /\ srv.at # "ended" /\ Late' = Late
      /\ DialFails' = DialFails /\ Faults' = Faults
  BY OnlyServer DEF besides, Late, DialFails, Faults
<1> DEFINE q == Frame("test_req", req, k)
<1>1. CASE AfterMTU(k)
  <2>1. CASE In("mtu", req - 1, 2, <<q>>)
    BY <1>0, <1>1, <2>1, AtData DEF AfterMTU, In, InPlace, Requests, Moved, Requested
  <2>2. CASE In("mtu", req - 1, 3, <<q>>)
    <3>1. srv'.at = "poll" /\ up' = <<q>> /\ down' = Append(<<>>, Frame("test_result", req - 1, "none")) /\ stray
      BY <1>1, <2>2, AtEnd DEF In, Answered, AfterMTU
    <3>2. down' = Late'
      BY <1>0, <3>1, OneFrame DEF Late
    <3> QED BY <1>0, <3>1, <3>2 DEF Requested, Asking, Loop
  <2> QED BY <1>1, <2>1, <2>2 DEF AfterMTU
<1>2. CASE AfterUDP(k)
  BY <1>2, ServedAfterUDP DEF Requested
<1>3. CASE AfterTCP(k)
  <2> DEFINE s == Frame("test_start", req - 1, "none")
  <2>1. CASE In("tcp", req - 1, 2, Append(<<s>>, q))
    <3>1. s.type = "test_start"
      BY FrameParts
    <3> HIDE DEF s, q
    <3>2. Head(up) = s /\ Tail(up) = <<q>>
      BY <2>1, TwoFrames DEF In
    <3>3. In("tcp", req - 1, 3, <<q>>)' /\ down' = down /\ fed' = fed
      BY <1>0, <2>1, <3>1, <3>2, AtAwait DEF In, InPlace, Requests, Moved, q
    <3> QED BY <1>0, <1>3, <3>3 DEF AfterTCP, Requested, q
  <2>2. CASE In("tcp", req - 1, 3, <<q>>)
    BY <1>3, <2>2, AtData DEF AfterTCP, In, InPlace, Requests
  <2> QED BY <1>3, <2>1, <2>2 DEF AfterTCP
<1>4. CASE Asking(k)
  BY <1>4, ServedAsking DEF Requested
<1> QED BY <1>0, <1>1, <1>2, <1>3, <1>4 DEF Requested, Gone

\* In each of the other steps.
LEMMA ServedWorking ==
  ASSUME Serving, NEW k \in Requests, NEW steps \in SUBSET {2, 3, 4}, Working(k, steps),
         \/ k = "latency" /\ steps = {2, 3}
         \/ k = "mtu" /\ steps = {2, 3}
         \/ k \in {"tcp", "udp", "jitter"} /\ steps = {3, 4}
         \/ k = "bufferbloat" /\ steps = {4}
  PROVE  Working(k, steps)'
<1>0. req' = req /\ srv.at # "ended"
  BY OnlyServer DEF besides
<1>1. CASE Loop(<<>>) /\ down = <<Result>>
  BY <1>0, <1>1, AtPoll, AtRead DEF Working, Loop, Result
<1>2. ASSUME k \in {"latency", "mtu"}, In(k, req, 3, <<>>), down = <<>>
        PROVE  Working(k, steps)'
  BY <1>0, <1>2, AtEnd, OneFrame DEF Working, Loop, Result, In, Answered
<1>3. ASSUME k \in {"tcp", "udp", "jitter", "bufferbloat"}, In(k, req, 4, <<>>), down = <<>>
        PROVE  Working(k, steps)'
  BY <1>0, <1>3, AtEnd, OneFrame DEF Working, Loop, Result, In, Answered
<1>4. ASSUME k = "mtu", steps = {2, 3}, In(k, req, 2, <<>>), down = <<>>
        PROVE  Working(k, steps)'
  BY <1>0, <1>4, AtData DEF Working, In, InPlace, Moved
<1>5. ASSUME k \in {"tcp", "udp", "jitter"}, steps = {3, 4}, In(k, req, 3, <<>>), down = <<>>
        PROVE  Working(k, steps)'
  BY <1>0, <1>5, AtData DEF Working, In, InPlace, Moved
<1>6. ASSUME k = "latency", steps = {2, 3}, In(k, req, 2, <<>>), down = <<>>
        PROVE  Working(k, steps)'
  BY <1>0, <1>6, AtEcho DEF Working, In, InPlace, Moved
<1> QED BY <1>1, <1>2, <1>3, <1>4, <1>5, <1>6 DEF Working

LEMMA ServedStarted ==
  ASSUME Serving, NEW k \in {"tcp", "udp", "jitter", "bufferbloat"}
  PROVE  ~Started(k)
BY AtAwait DEF Started, In, InPlace, Requests

LEMMA ServedOpening == Serving /\ Opening => Opening'
<1> SUFFICES ASSUME Serving, Opening PROVE Opening'
  OBVIOUS
<1>0. req' = req /\ port' = port
  BY OnlyServer DEF besides
<1>1. CASE In("tcp", req, 2, <<Start>>)
  BY <1>0, <1>1, AtAwait, OneFrame, FrameParts DEF Opening, In, InPlace, Requests, Start, Moved
<1>2. CASE In("tcp", req, 3, <<>>)
  BY <1>2, AtData DEF Opening, In, InPlace, Requests
<1> QED BY <1>1, <1>2 DEF Opening

LEMMA ServedFinishing ==
  ASSUME Serving, NEW k \in {"tcp", "udp", "jitter"}, Finishing(k)
  PROVE  Finishing(k)'
<1>0. req' = req
  BY OnlyServer DEF besides
<1>1. CASE In(k, req, 2, <<Start>>) /\ down = <<>>
  BY <1>0, <1>1, AtAwait, OneFrame, FrameParts DEF In, InPlace, Requests, Start, Moved, Finishing, Working
<1>2. CASE Working(k, {3, 4})
  BY <1>2, ServedWorking DEF Finishing, Requests
<1> QED BY <1>1, <1>2 DEF Finishing

LEMMA ServedEchoing == Serving /\ Echoing => Echoing'
<1> SUFFICES ASSUME Serving, Echoing PROVE Echoing'
  OBVIOUS
<1>0. /\ req' = req /\ srv.at # "ended" /\ sample' = sample /\ sample.left \in Nat
      /\ sample.waiting => sample.left > 0
  BY OnlyServer DEF besides, Serving, TypeInv, TypeOK
<1>1. CASE ~sample.waiting
  <2>1. CASE In("latency", req, 2, <<>>) /\ down = <<>> /\ srv.left = sample.left
    BY <1>0, <1>1, <2>1, AtEcho DEF Echoing, In, InPlace, Requests, Moved
  <2>2. CASE In("latency", req, 3, <<>>) /\ down = <<>> /\ sample.left = 0
    BY <1>0, <1>1, <2>2, AtEnd, OneFrame DEF Echoing, In, Loop, Answered, Result
  <2>3. CASE Loop(<<>>) /\ down = <<Result>> /\ sample.left = 0
    BY <1>0, <1>1, <2>3, AtPoll, AtRead DEF Echoing, Loop, Result
  <2> QED BY <1>1, <2>1, <2>2, <2>3 DEF Echoing
<1>2. CASE sample.waiting
  <2>1. CASE In("latency", req, 2, <<Start>>) /\ down = <<>> /\ srv.left = sample.left
    <3>1. Start.type = "test_start" /\ Start = Frame("test_start", req, "none") /\ Start' = Start
      BY <1>0, FrameParts DEF Start
    <3>2. In("latency", req, 2, <<>>)' /\ down' = <<Start>> /\ srv'.left = sample.left - 1
      BY <1>0, <1>2, <2>1, <3>1, AtEcho, OneFrame DEF In, InPlace, Requests, Moved, Answered
    <3> QED BY <1>0, <1>2, <3>1, <3>2 DEF Echoing
  <2>2. CASE In("latency", req, 2, <<>>) /\ down = <<Start>> /\ srv.left = sample.left - 1
    BY <1>0, <1>2, <2>2, AtEcho DEF Echoing, In, InPlace, Requests, Moved, Start
  <2>3. CASE In("latency", req, 3, <<>>) /\ down = <<Start>> /\ sample.left = 1
    BY <1>0, <1>2, <2>3, AtEnd DEF Echoing, In, Loop, Answered, Result, Start
  <2>4. CASE Loop(<<>>) /\ down = Append(<<Start>>, Result) /\ sample.left = 1
    BY <1>0, <1>2, <2>4, AtPoll, AtRead DEF Echoing, Loop, Result, Start
  <2> QED BY <1>2, <2>1, <2>2, <2>3, <2>4 DEF Echoing
<1> QED BY <1>1, <1>2

LEMMA ServedProbing ==
  ASSUME Serving, Probing, "overrun" \notin Faults
  PROVE  Probing'
<1>0. req' = req /\ sample' = sample
  BY OnlyServer DEF besides
<1>1. Start.type = "test_start" /\ Start = Frame("test_start", req, "none") /\ Start' = Start
  BY <1>0, FrameParts DEF Start
<1>2. CASE ~sample.waiting
  <2>1. CASE In("bufferbloat", req, 2, <<Start>>) /\ down = <<>>
    BY <1>0, <1>1, <1>2, <2>1, AtAwait, OneFrame DEF Probing, In, InPlace, Requests, Moved
  <2>2. CASE In("bufferbloat", req, 3, <<>>) /\ down = <<>>
    BY <1>2, <2>2, AtEchoUntil DEF In, InPlace, Requests
  <2> QED BY <1>2, <2>1, <2>2 DEF Probing
<1>3. CASE sample.waiting
  <2>1. CASE In("bufferbloat", req, 2, Append(<<Start>>, Start)) /\ down = <<>>
    <3>1. Head(up) = Start /\ Tail(up) = <<Start>> /\ up # <<>>
      BY <2>1, TwoFrames DEF In
    <3>2. In("bufferbloat", req, 3, <<Start>>)' /\ down' = down
      BY <1>0, <1>1, <2>1, <3>1, AtAwait DEF In, InPlace, Requests, Moved
    <3> QED BY <1>0, <1>1, <1>3, <2>1, <3>2 DEF Probing
  <2>2. CASE In("bufferbloat", req, 3, <<Start>>) /\ down = <<>>
    <3>1. In("bufferbloat", req, 3, <<>>)' /\ down' = <<Start>>
      BY <1>0, <1>1, <2>2, AtEchoUntil, OneFrame DEF In, InPlace, Requests, Moved, Answered
    <3> QED BY <1>0, <1>1, <1>3, <3>1 DEF Probing
  <2>3. CASE In("bufferbloat", req, 3, <<>>)
    BY <2>3, AtEchoUntil DEF In, InPlace, Requests
  <2> QED BY <1>3, <2>1, <2>2, <2>3 DEF Probing
<1> QED BY <1>2, <1>3

LEMMA ServedEnding ==
  ASSUME Serving, Ending, "overrun" \notin Faults
  PROVE  Ending'
<1>0. req' = req
  BY OnlyServer DEF besides
<1>1. /\ Start.type = "test_start" /\ Bye.type = "goodbye" /\ Bye' = Bye
  BY <1>0, FrameParts DEF Start, Bye
<1>2. CASE Working("bufferbloat", {4})
  BY <1>2, ServedWorking DEF Ending, Requests
<1>3. CASE In("bufferbloat", req, 2, Append(<<Start>>, Bye)) /\ down = <<>>
  <2>1. Head(up) = Start /\ Tail(up) = <<Bye>> /\ up # <<>>
    BY <1>3, TwoFrames DEF In
  <2>2. In("bufferbloat", req, 3, <<Bye>>)' /\ down' = down
    BY <1>0, <1>1, <1>3, <2>1, AtAwait DEF In, InPlace, Requests, Moved
  <2> QED BY <1>0, <1>1, <1>3, <2>2 DEF Ending
<1>4. CASE In("bufferbloat", req, 3, <<Bye>>) /\ down = <<>>
  <2>1. In("bufferbloat", req, 4, <<>>)' /\ down' = down
    BY <1>0, <1>1, <1>4, AtEchoUntil, OneFrame DEF In, InPlace, Requests, Moved
  <2> QED BY <1>0, <1>4, <2>1 DEF Ending, Working
<1> QED BY <1>2, <1>3, <1>4 DEF Ending

\* In every step.
LEMMA ServedWire ==
  ASSUME Serving, Usual, NEW k \in Requests, NEW s \in StepsOf(k), Wire(k, s)
  PROVE  Wire(k, s)'
<1>0. stray' = stray /\ sample' = sample
  BY OnlyServer DEF besides
<1>1. CASE s = "ready"
  BY <1>1, ServedRequested DEF Wire
<1>2. CASE s # "ready" /\ k = "latency"
  BY <1>0, <1>2, ServedEchoing, ServedWorking DEF Wire, StepsOf
<1>3. CASE s # "ready" /\ k = "mtu"
  BY <1>0, <1>3, ServedWorking DEF Wire, StepsOf
<1>4. CASE s # "ready" /\ k = "tcp"
  BY <1>0, <1>4, ServedStarted, ServedOpening, ServedFinishing DEF Wire, StepsOf
<1>5. CASE s # "ready" /\ k \in {"udp", "jitter"}
  BY <1>0, <1>5, ServedStarted, ServedFinishing DEF Wire, StepsOf
<1>6. CASE s # "ready" /\ k = "bufferbloat"
  BY <1>0, <1>6, ServedStarted, ServedProbing, ServedEnding DEF Wire, StepsOf, Usual
<1> QED BY <1>1, <1>2, <1>3, <1>4, <1>5, <1>6 DEF Requests

(***************************************************************************)
(* Where the client is.                                                    *)
(***************************************************************************)
LEMMA SameClient ==
  ASSUME UNCHANGED <<scene, main, cur, ip, res>>
  PROVE  /\ Plan' = Plan /\ Kind' = Kind /\ Program' = Program /\ Usual' = Usual
         /\ AtRest' <=> AtRest
         /\ \A s \in StepNames \cup {"req"} : At(s)' <=> At(s)
<1>1. Plan' = Plan /\ Usual' = Usual
  BY PlanFixed DEF Usual, DialFails, Faults
<1>2. Program' = Program /\ Kind' = Kind
  BY <1>1 DEF Program, Kind
<1>3. \A s : At(s)' <=> At(s)
  BY <1>2 DEF At
<1> QED BY <1>1, <1>2, <1>3 DEF AtRest

\* A client in a step is at a request that has this step.
LEMMA StepKind ==
  ASSUME TypeInv, NEW s \in StepNames, At(s)
  PROVE  /\ Kind \in Requests /\ s \in StepsOf(Kind) /\ ~AtRest
         /\ \A x \in StepNames : At(x) => x = s
         /\ main \in {"testing", "draining"} /\ res = "none"
<1>1. /\ main \in {"testing", "draining"} /\ res = "none"
      /\ ip \in 1..Len(Program) /\ Program[ip][1] = s /\ s # "req"
  BY DEF At, StepNames
<1>2. InOrder(Program, Plan[cur], ip)
  BY <1>1, ProgramType, ProgramInOrder DEF Program
<1>3. Kind \in Requests /\ s \in StepsOf(Kind)
  BY <1>1, <1>2 DEF InOrder, Kind
<1>4. Program # <<>>
  BY <1>1
<1> QED BY <1>1, <1>3, <1>4 DEF At, AtRest

\* The step after one that succeeds.
LEMMA Onward ==
  ASSUME TypeInv, NEW s \in StepNames, At(s), NEW k, k = Kind, Proceed, UNCHANGED <<scene, main, cur>>,
         Final(s) => Between', ~Final(s) => Wire(k, After(k, s))'
  PROVE  Coupling'
<1>1. /\ main \in {"testing", "draining"} /\ res = "none"
      /\ ip \in 1..Len(Program) /\ Program[ip][1] = s /\ s # "req" /\ ip' = ip + 1
      /\ res' = IF ip = Len(Program) THEN "ok" ELSE "none"
      /\ Len(Program) \in Nat
  BY ProgramType DEF At, StepNames, Proceed
<1>2. InOrder(Program, Plan[cur], ip)
  BY <1>1, ProgramType, ProgramInOrder DEF Program
<1>3. Plan' = Plan /\ Program' = Program
  BY PlanFixed DEF Program
<1>4. CASE Final(s)
  <2>1. ip = Len(Program) \/ Program[ip + 1][1] = "req"
    BY <1>1, <1>2, <1>4 DEF InOrder
  <2>2. \A x \in StepNames : ~At(x)'
    BY <1>1, <1>3, <2>1 DEF At, StepNames
  <2>3. main' \notin {"hello", "ack"} /\ Between'
    BY <1>1, <1>4
  <2> QED BY <2>2, <2>3 DEF Coupling
<1>5. CASE ~Final(s)
  <2>1. ip < Len(Program) /\ Program[ip + 1][1] = After(k, s) /\ RequestOf(Plan[cur], ip + 1) = k
    BY <1>1, <1>2, <1>5 DEF InOrder, Kind
  <2>2. Kind' = k
    BY <1>1, <1>3, <2>1 DEF Kind
  <2>3. \A x \in StepNames : At(x)' => x = After(k, s)
    BY <1>1, <1>3, <2>1 DEF At
  <2>4. After(k, s) # "req"
    <3>1. k \in Requests /\ s \in StepsOf(k)
      BY StepKind
    <3> QED BY <3>1, <1>5 DEF After, StepsOf, Requests, Final
  <2>5. ~AtRest'
    BY <1>1, <1>3, <2>1, <2>4 DEF AtRest, At
  <2> QED BY <1>1, <1>5, <2>2, <2>3, <2>5 DEF Coupling
<1> QED BY <1>4, <1>5

\* A test that fails.
LEMMA Stopped ==
  ASSUME main \in {"testing", "draining"}, main' = main, res' # "none", Between'
  PROVE  Coupling'
BY DEF Coupling, At

\* The coupling is preserved by the session.
LEMMA CoupledSession ==
  ASSUME TypeInv, Coupling, Session
  PROVE  Coupling'
<1> SUFFICES ASSUME Usual', conn' = "open", main' # "done" PROVE Coupling'
  BY DEF Coupling, AtRest, At
<1>1. UNCHANGED besides
  BY DEF Session, Greet, Poll, ReadRequest, SendReady, AwaitStart, Echo, EchoUntil, ServeData, Answer, aside, besides, inTest
<1>2. /\ Serving /\ UNCHANGED <<scene, main, cur, ip, res>>
  BY <1>1 DEF Serving, besides
<1>3. Usual /\ conn = "open"
  BY <1>1, <1>2, SameClient DEF besides
<1>4. main' = "hello" => Greeting'
  BY <1>2, <1>3, ServedGreeting DEF Coupling
<1>5. main' = "ack" => Greeted'
  BY <1>2, <1>3, ServedGreeted DEF Coupling
<1>6. AtRest' => Between'
  BY <1>2, <1>3, SameClient, ServedBetween DEF Coupling
<1>7. ASSUME NEW s \in StepNames, At(s)' PROVE Wire(Kind, s)'
  <2>1. At(s)
    BY <1>2, <1>7, SameClient
  <2> DEFINE k == Kind
  <2>2. PICK m \in Requests : m = Kind
    BY <2>1, StepKind
  <2>3. s \in StepsOf(m) /\ Wire(m, s)
    BY <1>3, <2>1, <2>2, StepKind DEF Coupling
  <2>4. Wire(m, s)'
    BY <1>2, <1>3, <2>3, ServedWire
  <2>5. Kind' = m
    BY <1>2, <2>2, SameClient
  <2> QED BY <2>4, <2>5
<1> QED BY <1>4, <1>5, <1>6, <1>7 DEF Coupling

(***************************************************************************)
(* The steps of a test, on a connection that is open.                      *)
(***************************************************************************)
Going == TypeInv /\ ConnInv /\ Coupling /\ Usual /\ conn = "open"
Reads == FramesPaired /\ FramesExpected

\* What a step reads is of its request, and of the type it expects.
LEMMA ReadsWell ==
  ASSUME TypeInv, NEW s \in ReadingSteps, At(s), NEW f, Take(f), UNCHANGED <<scene, req>>,
         \/ f.id = req
         \/ DialFails # {} /\ f.type = "error" /\ f.id = req - 1,
         f.type \in Expected(s)
  PROVE  Reads'
<1>1. last' = [step |-> s, type |-> f.type, id |-> f.id, req |-> req]
  BY DEF Take, At
<1>2. DialFails' = DialFails
  BY DEF DialFails
<1> QED BY <1>1, <1>2 DEF Reads, FramesPaired, FramesExpected, Expected

\* A step that reads nothing reads nothing wrong.
LEMMA ReadsNothing ==
  ASSUME Reads, UNCHANGED <<scene, last>>
  PROVE  Reads'
BY DEF Reads, FramesPaired, FramesExpected, Expected, DialFails

\* The steps of a test, one by one: sending the request, and its answer.
LEMMA GoingRequest ==
  ASSUME Going, Reads, SendRequest
  PROVE  Coupling' /\ Reads'
<1>1. /\ main = "testing" /\ main' = main /\ AtRest /\ Between /\ srv' = srv /\ UNCHANGED <<scene, cur, stray, fed, down, conn>>
      /\ At("req") /\ req \in Nat
  BY DEF Going, TypeInv, TypeOK, ConnInv, SendRequest, At, AtRest, Coupling, elsewhere, serverVars
<1>2. Reads'
  BY <1>1, ReadsNothing DEF SendRequest
<1>3. CASE SendFails /\ Fail /\ UNCHANGED req
  <2>1. srv.at = "ended" /\ up' = up /\ res' = "err"
    BY <1>3 DEF SendFails, Going, Fail
  <2>2. Between'
    BY <1>1, <1>3, <2>1 DEF Between, Quiet, Gone, LeftUDP, LeftTCP, LeftMTU, In, Loop, Result
  <2> QED BY <1>1, <1>2, <2>1, <2>2, Stopped
<1>4. CASE req' = req + 1 /\ Send(Frame("test_req", req + 1, Program[ip][2])) /\ Proceed
  <2>1. /\ ip \in 1..Len(Program) /\ Program[ip][1] = "req" /\ ip' = ip + 1 /\ Len(Program) \in Nat
        /\ res' = IF ip = Len(Program) THEN "ok" ELSE "none"
    BY <1>1, <1>4, ProgramType DEF At, Proceed, Going
  <2>2. InOrder(Program, Plan[cur], ip)
    BY <1>1, <2>1, ProgramType, ProgramInOrder DEF Program, Going
  <2>3. PICK k \in Requests : k = Kind
    BY <2>2 DEF InOrder, Kind
  <2>4. /\ Program[ip][2] = k /\ ip < Len(Program) /\ Program[ip + 1][1] = "ready"
        /\ RequestOf(Plan[cur], ip + 1) = k
    BY <2>1, <2>2, <2>3 DEF InOrder, Kind
  <2>5. Plan' = Plan /\ Program' = Program /\ Faults' = Faults /\ DialFails' = DialFails
    BY <1>1, PlanFixed DEF Program, Faults, DialFails
  <2>6. Kind' = k /\ \A x \in StepNames : At(x)' => x = "ready"
    BY <1>1, <2>1, <2>4, <2>5 DEF Kind, At
  <2>7. ~AtRest'
    BY <1>1, <2>1, <2>4, <2>5 DEF AtRest, At
  <2>0. PICK n \in Nat : n = req + 1
    BY <1>1
  <2> DEFINE q == Frame("test_req", n, k)
  <2>8. /\ up' = IF srv.at = "ended" THEN up ELSE Append(up, q)
        /\ req' - 1 = req /\ req' = n
    BY <1>1, <1>4, <2>0, <2>4 DEF Send
  <2>9. Requested(k)'
    <3>1. CASE Quiet
      <4>1. Loop(<<q>>)'
        BY <1>1, <2>8, <3>1, OneFrame DEF Quiet, Loop
      <4> QED BY <1>1, <2>8, <3>1, <4>1 DEF Quiet, Requested, Asking, Late, Loop
    <3>2. CASE Gone
      BY <1>1, <3>2 DEF Gone, Requested
    <3>3. CASE LeftUDP
      BY <1>1, <2>5, <2>8, <3>3, OneFrame DEF LeftUDP, In, Requested, AfterUDP
    <3>4. CASE LeftTCP
      BY <1>1, <2>5, <2>8, <3>4, OneFrame DEF LeftTCP, In, Requested, AfterTCP, Start
    <3>5. CASE LeftMTU
      <4>1. CASE Loop(<<>>) /\ down = <<Result>>
        <5>1. Loop(<<q>>)' /\ down' = Late' /\ stray
          BY <1>1, <2>8, <3>5, <4>1, OneFrame DEF LeftMTU, Loop, Late, Result
        <5> QED BY <2>8, <5>1 DEF Requested, Asking, Loop
      <4>2. ASSUME NEW step \in {2, 3}, In("mtu", req, step, <<>>), down = <<>> PROVE Requested(k)'
        BY <1>1, <2>8, <3>5, <4>2, OneFrame DEF LeftMTU, In, Requested, AfterMTU
      <4> QED BY <3>5, <4>1, <4>2 DEF LeftMTU
    <3> QED BY <1>1, <3>1, <3>2, <3>3, <3>4, <3>5 DEF Between
  <2> QED BY <1>1, <1>2, <2>6, <2>7, <2>9 DEF Coupling, Wire
<1> QED BY <1>3, <1>4 DEF SendRequest

LEMMA GoingReady ==
  ASSUME Going, Reads, AwaitReady
  PROVE  Coupling' /\ Reads'
<1>1. /\ main' = main /\ UNCHANGED <<scene, main, cur, stray, srv, req, fed, up, conn>>
      /\ sample' = [left |-> Samples, waiting |-> FALSE]
      /\ At("ready") /\ "ready" \in StepNames /\ "ready" \in ReadingSteps /\ main \in {"testing", "draining"}
      /\ req \in Nat
  BY DEF AwaitReady, elsewhere, serverVars, StepNames, ReadingSteps, At, Going, TypeInv, TypeOK
<1>2. PICK k \in Requests : k = Kind
  BY <1>1, StepKind DEF Going
<1>3. Requested(k)
  BY <1>1, <1>2 DEF Going, Coupling, Wire
<1>4. CASE ReceiveFails /\ Fail
  <2>1. Gone' /\ res' = "err" /\ last' = last
    BY <1>1, <1>4 DEF ReceiveFails, Fail, Going, Gone
  <2> QED BY <1>1, <2>1, Stopped, ReadsNothing DEF Between
<1>5. ASSUME NEW f \in Incoming, Take(f), IF f.type = "error" THEN Fail ELSE Proceed,
             port' = IF f.type = "test_ready" THEN f.id ELSE 0
      PROVE  Coupling' /\ Reads'
  <2>1. f = Head(down) /\ ~stray /\ down # <<>> /\ down' = Tail(down) /\ Late = <<>> /\ srv' = srv
    BY <1>1, <1>5, Incoming1 DEF Going, Take, Late
  <2>2. Ready.type = "test_ready" /\ Ready.id = req /\ Error.type = "error" /\ Error.id = req
    BY FrameParts DEF Ready, Error
  <2>3. ASSUME f.type = "error", down' = <<>>, Loop(<<>>), f.id = req \/ (DialFails # {} /\ f.id = req - 1)
        PROVE  Coupling' /\ Reads'
    <3>1. Quiet' /\ res' = "err"
      BY <1>1, <1>5, <2>1, <2>3 DEF Quiet, Loop, Fail
    <3>2. Reads'
      BY <1>1, <1>5, <2>3, ReadsWell DEF Expected, Going
    <3> QED BY <1>1, <3>1, <3>2, Stopped DEF Between
  <2>4. ASSUME f = Ready, Wire(k, After(k, "ready"))' PROVE Coupling' /\ Reads'
    <3>1. Reads'
      BY <1>1, <1>5, <2>2, <2>4, ReadsWell DEF Expected, Going
    <3>2. Proceed
      BY <1>5, <2>2, <2>4
    <3> QED BY <1>1, <1>2, <2>4, <3>1, <3>2, Onward DEF Going, Final
  <2>5. CASE In(k, req, 2, <<>>) /\ down = Append(<<>>, Ready) /\ srv.left = Samples /\ ~fed
    <3>1. f = Ready /\ down' = <<>> /\ port' = req
      BY <1>5, <2>1, <2>2, <2>5, OneFrame
    <3>2. In(k, req, 2, <<>>)' /\ req' = req /\ ~stray' /\ ~sample'.waiting /\ sample'.left = Samples /\ ~fed'
          /\ srv'.left = Samples
      BY <1>1, <2>1, <2>5 DEF In
    <3>3. Wire(k, After(k, "ready"))'
      <4>1. CASE k = "latency"
        BY <3>1, <3>2, <4>1 DEF After, Wire, Echoing, In
      <4>2. CASE k = "mtu"
        BY <3>1, <3>2, <4>2 DEF After, Wire, Working, In
      <4>3. CASE k \in {"tcp", "udp", "jitter", "bufferbloat"}
        BY <3>1, <3>2, <4>3 DEF After, Wire, Started, In
      <4> QED BY <4>1, <4>2, <4>3 DEF Requests
    <3> QED BY <2>4, <3>1, <3>3
  <2>6. CASE k = "mtu" /\ In(k, req, 3, <<>>) /\ down = Append(<<>>, Ready)
    <3>1. f = Ready /\ down' = <<>>
      BY <2>1, <2>6, OneFrame
    <3>2. Wire(k, After(k, "ready"))'
      BY <1>1, <2>1, <2>6, <3>1 DEF After, Wire, Working, In
    <3> QED BY <2>4, <3>1, <3>2
  <2>7. CASE k = "mtu" /\ Loop(<<>>) /\ down = Append(Append(<<>>, Ready), Result)
    <3>1. f = Ready /\ down' = <<Result>>
      BY <2>1, <2>7, OneFrame, TwoFrames
    <3>2. Wire(k, After(k, "ready"))'
      BY <1>1, <2>1, <2>7, <3>1 DEF After, Wire, Working, Loop, Result
    <3> QED BY <2>4, <3>1, <3>2
  <2>8. CASE Loop(<<>>) /\ down = Append(<<>>, Error)
    <3>1. f = Error /\ down' = <<>>
      BY <2>1, <2>8, OneFrame
    <3> QED BY <2>2, <2>3, <2>8, <3>1
  <2>9. CASE DialFails # {} /\ Loop(<<>>) /\ down = <<Frame("error", req - 1, "none")>>
    <3>1. f = Frame("error", req - 1, "none") /\ down' = <<>>
      BY <2>1, <2>9, OneFrame
    <3>2. f.type = "error" /\ f.id = req - 1
      BY <3>1, FrameParts
    <3> QED BY <2>3, <2>9, <3>1, <3>2
  <2> QED BY <1>3, <2>1, <2>5, <2>6, <2>7, <2>8, <2>9 DEF Requested, Asking, AfterMTU, AfterUDP, AfterTCP, Gone
<1> QED BY <1>4, <1>5 DEF AwaitReady

\* What is common to the steps after ready.
LEMMA GoingAt ==
  ASSUME Going, NEW s \in StepNames \ {"ready"}, At(s), NEW k, k = Kind
  PROVE  /\ k \in Requests /\ s \in StepsOf(k) /\ Wire(k, s) /\ ~stray /\ main \in {"testing", "draining"}
         /\ req \in Nat /\ sample.left \in Nat
<1>1. k \in Requests /\ s \in StepsOf(k) /\ main \in {"testing", "draining"}
  BY StepKind DEF Going
<1>2. Wire(k, s)
  BY DEF Going, Coupling
<1>3. req \in Nat /\ sample.left \in Nat
  BY DEF Going, TypeInv, TypeOK
<1> QED BY <1>1, <1>2, <1>3 DEF Wire

\* A step that sends nothing and reads nothing, or that the server does not see.
Silent == UNCHANGED <<scene, main, cur, stray, srv, req, fed, port, conn>>

LEMMA GoingDial ==
  ASSUME Going, Reads, DialUDP
  PROVE  Coupling' /\ Reads'
<1>1. Silent /\ UNCHANGED <<sample, last, up, down>> /\ At("dial") /\ "dial" \in StepNames \ {"ready"}
  BY DEF DialUDP, quiet, elsewhere, serverVars, StepNames, Silent
<1>2. PICK k : k = Kind
  OBVIOUS
<1>3. k \in Requests /\ k \in {"mtu", "udp", "jitter"} /\ Wire(k, "dial") /\ ~stray /\ main \in {"testing", "draining"}
  BY <1>1, <1>2, GoingAt DEF StepsOf, Requests
<1>4. Reads'
  BY <1>1, ReadsNothing DEF Silent
<1>5. CASE Proceed
  <2>1. Wire(k, After(k, "dial"))'
    BY <1>1, <1>3 DEF Silent, Wire, After, Working, Started, In, Loop, Result
  <2> QED BY <1>1, <1>2, <1>4, <1>5, <2>1, Onward DEF Final, Silent, Going
<1>6. CASE Plan[cur] \in DialFails /\ Fail
  <2>1. Plan[cur] = k /\ k \in {"udp", "jitter"}
    BY <1>2, <1>3, <1>6 DEF Kind, RequestOf, Usual, Going
  <2>2. LeftUDP'
    BY <1>1, <1>3, <1>6, <2>1 DEF Silent, LeftUDP, DialFails, Wire, Started, In
  <2> QED BY <1>1, <1>3, <1>4, <1>6, <2>2, Stopped DEF Between, Fail, Silent
<1> QED BY <1>5, <1>6 DEF DialUDP

LEMMA GoingStart ==
  ASSUME Going, Reads, SendStart
  PROVE  Coupling' /\ Reads'
<1>1. Silent /\ UNCHANGED <<sample, last, down>> /\ At("start") /\ "start" \in StepNames \ {"ready"}
  BY DEF SendStart, quiet, elsewhere, serverVars, StepNames, Silent
<1>2. PICK k : k = Kind
  OBVIOUS
<1>3. k \in Requests /\ k \in {"tcp", "udp", "jitter", "bufferbloat"} /\ Wire(k, "start") /\ ~stray
  BY <1>1, <1>2, GoingAt DEF StepsOf, Requests
<1>4. Reads'
  BY <1>1, ReadsNothing DEF Silent
<1>5. Started(k)
  BY <1>3 DEF Wire
<1>6. Proceed /\ up' = Append(<<>>, Start)
  BY <1>5 DEF SendStart, Send, SendFails, Started, In, Going, Start
<1>7. up' = <<Start>>
  BY <1>6, OneFrame
<1>8. In(k, req, 2, <<Start>>)' /\ down' = <<>> /\ ~sample'.waiting /\ (k = "tcp" => ~fed' /\ port' = req') /\ ~stray'
  BY <1>1, <1>3, <1>5, <1>7 DEF Started, In, Silent, Start
<1>9. Wire(k, After(k, "start"))'
  <2>1. CASE k = "tcp"
    BY <1>8, <2>1 DEF Wire, After, Opening, In, Start
  <2>2. CASE k \in {"udp", "jitter"}
    BY <1>8, <2>2 DEF Wire, After, Finishing, In, Start
  <2>3. CASE k = "bufferbloat"
    BY <1>8, <2>3 DEF Wire, After, Probing, In, Start
  <2> QED BY <1>3, <2>1, <2>2, <2>3
<1> QED BY <1>1, <1>2, <1>4, <1>6, <1>9, Onward DEF Final, Silent, Going

LEMMA GoingOpen ==
  ASSUME Going, Reads, OpenStreams
  PROVE  Coupling' /\ Reads'
<1>1. /\ UNCHANGED <<scene, main, cur, stray, srv, req, port, conn, sample, last, up, down>>
      /\ At("open") /\ "open" \in StepNames \ {"ready"}
  BY DEF OpenStreams, elsewhere, serverVars, StepNames
<1>2. PICK k : k = Kind
  OBVIOUS
<1>3. k = "tcp" /\ Wire(k, "open") /\ ~stray /\ main \in {"testing", "draining"}
  BY <1>1, <1>2, GoingAt DEF StepsOf, Requests
<1>4. Reads'
  BY <1>1, ReadsNothing
<1>5. Opening
  BY <1>3 DEF Wire
<1>6. CASE Proceed
  <2>1. Wire(k, After(k, "open"))'
    BY <1>1, <1>3, <1>5 DEF Wire, After, Opening, Finishing, Working, In, Start
  <2> QED BY <1>1, <1>2, <1>4, <1>6, <2>1, Onward DEF Final, Going
<1>7. CASE (~Listening \/ "stream" \in Faults) /\ Fail /\ UNCHANGED fed
  <2>1. "stream" \in Faults /\ Faults' = Faults
    BY <1>1, <1>5, <1>7 DEF Listening, Opening, In, Faults
  <2>2. LeftTCP'
    BY <1>1, <1>3, <1>5, <1>7, <2>1 DEF LeftTCP, Opening, In, Start
  <2> QED BY <1>1, <1>3, <1>4, <1>7, <2>2, Stopped DEF Between, Fail
<1> QED BY <1>6, <1>7 DEF OpenStreams

LEMMA GoingLoad ==
  ASSUME Going, Reads, Load
  PROVE  Coupling' /\ Reads'
<1>1. Silent /\ UNCHANGED <<sample, last, up, down>> /\ At("load") /\ "load" \in StepNames \ {"ready"} /\ Proceed
  BY DEF Load, quiet, elsewhere, serverVars, StepNames, Silent
<1>2. PICK k : k = Kind
  OBVIOUS
<1>3. k \in {"mtu", "tcp", "udp", "jitter"} /\ Wire(k, "load") /\ ~stray
  BY <1>1, <1>2, GoingAt DEF StepsOf, Requests
<1>4. Reads'
  BY <1>1, ReadsNothing DEF Silent
<1>5. CASE k = "mtu"
  <2>1. Working("mtu", {2, 3})
    BY <1>3, <1>5 DEF Wire
  <2>2. Working("mtu", {2, 3})'
    BY <1>1, <2>1 DEF Silent, Working, In, Loop, Result
  <2>3. Wire(k, After(k, "load"))'
    BY <1>1, <1>3, <1>5, <2>2 DEF Silent, Wire, After
  <2> QED BY <1>1, <1>2, <1>4, <2>3, Onward DEF Final, Silent, Going
<1>6. CASE k \in {"tcp", "udp", "jitter"}
  <2>1. Finishing(k)
    BY <1>3, <1>6 DEF Wire
  <2>2. Finishing(k)'
    BY <1>1, <2>1 DEF Silent, Finishing, Working, In, Loop, Result, Start
  <2>3. Wire(k, After(k, "load"))'
    BY <1>1, <1>3, <1>6, <2>2 DEF Silent, Wire, After
  <2> QED BY <1>1, <1>2, <1>4, <2>3, Onward DEF Final, Silent, Going
<1> QED BY <1>3, <1>5, <1>6

LEMMA GoingGoodbye ==
  ASSUME Going, Reads, SayGoodbye
  PROVE  Coupling' /\ Reads'
<1>1. Silent /\ UNCHANGED <<sample, last, down>> /\ At("goodbye") /\ "goodbye" \in StepNames \ {"ready"} /\ Proceed
  BY DEF SayGoodbye, quiet, elsewhere, serverVars, StepNames, Silent
<1>2. PICK k : k = Kind
  OBVIOUS
<1>3. k = "bufferbloat" /\ Wire(k, "goodbye") /\ ~stray
  BY <1>1, <1>2, GoingAt DEF StepsOf, Requests
<1>4. Reads'
  BY <1>1, ReadsNothing DEF Silent
<1>5. Probing /\ ~sample.waiting
  BY <1>3 DEF Wire
<1>6. Send(Bye)
  BY <1>5 DEF SayGoodbye, SendFails, Probing, In, Going, Bye
<1>7. /\ In("bufferbloat", req, 2, Append(<<Start>>, Bye))' \/ In("bufferbloat", req, 3, <<Bye>>)'
      /\ down' = <<>>
  <2>1. Bye' = Bye /\ Start' = Start /\ Append(<<>>, Bye) = <<Bye>>
    BY <1>1, OneFrame DEF Bye, Start, Silent
  <2> QED BY <1>1, <1>5, <1>6, <2>1 DEF Probing, In, Send, Silent
<1>8. Wire(k, After(k, "goodbye"))'
  BY <1>1, <1>3, <1>7 DEF Silent, Wire, After, Ending
<1> QED BY <1>1, <1>2, <1>4, <1>8, Onward DEF Final, Silent, Going

\* A step that leaves the client where it is.
LEMMA Staying ==
  ASSUME TypeInv, NEW s \in StepNames, At(s), NEW k, k = Kind, UNCHANGED <<scene, main, cur, ip, res>>, Wire(k, s)'
  PROVE  Coupling'
<1>1. Kind' = k /\ ~AtRest' /\ \A x \in StepNames : At(x)' => x = s
  BY StepKind, SameClient
<1>2. main' \in {"testing", "draining"}
  BY StepKind
<1> QED BY <1>1, <1>2 DEF Coupling

\* The samples of latency and bufferbloat.
LEMMA GoingPing ==
  ASSUME Going, Reads, Ping
  PROVE  Coupling' /\ Reads'
<1>1. Silent /\ UNCHANGED <<last, down>> /\ ~sample.waiting /\ MoreSamples
  BY DEF Ping, quiet, elsewhere, serverVars, Silent
<1>2. PICK k : k = Kind
  OBVIOUS
<1>3. Reads'
  BY <1>1, ReadsNothing DEF Silent
<1>4. sample \in SampleTypes
  BY DEF Going, TypeInv, TypeOK, SampleTypes
<1>5. Append(<<>>, Start) = <<Start>> /\ (Silent => Start' = Start)
  BY OneFrame DEF Start, Silent
<1>6. CASE At("samples")
  <2>1. k = "latency" /\ Wire(k, "samples") /\ ~stray /\ "samples" \in StepNames \ {"ready"} /\ sample.left \in Nat
    BY <1>2, <1>6, GoingAt DEF StepsOf, Requests, StepNames
  <2>2. /\ In("latency", req, 2, <<>>) /\ down = <<>> /\ srv.left = sample.left
        /\ srv.at # "ended"
    BY <1>1, <2>1 DEF Wire, Echoing, MoreSamples, In
  <2>3. /\ Send(Start) /\ sample' = [sample EXCEPT !.waiting = TRUE]
        /\ UNCHANGED <<ip, res>>
    BY <2>2 DEF Ping, SendFails, Going, Start
  <2>4. sample'.waiting /\ sample'.left = sample.left
    BY <1>4, <2>3 DEF SampleTypes
  <2>5. up' = <<Start>>
    BY <1>5, <2>2, <2>3 DEF Send, In
  <2>6. Echoing'
    BY <1>1, <1>5, <2>2, <2>4, <2>5 DEF Echoing, In, Silent
  <2> QED BY <1>1, <1>2, <1>3, <1>6, <2>1, <2>3, <2>6, Staying DEF Wire, Silent, Going
<1>7. CASE At("probe")
  <2>1. k = "bufferbloat" /\ Wire(k, "probe") /\ ~stray /\ "probe" \in StepNames \ {"ready"}
    BY <1>2, <1>7, GoingAt DEF StepsOf, Requests, StepNames
  <2>2. Probing /\ srv.at # "ended"
    BY <2>1 DEF Wire, Probing, In
  <2>3. /\ Send(Start) /\ sample' = [sample EXCEPT !.waiting = TRUE]
        /\ UNCHANGED <<ip, res>>
    BY <2>2 DEF Ping, SendFails, Going, Start
  <2>4. sample'.waiting
    BY <1>4, <2>3 DEF SampleTypes
  <2>5. up' = Append(up, Start)
    BY <2>2, <2>3 DEF Send
  <2>6. Probing'
    BY <1>1, <1>5, <2>2, <2>4, <2>5 DEF Probing, In, Silent
  <2> QED BY <1>1, <1>2, <1>3, <1>7, <2>1, <2>3, <2>6, Staying DEF Wire, Silent, Going
<1> QED BY <1>6, <1>7 DEF Ping

LEMMA GoingPong ==
  ASSUME Going, Reads, Pong
  PROVE  Coupling' /\ Reads'
<1>1. Silent /\ UNCHANGED up /\ sample.waiting
  BY DEF Pong, quiet, elsewhere, serverVars, Silent
<1>2. PICK k : k = Kind
  OBVIOUS
<1>3. Start.type = "test_start" /\ Start.id = req
  BY FrameParts DEF Start
<1>4. CASE At("samples")
  <2>1. k = "latency" /\ Wire(k, "samples") /\ ~stray /\ "samples" \in StepNames \ {"ready"}
        /\ "samples" \in ReadingSteps /\ main \in {"testing", "draining"} /\ sample.left \in Nat
    BY <1>2, <1>4, GoingAt DEF StepsOf, Requests, StepNames, ReadingSteps
  <2>2. Echoing
    BY <2>1 DEF Wire
  <2>3. ASSUME NEW f \in Incoming, Take(f), sample' = [left |-> sample.left - 1, waiting |-> FALSE], UNCHANGED <<ip, res>>
        PROVE  Coupling' /\ Reads'
    <3>1. f = Head(down) /\ down # <<>> /\ down' = Tail(down)
      BY <2>3, Incoming1 DEF Going, Take
    <3>2. sample'.left = sample.left - 1 /\ ~sample'.waiting
      BY <2>3
    <3>3. f = Start /\ Echoing'
      <4>1. CASE In("latency", req, 2, <<>>) /\ down = <<Start>> /\ srv.left = sample.left - 1
        BY <1>1, <3>1, <3>2, <4>1, OneFrame DEF Echoing, In, Silent
      <4>2. CASE In("latency", req, 3, <<>>) /\ down = <<Start>> /\ sample.left = 1
        BY <1>1, <3>1, <3>2, <4>2, OneFrame DEF Echoing, In, Silent
      <4>3. CASE Loop(<<>>) /\ down = Append(<<Start>>, Result) /\ sample.left = 1
        <5>1. f = Start /\ down' = <<Result>> /\ Result' = Result
          BY <1>1, <3>1, <4>3, TwoFrames DEF Result, Silent
        <5> QED BY <1>1, <3>2, <4>3, <5>1 DEF Echoing, Loop, Silent
      <4> QED BY <1>1, <2>2, <3>1, <4>1, <4>2, <4>3 DEF Echoing
    <3>4. Reads'
      BY <1>1, <1>3, <1>4, <2>1, <2>3, <3>3, ReadsWell DEF Expected, Silent, Going
    <3> QED BY <1>1, <1>2, <1>4, <2>1, <2>3, <3>3, <3>4, Staying DEF Wire, Silent, Going
  <2>4. CASE ReceiveFails /\ UNCHANGED sample /\ Fail
    <3>1. Gone' /\ res' = "err" /\ last' = last
      BY <1>1, <2>4 DEF ReceiveFails, Fail, Going, Gone, Silent
    <3> QED BY <1>1, <2>1, <3>1, Stopped, ReadsNothing DEF Between, Silent
  <2>5. ~At("probe")
    BY <1>4, <2>1 DEF At
  <2> QED BY <2>3, <2>4, <2>5 DEF Pong
<1>5. CASE At("probe")
  <2>1. k = "bufferbloat" /\ Wire(k, "probe") /\ ~stray /\ "probe" \in StepNames \ {"ready"}
        /\ "probe" \in ReadingSteps
    BY <1>2, <1>5, GoingAt DEF StepsOf, Requests, StepNames, ReadingSteps
  <2>2. Probing /\ srv.at # "ended"
    BY <2>1 DEF Wire, Probing, In
  <2>3. PICK f \in Incoming : Take(f) /\ sample' = [left |-> sample.left - 1, waiting |-> FALSE] /\ UNCHANGED <<ip, res>>
    BY <2>2 DEF Pong, ReceiveFails, Going
  <2>4. f = Head(down) /\ down # <<>> /\ down' = Tail(down) /\ ~sample'.waiting
    BY <2>3, Incoming1 DEF Going, Take
  <2>5. f = Start /\ Probing'
    BY <1>1, <2>2, <2>4, OneFrame DEF Probing, In, Silent
  <2>6. Reads'
    BY <1>1, <1>3, <1>5, <2>1, <2>3, <2>5, ReadsWell DEF Expected, Silent, Going
  <2> QED BY <1>1, <1>2, <1>5, <2>1, <2>3, <2>5, <2>6, Staying DEF Wire, Silent, Going
<1> QED BY <1>4, <1>5 DEF Pong

LEMMA GoingSamplesDone ==
  ASSUME Going, Reads, SamplesDone
  PROVE  Coupling' /\ Reads'
<1>1. Silent /\ UNCHANGED <<sample, last, up, down>> /\ Proceed /\ ~sample.waiting
  BY DEF SamplesDone, quiet, elsewhere, serverVars, Silent
<1>2. PICK k : k = Kind
  OBVIOUS
<1>3. Reads'
  BY <1>1, ReadsNothing DEF Silent
<1>4. CASE At("samples")
  <2>1. k = "latency" /\ Wire(k, "samples") /\ ~stray /\ "samples" \in StepNames
    BY <1>2, <1>4, GoingAt DEF StepsOf, Requests, StepNames
  <2>2. Working("latency", {2, 3})
    BY <1>1, <2>1 DEF Wire, Echoing, Working
  <2>3. Working("latency", {2, 3})'
    BY <1>1, <2>2 DEF Silent, Working, In, Loop, Result
  <2>4. Wire(k, After(k, "samples"))'
    BY <1>1, <2>1, <2>3 DEF Silent, Wire, After
  <2> QED BY <1>1, <1>2, <1>3, <1>4, <2>1, <2>4, Onward DEF Final, Silent, Going
<1>5. CASE At("probe")
  <2>1. k = "bufferbloat" /\ Wire(k, "probe") /\ ~stray /\ "probe" \in StepNames
    BY <1>2, <1>5, GoingAt DEF StepsOf, Requests, StepNames
  <2>2. Probing
    BY <2>1 DEF Wire
  <2>3. Probing'
    BY <1>1, <2>2 DEF Silent, Probing, In, Start
  <2>4. Wire(k, After(k, "probe"))'
    BY <1>1, <2>1, <2>3 DEF Silent, Wire, After
  <2> QED BY <1>1, <1>2, <1>3, <1>5, <2>1, <2>4, Onward DEF Final, Silent, Going
<1> QED BY <1>4, <1>5 DEF SamplesDone

\* The result.
LEMMA GoingResult ==
  ASSUME Going, Reads, AwaitResult
  PROVE  Coupling' /\ Reads'
<1>1. PICK s \in {"result", "must"} : At(s)
  BY DEF AwaitResult
<1>2. Silent /\ UNCHANGED <<sample, up>> /\ s \in StepNames \ {"ready"} /\ s \in ReadingSteps /\ Final(s)
  BY DEF AwaitResult, quiet, elsewhere, serverVars, StepNames, ReadingSteps, Silent, Final
<1>3. PICK k : k = Kind
  OBVIOUS
<1>4. /\ k \in {"latency", "tcp", "udp", "jitter", "bufferbloat"} /\ Wire(k, s) /\ ~stray
      /\ main \in {"testing", "draining"}
  <2>1. k \in Requests /\ s \in StepsOf(k) /\ Wire(k, s) /\ ~stray /\ main \in {"testing", "draining"}
    BY <1>1, <1>2, <1>3, GoingAt
  <2>2. k # "mtu"
    BY <2>1 DEF StepsOf
  <2> QED BY <2>1, <2>2 DEF Requests
<1>5. Result.type = "test_result" /\ Result.id = req
  BY FrameParts DEF Result
<1>6. CASE ReceiveFails
  <2>1. Gone' /\ last' = last
    BY <1>2, <1>6 DEF ReceiveFails, Going, Gone, Silent
  <2>2. Reads'
    BY <1>2, <2>1, ReadsNothing DEF Silent
  <2>3. CASE Proceed
    BY <1>1, <1>2, <1>3, <2>1, <2>2, <2>3, Onward DEF Between, Going, Silent
  <2>4. CASE Fail
    BY <1>2, <1>4, <2>1, <2>2, <2>4, Stopped DEF Between, Fail, Silent
  <2>5. Proceed \/ Fail
    BY DEF AwaitResult
  <2> QED BY <2>3, <2>4, <2>5
<1>7. ASSUME NEW f \in Incoming, Take(f), Proceed
      PROVE  Coupling' /\ Reads'
  <2>1. f = Head(down) /\ down # <<>> /\ down' = Tail(down)
    BY <1>7, Incoming1 DEF Going, Take
  <2>2. Loop(<<>>) /\ down = <<Result>>
    <3>1. CASE k = "latency"
      <4>1. s = "result"
        BY <1>1, <1>2, <1>3, <3>1, GoingAt DEF StepsOf
      <4> QED BY <1>4, <2>1, <3>1, <4>1 DEF Wire, Working
    <3>2. CASE k \in {"tcp", "udp", "jitter"}
      BY <1>4, <2>1, <3>2 DEF Wire, Finishing, Working
    <3>3. CASE k = "bufferbloat"
      <4>1. s = "result"
        BY <1>1, <1>2, <1>3, <3>3, GoingAt DEF StepsOf
      <4> QED BY <1>4, <2>1, <3>3, <4>1 DEF Wire, Ending, Working
    <3> QED BY <1>4, <3>1, <3>2, <3>3
  <2>3. f = Result /\ down' = <<>>
    BY <2>1, <2>2, OneFrame
  <2>4. Quiet'
    BY <1>2, <1>4, <2>2, <2>3 DEF Quiet, Loop, Silent
  <2>5. Reads'
    <3>1. f.type \in Expected(s)
      BY <1>5, <2>3 DEF Expected
    <3> QED BY <1>1, <1>2, <1>5, <1>7, <2>3, <3>1, ReadsWell DEF Silent, Going
  <2> QED BY <1>1, <1>2, <1>3, <1>7, <2>4, <2>5, Onward DEF Between, Going, Silent
<1> QED BY <1>6, <1>7 DEF AwaitResult

LEMMA GoingMTU ==
  ASSUME Going, Reads, AwaitMTUResult
  PROVE  Coupling' /\ Reads'
<1>1. /\ UNCHANGED <<scene, main, cur, srv, req, fed, port, conn, sample, up>>
      /\ At("fallback") /\ "fallback" \in StepNames \ {"ready"} /\ "fallback" \in ReadingSteps
      /\ Proceed /\ Final("fallback")
  BY DEF AwaitMTUResult, elsewhere, serverVars, StepNames, ReadingSteps, Final
<1>2. PICK k : k = Kind
  OBVIOUS
<1>3. k = "mtu" /\ Wire(k, "fallback") /\ ~stray
  BY <1>1, <1>2, GoingAt DEF StepsOf, Requests
<1>4. Working("mtu", {2, 3})
  BY <1>3 DEF Wire
<1>5. Result.type = "test_result" /\ Result.id = req
  BY FrameParts DEF Result
<1>6. CASE ReceiveFails
  <2>1. Gone' /\ last' = last
    BY <1>1, <1>6 DEF ReceiveFails, Going, Gone
  <2> QED BY <1>1, <1>2, <2>1, ReadsNothing, Onward DEF Between, Going
<1>7. ASSUME NEW f \in Incoming, Take(f), stray' = stray
      PROVE  Coupling' /\ Reads'
  <2>1. f = Head(down) /\ down # <<>> /\ down' = Tail(down)
    BY <1>7, Incoming1 DEF Going, Take
  <2>2. Loop(<<>>) /\ down = <<Result>>
    BY <1>4, <2>1 DEF Working
  <2>3. f = Result /\ down' = <<>>
    BY <2>1, <2>2, OneFrame
  <2>4. Quiet'
    BY <1>1, <1>3, <1>7, <2>2, <2>3 DEF Quiet, Loop
  <2>5. Reads'
    <3>1. f.type \in Expected("fallback")
      BY <1>5, <2>3 DEF Expected
    <3> QED BY <1>1, <1>5, <1>7, <2>3, <3>1, ReadsWell DEF Going
  <2> QED BY <1>1, <1>2, <1>7, <2>4, <2>5, Onward DEF Between, Going
<1>8. CASE stray' = TRUE /\ UNCHANGED <<down, last>>
  <2>1. LeftMTU'
    BY <1>1, <1>4, <1>8 DEF LeftMTU, Working, In, Loop, Result
  <2> QED BY <1>1, <1>2, <1>8, <2>1, ReadsNothing, Onward DEF Between, Going
<1> QED BY <1>6, <1>7, <1>8 DEF AwaitMTUResult

\* Between is about the connection only.
LEMMA SameBetween ==
  ASSUME Between, UNCHANGED <<scene, fed, stray, up, down, srv, req>>
  PROVE  Between'
BY DEF Between, Quiet, Gone, LeftUDP, LeftTCP, LeftMTU, In, Loop, Result, Start, DialFails, Faults

\* The tests that ask nothing of the server.
LEMMA GoingLocal ==
  ASSUME Going, Reads, LocalTest
  PROVE  Coupling' /\ Reads'
<1>1. /\ main = "testing" /\ main' = main /\ AtRest /\ res' = "ok"
      /\ UNCHANGED <<scene, fed, stray, up, down, srv, req, last>>
  BY DEF LocalTest, Going, ConnInv, AtRest, quiet, elsewhere, serverVars
<1>2. Between
  BY <1>1 DEF Going, Coupling
<1> QED BY <1>1, <1>2, SameBetween, Stopped, ReadsNothing

\* The coupling is preserved by every step of a test.
LEMMA CoupledTest ==
  ASSUME TypeInv, ConnInv, Coupling, Usual => Reads, TestStep
  PROVE  Coupling' /\ (Usual' => Reads')
<1>1. UNCHANGED elsewhere
  BY DEF TestStep, SendRequest, AwaitReady, DialUDP, SendStart, OpenStreams, Load, Ping, Pong,
         SamplesDone, SayGoodbye, AwaitResult, AwaitMTUResult, LocalTest, quiet
<1>2. conn' = conn /\ Usual' = Usual /\ scene' = scene
  BY <1>1 DEF elsewhere, Usual, DialFails, Faults
<1>3. CASE ~Usual
  BY <1>2, <1>3 DEF Coupling
<1>4. CASE Usual /\ conn # "open"
  <2>1. Incoming = {}
    BY <1>4 DEF Incoming
  <2>2. last' = last
    BY <2>1 DEF TestStep, SendRequest, AwaitReady, DialUDP, SendStart, OpenStreams, Load, Ping, Pong,
         SamplesDone, SayGoodbye, AwaitResult, AwaitMTUResult, LocalTest, quiet, ReceiveFails
  <2> QED BY <1>2, <1>4, <2>2, ReadsNothing DEF Coupling
<1>5. CASE Going
  BY <1>5, GoingRequest, GoingReady, GoingDial, GoingStart, GoingOpen, GoingLoad, GoingPing, GoingPong, GoingSamplesDone,
     GoingGoodbye, GoingResult, GoingMTU, GoingLocal DEF TestStep, Going
<1> QED BY <1>3, <1>4, <1>5 DEF Going

(***************************************************************************)
(* A reader left behind, the goroutine of Run, and the others.             *)
(***************************************************************************)
LEMMA StrayRequested ==
  ASSUME NEW k \in Requests, Requested(k), stray, ~stray', down # <<>>, down' = Tail(down),
         UNCHANGED <<up, srv, req, fed>>
  PROVE  Requested(k)'
<1> DEFINE late == Frame("test_result", req - 1, "none")
<1>1. Asking(k) /\ Late = <<late>> /\ Late' = <<>>
  BY DEF Requested, Gone, AfterMTU, AfterUDP, AfterTCP, Late
<1>2. down = Late => down' = Late'
  BY <1>1, OneFrame
<1>3. down = Append(Late, Ready) => down' = Append(Late', Ready)
  BY <1>1, OneFrame, TwoFrames
<1>4. down = Append(Late, Error) => down' = Append(Late', Error)
  BY <1>1, OneFrame, TwoFrames
<1>5. down = Append(Append(Late, Ready), Result) => down' = Append(Append(Late', Ready), Result)
  BY <1>1, OneFrame, ThreeFrames
<1>6. Ready' = Ready /\ Error' = Error /\ Result' = Result
  BY DEF Ready, Error, Result
<1>7. Asking(k)'
  BY <1>1, <1>2, <1>3, <1>4, <1>5, <1>6 DEF Asking, Loop, In, InError
<1> QED BY <1>7 DEF Requested

LEMMA CoupledStray ==
  ASSUME TypeInv, Coupling, StrayReads
  PROVE  Coupling'
<1> SUFFICES ASSUME Usual', conn' = "open" PROVE Coupling'
  BY DEF Coupling
<1>1. /\ UNCHANGED <<scene, main, cur, ip, res>> /\ UNCHANGED <<up, srv, req, fed>>
      /\ stray /\ ~stray'
  BY DEF StrayReads, clientVars, serverVars
<1>2. conn = "open" /\ Usual
  BY <1>1, SameClient DEF StrayReads
<1>3. \/ down # <<>> /\ down' = Tail(down)
      \/ srv.at = "ended" /\ down' = <<>>
  BY <1>2 DEF StrayReads
<1>4. AtRest => Between'
  <2>1. ASSUME Between PROVE Between'
    <3>1. CASE srv.at = "ended" /\ down' = <<>>
      BY <1>1, <3>1 DEF Between, Gone
    <3>2. CASE down # <<>> /\ down' = Tail(down)
      <4>1. Loop(<<>>) /\ down = <<Result>>
        BY <1>1, <2>1, <3>2 DEF Between, Quiet, Gone, LeftUDP, LeftTCP, LeftMTU
      <4>2. down' = <<>>
        BY <3>2, <4>1, OneFrame
      <4> QED BY <1>1, <4>1, <4>2 DEF Between, Quiet, Loop
    <3> QED BY <1>3, <3>1, <3>2
  <2> QED BY <1>2, <2>1 DEF Coupling
<1>5. ASSUME NEW s \in StepNames, At(s)' PROVE Wire(Kind, s)'
  <2>1. At(s)
    BY <1>1, <1>5, SameClient
  <2>2. PICK k \in Requests : k = Kind
    BY <2>1, StepKind
  <2>3. Wire(k, s) /\ Kind' = k
    BY <1>1, <1>2, <2>1, <2>2, SameClient DEF Coupling
  <2>4. s = "ready" /\ Requested(k)
    BY <1>1, <2>3 DEF Wire
  <2>5. Requested(k)'
    <3>1. CASE srv.at = "ended" /\ down' = <<>>
      BY <1>1, <3>1 DEF Requested, Gone
    <3>2. CASE down # <<>> /\ down' = Tail(down)
      BY <1>1, <2>4, <3>2, StrayRequested
    <3> QED BY <1>3, <3>1, <3>2
  <2> QED BY <2>3, <2>4, <2>5 DEF Wire
<1>6. main \notin {"hello", "ack"}
  BY <1>1, <1>2 DEF Coupling, Greeting, Greeted
<1> QED BY <1>1, <1>4, <1>5, <1>6, SameClient DEF Coupling

\* Connecting, greeting and closing.
LEMMA CoupledConnecting ==
  ASSUME TypeInv, ConnInv, Coupling, Connecting
  PROVE  Coupling'
<1> SUFFICES ASSUME Usual', conn' = "open" PROVE Coupling'
  BY DEF Coupling
<1>1. UNCHANGED given /\ Usual
  BY DEF Connecting, Dial, SayHello, AwaitAck, PingAgain, Close, given, Usual, DialFails, Faults
<1>2. \A s \in StepNames : ~At(s)'
  <2>1. main' \notin {"testing", "draining"}
    BY DEF Connecting, Dial, SayHello, AwaitAck, PingAgain, Close, Connected, ConnectFails, AfterPing
  <2> QED BY <2>1 DEF At
<1>3. CASE Dial
  <2>1. CASE NewConnection /\ main' = "hello"
    <3>1. ~stray' /\ down' = <<>> /\ up' = <<>> /\ srv' \in {InSession("hello"), InSession("ended")}
      BY <2>1 DEF NewConnection
    <3>2. Greeting'
      BY <3>1 DEF Greeting, InSession
    <3> QED BY <1>2, <2>1, <3>2 DEF Coupling, AtRest
  <2>2. CASE ConnectFails
    BY <1>3, <2>2 DEF Dial, ConnInv, ConnectFails, CloseConn
  <2> QED BY <1>3, <2>1, <2>2 DEF Dial
<1>4. CASE SayHello
  <2>1. conn = "open" /\ Greeting /\ UNCHANGED <<srv, stray>>
    BY <1>1, <1>4 DEF SayHello, Coupling, ConnectFails, CloseConn
  <2>2. CASE Send(Frame("hello", 0, "none")) /\ main' = "ack" /\ UNCHANGED <<attempt, conn, down>>
    <3>1. Greeted'
      BY <2>1, <2>2, OneFrame DEF Greeting, Greeted, Send, Hello, Gone
    <3> QED BY <1>2, <2>2, <3>1 DEF Coupling, AtRest
  <2>3. CASE SendFails /\ ConnectFails
    <3>1. srv.at = "ended" /\ down' = down /\ main' \in {"done", "next"}
      BY <2>1, <2>3 DEF SendFails, ConnectFails, CloseConn
    <3>2. Gone'
      BY <2>1, <3>1 DEF Greeting, Gone
    <3> QED BY <1>2, <3>1, <3>2 DEF Coupling, Between
  <2> QED BY <1>4, <2>2, <2>3 DEF SayHello
<1>5. CASE AwaitAck
  <2>1. conn = "open" /\ Greeted /\ UNCHANGED <<srv, stray, up>>
    BY <1>1, <1>5 DEF AwaitAck, Coupling, ConnectFails, CloseConn
  <2>2. ASSUME NEW f \in Incoming, Connected, down' = Tail(down)
        PROVE  Coupling'
    <3>1. ~stray /\ down # <<>>
      BY Incoming1
    <3>2. Loop(<<>>) /\ down = <<Ack>>
      BY <2>1, <3>1 DEF Greeted, Gone
    <3>3. down' = <<>>
      BY <2>2, <3>2, OneFrame
    <3>4. Quiet'
      BY <2>1, <3>1, <3>2, <3>3 DEF Quiet, Loop
    <3> QED BY <1>2, <2>2, <3>4 DEF Coupling, Between, Connected
  <2>3. CASE srv.at = "ended" /\ down = <<>> /\ ConnectFails
    <3>1. Gone' /\ main' \in {"done", "next"}
      BY <2>1, <2>3 DEF ConnectFails, CloseConn, Gone
    <3> QED BY <1>2, <3>1 DEF Coupling, Between
  <2> QED BY <1>5, <2>1, <2>2, <2>3 DEF AwaitAck
<1>6. CASE PingAgain
  BY <1>6 DEF PingAgain, ConnInv, netVars
<1>7. CASE Close
  BY <1>7 DEF Close, CloseConn
<1> QED BY <1>3, <1>4, <1>5, <1>6, <1>7 DEF Connecting

\* The wire of a step is about what is on the wire, and the session.
LEMMA SameWire ==
  ASSUME NEW k \in Requests, NEW s \in StepsOf(k), Wire(k, s),
         UNCHANGED <<scene, fed, stray, up, down, srv, req, sample, port>>
  PROVE  Wire(k, s)'
<1>1. ~stray => ~stray'
  OBVIOUS
<1>2. CASE s = "ready"
  BY <1>2 DEF Wire, Requested, Asking, AfterMTU, AfterUDP, AfterTCP, Gone, Late, DialFails, Faults, In, Loop, InError,
              Ready, Error, Result
<1>3. CASE s # "ready" /\ k = "latency"
  <2>1. s \in {"samples", "result"}
    BY <1>3 DEF StepsOf
  <2>2. CASE s = "samples"
    <3>1. ~stray /\ Echoing
      BY <1>3, <2>2 DEF Wire
    <3>2. Echoing'
      BY <3>1, ZenonT(30) DEF Echoing, In, Loop, Start, Result
    <3> QED BY <1>1, <1>3, <2>2, <3>1, <3>2 DEF Wire
  <2>3. CASE s = "result"
    BY <1>1, <1>3, <2>3 DEF Wire, Working, In, Loop, Result
  <2> QED BY <2>1, <2>2, <2>3
<1>4. CASE s # "ready" /\ k = "mtu"
  BY <1>1, <1>4 DEF Wire, StepsOf, Working, In, Loop, Result
<1>5. CASE s # "ready" /\ k = "tcp"
  BY <1>1, <1>5 DEF Wire, StepsOf, Started, Opening, Finishing, Working, In, Loop, Start, Result
<1>6. CASE s # "ready" /\ k \in {"udp", "jitter"}
  BY <1>1, <1>6 DEF Wire, StepsOf, Started, Finishing, Working, In, Loop, Start, Result
<1>7. CASE s # "ready" /\ k = "bufferbloat"
  BY <1>1, <1>7 DEF Wire, StepsOf, Started, Probing, Ending, Working, In, Loop, Start, Result, Bye
<1> QED BY <1>2, <1>3, <1>4, <1>5, <1>6, <1>7 DEF Requests

\* A step of someone else.
LEMMA CoupledSame ==
  ASSUME TypeInv, Coupling,
         UNCHANGED <<scene, main, cur, ip, res, fed, stray, up, down, srv, req, sample, port, conn>>
  PROVE  Coupling'
<1> SUFFICES ASSUME Usual', conn' = "open" PROVE Coupling'
  BY DEF Coupling
<1>1. Usual /\ conn = "open"
  BY SameClient
<1>2. Greeting' = Greeting /\ Greeted' = Greeted
  BY DEF Greeting, Greeted, Loop, Gone
<1>3. AtRest' => Between'
  BY <1>1, SameClient, SameBetween DEF Coupling
<1>4. ASSUME NEW s \in StepNames, At(s)' PROVE Wire(Kind, s)'
  <2>1. At(s)
    BY <1>4, SameClient
  <2>2. PICK k \in Requests : k = Kind
    BY <2>1, StepKind
  <2>3. s \in StepsOf(k) /\ Wire(k, s) /\ Kind' = k
    BY <1>1, <2>1, <2>2, StepKind, SameClient DEF Coupling
  <2>4. Wire(k, s)'
    BY <2>3, SameWire
  <2> QED BY <2>3, <2>4
<1> QED BY <1>1, <1>2, <1>3, <1>4 DEF Coupling

\* Going from a test to the next.
LEMMA CoupledTesting ==
  ASSUME TypeInv, ConnInv, Coupling, Testing \/ Expire
  PROVE  Coupling'
<1> SUFFICES ASSUME Usual', conn' = "open" PROVE Coupling'
  BY DEF Coupling
<1>1. CASE Expire
  BY <1>1, CoupledSame DEF Expire, others, inTest, netVars, serverVars
<1>2. CASE GiveUp
  BY <1>2 DEF GiveUp, CloseConn
<1>3. CASE Drained
  BY <1>3 DEF Drained, ConnInv, netVars
<1>4. CASE StartTest \/ TakeResult \/ StopTests
  <2>1. /\ UNCHANGED <<scene, fed, stray, up, down, srv, req, conn>> /\ AtRest
        /\ main' \in {"testing", "next", "closing"}
    BY <1>4 DEF StartTest, TakeResult, StopTests, others, inTest, netVars, serverVars, AtRest
  <2>2. Usual
    BY <2>1 DEF Usual, DialFails, Faults
  <2>3. Between'
    BY <2>1, <2>2, SameBetween DEF Coupling
  <2>4. ASSUME NEW s \in StepNames PROVE ~At(s)'
    <3>1. CASE main' = "testing"
      <4>1. ip' = 1 /\ main' \in {"testing", "draining"}
        BY <1>4, <3>1 DEF StartTest, TakeResult, StopTests
      <4>2. Program' # <<>> => Program'[1][1] = "req"
        <5>1. TypeInv'
          BY <1>4, TypeTesting DEF Testing
        <5>2. cur' \in 1..Len(Plan') /\ scene' \in Scenarios /\ Plan' = Plan
          BY <2>1, <4>1, <5>1, PlanType, PlanFixed DEF TypeInv, TypeOK
        <5>3. Plan'[cur'] \in TestKinds
          <6>1. Plan \in Seq(TestKinds)
            BY PlanType DEF TypeInv, TypeOK
          <6> QED BY <5>2, <6>1
        <5> QED BY <5>3, ProgramInOrder DEF Program
      <4>3. Len(Program') > 0 => Program' # <<>>
        OBVIOUS
      <4> QED BY <4>1, <4>2, <4>3 DEF At, StepNames
    <3>2. CASE main' # "testing"
      BY <2>1, <3>2 DEF At
    <3> QED BY <3>1, <3>2
  <2> QED BY <2>1, <2>3, <2>4 DEF Coupling
<1> QED BY <1>1, <1>2, <1>3, <1>4 DEF Testing

\* The rest: deadlines, signals and faults.
LEMMA CoupledRest ==
  ASSUME TypeInv, Coupling, Abort \/ WatchAbort \/ CutConnection \/ Crash \/ Shutdown \/ UNCHANGED vars
  PROVE  Coupling'
<1>1. CASE CutConnection
  BY <1>1 DEF CutConnection, Coupling
<1>2. CASE Abort \/ WatchAbort \/ Shutdown \/ UNCHANGED vars
  <2>1. UNCHANGED <<scene, main, cur, ip, res, fed, stray, up, down, srv, req, sample, port, conn>>
    BY <1>2 DEF Abort, WatchAbort, Shutdown, vars, clientVars, netVars, serverVars
  <2> QED BY <2>1, CoupledSame
<1>3. CASE Crash
  BY <1>3 DEF Crash, Coupling, AtRest, At
<1> QED BY <1>1, <1>2, <1>3

\* The inductive invariant.
Coupled == TypeInv /\ ConnInv /\ Coupling /\ (Usual => Reads)

\* It holds at the start, and every step preserves it.
LEMMA CoupledInit == Init => Coupled
<1> SUFFICES ASSUME Init PROVE Coupled
  OBVIOUS
<1>1. Coupling
  BY DEF Init, Coupling
<1>2. Reads
  BY DEF Init, Reads, FramesPaired, FramesExpected, NoFrame
<1> QED BY <1>1, <1>2, TypeInit, ConnInit DEF Coupled

LEMMA CoupledStep == Coupled /\ [Next]_vars => Coupled'
<1> SUFFICES ASSUME Coupled, [Next]_vars PROVE Coupled'
  OBVIOUS
<1>1. TypeInv' /\ ConnInv'
  BY TypeStep, ConnStep DEF Coupled
<1>2. CASE TestStep
  BY <1>1, <1>2, CoupledTest DEF Coupled
<1>3. CASE ~TestStep
  <2>1. Coupling'
    BY <1>3, CoupledSession, CoupledStray, CoupledConnecting, CoupledTesting, CoupledRest DEF Coupled, Next, ClientMain
  <2>2. scene' = scene /\ (last' = last \/ last' = NoFrame)
    <3>1. CASE Session
      BY <3>1 DEF Session, Greet, Poll, ReadRequest, SendReady, AwaitStart, Echo, EchoUntil, ServeData, Answer, aside, besides, inTest
    <3>2. CASE Connecting
      BY <3>2 DEF Connecting, Dial, SayHello, AwaitAck, PingAgain, Close, given, inTest
    <3>3. CASE Testing \/ Expire
      BY <3>3 DEF Testing, Expire, StartTest, TakeResult, GiveUp, Drained, StopTests, others, inTest
    <3>4. CASE StrayReads \/ Abort \/ WatchAbort \/ CutConnection \/ Crash \/ Shutdown \/ UNCHANGED vars
      BY <3>4 DEF StrayReads, Abort, WatchAbort, CutConnection, Crash, Shutdown, vars, clientVars, inTest
    <3> QED BY <1>3, <3>1, <3>2, <3>3, <3>4 DEF Coupled, Next, ClientMain
  <2>3. Usual' = Usual
    BY <2>2 DEF Usual, DialFails, Faults
  <2>4. Usual' => Reads'
    <3>1. CASE last' = last
      BY <2>2, <2>3, <3>1, ReadsNothing DEF Coupled
    <3>2. CASE last' = NoFrame
      BY <3>2 DEF Reads, FramesPaired, FramesExpected, NoFrame
    <3> QED BY <2>2, <3>1, <3>2
  <2> QED BY <1>1, <2>1, <2>4 DEF Coupled
<1> QED BY <1>2, <1>3

\* What the client and its session do always fits.
THEOREM CoupledAlways == Spec => []Coupled
BY CoupledInit, CoupledStep, PTL DEF Spec

\* FramesPaired: a frame that a test reads was written for the request that the
\* test waits on, although frames carry no identifier (runTest, Session.Run, the
\* Run...Client functions).
THEOREM Paired == Spec => [](Usual => FramesPaired)
<1>1. Coupled => (Usual => FramesPaired)
  BY DEF Coupled, Reads
<1> QED BY <1>1, CoupledAlways, PTL

\* FramesExpected: and it is of a type that the step can handle, which most of the
\* reads in internal/tests do not look at.
THEOREM AsExpected == Spec => [](Usual => FramesExpected)
<1>1. Coupled => (Usual => FramesExpected)
  BY DEF Coupled, Reads
<1> QED BY <1>1, CoupledAlways, PTL

\* QuietBetweenTests: when none of the client's sockets fails, and no reader was
\* left behind, nothing of a test is on the connection when the next one starts
\* (executeTests), for any plan, any faults and either outcome.
THEOREM QuietBetween == Spec => []QuietBetweenTests
<1>1. Coupled => QuietBetweenTests
  <2> SUFFICES ASSUME Coupled, main = "next", conn = "open", srv.at # "ended",
                      DialFails = {}, Faults \cap {"stream", "overrun"} = {}, ~stray
               PROVE  up = <<>> /\ down = <<>> /\ srv.at \in {"poll", "read"}
    BY DEF QuietBetweenTests
  <2>1. Between
    BY DEF Coupled, Coupling, Usual, AtRest
  <2> QED BY <2>1 DEF Between, Quiet, Gone, LeftUDP, LeftTCP, LeftMTU, Loop
<1> QED BY <1>1, CoupledAlways, PTL

(***************************************************************************)
(* What a failure costs when nothing goes wrong but the client's sockets.  *)
(***************************************************************************)
Spoiled(j) == \E i \in 1..j - 1 : LeftWaiting(i, j)
Cause(j) == Plan[j] \in DialFails \/ Unserved(Plan[j]) \/ Spoiled(j)
\* The answer to a request is an error, and only to a request that no one serves.
Refused == InError(req, <<>>) \/ down = Append(Late, Error)
Answering(k) == \/ Asking(k) /\ (Refused => Unserved(Plan[cur]))
                \/ AfterUDP(k) /\ Spoiled(cur)

\* Every test that failed has a cause, and none of the causes is on its way to
\* another test than the one it may cost.
Orderly == Usual /\ Faults = {} =>
  /\ ~ctx /\ ~expired /\ alive /\ ~stray
  /\ main \in {"dial", "hello", "ack", "next", "testing", "closing", "done"}
  /\ main \in {"hello", "ack", "next", "testing", "closing"} => conn = "open" /\ srv.at # "ended"
  /\ main = "testing" /\ res = "none" /\ Program # <<>> => ip \in 1..Len(Program)
  /\ \A j \in 1..Len(Plan) : outcome[j] = "failed" => Cause(j)
  /\ main = "testing" /\ res = "err" => Cause(cur)
  /\ main = "next" \/ (main = "testing" /\ res # "none") => (LeftUDP => Spoiled(cur + 1))
  /\ main = "testing" /\ res = "none" /\ (Program = <<>> \/ At("req")) => (LeftUDP => Spoiled(cur))
  /\ At("ready") => Answering(Kind)

\* The hypotheses of Orderly, with what it says then.
Calm == Coupled /\ Usual /\ Faults = {} /\ Orderly

\* The hypotheses are about the scenario.
LEMMA Unchanging ==
  ASSUME scene' = scene
  PROVE  /\ Plan' = Plan /\ Usual' = Usual /\ Faults' = Faults /\ DialFails' = DialFails
         /\ \A j : Cause(j)' = Cause(j) /\ Spoiled(j)' = Spoiled(j) /\ Unserved(Plan[j])' = Unserved(Plan[j])
<1>1. Plan' = Plan /\ Usual' = Usual /\ Faults' = Faults /\ DialFails' = DialFails
  BY PlanFixed DEF Usual, Faults, DialFails
<1>2. \A j : Spoiled(j)' = Spoiled(j)
  BY <1>1 DEF Spoiled, LeftWaiting
<1>3. \A j : Unserved(Plan[j])' = Unserved(Plan[j])
  BY <1>1 DEF Unserved
<1> QED BY <1>1, <1>2, <1>3 DEF Cause

\* What the session reads in its loop is a request.
LEMMA OnlyRequests ==
  ASSUME Calm, Serving, srv.at = "read", up # <<>>
  PROVE  Head(up).type = "test_req"
<1>0. main \in {"hello", "ack", "next", "testing", "closing"} /\ conn = "open" /\ ~stray
  BY DEF Calm, Orderly, Serving, Coupled, ConnInv
<1>1. CASE main \in {"hello", "ack"}
  BY <1>0, <1>1 DEF Calm, Coupled, Coupling, Greeting, Greeted, Loop, Gone
<1>2. CASE AtRest
  BY <1>0, <1>2 DEF Calm, Coupled, Coupling, Between, Quiet, Gone, LeftUDP, LeftTCP, LeftMTU, In, Loop
<1>3. CASE main = "testing" /\ ~AtRest
  <2>1. ip \in 1..Len(Program) /\ res = "none" /\ Program[ip][1] # "req"
    BY <1>0, <1>3 DEF Calm, Orderly, AtRest, At
  <2>2. InOrder(Program, Plan[cur], ip)
    BY <1>3, <2>1, ProgramType, ProgramInOrder DEF Program, Serving
  <2>3. PICK s \in StepNames : s = Program[ip][1]
    <3>1. Program[ip][1] \in StepsOf(RequestOf(Plan[cur], ip)) /\ RequestOf(Plan[cur], ip) \in Requests
      BY <2>1, <2>2 DEF InOrder
    <3>2. \A k \in Requests : StepsOf(k) \in SUBSET StepNames
      BY DEF StepsOf, StepNames, Requests
    <3> QED BY <3>1, <3>2
  <2>4. At(s)
    BY <1>3, <2>1, <2>3 DEF At
  <2>5. PICK k \in Requests : k = Kind /\ s \in StepsOf(k) /\ Wire(k, s)
    BY <1>0, <2>4, StepKind DEF Calm, Coupled, Coupling
  <2>6. CASE s = "ready"
    <3>1. Requested(k)
      BY <2>5, <2>6 DEF Wire
    <3>2. up = <<Frame("test_req", req, k)>>
      BY <3>1 DEF Requested, Asking, AfterMTU, AfterUDP, AfterTCP, Gone, In, InError, Loop
    <3>3. Head(up) = Frame("test_req", req, k)
      BY <3>2, OneFrame
    <3> QED BY <3>3, FrameParts
  <2>7. CASE s # "ready"
    <3>1. ~stray
      BY <1>0
    <3> USE DEF Wire, StepsOf, In, Loop
    <3>2. CASE k \in {"latency", "mtu"}
      BY <2>5, <2>7, <3>2 DEF Echoing, Working
    <3>3. CASE k \in {"tcp", "udp", "jitter"}
      BY <2>5, <2>7, <3>3 DEF Started, Opening, Finishing, Working
    <3>4. CASE k = "bufferbloat"
      BY <2>5, <2>7, <3>4 DEF Started, Probing, Ending, Working
    <3> QED BY <3>2, <3>3, <3>4 DEF Requests
  <2> QED BY <2>6, <2>7
<1> QED BY <1>0, <1>1, <1>2, <1>3 DEF AtRest

\* The session goes on.
LEMMA NotEnded ==
  ASSUME Calm, Serving
  PROVE  srv'.at # "ended"
<1>0. srv.at # "ended" /\ alive
  BY OnlyServer DEF Calm, Orderly
<1>1. CASE srv.at \in {"hello", "poll", "error"}
  BY <1>0, <1>1, AtHello, AtPoll, AtError
<1>2. CASE srv.at = "read"
  BY <1>2, AtRead, OnlyRequests
<1>3. CASE srv.at = "handler"
  <2>1. srv' = NextStep \/ srv' = srv \/ srv' = GoTo("error") \/ srv' = GoTo("poll")
        \/ (\E n \in Nat : srv' = [srv EXCEPT !.step = n]) \/ srv' = [srv EXCEPT !.left = @ - 1]
    <3>1. srv.kind \in Requests => Len(Handler(srv.kind)) + 1 \in Nat
      BY Handlers DEF Requests
    <3> QED BY <1>3, <3>1 DEF Serving, TypeInv, Session, Greet, Poll, ReadRequest, SendReady, AwaitStart, Echo, EchoUntil, ServeData, Answer, InHandler
  <2>2. srv \in Sessions
    BY DEF Serving, TypeInv, TypeOK, Sessions, SessionAt
  <2>3. /\ NextStep.at = srv.at /\ GoTo("error").at = "error" /\ GoTo("poll").at = "poll"
        /\ \A n \in Nat : [srv EXCEPT !.step = n].at = srv.at
        /\ [srv EXCEPT !.left = @ - 1].at = srv.at
    BY <2>2 DEF NextStep, GoTo, Sessions, SessionAt
  <2> QED BY <1>3, <2>1, <2>3
<1>4. srv.at \in SessionAt
  BY DEF Serving, TypeInv, TypeOK, SessionAt
<1> QED BY <1>0, <1>1, <1>2, <1>3, <1>4 DEF SessionAt

\* Between two tests the session does not begin to wait for a test_start.
LEMMA ServedNoneLeft ==
  ASSUME Calm, Serving, Between
  PROVE  ~LeftUDP'
<1>0. srv.at # "ended" /\ ~stray /\ "stream" \notin Faults
  BY OnlyServer DEF Calm, Orderly
<1>1. Quiet \/ LeftUDP
  BY <1>0 DEF Between, Gone, LeftTCP, LeftMTU
<1>2. CASE Quiet
  BY <1>0, <1>2, AtPoll, AtRead DEF Quiet, Loop, LeftUDP, In
<1>3. CASE LeftUDP
  BY <1>3, AtAwait DEF LeftUDP, In, InPlace, Requests
<1> QED BY <1>1, <1>2, <1>3

\* A request is of the kind of its test.
LEMMA Asks ==
  ASSUME TypeInv, At("ready"), Kind \notin scene.offers
  PROVE  Unserved(Plan[cur])
<1>1. main \in {"testing", "draining"} /\ ip \in 1..Len(Program)
  BY DEF At
<1>2. InOrder(Program, Plan[cur], ip)
  BY <1>1, ProgramType, ProgramInOrder DEF Program
<1>3. PICK j \in 1..Len(Program) : Program[j][1] = "req" /\ Program[j][2] = Kind
  BY <1>2 DEF InOrder, Kind
<1>4. DOMAIN Program = 1..Len(Program)
  OBVIOUS
<1> QED BY <1>3, <1>4 DEF Unserved, Program

LEMMA ServedAnswering ==
  ASSUME Calm, Serving, NEW k \in Requests, k = Kind, At("ready"), Answering(k)
  PROVE  Answering(k)'
<1>0. /\ req' = req /\ srv.at # "ended" /\ Late' = Late /\ cur' = cur /\ scene' = scene /\ Late = <<>>
      /\ "listen" \notin Faults
  <2>1. ~stray /\ Faults = {}
    BY DEF Calm, Orderly
  <2> QED BY <2>1, OnlyServer DEF besides, Late
<1>1. CASE AfterUDP(k) /\ Spoiled(cur)
  BY <1>0, <1>1, ServedAfterUDP, Unchanging DEF Answering, Spoiled
<1>2. CASE Asking(k) /\ (Refused => Unserved(Plan[cur]))
  <2>1. Asking(k)'
    BY <1>2, ServedAsking
  <2>2. ASSUME Refused' PROVE Unserved(Plan[cur])
    <3>1. CASE Loop(<<Frame("test_req", req, k)>>) /\ down = Late
      <4> DEFINE q == Frame("test_req", req, k)
      <4>1. q.type = "test_req" /\ q.kind = k
        BY FrameParts
      <4> HIDE DEF q
      <4>2. down' = <<>> /\ ~(down' = Append(Late, Error)')
        BY <1>0, <3>1, AtPoll, AtRead, OneFrame DEF Loop, q
      <4>3. srv.at = "read" /\ srv'.at = "error"
        BY <1>0, <2>2, <3>1, <4>2, AtPoll DEF Refused, InError, Loop
      <4>4. Head(up) = q
        BY <3>1, <4>3, OneFrame DEF Loop, q
      <4>5. k \notin scene.offers
        BY <1>0, <4>1, <4>3, <4>4, AtRead
      <4> QED BY <4>5, Asks DEF Serving
    <3>2. CASE Refused
      BY <1>2, <3>2
    <3>3. /\ Ready.type # Error.type /\ Error' = Error
          /\ Append(Late, Ready) = <<Ready>> /\ Append(Late, Error) = <<Error>>
          /\ Head(<<Ready>>) = Ready /\ Head(<<Error>>) = Error /\ Head(Append(<<Ready>>, Result)) = Ready
          /\ Refused' <=> (srv'.at = "error" /\ srv'.id = req /\ up' = <<>>) \/ down' = <<Error>>
      BY <1>0, FrameParts, OneFrame, TwoFrames DEF Ready, Error, Refused, InError
    <3>4. CASE In(k, req, 1, <<>>) /\ down = Late
      <4>1. srv'.at = "handler" /\ down' = <<Ready>>
        BY <1>0, <3>3, <3>4, AtReady DEF In, InPlace, Moved, Answered, Ready
      <4> QED BY <2>2, <3>3, <4>1
    <3>5. CASE In(k, req, 2, <<>>) /\ down = Append(Late, Ready)
      <4>1. k \in {"latency", "mtu"} /\ srv'.at = "handler" /\ down' = down
        BY <1>0, <3>5, AtAwait, AtEcho, AtData DEF In, InPlace, Moved, Requests
      <4> QED BY <2>2, <3>3, <3>5, <4>1
    <3>6. CASE k = "mtu" /\ In(k, req, 3, <<>>) /\ down = Append(Late, Ready)
      <4>1. srv'.at = "poll" /\ down' = Append(<<Ready>>, Result)
        BY <1>0, <3>3, <3>6, AtEnd DEF In, Answered, Result
      <4> QED BY <2>2, <3>3, <4>1
    <3>7. CASE k = "mtu" /\ Loop(<<>>) /\ down = Append(Append(Late, Ready), Result)
      <4>1. srv'.at # "error" /\ down' = Append(<<Ready>>, Result)
        BY <1>0, <3>3, <3>7, AtPoll, AtRead DEF Loop
      <4> QED BY <2>2, <3>3, <4>1
    <3> QED BY <1>2, <3>1, <3>2, <3>4, <3>5, <3>6, <3>7 DEF Asking, Refused
  <2> QED BY <1>0, <2>1, <2>2, Unchanging DEF Answering
<1> QED BY <1>1, <1>2 DEF Answering

\* What the coupling says of a step, in these circumstances.
LEMMA CalmStep ==
  ASSUME Calm, TestStep
  PROVE  /\ conn = "open" /\ main = "testing" /\ srv.at # "ended" /\ ~stray /\ ~stray'
         /\ ~SendFails /\ ~ReceiveFails /\ ~TestCtxDone /\ Going /\ Reads
         /\ UNCHANGED elsewhere
         /\ res = "none" /\ (Program # <<>> => ip \in 1..Len(Program))
<1>1. UNCHANGED elsewhere /\ main \in {"testing", "draining"} /\ res = "none"
  BY DEF TestStep, SendRequest, AwaitReady, DialUDP, SendStart, OpenStreams, Load, Ping, Pong,
         SamplesDone, SayGoodbye, AwaitResult, AwaitMTUResult, LocalTest, quiet, At
<1>2. conn = "open" /\ main = "testing" /\ srv.at # "ended" /\ ~stray /\ ~TestCtxDone
      /\ (Program # <<>> => ip \in 1..Len(Program))
  BY <1>1 DEF Calm, Orderly, TestCtxDone
<1>3. ~SendFails /\ ~ReceiveFails
  BY <1>2 DEF SendFails, ReceiveFails
<1>4. ~stray'
  BY <1>2 DEF Calm, TestStep, SendRequest, AwaitReady, DialUDP, SendStart, OpenStreams, Load, Ping, Pong,
         SamplesDone, SayGoodbye, AwaitResult, AwaitMTUResult, LocalTest, quiet
<1> QED BY <1>1, <1>2, <1>3, <1>4 DEF Going, Calm, Coupled

\* What is left to show of a step of a test.
LEMMA OrderlyTest ==
  ASSUME Calm, TestStep,
         res' = "none" /\ Program # <<>> => ip' \in 1..Len(Program),
         res' = "err" => Cause(cur),
         res' # "none" => (LeftUDP' => Spoiled(cur + 1)),
         res' = "none" /\ (Program = <<>> \/ At("req")') => (LeftUDP' => Spoiled(cur)),
         At("ready")' => Answering(Kind)'
  PROVE  Orderly'
<1>1. /\ conn = "open" /\ main = "testing" /\ srv.at # "ended" /\ ~stray' /\ UNCHANGED elsewhere
  BY CalmStep
<1>2. /\ UNCHANGED <<main, cur, outcome, expired, ctx, conn, srv, alive>> /\ scene' = scene
  BY <1>1 DEF elsewhere, serverVars
<1>3. Program' = Program /\ Plan' = Plan
  BY <1>2, PlanFixed DEF Program
<1>4. /\ ~ctx' /\ ~expired' /\ alive' /\ ~stray'
      /\ main' \in {"dial", "hello", "ack", "next", "testing", "closing", "done"}
      /\ main' \in {"hello", "ack", "next", "testing", "closing"} => conn' = "open" /\ srv'.at # "ended"
  BY <1>1, <1>2 DEF Calm, Orderly
<1>5. \A j \in 1..Len(Plan') : outcome'[j] = "failed" => Cause(j)'
  BY <1>2, <1>3, Unchanging DEF Calm, Orderly
<1>6. /\ main' = "testing" /\ res' = "err" => Cause(cur)'
      /\ main' = "next" \/ (main' = "testing" /\ res' # "none") => (LeftUDP' => Spoiled(cur + 1)')
      /\ main' = "testing" /\ res' = "none" /\ (Program' = <<>> \/ At("req")') => (LeftUDP' => Spoiled(cur)')
  <2>1. Cause(cur)' = Cause(cur) /\ Spoiled(cur + 1)' = Spoiled(cur + 1) /\ Spoiled(cur)' = Spoiled(cur)
    BY <1>2, <1>3, Unchanging DEF Cause, Spoiled, LeftWaiting, Unserved, DialFails
  <2> QED BY <1>1, <1>2, <1>3, <2>1
<1> QED BY <1>3, <1>4, <1>5, <1>6 DEF Orderly

\* Where a step that succeeds leads.
LEMMA Ahead ==
  ASSUME TypeInv, NEW s \in StepNames, At(s), Proceed, UNCHANGED <<scene, main, cur>>
  PROVE  /\ ~At("ready")' /\ Program # <<>> /\ res' # "err"
         /\ res' = "none" => ip' \in 1..Len(Program)
         /\ ~Final(s) => res' = "none" /\ ~At("req")'
<1>1. /\ main \in {"testing", "draining"} /\ res = "none"
      /\ ip \in 1..Len(Program) /\ Program[ip][1] = s /\ s # "req" /\ ip' = ip + 1
      /\ res' = IF ip = Len(Program) THEN "ok" ELSE "none"
      /\ Len(Program) \in Nat
  BY ProgramType DEF At, StepNames, Proceed
<1>2. InOrder(Program, Plan[cur], ip)
  BY <1>1, ProgramType, ProgramInOrder DEF Program
<1>3. Program' = Program
  BY PlanFixed DEF Program
<1>4. Program # <<>>
  BY <1>1
<1>5. CASE Final(s)
  <2>1. ip = Len(Program) \/ Program[ip + 1][1] = "req"
    BY <1>1, <1>2, <1>5 DEF InOrder
  <2> QED BY <1>1, <1>3, <1>4, <1>5, <2>1 DEF At
<1>6. CASE ~Final(s)
  <2>1. ip < Len(Program) /\ Program[ip + 1][1] = After(Kind, s)
    BY <1>1, <1>2, <1>6 DEF InOrder, Kind
  <2>2. After(Kind, s) \notin {"req", "ready"}
    <3>1. PICK k \in Requests : k = Kind /\ s \in StepsOf(k)
      BY StepKind
    <3> QED BY <3>1, <1>6 DEF After, StepsOf, Requests, Final
  <2> QED BY <1>1, <1>3, <1>4, <2>1, <2>2 DEF At
<1> QED BY <1>5, <1>6

\* A step that succeeds, or that leaves the client where it is.
LEMMA OrderlyAhead ==
  ASSUME Calm, TestStep, NEW s \in StepNames, At(s), Proceed, Final(s) => ~LeftUDP'
  PROVE  Orderly'
<1>1. TypeInv /\ UNCHANGED <<scene, main, cur>>
  BY CalmStep DEF elsewhere, Calm, Coupled
<1>2. /\ ~At("ready")' /\ Program # <<>> /\ res' # "err"
      /\ res' = "none" => ip' \in 1..Len(Program)
      /\ ~Final(s) => res' = "none" /\ ~At("req")'
  BY <1>1, Ahead
<1> QED BY <1>2, OrderlyTest

LEMMA OrderlyStaying ==
  ASSUME Calm, TestStep, NEW s \in StepNames \ {"ready"}, At(s), UNCHANGED <<ip, res>>
  PROVE  Orderly'
<1>1. TypeInv /\ UNCHANGED <<scene, main, cur>> /\ res = "none" /\ Program # <<>> /\ ip \in 1..Len(Program)
  <2>1. ip \in 1..Len(Program)
    BY DEF At
  <2> QED BY <2>1, CalmStep DEF elsewhere, Calm, Coupled
<1>2. ~At("ready")' /\ ~At("req")'
  BY <1>1, SameClient, StepKind DEF At, StepNames
<1> QED BY <1>1, <1>2, OrderlyTest

\* The steps that may fail.
LEMMA OrderlyRequest ==
  ASSUME Calm, SendRequest
  PROVE  Orderly'
<1>1. TestStep
  BY DEF TestStep
<1>2. /\ req' = req + 1 /\ Proceed /\ Send(Frame("test_req", req + 1, Program[ip][2])) /\ At("req")
      /\ UNCHANGED elsewhere /\ UNCHANGED <<fed, stray, down>>
  BY <1>1, CalmStep DEF SendRequest
<1>3. /\ conn = "open" /\ main = "testing" /\ srv.at # "ended" /\ ~stray /\ TypeInv
  BY <1>1, CalmStep DEF Going
<1>4. /\ ip \in 1..Len(Program) /\ Program[ip][1] = "req" /\ ip' = ip + 1 /\ Len(Program) \in Nat
      /\ res' = IF ip = Len(Program) THEN "ok" ELSE "none" 
      /\ Program # <<>>
  BY <1>2, <1>3, ProgramType DEF At, Proceed
<1>5. InOrder(Program, Plan[cur], ip)
  BY <1>3, <1>4, ProgramType, ProgramInOrder DEF Program
<1>6. PICK k \in Requests : k = Kind
  BY <1>5 DEF InOrder, Kind
<1>7. /\ Program[ip][2] = k /\ ip < Len(Program) /\ Program[ip + 1][1] = "ready"
      /\ RequestOf(Plan[cur], ip + 1) = k
  BY <1>4, <1>5, <1>6 DEF InOrder, Kind
<1>8. /\ srv' = srv /\ cur' = cur /\ scene' = scene /\ main' = main /\ Plan' = Plan /\ Program' = Program
  BY <1>2, PlanFixed DEF elsewhere, serverVars, Program
<1>9. ip' \in 1..Len(Program) /\ res' = "none" /\ ~At("req")' /\ Kind' = k
  BY <1>4, <1>7, <1>8 DEF At, Kind
<1>10. Between
  BY <1>2, <1>3 DEF Calm, Coupled, Coupling, AtRest
<1>11. Quiet \/ LeftUDP
  BY <1>3, <1>10 DEF Between, Gone, LeftTCP, LeftMTU, Calm
<1>12. PICK n \in Nat : n = req + 1
  BY <1>3 DEF TypeInv, TypeOK
<1> DEFINE q == Frame("test_req", n, k)
<1>13. up' = Append(up, q) /\ req' = n /\ req' - 1 = req
  BY <1>2, <1>3, <1>7, <1>12 DEF Send, TypeInv, TypeOK
<1>14. Answering(k)'
  <2>1. CASE Quiet
    <3>1. Loop(<<q>>)' /\ down' = <<>> /\ Late' = <<>> /\ srv'.at \in {"poll", "read"}
      BY <1>2, <1>3, <1>8, <1>13, <2>1, OneFrame DEF Quiet, Loop, Late
    <3>2. Asking(k)'
      BY <1>13, <3>1 DEF Asking, Loop
    <3>3. ~Refused'
      BY <3>1, OneFrame DEF Refused, InError
    <3> QED BY <3>2, <3>3 DEF Answering
  <2>2. CASE LeftUDP
    <3>1. AfterUDP(k)'
      BY <1>2, <1>8, <1>13, <2>2, OneFrame DEF LeftUDP, In, AfterUDP, DialFails
    <3>2. Spoiled(cur)'
      <4>1. Spoiled(cur)
        BY <1>2, <1>3, <2>2, CalmStep, <1>1 DEF Calm, Orderly
      <4> QED BY <1>8, <4>1 DEF Spoiled, LeftWaiting, DialFails
    <3> QED BY <3>1, <3>2 DEF Answering
  <2> QED BY <1>11, <2>1, <2>2
<1> QED BY <1>1, <1>4, <1>9, <1>14, OrderlyTest

LEMMA OrderlyReady ==
  ASSUME Calm, AwaitReady
  PROVE  Orderly'
<1>1. TestStep /\ At("ready") /\ "ready" \in StepNames /\ srv' = srv
  BY DEF TestStep, AwaitReady, StepNames, elsewhere, serverVars
<1>2. PICK f \in Incoming : Take(f) /\ IF f.type = "error" THEN Fail ELSE Proceed
  BY <1>1, CalmStep DEF AwaitReady
<1>3. f = Head(down) /\ down # <<>> /\ ~stray /\ srv.at # "ended" /\ TypeInv
  BY <1>1, <1>2, Incoming1, CalmStep DEF Going
<1>4. CASE f.type # "error"
  BY <1>1, <1>2, <1>4, OrderlyAhead DEF Final
<1>5. CASE f.type = "error"
  <2>1. res' = "err" /\ ~At("ready")'
    BY <1>2, <1>5 DEF Fail, At
  <2>2. PICK k \in Requests : k = Kind
    BY <1>1, <1>3, StepKind
  <2>3. Answering(k)
    BY <1>1, <2>2 DEF Calm, Orderly
  <2>4. Cause(cur) /\ srv.at \in {"poll", "read"}
    <3>1. CASE Asking(k) /\ (Refused => Unserved(Plan[cur]))
      <4>1. /\ Late = <<>> /\ Ready.type # "error"
            /\ Append(Late, Ready) = <<Ready>> /\ Head(<<Ready>>) = Ready /\ Head(Append(<<Ready>>, Result)) = Ready
        BY <1>3, FrameParts, OneFrame, TwoFrames DEF Late, Ready
      <4>2. Loop(<<>>) /\ down = Append(Late, Error)
        BY <1>3, <1>5, <3>1, <4>1 DEF Asking
      <4> QED BY <1>3, <3>1, <4>2 DEF Refused, Cause, Loop
    <3>2. CASE AfterUDP(k) /\ Spoiled(cur)
      BY <1>3, <3>2 DEF AfterUDP, Cause, Loop
    <3> QED BY <2>3, <3>1, <3>2 DEF Answering
  <2>5. ~LeftUDP'
    BY <1>1, <2>4 DEF LeftUDP, In
  <2> QED BY <1>1, <2>1, <2>4, <2>5, OrderlyTest
<1> QED BY <1>4, <1>5

LEMMA OrderlyDial ==
  ASSUME Calm, DialUDP
  PROVE  Orderly'
<1>1. TestStep /\ At("dial") /\ "dial" \in StepNames
  BY DEF TestStep, DialUDP, StepNames
<1>2. CASE Proceed
  BY <1>1, <1>2, OrderlyAhead DEF Final
<1>3. CASE Plan[cur] \in DialFails /\ Fail
  <2>1. res' = "err" /\ ~At("ready")'
    BY <1>3 DEF Fail, At
  <2>2. cur \in 1..Len(Plan)
    <3>1. cur > 0 /\ cur \in 0..Len(Plan)
      BY <1>1, CalmStep DEF Going, TypeInv, TypeOK
    <3> QED BY <3>1, PlanType
  <2>3. Spoiled(cur + 1)
    <3>1. LeftWaiting(cur, cur + 1)
      BY <1>3, <2>2, PlanType DEF LeftWaiting
    <3> QED BY <2>2, <3>1 DEF Spoiled
  <2> QED BY <1>1, <1>3, <2>1, <2>3, OrderlyTest DEF Cause
<1> QED BY <1>2, <1>3 DEF DialUDP

LEMMA OrderlyOpen ==
  ASSUME Calm, OpenStreams
  PROVE  Orderly'
<1>1. TestStep /\ At("open") /\ "open" \in StepNames /\ "open" \in StepNames \ {"ready"}
  BY DEF TestStep, OpenStreams, StepNames
<1>2. PICK k : k = Kind
  OBVIOUS
<1>3. k = "tcp" /\ Wire(k, "open") /\ ~stray
  BY <1>1, <1>2, GoingAt, CalmStep DEF StepsOf, Requests
<1>4. Listening
  BY <1>3 DEF Wire, Opening, In, Listening
<1>5. Proceed
  BY <1>4 DEF OpenStreams, Calm
<1> QED BY <1>1, <1>5, OrderlyAhead DEF Final

LEMMA OrderlyLocal ==
  ASSUME Calm, LocalTest
  PROVE  Orderly'
<1>1. TestStep /\ res' = "ok" /\ Program = <<>> /\ UNCHANGED <<scene, stray, down, up, srv, req>>
  BY DEF TestStep, LocalTest, quiet, elsewhere, serverVars
<1>2. main = "testing" /\ res = "none"
  BY <1>1, CalmStep
<1>3. ASSUME LeftUDP' PROVE Spoiled(cur + 1)
  <2>1. LeftUDP
    BY <1>1, <1>3 DEF LeftUDP, In, DialFails
  <2>2. PICK i \in 1..cur - 1 : LeftWaiting(i, cur)
    BY <1>1, <1>2, <2>1 DEF Calm, Orderly, Spoiled
  <2>3. cur \in Nat
    BY PlanType DEF Calm, Coupled, TypeInv, TypeOK
  <2>4. ClientProgram(Plan[cur]) = <<>>
    BY <1>1 DEF Program
  <2>5. LeftWaiting(i, cur + 1)
    BY <2>2, <2>3, <2>4 DEF LeftWaiting
  <2> QED BY <2>2, <2>3, <2>5 DEF Spoiled
<1>4. ~At("ready")' /\ res' # "err" /\ res' # "none"
  BY <1>1 DEF At
<1> QED BY <1>1, <1>3, <1>4, OrderlyTest

\* The steps that do not.
LEMMA OrderlyOthers ==
  ASSUME Calm, SendStart \/ Load \/ Ping \/ Pong \/ SamplesDone \/ SayGoodbye
  PROVE  Orderly'
<1>1. TestStep /\ {"start", "load", "samples", "probe", "goodbye"} \in SUBSET (StepNames \ {"ready"})
  BY DEF TestStep, StepNames
<1>2. PICK s \in {"start", "load", "samples", "probe", "goodbye"} : At(s)
  BY DEF SendStart, Load, Ping, Pong, SamplesDone, SayGoodbye
<1>3. Proceed \/ UNCHANGED <<ip, res>>
  BY <1>1, CalmStep DEF SendStart, Load, Ping, Pong, SamplesDone, SayGoodbye
<1> QED BY <1>1, <1>2, <1>3, OrderlyAhead, OrderlyStaying DEF Final

LEMMA OrderlyResult ==
  ASSUME Calm, AwaitResult \/ AwaitMTUResult
  PROVE  Orderly'
<1>1. TestStep /\ {"result", "must", "fallback"} \in SUBSET (StepNames \ {"ready"})
  BY DEF TestStep, StepNames
<1>2. PICK s \in {"result", "must", "fallback"} : At(s)
  BY DEF AwaitResult, AwaitMTUResult
<1>3. ~stray /\ ~stray' /\ srv' = srv
  BY <1>1, CalmStep DEF elsewhere, serverVars
<1>4. PICK f \in Incoming : Take(f) /\ Proceed
  BY <1>1, <1>3, CalmStep DEF AwaitResult, AwaitMTUResult
<1>5. down # <<>>
  BY <1>1, <1>4, Incoming1, CalmStep DEF Going
<1>6. PICK k : k = Kind
  OBVIOUS
<1>7. k \in Requests /\ s \in StepsOf(k) /\ Wire(k, s) /\ s \in StepNames
  BY <1>1, <1>2, <1>6, GoingAt, CalmStep
<1>8. Loop(<<>>)
  <2>1. CASE k = "latency"
    BY <1>5, <1>7, <1>3, <1>2, <2>1 DEF Wire, Working, StepsOf
  <2>2. CASE k = "mtu"
    BY <1>5, <1>7, <1>3, <1>2, <2>2 DEF Wire, Working, StepsOf
  <2>3. CASE k \in {"tcp", "udp", "jitter"}
    BY <1>5, <1>7, <1>3, <1>2, <2>3 DEF Wire, Finishing, Working, StepsOf
  <2>4. CASE k = "bufferbloat"
    BY <1>5, <1>7, <1>3, <1>2, <2>4 DEF Wire, Ending, Working, StepsOf
  <2> QED BY <1>7, <2>1, <2>2, <2>3, <2>4 DEF Requests
<1>9. ~LeftUDP'
  BY <1>3, <1>8 DEF Loop, LeftUDP, In
<1> QED BY <1>1, <1>2, <1>4, <1>7, <1>9, OrderlyAhead

\* It is preserved, actor by actor.
LEMMA OrderlyTestStep ==
  ASSUME Calm, TestStep
  PROVE  Orderly'
BY OrderlyRequest, OrderlyReady, OrderlyDial, OrderlyOpen, OrderlyLocal, OrderlyOthers, OrderlyResult DEF TestStep

LEMMA OrderlySession ==
  ASSUME Calm, Session
  PROVE  Orderly'
<1>1. UNCHANGED besides
  BY DEF Session, Greet, Poll, ReadRequest, SendReady, AwaitStart, Echo, EchoUntil, ServeData, Answer, aside, besides, inTest
<1>2. /\ UNCHANGED <<scene, main, cur, ip, res>> /\ UNCHANGED <<ctx, expired, stray, outcome, conn>> /\ alive' = alive
  <2>1. alive' = alive
    BY DEF Session, Greet, Poll, ReadRequest, SendReady, AwaitStart, Echo, EchoUntil, ServeData, Answer, aside, besides, inTest
  <2> QED BY <1>1, <2>1 DEF besides
<1>3. Program' = Program /\ Plan' = Plan /\ Kind' = Kind
  BY <1>2, SameClient
<1>4. /\ ~ctx' /\ ~expired' /\ alive' /\ ~stray'
      /\ main' \in {"dial", "hello", "ack", "next", "testing", "closing", "done"}
      /\ main' = "testing" /\ res' = "none" /\ Program' # <<>> => ip' \in 1..Len(Program')
      /\ main' \in {"hello", "ack", "next", "testing", "closing"} => conn' = "open"
  BY <1>2, <1>3 DEF Calm, Orderly
<1>5. /\ \A j \in 1..Len(Plan') : outcome'[j] = "failed" => Cause(j)'
      /\ main' = "testing" /\ res' = "err" => Cause(cur)'
  <2>1. Cause(cur)' = Cause(cur)
    BY <1>2, <1>3 DEF Cause, Spoiled, LeftWaiting, Unserved, DialFails
  <2> QED BY <1>2, <1>3, <2>1, Unchanging DEF Calm, Orderly
<1>6. CASE main \notin {"hello", "ack", "next", "testing", "closing"}
  BY <1>2, <1>4, <1>5, <1>6 DEF Orderly, At
<1>7. CASE main \in {"hello", "ack", "next", "testing", "closing"}
  <2>1. Serving
    BY <1>7 DEF Serving, Calm, Coupled, Orderly
  <2>2. srv'.at # "ended"
    BY <2>1, NotEnded
  <2>3. AtRest => ~LeftUDP'
    BY <2>1, ServedNoneLeft DEF Calm, Coupled, Coupling, Serving
  <2>4. /\ main' = "next" \/ (main' = "testing" /\ res' # "none") => ~LeftUDP'
        /\ main' = "testing" /\ res' = "none" /\ (Program' = <<>> \/ At("req")') => ~LeftUDP'
    <3>1. At("req")' <=> At("req")
      BY <1>2, SameClient
    <3> QED BY <1>2, <1>3, <2>3, <3>1 DEF AtRest
  <2>5. ASSUME At("ready")' PROVE Answering(Kind)'
    <3>1. At("ready") /\ "ready" \in StepNames
      BY <1>2, <2>5, SameClient DEF StepNames
    <3>2. PICK k \in Requests : k = Kind
      BY <2>1, <3>1, StepKind DEF Serving
    <3>3. Answering(k)
      BY <3>1, <3>2 DEF Calm, Orderly
    <3>4. Answering(k)'
      BY <2>1, <3>1, <3>2, <3>3, ServedAnswering
    <3> QED BY <1>3, <3>2, <3>4
  <2> QED BY <1>2, <1>4, <1>5, <2>2, <2>4, <2>5 DEF Orderly
<1> QED BY <1>6, <1>7

LEMMA OrderlyConnecting ==
  ASSUME Calm, Connecting
  PROVE  Orderly'
<1>1. UNCHANGED given
  BY DEF Connecting, Dial, SayHello, AwaitAck, PingAgain, Close
<1>2. /\ UNCHANGED <<scene, cur, outcome, expired, ctx, alive>>
      /\ ~ctx /\ ~expired /\ alive /\ ~stray /\ ~Refusing
      /\ main \in {"hello", "ack", "next", "testing", "closing"} => conn = "open" /\ srv.at # "ended"
      /\ main # "pause"
  BY <1>1 DEF given, Calm, Orderly, Refusing
<1>3. main \in {"hello", "ack", "closing"} => ~SendFails
  BY <1>2 DEF SendFails
<1>4. /\ main' \in {"hello", "ack", "next", "closing", "done"} /\ ~stray'
      /\ main' \in {"hello", "ack", "next", "closing"} => conn' = "open" /\ srv'.at # "ended"
      /\ main' = "next" => srv' = srv
  <2>1. InSession("hello").at = "hello"
    BY DEF InSession
  <2> QED BY <1>2, <1>3, <2>1 DEF Connecting, Dial, SayHello, AwaitAck, PingAgain, Close, NewConnection, Connected
<1>5. \A j \in 1..Len(Plan') : outcome'[j] = "failed" => Cause(j)'
  BY <1>2, Unchanging DEF Calm, Orderly
<1>6. main' = "next" => ~LeftUDP'
  <2>1. CASE main' = "next"
    <3>1. main = "ack" /\ Greeted
      BY <1>2, <1>3, <2>1 DEF Connecting, Dial, SayHello, AwaitAck, PingAgain, Close, Connected, Calm, Coupled, Coupling
    <3>2. srv.at # "handler"
      BY <3>1 DEF Greeted, Loop, Gone
    <3> QED BY <1>4, <2>1, <3>2 DEF LeftUDP, In
  <2> QED BY <2>1
<1> QED BY <1>2, <1>4, <1>5, <1>6 DEF Orderly, At

LEMMA OrderlyTesting ==
  ASSUME Calm, Testing \/ Expire
  PROVE  Orderly'
<1>0. /\ ~ctx /\ ~expired /\ alive /\ ~stray /\ ~TestCtxDone
      /\ main \in {"next", "testing"} => conn = "open" /\ srv.at # "ended"
      /\ main # "draining" /\ ~Expire /\ ~GiveUp /\ ~Drained
  BY DEF Calm, Orderly, TestCtxDone, Expire, GiveUp, Drained
<1>1. /\ UNCHANGED <<scene, ctx, stray, conn, srv, up, down, req, alive>> /\ ~expired'
  <2>1. StartTest \/ TakeResult \/ StopTests
    BY <1>0 DEF Testing
  <2>2. UNCHANGED <<scene, ctx, stray, conn, srv, up, down, req, alive>>
    BY <2>1 DEF StartTest, TakeResult, StopTests, others, inTest, netVars, serverVars
  <2>3. expired' = FALSE \/ expired' = expired
    BY <2>1 DEF StartTest, TakeResult, StopTests
  <2> QED BY <1>0, <2>2, <2>3
<1>2. LeftUDP' <=> LeftUDP
  BY <1>1 DEF LeftUDP, In, DialFails
<1>3. Plan' = Plan /\ cur \in Nat
  BY <1>1, PlanFixed, PlanType DEF Calm, Coupled, TypeInv, TypeOK
<1>4. CASE StartTest
  <2>1. /\ main = "next" /\ main' = "testing" /\ cur' = cur + 1 /\ ip' = 1 /\ res' = "none" /\ outcome' = outcome
    BY <1>4 DEF StartTest
  <2>2. cur' \in 1..Len(Plan) /\ Plan[cur'] \in TestKinds
    <3>1. cur + 1 \in 1..Len(Plan) /\ Plan \in Seq(TestKinds)
      BY <1>3, <1>4, PlanType DEF StartTest, MayBegin, Calm, Coupled, TypeInv, TypeOK
    <3> QED BY <2>1, <3>1
  <2>3. Program' = ClientProgram(Plan[cur'])
    BY <1>3 DEF Program
  <2>4. /\ Program' # <<>> => ip' \in 1..Len(Program') /\ Program'[1][1] = "req"
    BY <2>1, <2>2, <2>3, ProgramInOrder
  <2>5. ~At("ready")'
    <3>1. Len(Program') > 0 => Program' # <<>>
      OBVIOUS
    <3> QED BY <2>1, <2>4, <3>1 DEF At
  <2>6. LeftUDP' => Spoiled(cur)'
    <3>1. LeftUDP => Spoiled(cur + 1)
      BY <2>1 DEF Calm, Orderly
    <3> QED BY <1>1, <1>2, <1>3, <2>1, <3>1 DEF Spoiled, LeftWaiting, DialFails
  <2>7. \A j \in 1..Len(Plan') : outcome'[j] = "failed" => Cause(j)'
    BY <1>1, <2>1, Unchanging DEF Calm, Orderly
  <2> QED BY <1>0, <1>1, <2>1, <2>4, <2>5, <2>6, <2>7 DEF Orderly
<1>5. CASE TakeResult
  <2>1. /\ main = "testing" /\ res # "none" /\ main' = "next" /\ cur' = cur
        /\ outcome' = [outcome EXCEPT ![cur] = IF res = "ok" THEN "ok" ELSE "failed"]
    BY <1>0, <1>5 DEF TakeResult, Record, others
  <2>2. res \in {"ok", "err"} /\ outcome \in [1..Len(Plan) -> {"todo", "ok", "failed"}]
    BY <2>1 DEF Calm, Coupled, TypeInv, TypeOK
  <2>3. res = "err" => Cause(cur)
    BY <2>1 DEF Calm, Orderly
  <2>4. \A j \in 1..Len(Plan) : outcome[j] = "failed" => Cause(j)
    BY DEF Calm, Orderly
  <2>5. ASSUME NEW j \in 1..Len(Plan), outcome'[j] = "failed" PROVE Cause(j)
    <3>1. CASE j = cur
      BY <2>1, <2>2, <2>3, <2>5, <3>1
    <3>2. CASE j # cur
      BY <2>1, <2>2, <2>4, <2>5, <3>2
    <3> QED BY <3>1, <3>2
  <2>6. \A j \in 1..Len(Plan') : outcome'[j] = "failed" => Cause(j)'
    BY <1>1, <1>3, <2>5, Unchanging
  <2>7. LeftUDP' => Spoiled(cur + 1)'
    <3>1. LeftUDP => Spoiled(cur + 1)
      BY <2>1 DEF Calm, Orderly
    <3> QED BY <1>1, <1>2, <1>3, <2>1, <3>1 DEF Spoiled, LeftWaiting, DialFails
  <2> QED BY <1>0, <1>1, <2>1, <2>6, <2>7 DEF Orderly, At
<1>6. CASE StopTests
  <2>1. main' = "closing" /\ main = "next" /\ outcome' = outcome
    BY <1>6 DEF StopTests
  <2>2. \A j \in 1..Len(Plan') : outcome'[j] = "failed" => Cause(j)'
    BY <1>1, <2>1, Unchanging DEF Calm, Orderly
  <2> QED BY <1>0, <1>1, <2>1, <2>2 DEF Orderly, At
<1> QED BY <1>0, <1>4, <1>5, <1>6 DEF Testing

LEMMA OrderlyRest ==
  ASSUME Calm, StrayReads \/ Abort \/ WatchAbort \/ CutConnection \/ Crash \/ Shutdown \/ UNCHANGED vars
  PROVE  Orderly'
<1>1. ~stray /\ ~ctx /\ Faults = {} /\ watch # "cutting"
  BY DEF Calm, Orderly, Coupled, ConnInv
<1>2. UNCHANGED vars
  BY <1>1 DEF StrayReads, Abort, WatchAbort, CutConnection, Crash, Shutdown
<1>3. UNCHANGED <<scene, main, cur, ip, res, outcome, ctx, expired, alive, stray, conn, srv, req, up, down, fed>>
  BY <1>2 DEF vars, clientVars, netVars, serverVars
<1>4. /\ Plan' = Plan /\ Kind' = Kind /\ Program' = Program
      /\ \A s \in StepNames \cup {"req"} : At(s)' <=> At(s)
  BY <1>3, SameClient
<1>5. LeftUDP' <=> LeftUDP
  BY <1>3 DEF LeftUDP, In, DialFails
<1>6. /\ Cause(cur)' = Cause(cur) /\ Spoiled(cur)' = Spoiled(cur) /\ Spoiled(cur + 1)' = Spoiled(cur + 1)
      /\ \A j : Cause(j)' = Cause(j)
      /\ Unserved(Plan[cur])' = Unserved(Plan[cur])
  BY <1>3, <1>4, Unchanging DEF Cause, Spoiled, LeftWaiting, Unserved, DialFails
<1>7. ASSUME NEW k, Answering(k) PROVE Answering(k)'
  <2>1. Asking(k)' = Asking(k)
    BY <1>3 DEF Asking, Loop, In, InError, Late, Ready, Error, Result
  <2>2. AfterUDP(k)' = AfterUDP(k)
    BY <1>3 DEF AfterUDP, Loop, In, InError, DialFails
  <2>3. Refused' = Refused
    BY <1>3 DEF Refused, InError, Late, Error
  <2> QED BY <1>6, <1>7, <2>1, <2>2, <2>3 DEF Answering
<1>8. "ready" \in StepNames
  BY DEF StepNames
<1> QED BY <1>3, <1>4, <1>5, <1>6, <1>7, <1>8 DEF Calm, Orderly

\* It holds at the start, and every step preserves it.
LEMMA OrderlyInit == Init => Orderly
<1> SUFFICES ASSUME Init PROVE Orderly
  OBVIOUS
<1>1. Len(Plan) \in Nat
  BY PlanType DEF Init
<1> QED BY <1>1 DEF Init, Orderly, At

LEMMA OrderlyStep == Coupled /\ Orderly /\ [Next]_vars => Orderly'
<1> SUFFICES ASSUME Coupled, Orderly, [Next]_vars, Usual', Faults' = {} PROVE Orderly'
  BY DEF Orderly
<1>1. scene' = scene
  <2>1. CASE TestStep
    BY <2>1 DEF TestStep, SendRequest, AwaitReady, DialUDP, SendStart, OpenStreams, Load, Ping, Pong,
         SamplesDone, SayGoodbye, AwaitResult, AwaitMTUResult, LocalTest, quiet, elsewhere
  <2>2. CASE ~TestStep
    BY <2>2 DEF Next, ClientMain, Session, Greet, Poll, ReadRequest, SendReady, AwaitStart, Echo, EchoUntil, ServeData,
       Answer, aside, besides, inTest, Connecting, Dial, SayHello, AwaitAck, PingAgain, Close, given, Testing, Expire,
       StartTest, TakeResult, GiveUp, Drained, StopTests, others, StrayReads, Abort, WatchAbort, CutConnection, Crash, Shutdown,
       vars, clientVars
  <2> QED BY <2>1, <2>2
<1>2. Calm
  BY <1>1, Unchanging DEF Calm
<1> QED BY <1>2, OrderlyTestStep, OrderlySession, OrderlyConnecting, OrderlyTesting, OrderlyRest DEF Next, ClientMain

\* OneFailureCostsOneTest: when nothing fails but the UDP sockets of the client, a
\* test fails for a cause of its own, or because an earlier one, with no request
\* between them, has left its handler waiting (handleUDPServer, handleJitterServer).
THEOREM OneFailure == Spec => [](Usual => OneFailureCostsOneTest)
<1>1. Init => Coupled /\ Orderly
  BY CoupledInit, OrderlyInit
<1>2. Coupled /\ Orderly /\ [Next]_vars => Coupled' /\ Orderly'
  BY CoupledStep, OrderlyStep
<1>3. Orderly => (Usual => OneFailureCostsOneTest)
  BY DEF Orderly, OneFailureCostsOneTest, Cause, Spoiled
<1> QED BY <1>1, <1>2, <1>3, PTL DEF Spec

\* SessionOutlivesTests ("until the client disconnects or context is cancelled",
\* session.go): when nothing fails but UDP sockets, and echo deadlines do not
\* overrun, no test of any plan ends the session that it runs on.
THEOREM SessionOutlives == Spec => [](Usual /\ Faults = {} => SessionOutlivesTests)
<1>1. Init => Coupled /\ Orderly
  BY CoupledInit, OrderlyInit
<1>2. Coupled /\ Orderly /\ [Next]_vars => Coupled' /\ Orderly'
  BY CoupledStep, OrderlyStep
<1>3. Coupled /\ Orderly => (Usual /\ Faults = {} => SessionOutlivesTests)
  <2> SUFFICES ASSUME Coupled, Orderly, Usual, Faults = {}, srv.at = "ended", conn = "open"
               PROVE  main = "done"
    BY DEF SessionOutlivesTests
  <2>1. main \in {"dial", "pause"} => conn \in {"nil", "closed"}
    BY DEF Coupled, ConnInv
  <2> QED BY <2>1 DEF Orderly
<1> QED BY <1>1, <1>2, <1>3, PTL DEF Spec
====
