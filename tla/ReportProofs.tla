---- MODULE ReportProofs ----
(***************************************************************************)
(* Proofs about Assessment (grades of all measurements, the rounding of    *)
(* the rate of the UDP test) and about Report, for any set of clients,     *)
(* tests and measurements.                                                 *)
(***************************************************************************)
EXTENDS Report, Foundations

(***************************************************************************)
(* Grades.                                                                 *)
(***************************************************************************)
Bounds == [1..4 -> Int]

LEMMA FirstCase ==
  ASSUME NEW cases \in SUBSET (1..4), cases # {}
  PROVE  \E i \in cases : \A j \in cases : i <= j
<1>1. CASE 1 \in cases
  BY <1>1
<1>2. CASE 1 \notin cases /\ 2 \in cases
  BY <1>2
<1>3. CASE 1 \notin cases /\ 2 \notin cases /\ 3 \in cases
  BY <1>3
<1>4. CASE 1 \notin cases /\ 2 \notin cases /\ 3 \notin cases
  <2>1. \A i \in cases : i = 4
    <3>1. \A i \in 1..4 : i = 1 \/ i = 2 \/ i = 3 \/ i = 4
      OBVIOUS
    <3> QED BY <1>4, <3>1
  <2>2. PICK i \in cases : TRUE
    OBVIOUS
  <2> QED BY <2>1, <2>2
<1> QED BY <1>1, <1>2, <1>3, <1>4

LEMMA SwitchTakesFirst ==
  ASSUME NEW cases \in SUBSET (1..4)
  PROVE  /\ Switch(cases) \in Grades
         /\ \A j \in cases : Switch(cases) <= j
         /\ cases # {} => Switch(cases) \in cases
<1>1. CASE cases = {}
  BY <1>1 DEF Switch, Grades
<1>2. CASE cases # {}
  <2>1. Switch(cases) \in cases /\ \A j \in cases : Switch(cases) <= j
    BY <1>2, FirstCase DEF Switch
  <2>2. 1..4 \subseteq Grades
    BY DEF Grades
  <2>3. Switch(cases) \in Grades
    BY <2>1, <2>2
  <2> QED BY <2>1, <2>3
<1> QED BY <1>1, <1>2

LEMMA SwitchMonotone ==
  ASSUME NEW fewer \in SUBSET (1..4), NEW more \in SUBSET (1..4), fewer \subseteq more
  PROVE  Switch(more) <= Switch(fewer)
<1>1. CASE fewer = {}
  <2>1. Switch(fewer) = 5
    BY <1>1 DEF Switch
  <2>2. Switch(more) \in 1..5
    BY SwitchTakesFirst DEF Grades
  <2> QED BY <2>1, <2>2
<1>2. CASE fewer # {}
  BY <1>2, SwitchTakesFirst
<1> QED BY <1>1, <1>2

\* A smaller value never has a worse grade where small is good (grade.go's
\* switches on <), whatever the bounds are.
THEOREM SmallerIsBetter ==
  ASSUME NEW bounds \in Bounds, NEW v \in Int, NEW w \in Int, v <= w
  PROVE  Below(v, bounds) \in Grades /\ Below(v, bounds) <= Below(w, bounds)
<1>1. {i \in 1..4 : w < bounds[i]} \subseteq {i \in 1..4 : v < bounds[i]}
  BY DEF Bounds
<1> QED BY <1>1, SwitchMonotone, SwitchTakesFirst DEF Below

\* A larger value never has a worse grade where large is good (>=).
THEOREM LargerIsBetter ==
  ASSUME NEW bounds \in Bounds, NEW v \in Int, NEW w \in Int, v <= w
  PROVE  AtLeast(w, bounds) \in Grades /\ AtLeast(w, bounds) <= AtLeast(v, bounds)
<1>1. {i \in 1..4 : v >= bounds[i]} \subseteq {i \in 1..4 : w >= bounds[i]}
  BY DEF Bounds
<1> QED BY <1>1, SwitchMonotone, SwitchTakesFirst DEF AtLeast

LEMMA WorseOfTwo ==
  ASSUME NEW g \in Int, NEW h \in Int, NEW a \in Int, NEW b \in Int, g >= a, h >= b
  PROVE  Worse(g, h) >= Worse(a, b)
BY DEF Worse, Larger

\* The figures of each test.
Figures ==
  [latency     |-> [test : {"latency"}, avg : Int, p95 : Int],
   udp         |-> [test : {"udp"}, loss : Int, kbps : Nat],
   bidir       |-> [test : {"bidir"}, upload : Nat, download : Nat],
   tcp         |-> [test : {"tcp"}, kbps : Nat],
   bufferbloat |-> [test : {"bufferbloat"}, rpm : Int, kbps : Nat],
   mtu         |-> [test : {"mtu"}, mtu : Int],
   delay       |-> [test : {"jitter", "dns", "connect"}, avg : Int]]

LEMMA MeasuredBy ==
  ASSUME NEW m \in Measured
  PROVE  \/ m \in Figures.latency \/ m \in Figures.udp \/ m \in Figures.bidir \/ m \in Figures.tcp
         \/ m \in Figures.bufferbloat \/ m \in Figures.mtu \/ m \in Figures.delay
BY DEF Measured, Figures

\* Each switch of grade.go is monotone, and returns a grade.
LEMMA Monotone ==
  ASSUME NEW v \in Int, NEW w \in Int, v <= w
  PROVE  /\ GradeLatency(v) \in Grades /\ GradeLatency(w) \in Grades /\ GradeLatency(v) <= GradeLatency(w)
         /\ GradeConnect(v) \in Grades /\ GradeConnect(v) <= GradeConnect(w)
         /\ GradeDNS(v) \in Grades /\ GradeDNS(v) <= GradeDNS(w)
         /\ GradeJitter(v) \in Grades /\ GradeJitter(v) <= GradeJitter(w)
         /\ GradeLoss(v) \in Grades /\ GradeLoss(w) \in Grades /\ GradeLoss(v) <= GradeLoss(w)
         /\ GradeMTU(w) \in Grades /\ GradeMTU(w) <= GradeMTU(v)
         /\ GradeBufferbloat(w) \in Grades /\ GradeBufferbloat(w) <= GradeBufferbloat(v)
         /\ GradeThroughput(w) \in Grades /\ GradeThroughput(v) \in Grades
         /\ GradeThroughput(w) <= GradeThroughput(v)
<1>1. /\ <<20, 50, 100, 200>> \in Bounds /\ <<50, 100, 200, 500>> \in Bounds
      /\ <<10, 30, 75, 200>> \in Bounds /\ <<5, 10, 20, 50>> \in Bounds /\ <<1, 5, 10, 25>> \in Bounds
      /\ <<1500, 1400, 1200, 576>> \in Bounds /\ <<400, 200, 100, 50>> \in Bounds
      /\ <<100000, 50000, 25000, 10000>> \in Bounds
  BY DEF Bounds
<1>2. \A b \in Bounds : Below(v, b) \in Grades /\ Below(w, b) \in Grades /\ Below(v, b) <= Below(w, b)
  <2>1. \A b \in Bounds, x \in Int : Below(x, b) \in Grades
    BY SmallerIsBetter
  <2> QED BY <2>1, SmallerIsBetter
<1>3. \A b \in Bounds : AtLeast(w, b) \in Grades /\ AtLeast(v, b) \in Grades /\ AtLeast(w, b) <= AtLeast(v, b)
  <2>1. \A b \in Bounds, x \in Int : AtLeast(x, b) \in Grades
    BY LargerIsBetter
  <2> QED BY <2>1, LargerIsBetter
<1> HIDE DEF Bounds
<1> QED BY <1>1, <1>2, <1>3 DEF GradeLatency, GradeConnect, GradeDNS, GradeJitter, GradeLoss,
          GradeMTU, GradeBufferbloat, GradeThroughput

\* The tests that measure two figures (runLatencyTest, runUDPTest, runBidirTest):
\* no better figure, no better grade.
THEOREM WorseFiguresWorseGrade ==
  /\ \A m, n \in Figures.latency :
       m.avg >= n.avg /\ m.p95 >= n.p95 => TestGrade(m) >= TestGrade(n)
  /\ \A m, n \in Figures.udp :
       m.loss >= n.loss /\ m.kbps <= n.kbps => TestGrade(m) >= TestGrade(n)
  /\ \A m, n \in Figures.bidir :
       m.upload <= n.upload /\ m.download <= n.download => TestGrade(m) >= TestGrade(n)
<1> USE DEF Figures, Grades
<1>1. ASSUME NEW m \in Figures.latency, NEW n \in Figures.latency, m.avg >= n.avg, m.p95 >= n.p95
      PROVE  TestGrade(m) >= TestGrade(n)
  <2>1. \A v, w \in Int : v <= w => GradeLatency(v) \in Grades /\ GradeLatency(w) >= GradeLatency(v)
    BY Monotone
  <2>2. /\ TestGrade(m) = Worse(GradeLatency(m.avg), GradeLatency(m.p95))
        /\ TestGrade(n) = Worse(GradeLatency(n.avg), GradeLatency(n.p95))
    BY DEF TestGrade
  <2> QED BY <1>1, <2>1, <2>2, WorseOfTwo
<1>2. ASSUME NEW m \in Figures.udp, NEW n \in Figures.udp, m.loss >= n.loss, m.kbps <= n.kbps
      PROVE  TestGrade(m) >= TestGrade(n)
  <2>1. \A v, w \in Int : v <= w => GradeLoss(v) \in Grades /\ GradeLoss(w) \in Grades /\ GradeLoss(w) >= GradeLoss(v)
    BY Monotone
  <2>2. \A v, w \in Int : v <= w => GradeThroughput(v) \in Grades /\ GradeThroughput(w) \in Grades /\ GradeThroughput(v) >= GradeThroughput(w)
    BY Monotone
  <2>3. /\ TestGrade(m) = Worse(GradeLoss(m.loss), GradeThroughput(m.kbps))
        /\ TestGrade(n) = Worse(GradeLoss(n.loss), GradeThroughput(n.kbps))
    BY DEF TestGrade
  <2> QED BY <1>2, <2>1, <2>2, <2>3, WorseOfTwo
<1>3. ASSUME NEW m \in Figures.bidir, NEW n \in Figures.bidir,
             m.upload <= n.upload, m.download <= n.download
      PROVE  TestGrade(m) >= TestGrade(n)
  <2>1. Smaller(m.upload, m.download) <= Smaller(n.upload, n.download)
    BY <1>3 DEF Smaller
  <2>2. Smaller(m.upload, m.download) \in Int /\ Smaller(n.upload, n.download) \in Int
    BY DEF Smaller
  <2>3. TestGrade(m) = GradeThroughput(Smaller(m.upload, m.download))
        /\ TestGrade(n) = GradeThroughput(Smaller(n.upload, n.download))
    BY DEF TestGrade
  <2> QED BY <2>1, <2>2, <2>3, Monotone
<1> QED BY <1>1, <1>2, <1>3

\* estimateUDPBandwidth: the rate is a multiple of 50 Mbit/s that covers the
\* whole megabits of the throughput by less than 50.
THEOREM RoundedUp ==
  ASSUME NEW mbps \in Nat
  PROVE  /\ Rounded(mbps) \in mbps..mbps + 49
         /\ \E k \in Nat : Rounded(mbps) = k * 50
BY DEF Rounded

(***************************************************************************)
(* The grade of every test.                                                *)
(***************************************************************************)
\* What TestGrade makes of each measurement.
LEMMA GradeOf ==
  ASSUME NEW m \in Measured
  PROVE  /\ m \in Figures.latency => TestGrade(m) = Worse(GradeLatency(m.avg), GradeLatency(m.p95))
         /\ m \in Figures.udp => TestGrade(m) = Worse(GradeLoss(m.loss), GradeThroughput(m.kbps))
         /\ m \in Figures.bidir => TestGrade(m) = GradeThroughput(Smaller(m.upload, m.download))
         /\ m \in Figures.tcp => TestGrade(m) = GradeThroughput(m.kbps)
         /\ m \in Figures.bufferbloat => TestGrade(m) = GradeBufferbloat(m.rpm)
         /\ m \in Figures.mtu => TestGrade(m) = GradeMTU(m.mtu)
         /\ m \in Figures.delay => TestGrade(m) = CASE m.test = "jitter" -> GradeJitter(m.avg)
                                                   [] m.test = "dns" -> GradeDNS(m.avg)
                                                   [] m.test = "connect" -> GradeConnect(m.avg)
BY DEF Figures, TestGrade

LEMMA WorseOfGrades ==
  ASSUME NEW g \in Grades, NEW h \in Grades
  PROVE  Worse(g, h) \in Grades
BY DEF Worse, Larger, Grades

LEMMA GradeTypes ==
  ASSUME NEW m \in Measured
  PROVE  TestGrade(m) \in Grades
<1>1. CASE m \in Figures.latency
  <2>1. m.avg \in Int /\ m.p95 \in Int
    BY <1>1 DEF Figures
  <2>2. GradeLatency(m.avg) \in Grades /\ GradeLatency(m.p95) \in Grades
    BY <2>1, Monotone
  <2> QED BY <1>1, <2>2, GradeOf, WorseOfGrades
<1>2. CASE m \in Figures.udp
  <2>1. m.loss \in Int /\ m.kbps \in Int
    BY <1>2 DEF Figures
  <2>2. GradeLoss(m.loss) \in Grades /\ GradeThroughput(m.kbps) \in Grades
    BY <2>1, Monotone
  <2> QED BY <1>2, <2>2, GradeOf, WorseOfGrades
<1>3. CASE m \in Figures.bidir
  <2>1. Smaller(m.upload, m.download) \in Int
    BY <1>3 DEF Figures, Smaller
  <2>2. GradeThroughput(Smaller(m.upload, m.download)) \in Grades
    BY <2>1, Monotone
  <2> QED BY <1>3, <2>2, GradeOf
<1>4. CASE m \in Figures.tcp
  <2>1. m.kbps \in Int
    BY <1>4 DEF Figures
  <2> QED BY <1>4, <2>1, GradeOf, Monotone
<1>5. CASE m \in Figures.bufferbloat
  <2>1. m.rpm \in Int
    BY <1>5 DEF Figures
  <2> QED BY <1>5, <2>1, GradeOf, Monotone
<1>6. CASE m \in Figures.mtu
  <2>1. m.mtu \in Int
    BY <1>6 DEF Figures
  <2> QED BY <1>6, <2>1, GradeOf, Monotone
<1>7. CASE m \in Figures.delay
  <2>1. m.avg \in Int /\ m.test \in {"jitter", "dns", "connect"}
    BY <1>7 DEF Figures
  <2>2. GradeJitter(m.avg) \in Grades /\ GradeDNS(m.avg) \in Grades /\ GradeConnect(m.avg) \in Grades
    BY <2>1, Monotone
  <2>3. /\ m.test = "jitter" => TestGrade(m) = GradeJitter(m.avg)
        /\ m.test = "dns" => TestGrade(m) = GradeDNS(m.avg)
        /\ m.test = "connect" => TestGrade(m) = GradeConnect(m.avg)
    BY <1>7, GradeOf
  <2> QED BY <2>1, <2>2, <2>3
<1> QED BY <1>1, <1>2, <1>3, <1>4, <1>5, <1>6, <1>7, MeasuredBy

\* What "no better in any figure" says of each test.
LEMMA NoBetterIn ==
  ASSUME NEW m \in Measured, NEW n \in Measured, NoBetter(m, n)
  PROVE  /\ m \in Figures.latency => n \in Figures.latency /\ m.avg >= n.avg /\ m.p95 >= n.p95
         /\ m \in Figures.udp => n \in Figures.udp /\ m.loss >= n.loss /\ m.kbps <= n.kbps
         /\ m \in Figures.bidir => n \in Figures.bidir /\ m.upload <= n.upload /\ m.download <= n.download
         /\ m \in Figures.tcp => n \in Figures.tcp /\ m.kbps <= n.kbps
         /\ m \in Figures.bufferbloat => n \in Figures.bufferbloat /\ m.rpm <= n.rpm
         /\ m \in Figures.mtu => n \in Figures.mtu /\ m.mtu <= n.mtu
         /\ m \in Figures.delay => n \in Figures.delay /\ m.test = n.test /\ m.avg >= n.avg
<1>1. m.test = n.test /\ \A f \in DOMAIN m \ {"test"} : IF f \in SmallIsGood THEN m[f] >= n[f] ELSE m[f] <= n[f]
  BY DEF NoBetter
<1>2. /\ n.test = "latency" => n \in Figures.latency
      /\ n.test = "udp" => n \in Figures.udp
      /\ n.test = "bidir" => n \in Figures.bidir
      /\ n.test = "tcp" => n \in Figures.tcp
      /\ n.test = "bufferbloat" => n \in Figures.bufferbloat
      /\ n.test = "mtu" => n \in Figures.mtu
      /\ n.test \in {"jitter", "dns", "connect"} => n \in Figures.delay
  BY DEF Measured, Figures
<1>3. /\ m \in Figures.latency => m.test = "latency" /\ {"avg", "p95"} \subseteq DOMAIN m
      /\ m \in Figures.udp => m.test = "udp" /\ {"loss", "kbps"} \subseteq DOMAIN m
      /\ m \in Figures.bidir => m.test = "bidir" /\ {"upload", "download"} \subseteq DOMAIN m
      /\ m \in Figures.tcp => m.test = "tcp" /\ "kbps" \in DOMAIN m
      /\ m \in Figures.bufferbloat => m.test = "bufferbloat" /\ "rpm" \in DOMAIN m
      /\ m \in Figures.mtu => m.test = "mtu" /\ "mtu" \in DOMAIN m
      /\ m \in Figures.delay => m.test \in {"jitter", "dns", "connect"} /\ "avg" \in DOMAIN m
  BY DEF Figures
<1>4. /\ "avg" \in DOMAIN m => m["avg"] >= n["avg"]
      /\ "p95" \in DOMAIN m => m["p95"] >= n["p95"]
      /\ "loss" \in DOMAIN m => m["loss"] >= n["loss"]
      /\ "kbps" \in DOMAIN m => m["kbps"] <= n["kbps"]
      /\ "upload" \in DOMAIN m => m["upload"] <= n["upload"]
      /\ "download" \in DOMAIN m => m["download"] <= n["download"]
      /\ "rpm" \in DOMAIN m => m["rpm"] <= n["rpm"]
      /\ "mtu" \in DOMAIN m => m["mtu"] <= n["mtu"]
  BY <1>1 DEF SmallIsGood
<1> HIDE DEF Figures
<1> QED BY <1>1, <1>2, <1>3, <1>4

\* No better figure, no better grade, for every test.
LEMMA NoBetterNoBetter ==
  ASSUME NEW m \in Measured, NEW n \in Measured, NoBetter(m, n)
  PROVE  TestGrade(m) >= TestGrade(n)
<1>1. CASE m \in Figures.latency
  <2>1. n \in Figures.latency /\ m.avg >= n.avg /\ m.p95 >= n.p95
    BY <1>1, NoBetterIn
  <2> QED BY <1>1, <2>1, WorseFiguresWorseGrade
<1>2. CASE m \in Figures.udp
  <2>1. n \in Figures.udp /\ m.loss >= n.loss /\ m.kbps <= n.kbps
    BY <1>2, NoBetterIn
  <2> QED BY <1>2, <2>1, WorseFiguresWorseGrade
<1>3. CASE m \in Figures.bidir
  <2>1. n \in Figures.bidir /\ m.upload <= n.upload /\ m.download <= n.download
    BY <1>3, NoBetterIn
  <2> QED BY <1>3, <2>1, WorseFiguresWorseGrade
<1>4. CASE m \in Figures.tcp
  <2>1. n \in Figures.tcp /\ m.kbps <= n.kbps /\ m.kbps \in Int /\ n.kbps \in Int
    BY <1>4, NoBetterIn DEF Figures
  <2>2. TestGrade(m) = GradeThroughput(m.kbps) /\ TestGrade(n) = GradeThroughput(n.kbps)
    BY <1>4, <2>1, GradeOf
  <2>3. GradeThroughput(n.kbps) <= GradeThroughput(m.kbps)
    BY <2>1, Monotone
  <2> QED BY <2>2, <2>3
<1>5. CASE m \in Figures.bufferbloat
  <2>1. n \in Figures.bufferbloat /\ m.rpm <= n.rpm /\ m.rpm \in Int /\ n.rpm \in Int
    BY <1>5, NoBetterIn DEF Figures
  <2>2. TestGrade(m) = GradeBufferbloat(m.rpm) /\ TestGrade(n) = GradeBufferbloat(n.rpm)
    BY <1>5, <2>1, GradeOf
  <2>3. GradeBufferbloat(n.rpm) <= GradeBufferbloat(m.rpm)
    BY <2>1, Monotone
  <2> QED BY <2>2, <2>3
<1>6. CASE m \in Figures.mtu
  <2>1. n \in Figures.mtu /\ m.mtu <= n.mtu /\ m.mtu \in Int /\ n.mtu \in Int
    BY <1>6, NoBetterIn DEF Figures
  <2>2. TestGrade(m) = GradeMTU(m.mtu) /\ TestGrade(n) = GradeMTU(n.mtu)
    BY <1>6, <2>1, GradeOf
  <2>3. GradeMTU(n.mtu) <= GradeMTU(m.mtu)
    BY <2>1, Monotone
  <2> QED BY <2>2, <2>3
<1>7. CASE m \in Figures.delay
  <2>1. /\ n \in Figures.delay /\ m.test = n.test /\ n.avg <= m.avg /\ m.avg \in Int /\ n.avg \in Int
        /\ m.test \in {"jitter", "dns", "connect"}
    BY <1>7, NoBetterIn DEF Figures
  <2>2. /\ m.test = "jitter" => TestGrade(m) = GradeJitter(m.avg) /\ TestGrade(n) = GradeJitter(n.avg)
        /\ m.test = "dns" => TestGrade(m) = GradeDNS(m.avg) /\ TestGrade(n) = GradeDNS(n.avg)
        /\ m.test = "connect" => TestGrade(m) = GradeConnect(m.avg) /\ TestGrade(n) = GradeConnect(n.avg)
    BY <1>7, <2>1, GradeOf
  <2>3. /\ GradeJitter(n.avg) <= GradeJitter(m.avg) /\ GradeDNS(n.avg) <= GradeDNS(m.avg)
        /\ GradeConnect(n.avg) <= GradeConnect(m.avg)
    BY <2>1, Monotone
  <2>4. CASE m.test = "jitter"
    BY <2>2, <2>3, <2>4
  <2>5. CASE m.test = "dns"
    BY <2>2, <2>3, <2>5
  <2>6. CASE m.test = "connect"
    BY <2>2, <2>3, <2>6
  <2> QED BY <2>1, <2>4, <2>5, <2>6
<1> QED BY <1>1, <1>2, <1>3, <1>4, <1>5, <1>6, <1>7, MeasuredBy

(***************************************************************************)
(* The two loops over the results.                                         *)
(***************************************************************************)
\* ComputeOverallGrade is the worst grade of a test, and A without one.
LEMMA OverallIs ==
  ASSUME NEW r \in Seq(Measured)
  PROVE  /\ ComputeOverallGrade(r) \in Grades
         /\ \A i \in DOMAIN r : ComputeOverallGrade(r) >= TestGrade(r[i])
         /\ r # <<>> => \E i \in DOMAIN r : ComputeOverallGrade(r) = TestGrade(r[i])
         /\ r = <<>> => ComputeOverallGrade(r) = 1
<1> DEFINE n == Len(r)
           Body(g) == [i \in 0..n |-> IF i = 0 THEN 1 ELSE WorstOf(g[i - 1], TestGrade(r[i]))]
           worst[i \in 0..n] == IF i = 0 THEN 1 ELSE WorstOf(worst[i - 1], TestGrade(r[i]))
           body == [p \in (1..n) \X Grades |-> WorstOf(p[2], TestGrade(r[p[1]]))]
           grade == [i \in 1..n |-> TestGrade(r[i])]
<1>1. n \in Nat /\ DOMAIN r = 1..n /\ \A i \in 1..n : TestGrade(r[i]) \in Grades
  BY GradeTypes
<1>2. body \in [(1..n) \X Grades -> Grades] /\ 1 \in Grades
  BY <1>1 DEF WorstOf, Grades
<1>3. PICK f : IsLoop(f, n, Grades, 1, body)
  <2> HIDE DEF body
  <2> QED BY <1>1, <1>2, LoopExists
<1>4. /\ f \in [0..n -> Grades] /\ f[0] = 1
      /\ \A i \in 1..n : f[i] = WorstOf(f[i - 1], TestGrade(r[i]))
  <2>1. f \in [0..n -> Grades] /\ f[0] = 1
    BY <1>3 DEF IsLoop
  <2>2. ASSUME NEW i \in 1..n PROVE f[i] = WorstOf(f[i - 1], TestGrade(r[i]))
    <3>1. i - 1 \in 0..n
      BY <1>1
    <3>2. <<i, f[i - 1]>> \in (1..n) \X Grades
      BY <2>1, <3>1
    <3>3. f[i] = body[<<i, f[i - 1]>>]
      <4> HIDE DEF body
      <4> QED BY <1>3 DEF IsLoop
    <3> QED BY <3>2, <3>3
  <2> QED BY <2>1, <2>2
<1>5. worst = Body(worst)
  <2>1. f = Body(f)
    BY <1>4
  <2>2. worst = CHOOSE g : g = Body(g)
    OBVIOUS
  <2> HIDE DEF worst, Body
  <2> QED BY <2>1, <2>2
<1>6. ComputeOverallGrade(r) = worst[n]
  BY DEF ComputeOverallGrade
<1> HIDE DEF worst
<1>7. worst[0] = 1 /\ \A i \in 1..n : worst[i] = WorstOf(worst[i - 1], TestGrade(r[i]))
  <2>1. \A i \in 0..n : Body(worst)[i] = IF i = 0 THEN 1 ELSE WorstOf(worst[i - 1], TestGrade(r[i]))
    OBVIOUS
  <2> HIDE DEF Body
  <2>2. 0 \in 0..n /\ \A i \in 1..n : i \in 0..n /\ i # 0
    BY <1>1
  <2> QED BY <1>5, <2>1, <2>2
<1>8. \A i \in 0..n : worst[i] \in Grades
  <2>1. \A i \in 1..n : worst[i - 1] \in Grades => worst[i] \in Grades
    BY <1>1, <1>7 DEF WorstOf
  <2>2. worst[0] \in Grades
    BY <1>2, <1>7
  <2> QED BY <1>1, <2>1, <2>2, LoopTypes
<1>9. worst \in [0..n -> Int] /\ grade \in [1..n -> Int] /\ \A i \in 1..n : grade[i] = TestGrade(r[i])
  <2>1. worst = [i \in 0..n |-> worst[i]]
    BY <1>5
  <2>2. \A g \in Grades : g \in Int
    BY DEF Grades
  <2> QED BY <1>1, <1>8, <2>1, <2>2
<1> HIDE DEF grade, n
<1>10. \A i \in 1..n : worst[i] = IF grade[i] > worst[i - 1] THEN grade[i] ELSE worst[i - 1]
  BY <1>7, <1>9 DEF WorstOf
<1>11. /\ worst[n] >= worst[0] /\ \A i \in 1..n : worst[n] >= grade[i]
       /\ worst[n] = worst[0] \/ \E i \in 1..n : worst[n] = grade[i]
  BY <1>1, <1>9, <1>10, RunningMax
<1>12. worst[n] \in Grades
  BY <1>1, <1>8
<1>13. ASSUME r # <<>> PROVE \E i \in 1..n : worst[n] = grade[i]
  <2>1. n # 0
    BY <1>1, <1>13, EmptySeq DEF n
  <2>2. 1 \in 1..n
    BY <1>1, <2>1
  <2>3. worst[n] = 1 => grade[1] = 1
    <3>1. grade[1] \in Grades /\ worst[n] >= grade[1]
      BY <1>1, <1>9, <1>11, <2>2
    <3> QED BY <1>12, <3>1 DEF Grades
  <2> QED BY <1>7, <1>11, <2>2, <2>3
<1>14. r = <<>> => worst[n] = 1
  <2>1. r = <<>> => n = 0
    BY DEF n
  <2> QED BY <1>7, <2>1
<1> QED BY <1>1, <1>6, <1>9, <1>11, <1>12, <1>13, <1>14

LEMMA ThroughputTypes ==
  ASSUME NEW m \in Measured
  PROVE  MaxThroughput(m) \in Nat
<1>1. CASE m.test \in {"tcp", "bufferbloat"}
  BY <1>1 DEF Measured, MaxThroughput
<1>2. CASE m.test = "bidir"
  <2>1. m.upload \in Nat /\ m.download \in Nat
    BY <1>2 DEF Measured
  <2> QED BY <1>2, <2>1 DEF MaxThroughput, Larger
<1>3. CASE m.test \notin {"tcp", "bufferbloat", "bidir"}
  BY <1>3 DEF MaxThroughput
<1> QED BY <1>1, <1>2, <1>3

\* MaxOf is the largest throughput of a test, and 0 without one.
LEMMA MaxOfIs ==
  ASSUME NEW r \in Seq(Measured)
  PROVE  /\ MaxOf(r) \in Nat
         /\ \A i \in DOMAIN r : MaxOf(r) >= MaxThroughput(r[i])
         /\ MaxOf(r) = 0 \/ \E i \in DOMAIN r : MaxOf(r) = MaxThroughput(r[i])
<1> DEFINE n == Len(r)
           Body(g) == [i \in 0..n |-> IF i = 0 THEN 0 ELSE Larger(g[i - 1], MaxThroughput(r[i]))]
           max[i \in 0..n] == IF i = 0 THEN 0 ELSE Larger(max[i - 1], MaxThroughput(r[i]))
           body == [p \in (1..n) \X Nat |-> Larger(p[2], MaxThroughput(r[p[1]]))]
           rate == [i \in 1..n |-> MaxThroughput(r[i])]
<1>1. n \in Nat /\ DOMAIN r = 1..n /\ \A i \in 1..n : MaxThroughput(r[i]) \in Nat
  BY ThroughputTypes
<1>2. body \in [(1..n) \X Nat -> Nat] /\ 0 \in Nat
  BY <1>1 DEF Larger
<1>3. PICK f : IsLoop(f, n, Nat, 0, body)
  <2> HIDE DEF body
  <2> QED BY <1>1, <1>2, LoopExists
<1>4. /\ f \in [0..n -> Nat] /\ f[0] = 0
      /\ \A i \in 1..n : f[i] = Larger(f[i - 1], MaxThroughput(r[i]))
  <2>1. f \in [0..n -> Nat] /\ f[0] = 0
    BY <1>3 DEF IsLoop
  <2>2. ASSUME NEW i \in 1..n PROVE f[i] = Larger(f[i - 1], MaxThroughput(r[i]))
    <3>1. i - 1 \in 0..n
      BY <1>1
    <3>2. <<i, f[i - 1]>> \in (1..n) \X Nat
      BY <2>1, <3>1
    <3>3. f[i] = body[<<i, f[i - 1]>>]
      <4> HIDE DEF body
      <4> QED BY <1>3 DEF IsLoop
    <3> QED BY <3>2, <3>3
  <2> QED BY <2>1, <2>2
<1>5. max = Body(max)
  <2>1. f = Body(f)
    BY <1>4
  <2>2. max = CHOOSE g : g = Body(g)
    OBVIOUS
  <2> HIDE DEF max, Body
  <2> QED BY <2>1, <2>2
<1>6. MaxOf(r) = max[n]
  BY DEF MaxOf
<1> HIDE DEF max
<1>7. max[0] = 0 /\ \A i \in 1..n : max[i] = Larger(max[i - 1], MaxThroughput(r[i]))
  <2>1. \A i \in 0..n : Body(max)[i] = IF i = 0 THEN 0 ELSE Larger(max[i - 1], MaxThroughput(r[i]))
    OBVIOUS
  <2> HIDE DEF Body
  <2>2. 0 \in 0..n /\ \A i \in 1..n : i \in 0..n /\ i # 0
    BY <1>1
  <2> QED BY <1>5, <2>1, <2>2
<1>8. \A i \in 0..n : max[i] \in Nat
  <2>1. \A i \in 1..n : max[i - 1] \in Nat => max[i] \in Nat
    BY <1>1, <1>7 DEF Larger
  <2>2. max[0] \in Nat
    BY <1>7
  <2> QED BY <1>1, <2>1, <2>2, LoopTypes
<1>9. max \in [0..n -> Int] /\ rate \in [1..n -> Int] /\ \A i \in 1..n : rate[i] = MaxThroughput(r[i])
  <2>1. max = [i \in 0..n |-> max[i]]
    BY <1>5
  <2> QED BY <1>1, <1>8, <2>1
<1> HIDE DEF rate, n
<1>10. \A i \in 1..n : max[i] = IF rate[i] > max[i - 1] THEN rate[i] ELSE max[i - 1]
  <2> SUFFICES ASSUME NEW i \in 1..n PROVE max[i] = IF rate[i] > max[i - 1] THEN rate[i] ELSE max[i - 1]
    OBVIOUS
  <2>1. max[i - 1] \in Nat /\ rate[i] \in Nat
    <3>1. i - 1 \in 0..n
      BY <1>1
    <3> QED BY <1>1, <1>8, <1>9, <3>1
  <2>2. max[i] = Larger(max[i - 1], rate[i])
    BY <1>7, <1>9
  <2> QED BY <2>1, <2>2 DEF Larger
<1>11. /\ max[n] >= max[0] /\ \A i \in 1..n : max[n] >= rate[i]
       /\ max[n] = max[0] \/ \E i \in 1..n : max[n] = rate[i]
  BY <1>1, <1>9, <1>10, RunningMax
<1>12. max[n] \in Nat
  BY <1>1, <1>8
<1> QED BY <1>1, <1>6, <1>7, <1>9, <1>11, <1>12

(***************************************************************************)
(* The history file.                                                       *)
(***************************************************************************)
Tokens == [kind : {"whole", "part", "newline"}, by : Clients, grade : 0..5]

Running == {c \in Clients : at[c] # "ended"}
Lost == saved \ Readable(file)
Ragged(f) == f # <<>> /\ f[Len(f)].kind # "newline"

\* What the clients have, and how far they are.
ClientInv ==
  /\ results \in [Clients -> Seq(Measured)] /\ \A c \in Clients : results[c] \in Seq(Measurements[c])
  /\ at \in [Clients -> {"testing", "saving", "ended"}]
  /\ saved \subseteq Clients /\ \A c \in saved : at[c] = "ended"

\* A client writes at most once.  The entry of a client whose write succeeded
\* is never the end of the file: its newline follows; and a newline ends the
\* entry of the client that wrote it.
FileInv ==
  /\ file \in Seq(Tokens)
  /\ \A i \in DOMAIN file : at[file[i].by] = "ended"
  /\ \A i \in DOMAIN file : file[i].kind = "whole" /\ file[i].by \in saved => i < Len(file)
  /\ \A i \in DOMAIN file : file[i].kind = "newline" =>
       i # 1 /\ file[i - 1].kind = "whole" /\ file[i - 1].by = file[i].by

\* Every line is paid for by a client that has ended, and every saved report
\* that cannot be read by a write that stopped; one that is the end of the file
\* has not cost anything yet.
CountInv ==
  /\ torn \in Nat /\ torn + Cardinality(Running) <= Cardinality(Clients)
  /\ Len(file) + 2 * Cardinality(Running) <= 2 * Cardinality(Clients)
  /\ Cardinality(Lost) + (IF Ragged(file) THEN 1 ELSE 0) <= torn

IInv == ClientInv /\ FileInv /\ CountInv

LEMMA TokenTypes ==
  ASSUME ClientInv, NEW c \in Clients
  PROVE  /\ Whole(c) \in Tokens /\ Whole(c).kind = "whole" /\ Whole(c).by = c
         /\ Newline(c) \in Tokens /\ Newline(c).kind = "newline" /\ Newline(c).by = c
         /\ Part(c) \in Tokens /\ Part(c).kind = "part" /\ Part(c).by = c
<1>1. ComputeOverallGrade(results[c]) \in 0..5
  <2>1. results[c] \in Seq(Measured)
    BY DEF ClientInv
  <2>2. ComputeOverallGrade(results[c]) \in Grades
    BY <2>1, OverallIs
  <2> QED BY <2>2 DEF Grades
<1> QED BY <1>1 DEF Whole, Newline, Part, Token, Tokens

\* What a client appends: its line, or what its write got through of it.
Written(c) == {Line(c), <<Part(c)>>, <<Whole(c)>>}

LEMMA WrittenTypes ==
  ASSUME ClientInv, NEW c \in Clients, NEW tokens \in Written(c)
  PROVE  /\ tokens \in Seq(Tokens) /\ tokens # <<>> /\ Len(tokens) \in 1..2
         /\ \A j \in DOMAIN tokens : /\ tokens[j].by = c
                                     /\ tokens[j].kind = "newline" => j = 2 /\ tokens[1].kind = "whole"
         /\ tokens = Line(c) => /\ Len(tokens) = 2 /\ tokens[1].kind = "whole"
                                /\ tokens[2].kind = "newline"
         /\ tokens # Line(c) => Len(tokens) = 1 /\ tokens[1].kind # "newline"
<1> USE TokenTypes
<1>1. CASE tokens = Line(c)
  <2>1. tokens = <<Whole(c), Newline(c)>>
    BY <1>1 DEF Line
  <2> QED BY <1>1, <2>1
<1>2. CASE tokens = <<Part(c)>>
  <2>1. Len(Line(c)) = 2 /\ Len(tokens) = 1
    BY <1>2 DEF Line
  <2> QED BY <1>2, <2>1
<1>3. CASE tokens = <<Whole(c)>>
  <2>1. Len(Line(c)) = 2 /\ Len(tokens) = 1
    BY <1>3 DEF Line
  <2> QED BY <1>3, <2>1
<1> QED BY <1>1, <1>2, <1>3 DEF Written

\* The file with the tokens of c at its end.
LEMMA Appended ==
  ASSUME ClientInv, FileInv, NEW c \in Clients, NEW tokens \in Written(c), file' = file \o tokens
  PROVE  /\ file' \in Seq(Tokens) /\ Len(file) \in Nat /\ Len(file') = Len(file) + Len(tokens)
         /\ Len(file') \in Nat /\ Len(file) < Len(file')
         /\ DOMAIN file = 1..Len(file) /\ DOMAIN file' = 1..Len(file')
         /\ \A i \in 1..Len(file) : i \in DOMAIN file' /\ file'[i] = file[i]
         /\ \A j \in 1..Len(tokens) : file'[Len(file) + j] = tokens[j]
         /\ \A i \in DOMAIN file' : i \in DOMAIN file \/ i - Len(file) \in 1..Len(tokens)
<1>1. file \in Seq(Tokens) /\ tokens \in Seq(Tokens)
  BY WrittenTypes DEF FileInv
<1>2. Len(file) \in Nat /\ Len(file') = Len(file) + Len(tokens)
  BY <1>1
<1>3. Len(file') \in Nat /\ Len(file) < Len(file')
  <2> DEFINE a == Len(file)
             b == Len(tokens)
  <2>1. a \in Nat /\ b \in 1..2 /\ Len(file') = a + b
    BY <1>2, WrittenTypes
  <2> HIDE DEF a, b
  <2>2. a + b \in Nat /\ a < a + b
    BY <2>1
  <2> QED BY <2>1, <2>2 DEF a
<1> QED BY <1>1, <1>2, <1>3

\* What was read as an entry, and has its newline, still is one.
LEMMA EntryStays ==
  ASSUME ClientInv, FileInv, NEW c \in Clients, NEW tokens \in Written(c), file' = file \o tokens,
         NEW i \in DOMAIN file, IsEntry(file, i), file[i].by \in saved
  PROVE  i \in DOMAIN file' /\ IsEntry(file', i) /\ file'[i].by = file[i].by
<1>1. i < Len(file) /\ Len(file) \in Nat /\ i \in 1..Len(file)
  BY DEF FileInv, IsEntry
<1>2. i + 1 \in 1..Len(file) /\ (i # 1 => i - 1 \in 1..Len(file)) /\ i # Len(file)
  BY <1>1
<1>3. file[i].kind = "whole" /\ (i = 1 \/ file[i - 1].kind = "newline") /\ file[i + 1].kind = "newline"
  BY <1>2 DEF IsEntry
<1>4. i \in DOMAIN file' /\ file'[i] = file[i] /\ file'[i + 1] = file[i + 1]
      /\ (i # 1 => file'[i - 1] = file[i - 1])
  BY <1>1, <1>2, Appended
<1> QED BY <1>3, <1>4 DEF IsEntry

LEMMA AppendInv ==
  ASSUME ClientInv, FileInv, NEW c \in Clients, at[c] = "saving", at' = [at EXCEPT ![c] = "ended"],
         UNCHANGED results, NEW tokens \in Written(c), file' = file \o tokens,
         \/ saved' = saved
         \/ saved' = saved \cup {c} /\ tokens = Line(c)
  PROVE  ClientInv' /\ FileInv'
<1>0. /\ \A i \in DOMAIN file : i < Len(file')
      /\ \A i \in DOMAIN file' : i \in DOMAIN file \/ \E j \in 1..Len(tokens) : i = Len(file) + j
  <2>1. Len(file') = Len(file) + Len(tokens) /\ Len(file) \in Nat /\ Len(tokens) \in 1..2
    BY Appended, WrittenTypes
  <2>2. DOMAIN file = 1..Len(file) /\ DOMAIN file' = 1..Len(file')
    BY Appended
  <2>3. \A i \in DOMAIN file : i < Len(file')
    BY Appended
  <2>4. ASSUME NEW i \in DOMAIN file', i \notin DOMAIN file PROVE \E j \in 1..Len(tokens) : i = Len(file) + j
    <3>1. i - Len(file) \in 1..Len(tokens) /\ i = Len(file) + (i - Len(file))
      BY <2>1, <2>2, <2>4
    <3> QED BY <3>1
  <2> QED BY <2>3, <2>4
<1>1. \A d \in Clients : at'[d] = IF d = c THEN "ended" ELSE at[d]
  BY DEF ClientInv
<1>2. ClientInv'
  BY <1>1 DEF ClientInv
<1>3. \A i \in DOMAIN file : file[i].by \in Clients /\ file[i].by # c
  <2>1. \A i \in DOMAIN file : file[i] \in Tokens /\ at[file[i].by] = "ended"
    BY DEF FileInv
  <2> QED BY <2>1 DEF Tokens
<1>4. \A i \in DOMAIN file' : at'[file'[i].by] = "ended"
  <2> SUFFICES ASSUME NEW i \in DOMAIN file' PROVE at'[file'[i].by] = "ended"
    OBVIOUS
  <2>1. CASE i \in DOMAIN file
    <3>1. file'[i] = file[i] /\ at[file[i].by] = "ended"
      BY <2>1, Appended DEF FileInv
    <3> QED BY <1>1, <1>3, <2>1, <3>1
  <2>2. CASE i \notin DOMAIN file
    <3>1. PICK j \in 1..Len(tokens) : i = Len(file) + j
      BY <1>0, <2>2
    <3>2. file'[i].by = c
      BY <3>1, Appended, WrittenTypes
    <3> QED BY <1>1, <3>2
  <2> QED BY <2>1, <2>2
<1>5. \A i \in DOMAIN file' : file'[i].kind = "whole" /\ file'[i].by \in saved' => i < Len(file')
  <2> SUFFICES ASSUME NEW i \in DOMAIN file', file'[i].kind = "whole", file'[i].by \in saved'
               PROVE  i < Len(file')
    OBVIOUS
  <2>1. Len(file') = Len(file) + Len(tokens) /\ Len(file) \in Nat /\ Len(tokens) \in 1..2
    BY Appended, WrittenTypes
  <2>2. CASE i \in DOMAIN file
    BY <1>0, <2>2
  <2>3. CASE i \notin DOMAIN file
    <3>1. PICK j \in 1..Len(tokens) : i = Len(file) + j
      BY <1>0, <2>3
    <3>2. file'[i] = tokens[j] /\ file'[i].by = c
      BY <3>1, Appended, WrittenTypes
    <3>3. tokens = Line(c)
      <4>1. c \notin saved
        BY DEF ClientInv
      <4> QED BY <3>2, <4>1
    <3>4. Len(tokens) = 2 /\ tokens[2].kind = "newline"
      BY <3>3, WrittenTypes
    <3>5. j # 2
      BY <3>2, <3>4
    <3> QED BY <2>1, <3>1, <3>4, <3>5
  <2> QED BY <2>2, <2>3
<1>6. ASSUME NEW i \in DOMAIN file', file'[i].kind = "newline"
      PROVE  i # 1 /\ file'[i - 1].kind = "whole" /\ file'[i - 1].by = file'[i].by
  <2>1. CASE i \in DOMAIN file
    <3>1. file'[i] = file[i] /\ i \in 1..Len(file) /\ Len(file) \in Nat
      BY <2>1, Appended
    <3>2. i # 1 /\ file[i - 1].kind = "whole" /\ file[i - 1].by = file[i].by
      BY <1>6, <2>1, <3>1 DEF FileInv
    <3>3. i - 1 \in 1..Len(file)
      BY <3>1, <3>2
    <3> QED BY <3>1, <3>2, <3>3, Appended
  <2>2. CASE i \notin DOMAIN file
    <3>1. PICK j \in 1..Len(tokens) : i = Len(file) + j /\ Len(file) \in Nat
      BY <1>0, <2>2, Appended
    <3>2. file'[i] = tokens[j]
      BY <3>1, Appended
    <3>3. j = 2 /\ tokens[1].kind = "whole" /\ tokens[1].by = c /\ tokens[j].by = c /\ Len(tokens) \in 1..2
      BY <1>6, <3>1, <3>2, WrittenTypes
    <3>4. 1 \in 1..Len(tokens) /\ i - 1 = Len(file) + 1 /\ i # 1
      BY <3>1, <3>3
    <3>5. file'[i - 1] = tokens[1]
      BY <3>4, Appended
    <3> QED BY <3>2, <3>3, <3>4, <3>5
  <2> QED BY <2>1, <2>2
<1>7. file' \in Seq(Tokens)
  BY Appended
<1> QED BY <1>2, <1>4, <1>5, <1>6, <1>7 DEF FileInv

(***************************************************************************)
(* Counting.                                                               *)
(***************************************************************************)
LEMMA Counts ==
  ASSUME ClientInv
  PROVE  /\ IsFiniteSet(Clients) /\ Cardinality(Clients) \in Nat
         /\ IsFiniteSet(Running) /\ Cardinality(Running) \in Nat
         /\ IsFiniteSet(Lost) /\ Cardinality(Lost) \in Nat
<1>1. IsFiniteSet(Clients) /\ Running \in SUBSET Clients /\ Lost \in SUBSET Clients
  BY ReportAssumption DEF Running, Lost, ClientInv
<1> QED BY <1>1, FS_Subset, FS_CardinalityType

\* A client that ends is one fewer.
LEMMA OneEnds ==
  ASSUME ClientInv, NEW c \in Clients, at[c] # "ended", at' = [at EXCEPT ![c] = "ended"]
  PROVE  Cardinality(Running') + 1 = Cardinality(Running)
<1>1. Running' = Running \ {c} /\ c \in Running
  BY DEF Running, ClientInv
<1>2. Cardinality(Running \ {c}) = Cardinality(Running) - 1
  BY <1>1, Counts, FS_RemoveElement
<1> QED BY <1>1, <1>2, Counts

\* The reports that an appended line makes unreadable: its own at most, and
\* only at the end of an unfinished line.
LEMMA LineCosts ==
  ASSUME ClientInv, FileInv, NEW c \in Clients, NEW tokens \in Written(c), file' = file \o tokens,
         saved' = saved \/ (saved' = saved \cup {c} /\ tokens = Line(c))
  PROVE  /\ saved' = saved => Lost' \subseteq Lost
         /\ tokens = Line(c) => /\ ~Ragged(file')
                                /\ Lost' \subseteq Lost \cup (IF Ragged(file) THEN {c} ELSE {})
<1>1. \A d \in saved : d \in Readable(file) => d \in Readable(file')
  <2> SUFFICES ASSUME NEW d \in saved, d \in Readable(file) PROVE d \in Readable(file')
    OBVIOUS
  <2>1. PICK i \in DOMAIN file : IsEntry(file, i) /\ file[i].by = d
    BY DEF Readable
  <2>2. i \in DOMAIN file' /\ IsEntry(file', i) /\ file'[i].by = d
    BY <2>1, EntryStays
  <2> QED BY <2>2 DEF Readable
<1>2. saved' = saved => Lost' \subseteq Lost
  BY <1>1 DEF Lost
<1>3. ASSUME tokens = Line(c) PROVE ~Ragged(file') /\ (~Ragged(file) => c \in Readable(file'))
  <2> DEFINE n == Len(file)
  <2>1. /\ Len(tokens) = 2 /\ tokens[1].kind = "whole" /\ tokens[2].kind = "newline"
        /\ tokens[1].by = c
    <3>1. /\ Len(tokens) = 2 /\ tokens[1].kind = "whole" /\ tokens[2].kind = "newline"
          /\ \A j \in DOMAIN tokens : tokens[j].by = c
          /\ tokens \in Seq(Tokens)
      BY <1>3, WrittenTypes
    <3>2. 1 \in DOMAIN tokens
      BY <3>1
    <3> QED BY <3>1, <3>2
  <2>2. /\ n \in Nat /\ Len(file') = n + 2 /\ DOMAIN file' = 1..Len(file')
        /\ file'[n + 1] = tokens[1] /\ file'[n + 2] = tokens[2]
    <3>1. 1 \in 1..Len(tokens) /\ 2 \in 1..Len(tokens)
      BY <2>1
    <3> QED BY <2>1, <3>1, Appended
  <2>3. ~Ragged(file')
    BY <2>1, <2>2 DEF Ragged
  <2>4. ASSUME ~Ragged(file) PROVE n + 1 = 1 \/ file'[n].kind = "newline"
    <3>1. CASE n = 0
      BY <3>1
    <3>2. CASE n # 0
      <4>1. file # <<>> /\ n \in 1..Len(file)
        BY <2>2, <3>2
      <4>2. file'[n] = file[n]
        BY <4>1, Appended
      <4> QED BY <2>4, <4>1, <4>2 DEF Ragged
    <3> QED BY <3>1, <3>2
  <2>5. ASSUME ~Ragged(file) PROVE c \in Readable(file')
    <3>1. n + 1 \in DOMAIN file' /\ (n + 1) - 1 = n /\ (n + 1) + 1 = n + 2
      BY <2>2
    <3>2. IsEntry(file', n + 1)
      BY <2>1, <2>2, <2>4, <2>5, <3>1 DEF IsEntry
    <3> QED BY <2>1, <2>2, <3>1, <3>2 DEF Readable
  <2> QED BY <2>3, <2>5
<1>4. ASSUME tokens = Line(c) PROVE Lost' \subseteq Lost \cup (IF Ragged(file) THEN {c} ELSE {})
  BY <1>1, <1>3, <1>4 DEF Lost
<1> QED BY <1>2, <1>3, <1>4

\* The sums of CountInv, before and after a line is appended.
LEMMA CountsAdd ==
  ASSUME NEW t \in Nat, NEW r \in Nat, NEW k \in Nat, NEW l \in Nat, NEW a \in 1..2, NEW q \in Nat,
         q + 1 = r, t + r <= k, l + 2 * r <= 2 * k
  PROVE  /\ t + q <= k /\ (t + 1) + q <= k /\ t + 1 \in Nat
         /\ (l + a) + 2 * q <= 2 * k
OBVIOUS

LEMMA AppendCounts ==
  ASSUME IInv, NEW c \in Clients, at[c] = "saving", at' = [at EXCEPT ![c] = "ended"],
         UNCHANGED results, NEW tokens \in Written(c), file' = file \o tokens,
         \/ saved' = saved /\ torn' = torn + 1 /\ tokens # Line(c)
         \/ saved' = saved \cup {c} /\ torn' = torn /\ tokens = Line(c)
  PROVE  IInv'
<1>1. ClientInv /\ FileInv
  BY DEF IInv
<1>2. ClientInv' /\ FileInv'
  BY <1>1, AppendInv
<1> DEFINE r == Cardinality(Running)
           q == Cardinality(Running')
           k == Cardinality(Clients)
           l == Len(file)
           a == Len(tokens)
           x == Cardinality(Lost)
           y == Cardinality(Lost')
           rag == IF Ragged(file) THEN 1 ELSE 0
           rag1 == IF Ragged(file') THEN 1 ELSE 0
<1>3. q + 1 = r
  BY <1>1, OneEnds
<1>4. r \in Nat /\ k \in Nat /\ x \in Nat /\ IsFiniteSet(Lost)
  BY <1>1, Counts
<1>5. IsFiniteSet(Lost') /\ y \in Nat /\ q \in Nat
  <2>1. IsFiniteSet(Clients) /\ Running' \in SUBSET Clients /\ Lost' \in SUBSET Clients
    BY <1>2, ReportAssumption DEF Running, Lost, ClientInv
  <2> QED BY <2>1, FS_Subset, FS_CardinalityType
<1>6. /\ torn \in Nat /\ torn + r <= k /\ l + 2 * r <= 2 * k /\ x + rag <= torn
  BY DEF IInv, CountInv
<1>7. l \in Nat /\ Len(file') = l + a /\ a \in 1..2
  BY <1>1, Appended, WrittenTypes
<1>8. rag \in 0..1 /\ rag1 \in 0..1
  OBVIOUS
<1>9. torn' \in Nat /\ torn' + q <= k /\ y + rag1 <= torn'
  <2>1. CASE saved' = saved /\ torn' = torn + 1
    <3>1. y <= x
      <4>1. Lost' \subseteq Lost
        BY <1>1, <2>1, LineCosts
      <4> QED BY <1>4, <4>1, FS_Subset
    <3> HIDE DEF r, q, k, l, a, x, y, rag, rag1
    <3>2. y + rag1 <= torn + 1
      BY <1>4, <1>5, <1>6, <1>8, <3>1
    <3>3. torn + 1 \in Nat /\ (torn + 1) + q <= k
      BY <1>3, <1>4, <1>5, <1>6, <1>7, CountsAdd
    <3> QED BY <2>1, <3>2, <3>3
  <2>2. CASE saved' = saved \cup {c} /\ torn' = torn /\ tokens = Line(c)
    <3>1. ~Ragged(file') /\ Lost' \subseteq Lost \cup (IF Ragged(file) THEN {c} ELSE {})
      BY <1>1, <2>2, LineCosts
    <3>2. y <= x + rag
      <4>1. CASE Ragged(file)
        <5>1. Lost' \in SUBSET (Lost \cup {c})
          BY <3>1, <4>1
        <5>2. IsFiniteSet(Lost \cup {c}) /\ Cardinality(Lost \cup {c}) = IF c \in Lost THEN x ELSE x + 1
          BY <1>4, FS_AddElement
        <5>3. y <= Cardinality(Lost \cup {c})
          BY <5>1, <5>2, FS_Subset
        <5> QED BY <1>4, <1>5, <4>1, <5>2, <5>3
      <4>2. CASE ~Ragged(file)
        <5>1. Lost' \in SUBSET Lost
          BY <3>1, <4>2
        <5>2. y <= x
          BY <1>4, <5>1, FS_Subset
        <5> QED BY <1>4, <4>2, <5>2
      <4> QED BY <4>1, <4>2
    <3>3. rag1 = 0
      BY <3>1
    <3> HIDE DEF r, q, k, l, a, x, y, rag, rag1
    <3>4. y + rag1 <= torn
      BY <1>4, <1>5, <1>6, <1>8, <3>2, <3>3
    <3>5. torn + q <= k
      BY <1>3, <1>4, <1>5, <1>6, <1>7, CountsAdd
    <3> QED BY <1>6, <2>2, <3>4, <3>5
  <2> QED BY <2>1, <2>2
<1>10. Len(file') + 2 * q <= 2 * k
  <2> HIDE DEF r, q, k, l, a, x, y, rag, rag1
  <2> QED BY <1>3, <1>4, <1>5, <1>6, <1>7, CountsAdd
<1>11. CountInv'
  BY <1>9, <1>10 DEF CountInv
<1> QED BY <1>2, <1>11 DEF IInv

(***************************************************************************)
(* The inductive invariant.                                                *)
(***************************************************************************)
LEMMA InitInv == Init => IInv
<1> SUFFICES ASSUME Init PROVE IInv
  OBVIOUS
<1>1. ClientInv
  <2>1. <<>> \in Seq(Measured) /\ \A c \in Clients : <<>> \in Seq(Measurements[c])
    OBVIOUS
  <2> QED BY <2>1 DEF Init, ClientInv
<1>2. FileInv
  <2>1. <<>> \in Seq(Tokens) /\ DOMAIN <<>> = {}
    OBVIOUS
  <2> QED BY <2>1 DEF Init, FileInv
<1>3. Running = Clients /\ Lost = {} /\ ~Ragged(file) /\ Len(file) = 0 /\ torn = 0
  BY DEF Init, Running, Lost, Ragged
<1>4. Cardinality(Clients) \in Nat /\ Cardinality({}) = 0
  BY <1>1, Counts, FS_EmptySet
<1>5. CountInv
  <2> DEFINE k == Cardinality(Clients)
  <2>1. k \in Nat /\ 0 + k <= k /\ 0 + 2 * k <= 2 * k
    <3>1. k \in Nat
      BY <1>4
    <3> HIDE DEF k
    <3> QED BY <3>1
  <2>2. Cardinality(Running) = k /\ Cardinality(Lost) = 0
    <3>1. Cardinality(Running) = Cardinality(Clients)
      BY <1>3
    <3>2. Cardinality(Lost) = Cardinality({})
      BY <1>3
    <3> QED BY <1>4, <3>1, <3>2
  <2> HIDE DEF k
  <2> QED BY <1>3, <2>1, <2>2 DEF CountInv, k
<1> QED BY <1>1, <1>2, <1>5 DEF IInv

LEMMA RunTestInv ==
  ASSUME IInv, NEW c \in Clients, RunTest(c)
  PROVE  IInv'
<1>1. PICK m \in Measurements[c] : results' = [results EXCEPT ![c] = Append(@, m)]
  BY DEF RunTest
<1>2. UNCHANGED <<at, saved, file, torn>>
  BY DEF RunTest
<1>3. m \in Measured
  BY ReportAssumption
<1>4. results[c] \in Seq(Measured) /\ results[c] \in Seq(Measurements[c])
  BY DEF IInv, ClientInv
<1>5. Append(results[c], m) \in Seq(Measured) /\ Append(results[c], m) \in Seq(Measurements[c])
  <2>1. Append(results[c], m) \in Seq(Measured)
    BY <1>3, <1>4, AppendProperties
  <2>2. Append(results[c], m) \in Seq(Measurements[c])
    BY <1>4, AppendProperties
  <2> QED BY <2>1, <2>2
<1>6. ClientInv'
  BY <1>1, <1>2, <1>5 DEF IInv, ClientInv
<1>7. FileInv'
  BY <1>2 DEF IInv, FileInv
<1>8. CountInv'
  BY <1>2 DEF IInv, CountInv, Running, Lost, Ragged
<1> QED BY <1>6, <1>7, <1>8 DEF IInv

\* A client that ends without writing.
LEMMA EndsInv ==
  ASSUME IInv, NEW c \in Clients, UNCHANGED <<results, saved, file, torn>>,
         NEW next \in {"saving", "ended"}, at' = [at EXCEPT ![c] = next], at[c] # "ended"
  PROVE  IInv'
<1>1. \A d \in Clients : at'[d] = IF d = c THEN next ELSE at[d]
  BY DEF IInv, ClientInv
<1>2. ClientInv'
  BY <1>1 DEF IInv, ClientInv
<1>3. FileInv'
  <2>1. \A i \in DOMAIN file : file[i].by \in Clients /\ file[i].by # c
    <3>1. \A i \in DOMAIN file : file[i] \in Tokens /\ at[file[i].by] = "ended"
      BY DEF IInv, FileInv
    <3> QED BY <3>1 DEF Tokens
  <2> QED BY <1>1, <2>1 DEF IInv, FileInv
<1>4. CountInv'
  <2> DEFINE r == Cardinality(Running)
             q == Cardinality(Running')
             k == Cardinality(Clients)
             l == Len(file)
  <2>1. r \in Nat /\ q \in Nat /\ q <= r
    <3>1. IsFiniteSet(Running) /\ r \in Nat
      BY Counts DEF IInv
    <3>2. Running' \in SUBSET Running
      BY <1>1 DEF Running
    <3> QED BY <3>1, <3>2, FS_Subset, FS_CardinalityType
  <2>2. k \in Nat /\ l \in Nat
    BY Counts DEF IInv, FileInv
  <2>3. torn \in Nat /\ torn + r <= k /\ l + 2 * r <= 2 * k
    BY DEF IInv, CountInv
  <2>4. torn' + q <= k /\ Len(file') + 2 * q <= 2 * k
    <3>1. torn' = torn /\ Len(file') = l
      OBVIOUS
    <3> HIDE DEF r, q, k, l
    <3> QED BY <2>1, <2>2, <2>3, <3>1
  <2>5. Lost' = Lost /\ Ragged(file') = Ragged(file)
    BY DEF Lost
  <2> QED BY <2>3, <2>4, <2>5 DEF IInv, CountInv
<1> QED BY <1>2, <1>3, <1>4 DEF IInv

LEMMA FinishTestsInv ==
  ASSUME IInv, NEW c \in Clients, FinishTests(c)
  PROVE  IInv'
<1>1. at[c] # "ended" /\ UNCHANGED <<results, saved, file, torn>>
      /\ at' = [at EXCEPT ![c] = IF results[c] = <<>> THEN "ended" ELSE "saving"]
  BY DEF FinishTests
<1>2. (IF results[c] = <<>> THEN "ended" ELSE "saving") \in {"saving", "ended"}
  OBVIOUS
<1> QED BY <1>1, <1>2, EndsInv

\* SaveHistory appends one line, a part of it, or nothing.
LEMMA Saves ==
  ASSUME ClientInv, NEW c \in Clients, SaveHistory(c)
  PROVE  \/ UNCHANGED <<file, torn, saved>>
         \/ \E tokens \in Written(c) :
              /\ file' = file \o tokens
              /\ \/ saved' = saved /\ torn' = torn + 1 /\ tokens # Line(c)
                 \/ saved' = saved \cup {c} /\ torn' = torn /\ tokens = Line(c)
<1>1. Len(Line(c)) = 2 /\ Len(<<Part(c)>>) = 1 /\ Len(<<Whole(c)>>) = 1
  BY DEF Line
<1>2. <<Part(c)>> # Line(c) /\ <<Whole(c)>> # Line(c)
  BY <1>1
<1>3. Line(c) \in Written(c) /\ <<Part(c)>> \in Written(c) /\ <<Whole(c)>> \in Written(c)
  BY DEF Written
<1> QED BY <1>2, <1>3 DEF SaveHistory, AppendTo

LEMMA SaveHistoryInv ==
  ASSUME IInv, NEW c \in Clients, SaveHistory(c)
  PROVE  IInv'
<1>1. at[c] = "saving" /\ at' = [at EXCEPT ![c] = "ended"] /\ UNCHANGED results
  BY DEF SaveHistory
<1>2. CASE UNCHANGED <<file, torn, saved>>
  <2>1. at[c] # "ended" /\ "ended" \in {"saving", "ended"}
    BY <1>1
  <2> QED BY <1>1, <1>2, <2>1, EndsInv
<1>3. ASSUME NEW tokens \in Written(c), file' = file \o tokens,
             \/ saved' = saved /\ torn' = torn + 1 /\ tokens # Line(c)
             \/ saved' = saved \cup {c} /\ torn' = torn /\ tokens = Line(c)
      PROVE  IInv'
  BY <1>1, <1>3, AppendCounts
<1> QED BY <1>2, <1>3, Saves DEF IInv

\* The inductive invariant: a client writes one line, and what is in the file
\* and what was lost from it are paid for by clients that have ended (the
\* single Write of SaveHistory).
THEOREM Invariance == Spec => []IInv
<1>1. IInv /\ [Next]_vars => IInv'
  <2> SUFFICES ASSUME IInv, [Next]_vars PROVE IInv'
    OBVIOUS
  <2>1. ASSUME NEW c \in Clients, RunTest(c) PROVE IInv'
    BY <2>1, RunTestInv
  <2>2. ASSUME NEW c \in Clients, FinishTests(c) PROVE IInv'
    BY <2>2, FinishTestsInv
  <2>3. ASSUME NEW c \in Clients, SaveHistory(c) PROVE IInv'
    BY <2>3, SaveHistoryInv
  <2>4. CASE UNCHANGED vars
    BY <2>4 DEF vars, IInv, ClientInv, FileInv, CountInv, Running, Lost, Ragged
  <2> QED BY <2>1, <2>2, <2>3, <2>4 DEF Next
<1> QED BY <1>1, InitInv, PTL DEF Spec

(***************************************************************************)
(* What the runs check.                                                    *)
(***************************************************************************)
\* TypeOK: what a client keeps has the types of the code, the file holds at
\* most an object and a newline of each client, and no more writes stop than
\* there are clients.
THEOREM TypeCorrect == Spec => []TypeOK
<1>1. IInv => TypeOK
  <2> SUFFICES ASSUME IInv PROVE TypeOK
    OBVIOUS
  <2> DEFINE r == Cardinality(Running)
             k == Cardinality(Clients)
             l == Len(file)
  <2>1. r \in Nat /\ k \in Nat /\ l \in Nat
    BY Counts DEF IInv, FileInv
  <2>2. torn \in Nat /\ torn + r <= k /\ l + 2 * r <= 2 * k
    BY DEF IInv, CountInv
  <2>3. torn \in 0..k /\ l <= 2 * k
    <3> HIDE DEF r, k, l
    <3> QED BY <2>1, <2>2
  <2>4. file \in Seq([kind : {"whole", "part", "newline"}, by : Clients, grade : 0..5])
    BY DEF IInv, FileInv, Tokens
  <2> QED BY <2>3, <2>4 DEF IInv, ClientInv, TypeOK
<1> QED BY <1>1, Invariance, PTL

\* TearCostsOneEntry: SaveHistory's Write is the only one of its client, and a
\* part of a line spoils at most the one line that is appended to it.
THEOREM TearCosts == Spec => []TearCostsOneEntry
<1>1. IInv => TearCostsOneEntry
  <2> SUFFICES ASSUME IInv PROVE Cardinality(Lost) <= torn
    BY DEF TearCostsOneEntry, Lost
  <2> DEFINE x == Cardinality(Lost)
             rag == IF Ragged(file) THEN 1 ELSE 0
  <2>1. x \in Nat /\ torn \in Nat /\ x + rag <= torn /\ rag \in 0..1
    BY Counts DEF IInv, CountInv
  <2> HIDE DEF x, rag
  <2>2. x <= torn
    BY <2>1
  <2> QED BY <2>2 DEF x
<1> QED BY <1>1, Invariance, PTL

\* SavedStaysReadable: whatever other clients append, whole or in part, a
\* saved entry is not touched (SaveHistory's single Write, splitLines).
THEOREM SavedStays == Spec => SavedStaysReadable
<1>1. IInv /\ [Next]_vars => [saved \cap Readable(file) \subseteq Readable(file')]_vars
  <2> SUFFICES ASSUME IInv, [Next]_vars PROVE saved \cap Readable(file) \subseteq Readable(file')
    OBVIOUS
  <2>1. CASE file' = file
    BY <2>1
  <2>2. ASSUME NEW c \in Clients, NEW tokens \in Written(c), file' = file \o tokens
        PROVE  saved \cap Readable(file) \subseteq Readable(file')
    <3> SUFFICES ASSUME NEW i \in DOMAIN file, IsEntry(file, i), file[i].by \in saved
                 PROVE  i \in DOMAIN file' /\ IsEntry(file', i) /\ file'[i].by = file[i].by
      BY DEF Readable
    <3>1. ClientInv /\ FileInv
      BY DEF IInv
    <3> QED BY <2>2, <3>1, EntryStays
  <2>3. file' = file \/ \E c \in Clients : \E tokens \in Written(c) : file' = file \o tokens
    <3>1. ASSUME NEW c \in Clients, SaveHistory(c)
          PROVE  file' = file \/ \E tokens \in Written(c) : file' = file \o tokens
      <4>1. ClientInv
        BY DEF IInv
      <4> QED BY <3>1, <4>1, Saves
    <3> QED BY <3>1 DEF Next, RunTest, FinishTests, vars
  <2> QED BY <2>1, <2>2, <2>3
<1> QED BY <1>1, Invariance, PTL DEF Spec, SavedStaysReadable

\* GradesFollowFigures: worse figures never get a better grade, for a test and
\* overall, and the overall grade is the worst one of a test.
THEOREM GradesFollow == Spec => []GradesFollowFigures
<1>1. ASSUME IInv, NEW c \in Clients
      PROVE  results[c] \in Seq(Measured) /\ DOMAIN results[c] = 1..Len(results[c])
             /\ Len(results[c]) \in Nat /\ \A i \in DOMAIN results[c] : results[c][i] \in Measured
  <2>1. results[c] \in Seq(Measured)
    BY <1>1 DEF IInv, ClientInv
  <2> QED BY <2>1
<1>2. IInv => OverallIsWorst
  BY <1>1, OverallIs DEF OverallIsWorst
<1>3. IInv => WorseNetworkWorseGrade
  <2> SUFFICES ASSUME IInv, NEW c \in Clients, NEW d \in Clients,
                      Len(results[c]) >= Len(results[d]),
                      \A i \in DOMAIN results[d] : NoBetter(results[c][i], results[d][i])
               PROVE  /\ \A i \in DOMAIN results[d] : TestGrade(results[c][i]) >= TestGrade(results[d][i])
                      /\ ComputeOverallGrade(results[c]) >= ComputeOverallGrade(results[d])
    BY DEF WorseNetworkWorseGrade
  <2>1. \A i \in DOMAIN results[d] :
          i \in DOMAIN results[c] /\ results[c][i] \in Measured /\ results[d][i] \in Measured
    BY <1>1
  <2>2. \A i \in DOMAIN results[d] : TestGrade(results[c][i]) >= TestGrade(results[d][i])
    BY <2>1, NoBetterNoBetter
  <2>3. results[c] \in Seq(Measured) /\ results[d] \in Seq(Measured)
    BY <1>1
  <2> DEFINE gc == ComputeOverallGrade(results[c])
             gd == ComputeOverallGrade(results[d])
  <2>4. gc \in Grades /\ gd \in Grades
    BY <2>3, OverallIs
  <2>5. CASE results[d] = <<>>
    <3>1. gd = 1
      BY <2>3, <2>5, OverallIs
    <3> HIDE DEF gc, gd
    <3> QED BY <2>2, <2>4, <3>1 DEF Grades, gc, gd
  <2>6. CASE results[d] # <<>>
    <3>1. PICK i \in DOMAIN results[d] : gd = TestGrade(results[d][i])
      BY <2>3, <2>6, OverallIs
    <3>2. gc >= TestGrade(results[c][i])
      BY <2>1, <2>3, OverallIs
    <3>3. TestGrade(results[c][i]) \in Grades /\ TestGrade(results[c][i]) >= gd
      BY <2>1, <2>2, <3>1, GradeTypes
    <3>4. gc >= gd
      <4> HIDE DEF gc, gd
      <4> QED BY <2>4, <3>2, <3>3 DEF Grades
    <3> QED BY <2>2, <3>4
  <2> QED BY <2>5, <2>6
<1>4. IInv => GradesFollowFigures
  BY <1>2, <1>3 DEF GradesFollowFigures
<1> QED BY <1>4, Invariance, PTL

\* The rate for a throughput of max kbit/s.
LEMMA RateCovers ==
  ASSUME NEW max \in Nat \ {0}, NEW rate, rate = 1000 * Rounded(max \div 1000)
  PROVE  /\ rate \in Nat /\ rate > max - 1000
         /\ rate = 0 => max < 1000
         /\ rate > 0 => rate < max + 50000
<1> DEFINE mbps == max \div 1000
           r == Rounded(mbps)
<1>1. mbps \in Nat /\ 1000 * mbps <= max /\ max < 1000 * mbps + 1000
  OBVIOUS
<1>2. r \in mbps..mbps + 49
  <2>1. mbps \in Nat
    BY <1>1
  <2> HIDE DEF mbps
  <2> QED BY <2>1, RoundedUp, Zenon
<1>3. rate = 1000 * r
  OBVIOUS
<1> HIDE DEF mbps, r
<1> QED BY <1>1, <1>2, <1>3

\* What the rate is compared with.
RateOf(r) == 1000 * EstimateUDPBandwidth(r)
Best(r)   == {MaxThroughput(r[i]) : i \in DOMAIN r} \ {0}

LEMMA RateIs ==
  ASSUME NEW r \in Seq(Measured)
  PROVE  IF Best(r) = {} THEN RateOf(r) = 100000
         ELSE /\ \A t \in Best(r) : (RateOf(r) = 0 /\ t < 1000) \/ RateOf(r) > t - 1000
              /\ RateOf(r) > 0 => \E t \in Best(r) : RateOf(r) < t + 50000
<1>1. MaxOf(r) \in Nat /\ \A t \in Best(r) : t \in Nat \ {0} /\ MaxOf(r) >= t
  BY MaxOfIs, ThroughputTypes DEF Best
<1>2. MaxOf(r) # 0 => MaxOf(r) \in Best(r)
  BY MaxOfIs DEF Best
<1>3. RateOf(r) = 1000 * (IF MaxOf(r) > 0 THEN Rounded(MaxOf(r) \div 1000) ELSE 100)
  BY DEF RateOf, EstimateUDPBandwidth, Fallback
<1>4. CASE MaxOf(r) = 0
  <2>1. Best(r) = {}
    BY <1>1, <1>4
  <2>2. RateOf(r) = 100000
    BY <1>3, <1>4
  <2> QED BY <2>1, <2>2
<1>5. CASE MaxOf(r) # 0
  <2>1. MaxOf(r) \in Nat \ {0} /\ MaxOf(r) \in Best(r)
    BY <1>1, <1>2, <1>5
  <2>2. RateOf(r) = 1000 * Rounded(MaxOf(r) \div 1000)
    BY <1>3, <2>1
  <2>3. /\ RateOf(r) \in Nat /\ RateOf(r) > MaxOf(r) - 1000
        /\ RateOf(r) = 0 => MaxOf(r) < 1000
        /\ RateOf(r) > 0 => RateOf(r) < MaxOf(r) + 50000
    BY <2>1, <2>2, RateCovers
  <2>4. ASSUME NEW t \in Best(r) PROVE (RateOf(r) = 0 /\ t < 1000) \/ RateOf(r) > t - 1000
    <3> DEFINE rate == RateOf(r)
               max == MaxOf(r)
    <3>1. t \in Nat /\ max \in Nat /\ max >= t /\ rate \in Nat /\ rate > max - 1000
      BY <1>1, <2>1, <2>3, <2>4
    <3> HIDE DEF rate, max
    <3>2. rate > t - 1000
      BY <3>1
    <3> QED BY <3>2 DEF rate
  <2>5. RateOf(r) > 0 => \E t \in Best(r) : RateOf(r) < t + 50000
    BY <2>1, <2>3
  <2> QED BY <2>1, <2>4, <2>5
<1> QED BY <1>4, <1>5

\* RateFollowsThroughput: the rate of the UDP test covers the best throughput
\* that was measured, and exceeds it by less than 50 Mbit/s.
THEOREM RateFollows == Spec => []RateFollowsThroughput
<1>1. IInv => RateFollowsThroughput
  <2>1. ASSUME IInv, NEW c \in Clients PROVE results[c] \in Seq(Measured)
    BY <2>1 DEF IInv, ClientInv
  <2>2. ASSUME IInv, NEW c \in Clients
        PROVE  IF Best(results[c]) = {} THEN RateOf(results[c]) = 100000
               ELSE /\ \A t \in Best(results[c]) :
                         (RateOf(results[c]) = 0 /\ t < 1000) \/ RateOf(results[c]) > t - 1000
                    /\ RateOf(results[c]) > 0 => \E t \in Best(results[c]) : RateOf(results[c]) < t + 50000
    BY <2>1, <2>2, RateIs
  <2> QED BY <2>2 DEF RateFollowsThroughput, RateOf, Best
<1> QED BY <1>1, Invariance, PTL

(***************************************************************************)
(* What PrintHistory shows.                                                *)
(***************************************************************************)
\* The entries of the first m tokens that come after token i.
Later(f, i, m) == {j \in 1..m : j > i /\ IsEntry(f, j)}

LEMMA LaterTypes ==
  ASSUME NEW f, NEW i \in Nat, NEW m \in Nat
  PROVE  IsFiniteSet(Later(f, i, m)) /\ Cardinality(Later(f, i, m)) \in Nat
<1>1. IsFiniteSet(1..m) /\ Later(f, i, m) \in SUBSET (1..m)
  BY FS_Interval DEF Later
<1> QED BY <1>1, FS_Subset, FS_CardinalityType

LEMMA LaterStep ==
  ASSUME NEW f, NEW i \in Nat, NEW m \in Nat, i <= m
  PROVE  Cardinality(Later(f, i, m + 1)) =
           IF IsEntry(f, m + 1) THEN Cardinality(Later(f, i, m)) + 1 ELSE Cardinality(Later(f, i, m))
<1>1. IsFiniteSet(Later(f, i, m)) /\ m + 1 \notin Later(f, i, m)
  <2>1. IsFiniteSet(Later(f, i, m))
    BY LaterTypes
  <2>2. m + 1 \notin 1..m
    OBVIOUS
  <2> QED BY <2>1, <2>2 DEF Later
<1>2. CASE IsEntry(f, m + 1)
  <2>1. Later(f, i, m + 1) = Later(f, i, m) \cup {m + 1}
    BY <1>2 DEF Later
  <2>2. Cardinality(Later(f, i, m) \cup {m + 1}) = Cardinality(Later(f, i, m)) + 1
    BY <1>1, FS_AddElement
  <2> QED BY <1>2, <2>1, <2>2
<1>3. CASE ~IsEntry(f, m + 1)
  <2>1. Later(f, i, m + 1) = Later(f, i, m)
    BY <1>3 DEF Later
  <2> QED BY <1>3, <2>1
<1> QED BY <1>2, <1>3

\* r lists every entry of the first m tokens, and after it no more than the
\* entries that follow it.
Listed(r, f, m) ==
  \A i \in 1..m : IsEntry(f, i) =>
    \E p \in 1..Len(r) : r[p] = f[i] /\ Len(r) - p <= Cardinality(Later(f, i, m))

LEMMA ListedStep ==
  ASSUME NEW f \in Seq(Tokens), NEW m \in Nat, m + 1 <= Len(f),
         NEW r \in Seq(Tokens), NEW t \in Seq(Tokens), Listed(r, f, m),
         t = IF IsEntry(f, m + 1) THEN Append(r, f[m + 1]) ELSE r
  PROVE  Listed(t, f, m + 1)
<1> SUFFICES ASSUME NEW i \in 1..m + 1, IsEntry(f, i)
             PROVE  \E p \in 1..Len(t) : t[p] = f[i] /\ Len(t) - p <= Cardinality(Later(f, i, m + 1))
  BY DEF Listed
<1>1. Len(r) \in Nat /\ Len(t) \in Nat /\ f[m + 1] \in Tokens
  <2>1. m + 1 \in 1..Len(f)
    OBVIOUS
  <2> QED BY <2>1, ElementOfSeq
<1>2. CASE i = m + 1
  <2>1. Len(t) = Len(r) + 1 /\ t[Len(r) + 1] = f[i]
    BY <1>1, <1>2, AppendProperties
  <2>2. Cardinality(Later(f, i, m + 1)) \in Nat
    BY <1>2, LaterTypes
  <2>3. Len(r) + 1 \in 1..Len(t) /\ Len(t) - (Len(r) + 1) <= Cardinality(Later(f, i, m + 1))
    BY <1>1, <2>1, <2>2
  <2> QED BY <2>1, <2>3
<1>3. CASE i # m + 1
  <2> DEFINE later == Cardinality(Later(f, i, m))
             more == Cardinality(Later(f, i, m + 1))
  <2>1. i \in 1..m /\ i \in Nat /\ i <= m
    BY <1>3
  <2>2. PICK p \in 1..Len(r) : r[p] = f[i] /\ Len(r) - p <= later
    BY <2>1 DEF Listed
  <2>3. later \in Nat /\ more = IF IsEntry(f, m + 1) THEN later + 1 ELSE later
    BY <2>1, LaterTypes, LaterStep
  <2> HIDE DEF later, more
  <2>4. CASE IsEntry(f, m + 1)
    <3>1. Len(t) = Len(r) + 1 /\ t[p] = r[p]
      BY <1>1, <2>4, AppendProperties
    <3>2. p \in 1..Len(t) /\ Len(t) - p <= more
      BY <1>1, <2>2, <2>3, <2>4, <3>1
    <3> QED BY <2>2, <3>1, <3>2 DEF more
  <2>5. CASE ~IsEntry(f, m + 1)
    BY <2>2, <2>3, <2>5 DEF more
  <2> QED BY <2>4, <2>5
<1> QED BY <1>2, <1>3

\* Entries misses no entry and keeps their order.
LEMMA EntriesListed ==
  ASSUME NEW f \in Seq(Tokens)
  PROVE  Entries(f) \in Seq(Tokens) /\ Listed(Entries(f), f, Len(f))
<1> DEFINE n == Len(f)
           S == Seq(Tokens)
           Body(g) == [i \in 0..n |-> IF i = 0 THEN <<>>
                                      ELSE IF IsEntry(f, i) THEN Append(g[i - 1], f[i]) ELSE g[i - 1]]
           read[i \in 0..n] == IF i = 0 THEN <<>>
                               ELSE IF IsEntry(f, i) THEN Append(read[i - 1], f[i]) ELSE read[i - 1]
           body == [p \in (1..n) \X S |-> IF IsEntry(f, p[1]) THEN Append(p[2], f[p[1]]) ELSE p[2]]
<1>1. n \in Nat /\ \A i \in 1..n : f[i] \in Tokens
  BY ElementOfSeq
<1>2. \A i \in 1..n : \A s \in S : (IF IsEntry(f, i) THEN Append(s, f[i]) ELSE s) \in S
  BY <1>1, AppendProperties
<1>3. body \in [(1..n) \X S -> S] /\ <<>> \in S
  <2>1. <<>> \in S
    BY EmptySeq
  <2> HIDE DEF S
  <2>2. \A p \in (1..n) \X S : p[1] \in 1..n /\ p[2] \in S
    OBVIOUS
  <2> QED BY <1>2, <2>1, <2>2
<1> HIDE DEF S
<1>4. PICK g : IsLoop(g, n, S, <<>>, body)
  <2> HIDE DEF body
  <2> QED BY <1>1, <1>3, LoopExists
<1>5. /\ g \in [0..n -> S] /\ g[0] = <<>>
      /\ \A i \in 1..n : g[i] = IF IsEntry(f, i) THEN Append(g[i - 1], f[i]) ELSE g[i - 1]
  <2>1. g \in [0..n -> S] /\ g[0] = <<>>
    BY <1>4 DEF IsLoop
  <2>2. ASSUME NEW i \in 1..n
        PROVE  g[i] = IF IsEntry(f, i) THEN Append(g[i - 1], f[i]) ELSE g[i - 1]
    <3>1. i - 1 \in 0..n
      BY <1>1
    <3>2. <<i, g[i - 1]>> \in (1..n) \X S
      BY <2>1, <3>1
    <3>3. g[i] = body[<<i, g[i - 1]>>]
      <4> HIDE DEF body
      <4> QED BY <1>4 DEF IsLoop
    <3> QED BY <3>2, <3>3
  <2> QED BY <2>1, <2>2
<1>6. read = Body(read)
  <2>1. g = Body(g)
    <3>1. \A i \in 0..n : i # 0 => i \in 1..n
      BY <1>1
    <3>2. \A i \in 0..n : g[i] = IF i = 0 THEN <<>>
             ELSE IF IsEntry(f, i) THEN Append(g[i - 1], f[i]) ELSE g[i - 1]
      BY <1>5, <3>1
    <3>3. g = [i \in 0..n |-> g[i]]
      BY <1>5
    <3> HIDE DEF n
    <3> QED BY <3>2, <3>3
  <2>2. read = CHOOSE h : h = Body(h)
    OBVIOUS
  <2> HIDE DEF read, Body
  <2> QED BY <2>1, <2>2
<1>7. Entries(f) = read[n]
  BY DEF Entries
<1> HIDE DEF read
<1>8. /\ read[0] = <<>>
      /\ \A i \in 1..n : read[i] = IF IsEntry(f, i) THEN Append(read[i - 1], f[i]) ELSE read[i - 1]
  <2>1. \A i \in 0..n : Body(read)[i] = IF i = 0 THEN <<>>
          ELSE IF IsEntry(f, i) THEN Append(read[i - 1], f[i]) ELSE read[i - 1]
    OBVIOUS
  <2> HIDE DEF Body
  <2>2. 0 \in 0..n /\ \A i \in 1..n : i \in 0..n /\ i # 0
    BY <1>1
  <2> QED BY <1>6, <2>1, <2>2
<1> HIDE DEF body, Body
<1>9. \A i \in 0..n : read[i] \in S
  <2>1. \A i \in 1..n : read[i - 1] \in S => read[i] \in S
    BY <1>2, <1>8
  <2>2. read[0] \in S
    BY <1>3, <1>8
  <2> QED BY <1>1, <2>1, <2>2, LoopTypes
<1> DEFINE T == {m \in Nat : m <= n => Listed(read[m], f, m)}
<1>10. 0 \in T
  BY DEF Listed
<1>11. ASSUME NEW m \in Nat, m \in T PROVE m + 1 \in T
  <2> SUFFICES ASSUME m + 1 <= n PROVE Listed(read[m + 1], f, m + 1)
    OBVIOUS
  <2>1. m + 1 \in 1..n /\ (m + 1) - 1 = m /\ m \in 0..n /\ m + 1 \in 0..n /\ m <= n
    BY <1>1
  <2>2. Listed(read[m], f, m)
    BY <1>11, <2>1
  <2>3. read[m] \in Seq(Tokens) /\ read[m + 1] \in Seq(Tokens)
    BY <1>9, <2>1 DEF S
  <2>4. read[m + 1] = IF IsEntry(f, m + 1) THEN Append(read[m], f[m + 1]) ELSE read[m]
    BY <1>8, <2>1
  <2> HIDE DEF T
  <2> QED BY <2>1, <2>2, <2>3, <2>4, ListedStep
<1>12. n \in T
  <2> HIDE DEF T
  <2> QED BY <1>1, <1>10, <1>11, Induction
<1>13. n \in 0..n
  BY <1>1
<1> QED BY <1>1, <1>7, <1>9, <1>12, <1>13 DEF S

\* An entry that is not shown has Limit entries after it.
LEMMA NotShown ==
  ASSUME NEW f \in Seq(Tokens), NEW i \in 1..Len(f), IsEntry(f, i), f[i].by \notin Shows(f)
  PROVE  Limit > 0 /\ Cardinality(Later(f, i, Len(f))) >= Limit
<1> DEFINE es == Entries(f)
           n == Len(es)
           first == FirstShown(n)
           later == Cardinality(Later(f, i, Len(f)))
<1>1. es \in Seq(Tokens) /\ Listed(es, f, Len(f))
  BY EntriesListed
<1>2. PICK p \in 1..n : es[p] = f[i] /\ n - p <= later
  BY <1>1 DEF Listed
<1>3. n \in Nat /\ Limit \in Nat /\ later \in Nat
  BY <1>1, LaterTypes, ReportAssumption
<1>4. first = IF Limit > 0 /\ n > Limit THEN n - Limit + 1 ELSE 1
  BY DEF FirstShown
<1>5. p < first
  <2> SUFFICES ASSUME p >= first PROVE FALSE
    BY <1>3, <1>4
  <2> DEFINE k == p - first + 1
  <2>1. DOMAIN Printed(es) = 1..n - first + 1
    BY DEF Printed
  <2>2. k \in 1..n - first + 1 /\ first + k - 1 = p
    <3> HIDE DEF n, first
    <3> QED BY <1>3, <1>4
  <2>3. Printed(es)[k].by = es[first + k - 1].by
    BY <2>2 DEF Printed
  <2> HIDE DEF k, first
  <2>4. Printed(es)[k].by = f[i].by /\ k \in DOMAIN Printed(es)
    BY <1>2, <2>1, <2>2, <2>3
  <2>5. f[i].by \in Shows(f)
    BY <2>4 DEF Shows
  <2> QED BY <2>5
<1> HIDE DEF first, n, later
<1>6. Limit > 0 /\ later >= Limit
  BY <1>2, <1>3, <1>4, <1>5
<1> QED BY <1>6 DEF later

\* f starts with what file holds before its last line.
Begins(f, k) ==
  f \in Seq(Tokens) /\ k <= Len(f) /\ \A j \in 1..k : f[j] = file[j]

\* A snapshot holds all of the file, or all but its last line.
LEMMA SnapshotHolds ==
  ASSUME FileInv, NEW f \in Snapshots, f # file
  PROVE  /\ Len(file) \in Nat /\ Len(file) >= 2
         /\ file[Len(file)].kind = "newline" /\ file[Len(file) - 1].kind = "whole"
         /\ file[Len(file)].by = file[Len(file) - 1].by
         /\ Begins(f, Len(file) - 2)
<1> DEFINE n == Len(file)
<1>1. file \in Seq(Tokens) /\ n \in Nat
  BY DEF FileInv
<1>2. /\ file # <<>> /\ Last(file).kind = "newline"
      /\ f = Front(file) \/ f = Front(Front(file)) \o <<Part(Last(file).by)>>
  BY DEF Snapshots
<1>3. n \in DOMAIN file /\ n >= 1 /\ Last(file) = file[n]
  BY <1>1, <1>2, EmptySeq DEF Last
<1>4. n # 1 /\ file[n].kind = "newline" /\ file[n - 1].kind = "whole" /\ file[n].by = file[n - 1].by
  BY <1>2, <1>3 DEF FileInv
<1>5. n >= 2 /\ \A j \in 1..n : file[j] \in Tokens
  <2>1. n >= 2
    <3>1. n \in Nat /\ n >= 1 /\ n # 1
      BY <1>1, <1>3, <1>4
    <3> HIDE DEF n
    <3> QED BY <3>1
  <2> QED BY <1>1, <2>1, ElementOfSeq
<1>6. /\ Front(file) \in Seq(Tokens) /\ Len(Front(file)) = n - 1
      /\ \A j \in 1..n - 1 : Front(file)[j] = file[j]
  <2>1. \A j \in 1..n - 1 : file[j] \in Tokens
    BY <1>1, <1>5
  <2>2. Front(file) = SubSeq(file, 1, n - 1)
    BY DEF Front
  <2>3. n - 1 \in Int /\ 1 \in Int /\ 1 <= n - 1 /\ (n - 1) - 1 + 1 = n - 1
    <3> HIDE DEF n
    <3> QED BY <1>1, <1>5
  <2>4. /\ SubSeq(file, 1, n - 1) \in Seq(Tokens)
        /\ Len(SubSeq(file, 1, n - 1)) = (IF 1 <= n - 1 THEN (n - 1) - 1 + 1 ELSE 0)
        /\ \A j \in 1..(n - 1) - 1 + 1 : SubSeq(file, 1, n - 1)[j] = file[1 + j - 1]
    BY <2>1, <2>3, SubSeqProperties
  <2>5. \A j \in 1..n - 1 : 1 + j - 1 = j
    OBVIOUS
  <2> HIDE DEF n
  <2> QED BY <2>2, <2>3, <2>4, <2>5
<1>7. CASE f = Front(file)
  <2>1. Begins(f, n - 2)
    BY <1>1, <1>6, <1>7 DEF Begins
  <2> QED BY <1>1, <1>4, <1>5, <2>1
<1>8. CASE f = Front(Front(file)) \o <<Part(Last(file).by)>>
  <2> DEFINE h == Front(file)
             b == Front(h)
             t == <<Part(Last(file).by)>>
  <2>1. /\ b \in Seq(Tokens) /\ Len(b) = n - 2 /\ \A j \in 1..n - 2 : b[j] = h[j]
    <3>1. \A j \in 1..n - 2 : h[j] \in Tokens
      BY <1>1, <1>5, <1>6
    <3>2. b = SubSeq(h, 1, n - 2)
      <4>1. b = SubSeq(h, 1, Len(h) - 1)
        BY DEF Front
      <4>2. Len(h) - 1 = n - 2
        BY <1>1, <1>6
      <4> HIDE DEF b, h, n
      <4> QED BY <4>1, <4>2
    <3>3. n - 2 \in Nat /\ n - 2 \in Int /\ 1 \in Int /\ (n - 2) - 1 + 1 = n - 2
      <4> HIDE DEF n
      <4> QED BY <1>1, <1>5
    <3>4. /\ SubSeq(h, 1, n - 2) \in Seq(Tokens)
          /\ Len(SubSeq(h, 1, n - 2)) = (IF 1 <= n - 2 THEN (n - 2) - 1 + 1 ELSE 0)
          /\ \A j \in 1..(n - 2) - 1 + 1 : SubSeq(h, 1, n - 2)[j] = h[1 + j - 1]
      <4> HIDE DEF h
      <4> QED BY <3>1, <3>3, SubSeqProperties
    <3>5. \A j \in 1..n - 2 : 1 + j - 1 = j
      OBVIOUS
    <3>6. n - 2 = IF 1 <= n - 2 THEN (n - 2) - 1 + 1 ELSE 0
      BY <3>3
    <3> HIDE DEF n, h, b
    <3> QED BY <3>2, <3>3, <3>4, <3>5, <3>6
  <2>2. t \in Seq(Tokens) /\ Len(t) = 1
    <3>1. file[n] \in Tokens
      BY <1>1, <1>3, ElementOfSeq
    <3>2. Last(file).by \in Clients
      BY <1>3, <3>1 DEF Tokens
    <3>3. Part(Last(file).by) \in Tokens
      BY <3>2 DEF Part, Token, Tokens
    <3> QED BY <3>3
  <2>3. /\ b \o t \in Seq(Tokens) /\ Len(b \o t) = Len(b) + Len(t)
        /\ \A j \in 1..Len(b) + Len(t) : (b \o t)[j] = IF j <= Len(b) THEN b[j] ELSE t[j - Len(b)]
    <3> HIDE DEF b, t
    <3> QED BY <2>1, <2>2, ConcatProperties
  <2>4. f = b \o t
    BY <1>8
  <2>5. \A j \in 1..n - 2 : h[j] = file[j]
    BY <1>1, <1>6
  <2>6. n \in Nat /\ n >= 2
    BY <1>1, <1>5
  <2>7. Begins(f, n - 2)
    <3> HIDE DEF n, h, b, t
    <3> QED BY <2>1, <2>2, <2>3, <2>4, <2>5, <2>6 DEF Begins
  <2> QED BY <1>1, <1>4, <1>5, <2>7
<1> QED BY <1>2, <1>7, <1>8

\* An entry that another client wrote than the last line of the file is in
\* every snapshot.
LEMMA EntryInSnapshot ==
  ASSUME FileInv, NEW f \in Snapshots, NEW i \in DOMAIN file, IsEntry(file, i),
         file[i].by # Last(file).by
  PROVE  f \in Seq(Tokens) /\ i \in 1..Len(f) /\ IsEntry(f, i) /\ f[i] = file[i]
<1> DEFINE n == Len(file)
<1>1. file \in Seq(Tokens) /\ n \in Nat /\ i \in 1..n /\ Last(file) = file[n]
  BY DEF FileInv, Last
<1>2. CASE f = file
  BY <1>1, <1>2
<1>3. CASE f # file
  <2>1. /\ n >= 2 /\ file[n].kind = "newline" /\ file[n - 1].kind = "whole"
        /\ file[n].by = file[n - 1].by /\ Begins(f, n - 2)
    BY <1>3, SnapshotHolds
  <2>2. /\ file[i].kind = "whole" /\ (i = 1 \/ file[i - 1].kind = "newline")
        /\ (i = n \/ file[i + 1].kind = "newline")
    BY DEF IsEntry
  <2>3. i # n /\ i # n - 1 /\ i + 1 # n - 1
    BY <1>1, <2>1, <2>2
  <2>4. /\ i \in 1..n - 2 /\ i + 1 \in 1..n - 2 /\ i # n /\ n - 2 \in Nat
        /\ (i # 1 => i - 1 \in 1..n - 2)
    <3> HIDE DEF n
    <3> QED BY <1>1, <2>1, <2>3
  <2>5. f \in Seq(Tokens) /\ n - 2 <= Len(f) /\ Len(f) \in Nat /\ \A j \in 1..n - 2 : f[j] = file[j]
    BY <2>1 DEF Begins
  <2>6. i \in 1..Len(f)
    <3> HIDE DEF n
    <3> QED BY <2>4, <2>5
  <2>7. f[i] = file[i] /\ f[i + 1] = file[i + 1] /\ (i # 1 => f[i - 1] = file[i - 1])
    <3> HIDE DEF n
    <3> QED BY <2>4, <2>5
  <2>8. IsEntry(f, i)
    BY <2>2, <2>4, <2>7 DEF IsEntry
  <2> QED BY <2>5, <2>6, <2>7, <2>8
<1> QED BY <1>2, <1>3

\* LatestAreShown: PrintHistory leaves out only what Limit later entries
\* displace, and the report that is being written while it reads.
THEOREM LatestShown == Spec => []LatestAreShown
<1>1. IInv => LatestAreShown
  <2> SUFFICES ASSUME FileInv, NEW f \in Snapshots, NEW i \in DOMAIN file,
                      IsEntry(file, i), file[i].by \notin Shows(f), file[i].by # Last(file).by
               PROVE  Limit > 0 /\ Cardinality({j \in DOMAIN f : j > i /\ IsEntry(f, j)}) >= Limit
    BY DEF LatestAreShown, IInv
  <2>1. f \in Seq(Tokens) /\ i \in 1..Len(f) /\ IsEntry(f, i) /\ f[i] = file[i]
    BY EntryInSnapshot
  <2>2. {j \in DOMAIN f : j > i /\ IsEntry(f, j)} = Later(f, i, Len(f))
    BY <2>1 DEF Later
  <2> QED BY <2>1, <2>2, NotShown
<1> QED BY <1>1, Invariance, PTL
====
