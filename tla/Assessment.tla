---- MODULE Assessment ----
(***************************************************************************)
(* What the client makes of its measurements: the grade of each test       *)
(* (internal/results/grade.go and the run...Test functions of client.go),  *)
(* the overall grade (format.go) and the rate of the UDP test, which       *)
(* depends on the tests before it (estimateUDPBandwidth).                  *)
(*                                                                         *)
(* Measurements are integers: milliseconds, kbit/s, round trips a minute,  *)
(* and tenths of a percent of loss.  A grade is 1 to 5, for A to F.        *)
(***************************************************************************)
EXTENDS Integers, Sequences

Grades == 1..5

\* a switch: the first case that holds, or the default
Switch(cases) == IF cases = {} THEN 5 ELSE CHOOSE i \in cases : \A j \in cases : i <= j
Below(v, bounds)   == Switch({i \in 1..4 : v < bounds[i]})
AtLeast(v, bounds) == Switch({i \in 1..4 : v >= bounds[i]})

GradeLatency(ms)      == Below(ms, <<20, 50, 100, 200>>)
GradeConnect(ms)      == Below(ms, <<50, 100, 200, 500>>)
GradeDNS(ms)          == Below(ms, <<10, 30, 75, 200>>)
GradeMTU(mtu)         == AtLeast(mtu, <<1500, 1400, 1200, 576>>)
GradeLossFlipped(pm)  == AtLeast(pm, <<1, 5, 10, 25>>)  \* mutant: the comparison turned round
GradeLoss(pm)         == Below(pm, <<1, 5, 10, 25>>)
GradeJitter(ms)       == Below(ms, <<5, 10, 20, 50>>)
GradeBufferbloat(rpm) == AtLeast(rpm, <<400, 200, 100, 50>>)
GradeThroughput(kbps) == AtLeast(kbps, <<100000, 50000, 25000, 10000>>)

\* What a test measures: what its grade and the rate of the UDP test depend on.
Measured ==
  [test : {"latency"}, avg : Int, p95 : Int] \cup [test : {"udp"}, loss : Int, kbps : Nat]
    \cup [test : {"bidir"}, upload : Nat, download : Nat] \cup [test : {"tcp"}, kbps : Nat]
    \cup [test : {"bufferbloat"}, rpm : Int, kbps : Nat] \cup [test : {"mtu"}, mtu : Int]
    \cup [test : {"jitter", "dns", "connect"}, avg : Int]

Smaller(a, b) == IF a <= b THEN a ELSE b
Larger(a, b)  == IF a >= b THEN a ELSE b

Worse(g, h) == Larger(g, h)

TestGrade(m) ==
  CASE m.test = "latency"     -> Worse(GradeLatency(m.avg), GradeLatency(m.p95))
    [] m.test = "udp"         -> Worse(GradeLoss(m.loss), GradeThroughput(m.kbps))
    [] m.test = "bidir"       -> GradeThroughput(Smaller(m.upload, m.download))
    [] m.test = "tcp"         -> GradeThroughput(m.kbps)
    [] m.test = "bufferbloat" -> GradeBufferbloat(m.rpm)
    [] m.test = "mtu"         -> GradeMTU(m.mtu)
    [] m.test = "jitter"      -> GradeJitter(m.avg)
    [] m.test = "dns"         -> GradeDNS(m.avg)
    [] m.test = "connect"     -> GradeConnect(m.avg)

\* ComputeOverallGrade: the loop keeps the worst grade it has met
WorstOf(worst, g) == IF g > worst THEN g ELSE worst
ComputeOverallGrade(results) ==
  LET worst[i \in 0..Len(results)] ==
        IF i = 0 THEN 1 ELSE WorstOf(worst[i - 1], TestGrade(results[i]))
  IN  worst[Len(results)]

\* estimateUDPBandwidth, in Mbit/s; RunUDPClient takes 0 for no limit
MaxThroughput(m) ==
  CASE m.test \in {"tcp", "bufferbloat"} -> m.kbps
    [] m.test = "bidir" -> Larger(m.upload, m.download)
    [] OTHER -> 0
MaxOf(completed) ==
  LET max[i \in 0..Len(completed)] ==
        IF i = 0 THEN 0 ELSE Larger(max[i - 1], MaxThroughput(completed[i]))
  IN  max[Len(completed)]

Fallback == 100
RoundedDown(mbps) == (mbps \div 50) * 50          \* mutant
Rounded(mbps) == ((mbps + 49) \div 50) * 50
EstimateUDPBandwidth(completed) ==
  IF MaxOf(completed) > 0 THEN Rounded(MaxOf(completed) \div 1000) ELSE Fallback
====
