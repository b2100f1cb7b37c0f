---- MODULE Report ----
(***************************************************************************)
(* Several clients that each run tests, grade them, and append their       *)
(* report to one history file (client.Run and executeTests,                *)
(* results.SaveHistory), and a reader that prints it (PrintHistory).       *)
(*                                                                         *)
(* The file is a sequence of tokens: a whole JSON object, a part of one    *)
(* and a newline.  SaveHistory writes the object and the newline with one  *)
(* Write on a file opened with O_APPEND, so that other writers cannot come *)
(* between; the write may stop anywhere (disk full, a killed process).     *)
(***************************************************************************)
EXTENDS Assessment, FiniteSets, SequencesExt

CONSTANTS Clients,       \* the processes, one report each
          Measurements,  \* what the tests of a client may measure
          MaxTests,      \* bound: tests of each client
          Limit          \* entries that PrintHistory shows (20; 0 for all)

ASSUME ReportAssumption ==
  /\ IsFiniteSet(Clients) /\ MaxTests \in [Clients -> Nat] /\ Limit \in Nat
  /\ \A c \in Clients : Measurements[c] \subseteq Measured

VARIABLES
  results,  \* completed: the results of each client so far
  at,       \* each client: "testing", "saving" or "ended"
  saved,    \* clients whose SaveHistory returned nil
  file,     \* the history file
  torn      \* writes that stopped in the middle

vars == <<results, at, saved, file, torn>>

Token(kind, c, grade) == [kind |-> kind, by |-> c, grade |-> grade]
Newline(c)  == Token("newline", c, 0)
Whole(c)    == Token("whole", c, ComputeOverallGrade(results[c]))
Part(c)     == Token("part", c, 0)

TypeOK ==
  /\ \A c \in Clients : results[c] \in Seq(Measurements[c])
  /\ at \in [Clients -> {"testing", "saving", "ended"}]
  /\ saved \subseteq Clients
  /\ file \in Seq([kind : {"whole", "part", "newline"}, by : Clients, grade : 0..5])
  /\ Len(file) <= 2 * Cardinality(Clients)
  /\ torn \in 0..Cardinality(Clients)

Init ==
  /\ results = [c \in Clients |-> <<>>] /\ at = [c \in Clients |-> "testing"]
  /\ saved = {} /\ file = <<>> /\ torn = 0

(***************************************************************************)
(* A client.                                                               *)
(***************************************************************************)
RunTest(c) ==                    \* a test that fails leaves no result
  /\ at[c] = "testing" /\ Len(results[c]) < MaxTests[c]
  /\ \E m \in Measurements[c] : results' = [results EXCEPT ![c] = Append(@, m)]
  /\ UNCHANGED <<at, saved, file, torn>>

FinishTests(c) ==                \* no report without a result
  /\ at[c] = "testing"
  /\ at' = [at EXCEPT ![c] = IF results[c] = <<>> THEN "ended" ELSE "saving"]
  /\ UNCHANGED <<results, saved, file, torn>>

LineBare(c) == <<Whole(c)>>      \* mutant: the newline is forgotten
Line(c) == <<Whole(c), Newline(c)>>

Truncate(old, tokens) == tokens                     \* mutant: the file is opened without O_APPEND
WriteTwice(old, tokens) == old \o tokens \o tokens  \* mutant: a retry of what was done
AppendTo(old, tokens) == old \o tokens

SaveHistory(c) ==
  /\ at[c] = "saving" /\ at' = [at EXCEPT ![c] = "ended"]
  /\ \/ /\ file' = AppendTo(file, Line(c))
        /\ saved' = saved \cup {c}
        /\ UNCHANGED torn
     \/ \E tokens \in {<<Part(c)>>, <<Whole(c)>>} :
          file' = AppendTo(file, tokens) /\ torn' = torn + 1 /\ UNCHANGED saved
     \/ UNCHANGED <<file, torn, saved>>  \* no directory, no file, nothing written
  /\ UNCHANGED results

(***************************************************************************)
(* PrintHistory changes nothing: what it prints is a function of the file. *)
(***************************************************************************)
\* splitLines and Unmarshal: a line is an entry if it is one whole object.
IsEntry(f, i) == /\ f[i].kind = "whole"
                 /\ i = 1 \/ f[i - 1].kind = "newline"
                 /\ i = Len(f) \/ f[i + 1].kind = "newline"
Entries(f) ==
  LET read[i \in 0..Len(f)] ==
        IF i = 0 THEN <<>> ELSE IF IsEntry(f, i) THEN Append(read[i - 1], f[i]) ELSE read[i - 1]
  IN  read[Len(f)]

CompareTrend(prev, curr) ==
  IF curr.grade < prev.grade THEN "up" ELSE IF curr.grade > prev.grade THEN "down" ELSE "same"

FirstShownShort(n) == IF Limit > 0 /\ n > Limit THEN n - Limit + 2 ELSE 1   \* mutant: off by one
FirstShown(n) == IF Limit > 0 /\ n > Limit THEN n - Limit + 1 ELSE 1

Printed(es) ==
  LET first == FirstShown(Len(es))
      Trend(j) == IF j = 1 THEN "none" ELSE CompareTrend(es[j - 1], es[j])
  IN  [k \in 1..Len(es) - first + 1 |-> [by |-> es[first + k - 1].by, trend |-> Trend(first + k - 1)]]

\* ReadFile while others append: it sees the file, or all but the end of the
\* last write.
Snapshots == {file} \cup
  IF file # <<>> /\ Last(file).kind = "newline"
    THEN {Front(file), Front(Front(file)) \o <<Part(Last(file).by)>>} ELSE {}

Next == \E c \in Clients : RunTest(c) \/ FinishTests(c) \/ SaveHistory(c)

Spec == Init /\ [][Next]_vars

(***************************************************************************)
(* Properties.                                                             *)
(***************************************************************************)
Readable(f) == {f[i].by : i \in {j \in DOMAIN f : IsEntry(f, j)}}

\* A write that stops half way costs at most one of the reports that were
\* saved: the one that is appended to its unfinished line.
TearCostsOneEntry == Cardinality(saved \ Readable(file)) <= torn

\* A report that was saved and can be read stays so, whatever other clients
\* append after it: an entry ends with its newline.
SavedStaysReadable == [][saved \cap Readable(file) \subseteq Readable(file')]_vars

\* The history shows the latest entries, also while another client appends: a
\* readable report is left out only for Limit that were appended after it, or
\* for being the last.
Shows(f) == {Printed(Entries(f))[j].by : j \in DOMAIN Printed(Entries(f))}
LatestAreShown ==
  \A f \in Snapshots, i \in DOMAIN file :
    IsEntry(file, i) /\ file[i].by \notin Shows(f) =>
      \/ Limit > 0 /\ Cardinality({j \in DOMAIN f : j > i /\ IsEntry(f, j)}) >= Limit
      \/ file[i].by = Last(file).by

\* The figures of one measurement that are better when they are smaller or
\* larger, and "no better in any figure".
SmallIsGood == {"avg", "p95", "loss"}
NoBetter(m, n) ==
  m.test = n.test /\ \A f \in DOMAIN m \ {"test"} :
                       IF f \in SmallIsGood THEN m[f] >= n[f] ELSE m[f] <= n[f]

\* A client whose tests measured no better figure than another client's does
\* not get a better grade, for a test or overall (bounds of the grades, the
\* combinations of the tests, ComputeOverallGrade).
WorseNetworkWorseGrade ==
  \A c, d \in Clients :
    Len(results[c]) >= Len(results[d])
      /\ (\A i \in DOMAIN results[d] : NoBetter(results[c][i], results[d][i])) =>
    /\ \A i \in DOMAIN results[d] : TestGrade(results[c][i]) >= TestGrade(results[d][i])
    /\ ComputeOverallGrade(results[c]) >= ComputeOverallGrade(results[d])

\* The overall grade is that of one of the tests, and no test has a worse one.
OverallIsWorst ==
  \A c \in Clients : results[c] # <<>> =>
    /\ \E i \in DOMAIN results[c] : ComputeOverallGrade(results[c]) = TestGrade(results[c][i])
    /\ \A i \in DOMAIN results[c] : ComputeOverallGrade(results[c]) >= TestGrade(results[c][i])

\* Grades say how good the figures are, one by one and together.
GradesFollowFigures == WorseNetworkWorseGrade /\ OverallIsWorst

\* The rate of the UDP test covers the best throughput measured before it, but
\* for a fraction of 1 Mbit/s, by less than 50 Mbit/s; nothing below 1 Mbit/s
\* limits it, and it falls back to 100 Mbit/s only if nothing was measured.
RateFollowsThroughput ==
  \A c \in Clients :
    LET rate == 1000 * EstimateUDPBandwidth(results[c])
        best == {MaxThroughput(results[c][i]) : i \in DOMAIN results[c]} \ {0}
    IN  IF best = {} THEN rate = 100000
        ELSE /\ \A t \in best : (rate = 0 /\ t < 1000) \/ rate > t - 1000
             /\ rate > 0 => \E t \in best : rate < t + 50000
====
