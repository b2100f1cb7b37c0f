---- MODULE MTUProofs ----
(***************************************************************************)
(* Proofs about MTUDiscovery, for every range of payloads, every step and  *)
(* all limits of the interface and of the path.                            *)
(***************************************************************************)
EXTENDS MTUDiscovery, TLAPS

USE PayloadAssumption, LimitsAssumption

\* What the binary search keeps: the sizes below low are accepted, those above
\* high refused.
SearchInv ==
  /\ low \in MinPayload..MaxPayload + 1 /\ high \in MinPayload - 1..MaxPayload
  /\ low <= high + 1
  /\ localMax = Larger(MinPayload, low - 1)
  /\ low > MinPayload => low - 1 <= Local
  /\ high < MaxPayload => Local <= high
  /\ pc # "search" => low = high + 1

\* What the server has seen went through both limits, and its answer is made
\* of that.
ServerInv ==
  /\ maxReceived <= Local /\ maxReceived <= Path
  /\ reply <= maxReceived + Overhead
  /\ source = "server" => mtu = reply /\ reply # NoReply

\* The limit the probes look for, and how close they are to it: either a probe
\* less than one step below it has arrived, or none has been sent yet.
Limit == Smaller(localMax, Path)
Near  == maxReceived + ProbeStep > Limit

ProbeInv ==
  (~lossy /\ whole /\ Smaller(Local, Path) >= MinPayload) =>
    /\ pc \in {"search", "probe", "last"} => reply \in {NoReply, maxReceived}
    /\ pc = "probe" /\ reply = NoReply => Near \/ size + ProbeStep > Limit
    /\ pc = "last"  /\ reply = NoReply => Near \/ MinPayload + ProbeStep > Limit
    /\ pc \in {"end1", "end2", "wait", "done"} /\ reply # maxReceived => Near

LEMMA StepPositive == \A x \in Int : x \div Divisions \in Int
OBVIOUS

LEMMA ProbeStepType == TypeOK => ProbeStep \in Nat \ {0}
BY StepPositive DEF TypeOK, ProbeStep

LEMMA Closer ==
  ASSUME NEW a \in Int, NEW b \in Int, NEW s \in Int, NEW limit \in Int, a <= b, a + s > limit
  PROVE  b + s > limit
OBVIOUS

LEMMA TypeInit == Init => TypeOK
BY DEF Init, TypeOK, NoReply

LEMMA WriteType ==
  ASSUME TypeOK, NEW n \in Int, n >= MinPayload, Write(n)
  PROVE  /\ maxReceived' \in Nat /\ maxReceived <= maxReceived'
         /\ maxReceived' \in {maxReceived, n}
         /\ maxReceived' = n => (n <= Local /\ n <= Path) \/ maxReceived' = maxReceived
         /\ (~lossy /\ n <= Local /\ n <= Path /\ reply = NoReply) => maxReceived' >= n
         /\ reply # NoReply => maxReceived' = maxReceived
BY DEF Write, Keep, TypeOK

LEMMA Middle ==
  ASSUME NEW a \in Int, NEW b \in Int, a <= b
  PROVE  (a + b) \div 2 \in a..b
OBVIOUS

LEMMA TypeStep == TypeOK /\ [Next]_vars => TypeOK'
<1> SUFFICES ASSUME TypeOK, [Next]_vars PROVE TypeOK'
  OBVIOUS
<1> USE DEF TypeOK, limits, client, Answer, Write, Keep, NoReply
<1>1. CASE Search
  BY <1>1 DEF Search, Open
<1>2. CASE Probe
  BY <1>2, ProbeStepType DEF Probe
<1>3. CASE Searched \/ Interrupt \/ Probed
  BY <1>3 DEF Searched, Interrupt, Probed, AfterProbes
<1>6. CASE ProbeLast
  BY <1>6 DEF ProbeLast
<1>7. CASE Terminate
  BY <1>7 DEF Terminate
<1>4. CASE ServerTimeout \/ ServerCancelled \/ UseReply \/ FallBack
  BY <1>4 DEF ServerTimeout, ServerCancelled, UseReply, Reported, FallBack, Return
<1>5. CASE UNCHANGED vars
  BY <1>5 DEF vars
<1> QED
  BY <1>1, <1>2, <1>3, <1>4, <1>5, <1>6, <1>7 DEF Next, Client

LEMMA SearchInit == Init => SearchInv
BY DEF Init, SearchInv, Larger

LEMMA SearchStep == TypeOK /\ SearchInv /\ [Next]_vars => SearchInv'
<1> SUFFICES ASSUME TypeOK, SearchInv, [Next]_vars PROVE SearchInv'
  OBVIOUS
<1>1. CASE Search
  <2> DEFINE mid == (low + high) \div 2
  <2>1. mid \in low..high /\ mid \in Int
    BY <1>1, Middle DEF Search, Open, TypeOK
  <2>2. /\ pc' = "search" /\ Local' = Local
        /\ \/ mid <= Local /\ localMax' = mid /\ low' = mid + 1 /\ high' = high
           \/ ~(mid <= Local) /\ high' = mid - 1 /\ low' = low /\ localMax' = localMax
    BY <1>1 DEF Search, Open, limits
  <2> HIDE DEF mid
  <2> QED
    BY <2>1, <2>2, <1>1 DEF Search, Open, SearchInv, TypeOK, Larger
<1>2. CASE Searched
  BY <1>2 DEF Searched, Open, SearchInv, TypeOK, limits
<1>3. CASE ~Search /\ ~Searched
  <2>1. UNCHANGED <<Local, low, high, localMax>> /\ (pc' = "search" => pc = "search")
        /\ (pc = "search" => pc' = "search")
    BY <1>3 DEF Next, Client, vars, limits, client, Probe, Interrupt, Probed, AfterProbes, ProbeLast, Terminate,
                ServerTimeout, ServerCancelled, UseReply, Reported, FallBack, Return
  <2> QED
    BY <2>1 DEF SearchInv
<1> QED
  BY <1>1, <1>2, <1>3

LEMMA ServerInit == Init => ServerInv
BY DEF Init, ServerInv, NoReply, TypeOK

\* Every size that is written is at least the smallest payload.
LEMMA ServerStep == TypeOK /\ SearchInv /\ ServerInv /\ [Next]_vars => ServerInv'
<1> SUFFICES ASSUME TypeOK, SearchInv, ServerInv, [Next]_vars PROVE ServerInv'
  OBVIOUS
<1>1. ASSUME NEW n \in Int, n >= MinPayload, Write(n), UNCHANGED <<Local, Path, reply, mtu, source>>
      PROVE  ServerInv'
  BY <1>1, WriteType DEF ServerInv, TypeOK, NoReply
<1>2. CASE Search
  <2>1. (low + high) \div 2 \in low..high
    BY <1>2, Middle DEF Search, Open, TypeOK
  <2> QED
    BY <1>1, <1>2, <2>1 DEF Search, limits, SearchInv, TypeOK
<1>3. CASE Probe
  BY <1>1, <1>3 DEF Probe, limits, TypeOK
<1>4. CASE ProbeLast
  BY <1>1, <1>4 DEF ProbeLast, limits
<1>5. CASE Searched \/ Interrupt \/ Probed
  BY <1>5 DEF Searched, Interrupt, Probed, ServerInv, limits
<1>6. CASE Terminate \/ ServerTimeout \/ ServerCancelled
  BY <1>6 DEF Terminate, ServerTimeout, ServerCancelled, Answer, ServerInv, limits, client, TypeOK, NoReply
<1>7. CASE UseReply \/ FallBack
  BY <1>7 DEF UseReply, Reported, FallBack, Return, ServerInv, limits
<1>8. CASE UNCHANGED vars
  BY <1>8 DEF vars, ServerInv
<1> QED
  BY <1>2, <1>3, <1>4, <1>5, <1>6, <1>7, <1>8 DEF Next, Client

\* localMax is the interface's limit when the probes start.
LEMMA LocalMaxFits ==
  TypeOK /\ SearchInv /\ pc # "search" => localMax = Larger(MinPayload, Smaller(MaxPayload, Local))
BY DEF TypeOK, SearchInv, Larger, Smaller

LEMMA ProbeInit == Init => ProbeInv
BY DEF Init, ProbeInv, TypeOK

LEMMA ProbeStepInv == TypeOK /\ SearchInv /\ ProbeInv /\ [Next]_vars => ProbeInv'
<1> SUFFICES ASSUME TypeOK, SearchInv, ProbeInv, [Next]_vars,
                    ~lossy', whole', Smaller(Local', Path') >= MinPayload
             PROVE  /\ pc' \in {"search", "probe", "last"} => reply' \in {NoReply, maxReceived'}
                    /\ pc' = "probe" /\ reply' = NoReply => Near' \/ size' + ProbeStep' > Limit'
                    /\ pc' = "last"  /\ reply' = NoReply => Near' \/ MinPayload + ProbeStep' > Limit'
                    /\ pc' \in {"end1", "end2", "wait", "done"} /\ reply' # maxReceived' => Near'
  BY DEF ProbeInv
<1>0. UNCHANGED <<Local, Path, lossy>> /\ whole /\ ~lossy
  <2>1. UNCHANGED limits
    BY DEF Next, Client, vars, limits, Search, Searched, Probe, Interrupt, Probed, ProbeLast, Terminate,
           ServerTimeout, ServerCancelled, UseReply, FallBack, Return
  <2>2. whole
    BY DEF Next, Client, vars, client, Search, Searched, Probe, Interrupt, Probed, ProbeLast, Terminate,
           ServerTimeout, ServerCancelled, UseReply, FallBack, Return
  <2> QED
    BY <2>1, <2>2 DEF limits
<1>1. /\ pc \in {"search", "probe", "last"} => reply \in {NoReply, maxReceived}
      /\ pc = "probe" /\ reply = NoReply => Near \/ size + ProbeStep > Limit
      /\ pc = "last"  /\ reply = NoReply => Near \/ MinPayload + ProbeStep > Limit
      /\ pc \in {"end1", "end2", "wait", "done"} /\ reply # maxReceived => Near
  BY <1>0 DEF ProbeInv
<1>2. ProbeStep \in Int /\ ProbeStep > 0 /\ Limit \in Int /\ maxReceived \in Int /\ size \in Int /\ MinPayload \in Int
  BY ProbeStepType DEF TypeOK, Limit, Smaller
<1>3. localMax' = localMax => ProbeStep' = ProbeStep /\ Limit' = Limit
  BY <1>0 DEF ProbeStep, Limit
<1>4. CASE Search
  BY <1>4, <1>1 DEF Search, Write, Keep, NoReply
<1>5. CASE Searched
  <2>1. size' = localMax /\ localMax' = localMax /\ Limit <= localMax
    BY <1>5, <1>0 DEF Searched, Limit, Smaller, TypeOK
  <2>2. pc = "search" /\ pc' = "probe" /\ UNCHANGED <<reply, maxReceived>> /\ localMax \in Int
    BY <1>5 DEF Searched, TypeOK
  <2>3. size' + ProbeStep' > Limit'
    BY <2>1, <2>2, <1>2, <1>3
  <2> QED
    BY <2>2, <2>3, <1>1
<1>6. CASE Probe
  <2>1. localMax' = localMax /\ size' = size - ProbeStep /\ pc = "probe" /\ pc' = "probe" /\ reply' = reply
        /\ size >= MinPayload
    BY <1>6 DEF Probe
  <2>2. /\ maxReceived' \in Int /\ maxReceived <= maxReceived'
        /\ (size <= Local /\ size <= Path /\ reply = NoReply) => maxReceived' >= size
        /\ reply # NoReply => maxReceived' = maxReceived
    BY <1>0, <1>6, WriteType DEF Probe, TypeOK
  <2>4. (Near' <=> maxReceived' + ProbeStep > Limit) /\ (Near <=> maxReceived + ProbeStep > Limit)
    BY <2>1, <1>3 DEF Near
  <2>3. reply = NoReply => Near' \/ size' + ProbeStep' > Limit'
    <3> SUFFICES ASSUME reply = NoReply, ~Near', ~(size' + ProbeStep' > Limit') PROVE FALSE
      OBVIOUS
    <3>1. size <= Limit
      BY <2>1, <1>2, <1>3
    <3>2. size <= Path /\ size <= localMax
      BY <3>1, <1>0 DEF Limit, Smaller, TypeOK
    <3>3. size <= Local
      BY <3>2, <2>1, <1>0, LocalMaxFits DEF TypeOK, Larger, Smaller
    <3>4. maxReceived' >= size
      BY <2>2, <3>2, <3>3
    <3>5. maxReceived + ProbeStep > Limit => maxReceived' + ProbeStep > Limit
      BY Closer, <2>2, <1>2
    <3>6. size + ProbeStep > Limit
      BY <1>1, <2>1, <2>4, <3>5
    <3>7. maxReceived' + ProbeStep > Limit
      BY Closer, <2>2, <3>4, <3>6, <1>2
    <3> QED
      BY <2>4, <3>7
  <2> QED
    BY <1>1, <2>1, <2>2, <2>3
<1>7. CASE Interrupt
  BY <1>7 DEF Interrupt
<1>8. CASE Probed
  <2>1. UNCHANGED <<localMax, reply, maxReceived>> /\ pc = "probe" /\ pc' = "last" /\ size < MinPayload
    BY <1>8 DEF Probed, AfterProbes
  <2>2. Near' <=> Near
    BY <2>1, <1>3 DEF Near
  <2>3. reply = NoReply /\ ~Near => MinPayload + ProbeStep' > Limit'
    BY <2>1, <1>1, <1>2, <1>3
  <2> QED
    BY <2>1, <2>2, <2>3, <1>1
<1>9. CASE ProbeLast
  <2>1. UNCHANGED <<localMax, reply>> /\ pc = "last" /\ pc' = "end1"
    BY <1>9 DEF ProbeLast
  <2>2. /\ maxReceived' \in Int /\ maxReceived <= maxReceived'
        /\ reply = NoReply => maxReceived' >= MinPayload
        /\ reply # NoReply => maxReceived' = maxReceived
    BY <1>9, <1>0, WriteType DEF ProbeLast, TypeOK, Smaller
  <2>6. (Near' <=> maxReceived' + ProbeStep > Limit) /\ (Near <=> maxReceived + ProbeStep > Limit)
    BY <2>1, <1>3 DEF Near
  <2>3. Near => Near'
    <3>1. maxReceived + ProbeStep > Limit => maxReceived' + ProbeStep > Limit
      BY Closer, <2>2, <1>2
    <3> QED
      BY <3>1, <2>6
  <2>4. reply = NoReply => Near'
    <3>1. reply = NoReply => Near \/ MinPayload + ProbeStep > Limit
      BY <2>1, <1>1
    <3>2. reply = NoReply /\ MinPayload + ProbeStep > Limit => maxReceived' + ProbeStep > Limit
      BY Closer, <2>2, <1>2
    <3> QED
      BY <2>3, <2>6, <3>1, <3>2
  <2>5. reply # NoReply => maxReceived' = maxReceived /\ reply = maxReceived
    BY <2>1, <2>2, <1>1
  <2> QED
    BY <2>1, <2>4, <2>5
<1>10. CASE Terminate \/ ServerTimeout
  <2>1. /\ UNCHANGED <<localMax, maxReceived>>
        /\ pc \in {"end1", "end2", "wait"} /\ pc' \in {"end1", "end2", "wait"}
        /\ reply = NoReply \/ reply' = reply
    BY <1>10 DEF Terminate, ServerTimeout, client
  <2> QED
    BY <2>1, <1>1, <1>3 DEF Near, TypeOK, NoReply
<1>11. CASE ServerCancelled
  BY <1>11 DEF ServerCancelled, TypeOK, NoReply
<1>12. CASE UseReply \/ FallBack
  <2>1. UNCHANGED <<localMax, maxReceived, reply>> /\ pc = "wait" /\ pc' = "done"
    BY <1>12 DEF UseReply, Reported, FallBack, Return
  <2> QED
    BY <2>1, <1>1, <1>3 DEF Near
<1>13. CASE UNCHANGED vars
  <2>1. UNCHANGED <<localMax, maxReceived, reply, size, pc>>
    BY <1>13 DEF vars
  <2> QED
    BY <2>1, <1>1, <1>3 DEF Near
<1> QED
  BY <1>4, <1>5, <1>6, <1>7, <1>8, <1>9, <1>10, <1>11, <1>12, <1>13 DEF Next, Client

IInv == TypeOK /\ SearchInv /\ ServerInv /\ ProbeInv

\* The inductive invariant of the MTU test.
THEOREM Invariance == Spec => []IInv
<1>1. Init => IInv
  BY TypeInit, SearchInit, ServerInit, ProbeInit DEF IInv
<1>2. IInv /\ [Next]_vars => IInv'
  BY TypeStep, SearchStep, ServerStep, ProbeStepInv DEF IInv
<1> QED
  BY <1>1, <1>2, PTL DEF Spec

\* Type correctness (sendMTUProbes, handleMTUServer, readMTUResult).
THEOREM TypeCorrect == Spec => []TypeOK
<1>1. IInv => TypeOK
  BY DEF IInv
<1> QED
  BY <1>1, Invariance, PTL

\* sendMTUProbes' search finds the interface's limit exactly, for every range.
THEOREM SearchFindsLimit == Spec => []SearchExact
<1>1. IInv => SearchExact
  BY LocalMaxFits DEF IInv, SearchExact
<1> QED
  BY <1>1, Invariance, PTL

\* What the server reports was carried end to end.
THEOREM ReportIsCarried == Spec => []NeverOverestimates
<1>1. IInv => NeverOverestimates
  BY DEF IInv, ServerInv, NeverOverestimates, TypeOK, Smaller, NoReply
<1> QED
  BY <1>1, Invariance, PTL

\* Without loss the report is less than one step below the true limit.
THEOREM ReportIsClose == Spec => []WithinOneStep
<1>1. IInv => WithinOneStep
  <2> SUFFICES ASSUME IInv, source = "server", whole, ~lossy, reply = maxReceived + Overhead,
                      Smaller(Local, Path) >= MinPayload
               PROVE  mtu + ProbeStep > Smaller(localMax, Path) + Overhead
    BY DEF WithinOneStep
  <2>1. TypeOK /\ SearchInv /\ ServerInv /\ ProbeInv
    BY DEF IInv
  <2>2. reply # NoReply /\ reply # maxReceived /\ mtu = maxReceived + Overhead
    BY <2>1 DEF ServerInv, TypeOK, NoReply
  <2>3. Near
    BY <2>1, <2>2 DEF ProbeInv, TypeOK
  <2> QED
    BY <2>1, <2>2, <2>3, ProbeStepType DEF Near, Limit, TypeOK, Smaller
<1> QED
  BY <1>1, Invariance, PTL
====
