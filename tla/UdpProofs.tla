---- MODULE UdpProofs ----
(***************************************************************************)
(* Proofs about UdpTest: the counters of the two sides, the sender's       *)
(* budget and the grade of a result that was lost, for every duration,     *)
(* size of a datagram, budget and number of datagrams and duplicates.      *)
(***************************************************************************)
EXTENDS UdpTest, FiniteSetTheorems, TLAPS

USE UdpAssumption

\* The most a limited sender sends in one interval.
PerInterval == Budget + PacketSize - 1

\* The budget of the interval is exceeded by less than a datagram, and what was
\* sent before it is within the budgets of as many intervals as have passed.
BudgetInv ==
  limited => /\ used <= PerInterval
             /\ sent * PacketSize <= started * PerInterval + used

\* recv counts the numbers received and the duplicates.
CountInv == recv = Cardinality(seen) + dups

\* As long as nothing was counted as out of order, lastSeq is the largest number.
OrderInv ==
  /\ outOfOrder <= late
  /\ outOfOrder = 0 => late = 0 /\ \A seq \in seen : seq <= lastSeq

\* A result is merged when the sender, and the receiver if it was read, has
\* stopped, and what it was computed from does not change any more.
ResultInv ==
  /\ result.done => sender = "done"
  /\ result.read => result.done /\ receiver = "done" /\ result.lost = sent - recv
  /\ result.done /\ ~result.read => result.lost = sent

IInv == TypeOK /\ BudgetInv /\ CountInv /\ OrderInv /\ ResultInv

(***************************************************************************)
(* Arithmetic.                                                             *)
(***************************************************************************)
LEMMA ProductType == ASSUME NEW a \in Nat, NEW b \in Nat PROVE a * b \in Nat
OBVIOUS

LEMMA OneMore == ASSUME NEW a \in Nat, NEW b \in Nat PROVE (a + 1) * b = a * b + b
OBVIOUS

LEMMA ProductMonotone ==
  ASSUME NEW a \in Nat, NEW b \in Nat, NEW c \in Nat, a <= c
  PROVE  a * b <= c * b
<1>1. PICK d \in Nat : c = a + d
  <2>1. c - a \in Nat /\ c = a + (c - a)
    OBVIOUS
  <2> QED BY <2>1
<1>2. (a + d) * b = a * b + d * b
  OBVIOUS
<1>3. d * b \in Nat /\ a * b \in Nat
  BY ProductType
<1> QED BY <1>1, <1>2, <1>3

LEMMA SeenFinite ==
  ASSUME TypeOK
  PROVE  /\ IsFiniteSet(seen) /\ IsFiniteSet(0..sent - 1)
         /\ Cardinality(seen) \in Nat /\ Cardinality(0..sent - 1) = sent
<1>1. sent \in Nat /\ seen \in SUBSET (0..sent - 1)
  BY DEF TypeOK
<1>2. IsFiniteSet(0..sent - 1) /\ Cardinality(0..sent - 1) = sent
  BY <1>1, FS_Interval
<1>3. IsFiniteSet(seen)
  BY <1>1, <1>2, FS_Subset
<1> QED BY <1>2, <1>3, FS_CardinalityType

(***************************************************************************)
(* The steps.                                                              *)
(***************************************************************************)
LEMMA InitInv == Init => IInv
<1> SUFFICES ASSUME Init PROVE IInv
  OBVIOUS
<1>1. TypeOK
  BY DEF Init, TypeOK, NoResult
<1>2. BudgetInv
  BY DEF Init, BudgetInv, PerInterval
<1>3. CountInv
  BY FS_EmptySet DEF Init, CountInv
<1>4. OrderInv
  BY DEF Init, OrderInv
<1>5. ResultInv
  BY DEF Init, ResultInv, NoResult
<1> QED BY <1>1, <1>2, <1>3, <1>4, <1>5 DEF IInv

LEMMA MergeType ==
  ASSUME TypeOK, NEW read \in BOOLEAN
  PROVE  /\ Merge(read) \in [read : BOOLEAN, lost : Int, outOfOrder : Nat, done : BOOLEAN]
         /\ Merge(read).read = read /\ Merge(read).done
         /\ Merge(read).lost = IF read THEN sent - recv ELSE sent
BY DEF TypeOK, Merge

LEMMA TypeStep == IInv /\ [Next]_vars => TypeOK'
<1> SUFFICES ASSUME TypeOK, ResultInv, [Next]_vars PROVE TypeOK'
  BY DEF IInv
<1>1. CASE SendNow
  BY <1>1 DEF TypeOK, SendNow, Send, receiving
<1>2. CASE StartSpin
  BY <1>2 DEF TypeOK, StartSpin, receiving
<1>3. CASE SpinEnds
  BY <1>3 DEF TypeOK, SpinEnds, Send, receiving
<1>4. CASE SendingEnds
  BY <1>4 DEF TypeOK, SendingEnds, receiving
<1>5. ASSUME NEW seq \in 0..MaxSent, Receive(seq) PROVE TypeOK'
  BY <1>5 DEF TypeOK, Receive, Counted, NewLastSeq, sending
<1>6. CASE ReceivingEnds
  BY <1>6 DEF TypeOK, ReceivingEnds, sending
<1>7. CASE ReadResult
  <2>1. result' \in [read : BOOLEAN, lost : Int, outOfOrder : Nat, done : BOOLEAN]
    BY <1>7, MergeType DEF ReadResult
  <2> QED BY <1>7, <2>1 DEF TypeOK, ReadResult, sending, receiving
<1>8. CASE Tick
  BY <1>8 DEF TypeOK, Tick, sending, receiving
<1>9. CASE UNCHANGED vars
  BY <1>9 DEF TypeOK, vars, sending, receiving
<1> QED BY <1>1, <1>2, <1>3, <1>4, <1>5, <1>6, <1>7, <1>8, <1>9 DEF Next, Sending, Stop

LEMMA BudgetStep == IInv /\ [Next]_vars => BudgetInv'
<1> SUFFICES ASSUME TypeOK, BudgetInv, [Next]_vars PROVE BudgetInv'
  BY DEF IInv
<1> USE DEF PerInterval
<1>0. /\ sent \in Nat /\ started \in Nat /\ used \in Nat /\ now \in Nat /\ started <= now
      /\ PerInterval \in Nat /\ PacketSize <= PerInterval
      /\ sent * PacketSize \in Nat /\ started * PerInterval \in Nat
  BY ProductType DEF TypeOK
<1>1. CASE SendNow
  <2>1. sent' * PacketSize = sent * PacketSize + PacketSize
    BY <1>0, <1>1, OneMore DEF SendNow, Send
  <2>2. limited' = limited /\ started' = started /\ used' = used + PacketSize
    BY <1>1 DEF SendNow, Send
  <2>3. limited => used < Budget
    BY <1>0, <1>1 DEF SendNow, Spent
  <2>4. limited => used' <= PerInterval
    BY <1>0, <2>2, <2>3
  <2>5. limited => sent' * PacketSize <= started' * PerInterval + used'
    BY <1>0, <2>1, <2>2 DEF BudgetInv
  <2> QED BY <2>2, <2>4, <2>5 DEF BudgetInv
<1>2. CASE SpinEnds
  <2>1. sent' * PacketSize = sent * PacketSize + PacketSize
    BY <1>0, <1>2, OneMore DEF SpinEnds, Send
  <2>2. limited' = limited /\ started' = now /\ used' = PacketSize /\ started + 1 <= now
    BY <1>2, <1>0 DEF SpinEnds, Send, IntervalOver
  <2>3. (started + 1) * PerInterval <= now * PerInterval
    BY <1>0, <2>2, ProductMonotone
  <2>4. (started + 1) * PerInterval = started * PerInterval + PerInterval
    BY <1>0, OneMore
  <2>5. now * PerInterval \in Nat
    BY <1>0, ProductType
  <2>6. limited => sent' * PacketSize <= started' * PerInterval + used'
    BY <1>0, <2>1, <2>2, <2>3, <2>4, <2>5 DEF BudgetInv
  <2> QED BY <1>0, <2>2, <2>6 DEF BudgetInv
<1>3. CASE UNCHANGED <<limited, sent, started, used>>
  BY <1>3 DEF BudgetInv
<1> QED BY <1>1, <1>2, <1>3
        DEF Next, Sending, Stop, StartSpin, SendingEnds, Receive, ReceivingEnds, ReadResult, Tick,
            vars, sending

LEMMA CountStep == IInv /\ [Next]_vars => CountInv'
<1> SUFFICES ASSUME TypeOK, CountInv, [Next]_vars PROVE CountInv'
  BY DEF IInv
<1>1. ASSUME NEW seq \in 0..MaxSent, Receive(seq) PROVE CountInv'
  <2>1. recv' = recv + 1 /\ seen' = seen \cup {seq}
    BY <1>1 DEF Receive, Counted
  <2>2. Cardinality(seen') = IF seq \in seen THEN Cardinality(seen) ELSE Cardinality(seen) + 1
    BY <2>1, SeenFinite, FS_AddElement
  <2>3. dups' = IF seq \in seen THEN dups + 1 ELSE dups
    BY <1>1 DEF Receive
  <2>4. Cardinality(seen) \in Nat /\ dups \in Nat /\ recv \in Nat
    BY SeenFinite DEF TypeOK
  <2> QED BY <2>1, <2>2, <2>3, <2>4 DEF CountInv
<1>2. CASE UNCHANGED <<recv, seen, dups>>
  BY <1>2 DEF CountInv
<1> QED BY <1>1, <1>2
        DEF Next, Sending, SendNow, StartSpin, SpinEnds, Stop, SendingEnds, ReceivingEnds, ReadResult,
            Tick, vars, receiving

LEMMA OrderStep == IInv /\ [Next]_vars => OrderInv'
<1> SUFFICES ASSUME TypeOK, OrderInv, [Next]_vars PROVE OrderInv'
  BY DEF IInv
<1>1. ASSUME NEW seq \in 0..MaxSent, Receive(seq) PROVE OrderInv'
  <2>0. seq \in Int /\ lastSeq \in Nat /\ lastSeq \in seen \cup {0} /\ seen \subseteq Nat
        /\ outOfOrder \in Nat /\ late \in Nat
    BY <1>1 DEF TypeOK
  <2>1. seen' = seen \cup {seq} /\ lastSeq' = seq
    BY <1>1 DEF Receive, NewLastSeq
  <2>2. CASE seq < lastSeq
    <3>1. IsLate(seq)
      BY <2>0, <2>2 DEF IsLate
    <3>2. outOfOrder' = outOfOrder + 1 /\ late' = late + 1
      BY <1>1, <2>2, <3>1 DEF Receive, IsOutOfOrder
    <3> QED BY <2>0, <3>2 DEF OrderInv
  <2>3. CASE ~(seq < lastSeq)
    <3>1. outOfOrder' = outOfOrder
      BY <1>1, <2>3 DEF Receive, IsOutOfOrder
    <3>2. late' \in {late, late + 1}
      BY <1>1 DEF Receive
    <3>3. outOfOrder = 0 => ~IsLate(seq) /\ \A other \in seen' : other <= lastSeq'
      BY <2>0, <2>1, <2>3 DEF OrderInv, IsLate
    <3>4. outOfOrder = 0 => late' = late
      BY <1>1, <3>3 DEF Receive
    <3> QED BY <2>0, <3>1, <3>2, <3>3, <3>4 DEF OrderInv
  <2> QED BY <2>2, <2>3
<1>2. CASE UNCHANGED <<outOfOrder, late, seen, lastSeq>>
  BY <1>2 DEF OrderInv
<1> QED BY <1>1, <1>2
        DEF Next, Sending, SendNow, StartSpin, SpinEnds, Stop, SendingEnds, ReceivingEnds, ReadResult,
            Tick, vars, receiving

LEMMA ResultStep == IInv /\ [Next]_vars => ResultInv'
<1> SUFFICES ASSUME TypeOK, ResultInv, [Next]_vars PROVE ResultInv'
  BY DEF IInv
<1>1. CASE ReadResult
  <2>1. UNCHANGED <<sender, sent, receiver, recv>> /\ sender = "done"
    BY <1>1 DEF ReadResult, sending, receiving
  <2>2. CASE receiver = "done" /\ result' = Merge(TRUE)
    BY <2>1, <2>2, MergeType DEF ResultInv
  <2>3. CASE result' = Merge(FALSE)
    BY <2>1, <2>3, MergeType DEF ResultInv
  <2> QED BY <1>1, <2>2, <2>3 DEF ReadResult
<1>2. CASE Sending \/ SendingEnds
  <2>1. sender # "done" /\ UNCHANGED result
    BY <1>2 DEF Sending, SendNow, StartSpin, SpinEnds, Stop, SendingEnds
  <2>2. ~result.done /\ ~result.read
    BY <2>1 DEF ResultInv, TypeOK
  <2> QED BY <2>1, <2>2 DEF ResultInv
<1>3. ASSUME NEW seq \in 0..MaxSent, Receive(seq) PROVE ResultInv'
  BY <1>3 DEF ResultInv, TypeOK, Receive, sending
<1>4. CASE ReceivingEnds
  BY <1>4 DEF ResultInv, TypeOK, ReceivingEnds, sending
<1>5. CASE Tick \/ UNCHANGED vars
  BY <1>5 DEF ResultInv, Tick, vars, sending, receiving
<1> QED BY <1>1, <1>2, <1>3, <1>4, <1>5 DEF Next

\* The inductive invariant.
THEOREM Invariance == Spec => []IInv
<1>1. Init => IInv
  BY InitInv
<1>2. IInv /\ [Next]_vars => IInv'
  BY TypeStep, BudgetStep, CountStep, OrderStep, ResultStep DEF IInv
<1> QED BY <1>1, <1>2, PTL DEF Spec

\* Type correctness (udpSendLoop, handleUDPServer).
THEOREM TypeCorrect == Spec => []TypeOK
<1>1. IInv => TypeOK
  BY DEF IInv
<1> QED BY <1>1, Invariance, PTL

\* The loss of a result is what did not arrive, less the duplicates
\* (RunUDPClient's PacketsLost).
THEOREM LossCounted == Spec => []LossIsMissing
<1>1. IInv => LossIsMissing
  <2> SUFFICES ASSUME IInv, result.read
               PROVE  result.lost = Cardinality((0..sent - 1) \ seen) - dups
    BY DEF LossIsMissing
  <2>1. TypeOK /\ CountInv /\ result.lost = sent - recv
    BY DEF IInv, ResultInv
  <2>2. /\ IsFiniteSet(seen) /\ IsFiniteSet(0..sent - 1)
        /\ Cardinality(seen) \in Nat /\ Cardinality(0..sent - 1) = sent
    BY <2>1, SeenFinite
  <2>3. (0..sent - 1) \cap seen = seen
    BY <2>1 DEF TypeOK
  <2>4. Cardinality((0..sent - 1) \ seen) = Cardinality(0..sent - 1) - Cardinality(seen)
    BY <2>2, <2>3, FS_Difference
  <2>5. sent \in Nat /\ dups \in Nat
    BY <2>1 DEF TypeOK
  <2> QED BY <2>1, <2>2, <2>4, <2>5 DEF CountInv
<1> QED BY <1>1, Invariance, PTL

\* The counter of handleUDPServer misses late datagrams, but never the first,
\* and counts no other.
THEOREM ReorderingCounted == Spec => []OutOfOrderMeansLate
<1>1. IInv => OutOfOrderMeansLate
  BY DEF IInv, OrderInv, OutOfOrderMeansLate
<1> QED BY <1>1, Invariance, PTL

\* The token bucket of udpSendLoop bounds the rate, over the whole test.
THEOREM RateBounded == Spec => []RateIsLimited
<1>1. IInv => RateIsLimited
  <2> SUFFICES ASSUME IInv, limited
               PROVE  sent * PacketSize <= (now + 1) * PerInterval
    BY DEF RateIsLimited, PerInterval
  <2>1. /\ sent \in Nat /\ started \in Nat /\ used \in Nat /\ now \in Nat /\ started <= now
        /\ PerInterval \in Nat /\ used <= PerInterval
        /\ sent * PacketSize <= started * PerInterval + used
    BY DEF IInv, TypeOK, BudgetInv, PerInterval
  <2>2. /\ started * PerInterval <= now * PerInterval
        /\ (now + 1) * PerInterval = now * PerInterval + PerInterval
    BY <2>1, ProductMonotone, OneMore
  <2>3. /\ sent * PacketSize \in Nat /\ started * PerInterval \in Nat /\ now * PerInterval \in Nat
    BY <2>1, ProductType
  <2> QED BY <2>1, <2>2, <2>3
<1> QED BY <1>1, Invariance, PTL

\* A lost result is graded F (RunUDPClient, GradeLoss).
THEOREM UnreadGradedWorst == Spec => []UnreadIsWorst
<1>1. IInv => UnreadIsWorst
  <2> SUFFICES ASSUME IInv, result.done, ~result.read, sent > 0
               PROVE  GradeLoss(LossPerMille(result)) = 5
    BY DEF UnreadIsWorst
  <2>1. result.lost = sent /\ sent \in Nat
    BY DEF IInv, ResultInv, TypeOK
  <2>2. (sent * 1000) \div sent = 1000
    BY <2>1
  <2>3. LossPerMille(result) = 1000
    BY <2>1, <2>2 DEF LossPerMille
  <2>4. {i \in 1..4 : 1000 < <<1, 5, 10, 25>>[i]} = {}
    OBVIOUS
  <2> QED BY <2>3, <2>4 DEF GradeLoss, Below, Switch
<1> QED BY <1>1, Invariance, PTL
====
