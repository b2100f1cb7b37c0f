---- MODULE UdpTest ----
(***************************************************************************)
(* The data phase of the UDP test (internal/tests/udp.go): a sender that   *)
(* paces its datagrams, or does not, a network that loses, delays and      *)
(* duplicates them, the counters of the receiver, and the result that the  *)
(* client merges from both.                                                *)
(*                                                                         *)
(* Time is counted in the sender's intervals of 10 ms.                     *)
(***************************************************************************)
EXTENDS Assessment, FiniteSets

CONSTANTS Duration,   \* intervals until the sender's deadline
          Grace,      \* what the receiver waits after that (2 s)
          PacketSize, \* bytes of a datagram
          Budget,     \* bytesPerInterval
          MaxSent,    \* bound: datagrams
          MaxDups     \* bound: duplicates delivered

ASSUME UdpAssumption ==
  /\ Duration \in Nat /\ Grace \in Nat /\ PacketSize \in Nat \ {0} /\ Budget \in Nat \ {0}
  /\ MaxSent \in Nat /\ MaxDups \in Nat

VARIABLES
  limited,     \* bandwidth > 0, see EstimateUDPBandwidth
  now,         \* the clock
  sender,      \* udpSendLoop: "loop", "spin", "done"
  sent,        \* datagrams sent; their sequence numbers are 0..sent - 1
  started,     \* intervalStart
  used,        \* bytesSentInInterval
  receiver,    \* handleUDPServer: "reading", "done"
  recv,        \* packetsRecv
  lastSeq,     \* lastSeq
  outOfOrder,  \* outOfOrder
  seen,        \* sequence numbers received (not in the code)
  dups,        \* duplicates received (not in the code)
  late,        \* datagrams received after a larger number (not in the code)
  result       \* the client's metrics: [read, lost, outOfOrder]

sending   == <<sender, sent, started, used>>
receiving == <<receiver, recv, lastSeq, outOfOrder, seen, dups, late>>
vars == <<limited, now, sending, receiving, result>>

NoResult == [read |-> FALSE, lost |-> 0, outOfOrder |-> 0, done |-> FALSE]

TypeOK ==
  /\ limited \in BOOLEAN /\ now \in Nat
  /\ sender \in {"loop", "spin", "done"} /\ sent \in 0..MaxSent
  /\ started \in 0..now /\ used \in Nat
  /\ receiver \in {"reading", "done"} /\ recv \in Nat
  /\ seen \subseteq 0..sent - 1 /\ lastSeq \in seen \cup {0}
  /\ outOfOrder \in 0..recv /\ late \in 0..recv /\ dups \in 0..MaxDups
  /\ result \in [read : BOOLEAN, lost : Int, outOfOrder : Nat, done : BOOLEAN]

Init ==
  /\ limited \in BOOLEAN /\ now = 0 /\ sender = "loop" /\ sent = 0 /\ started = 0 /\ used = 0
  /\ receiver = "reading" /\ recv = 0 /\ lastSeq = 0 /\ outOfOrder = 0
  /\ seen = {} /\ dups = 0 /\ late = 0 /\ result = NoResult

(***************************************************************************)
(* udpSendLoop.                                                            *)
(***************************************************************************)
Spent == limited /\ used >= Budget

Send(bytes) == sent < MaxSent /\ sent' = sent + 1 /\ used' = bytes + PacketSize

\* The loop, once round: the deadline is looked at, then the budget, and a
\* datagram that waited for the next interval is sent without another look.
SendNow ==
  /\ sender = "loop" /\ now < Duration /\ ~Spent
  /\ Send(used)
  /\ UNCHANGED <<limited, now, sender, started, receiving, result>>

StartSpin ==
  /\ sender = "loop" /\ now < Duration /\ Spent
  /\ sender' = "spin"
  /\ UNCHANGED <<limited, now, sent, started, used, receiving, result>>

NoSpin == TRUE                   \* mutant: the budget is renewed at once
IntervalOver == now >= started + 1

SpinEnds ==
  /\ sender = "spin" /\ IntervalOver
  /\ Send(0)
  /\ sender' = "loop" /\ started' = now
  /\ UNCHANGED <<limited, now, receiving, result>>

SendingEnds ==                   \* the deadline; a write error or the context at any time
  /\ sender # "done" /\ sender' = "done"
  /\ UNCHANGED <<limited, now, sent, started, used, receiving, result>>

\* The deadline is looked at in the loop; the bound on the datagrams ends it too.
Stop == ((sender = "loop" /\ now >= Duration) \/ sent = MaxSent) /\ SendingEnds

(***************************************************************************)
(* handleUDPServer.                                                        *)
(***************************************************************************)
IsLate(seq) == \E larger \in seen : seq < larger

OutOfOrderGap(seq) == seq # lastSeq + 1  \* mutant: a gap counts too
IsOutOfOrder(seq) == seq < lastSeq

NewLastSeq(seq) == seq

CountNew(seq) == IF seq \in seen THEN recv ELSE recv + 1  \* mutant: a duplicate is not counted
Counted(seq) == recv + 1

Receive(seq) ==
  /\ receiver = "reading" /\ seq \in 0..sent - 1
  /\ recv' = Counted(seq) /\ seen' = seen \cup {seq}
  /\ \/ seq \notin seen /\ dups' = dups
     \/ seq \in seen /\ dups < MaxDups /\ dups' = dups + 1
  /\ outOfOrder' = IF IsOutOfOrder(seq) THEN outOfOrder + 1 ELSE outOfOrder
  /\ late' = IF IsLate(seq) THEN late + 1 ELSE late
  /\ lastSeq' = NewLastSeq(seq)
  /\ UNCHANGED <<limited, now, sending, receiver, result>>

NoReadDeadline == FALSE          \* mutant
ReadDeadline == now >= Duration + Grace

ReceivingEnds ==
  /\ receiver = "reading" /\ ReadDeadline /\ receiver' = "done"
  /\ UNCHANGED <<limited, now, sending, recv, lastSeq, outOfOrder, seen, dups, late, result>>

(***************************************************************************)
(* The end of RunUDPClient, with a result that could be read or not.       *)
(***************************************************************************)
Merge(read) ==
  LET server == IF read THEN [recv |-> recv, ooo |-> outOfOrder] ELSE [recv |-> 0, ooo |-> 0]
  IN  [read |-> read, lost |-> sent - server.recv, outOfOrder |-> server.ooo, done |-> TRUE]

ReadResult ==
  /\ sender = "done" /\ ~result.done
  /\ \/ receiver = "done" /\ result' = Merge(TRUE)
     \/ result' = Merge(FALSE)
  /\ UNCHANGED <<limited, now, sending, receiving>>

LossPerMille(r) == IF sent > 0 THEN (r.lost * 1000) \div sent ELSE 0

Tick ==
  /\ now < Duration + Grace /\ now' = now + 1
  /\ UNCHANGED <<limited, sending, receiving, result>>

Sending == SendNow \/ StartSpin \/ SpinEnds \/ Stop

Next == Sending \/ SendingEnds \/ (\E seq \in 0..MaxSent : Receive(seq)) \/ ReceivingEnds \/ ReadResult \/ Tick

\* Both goroutines run and the clock goes on; no datagram has to arrive.
Spec == /\ Init /\ [][Next]_vars
        /\ WF_vars(Sending) /\ WF_vars(ReceivingEnds) /\ WF_vars(ReadResult /\ result'.read) /\ WF_vars(Tick)

(***************************************************************************)
(* Properties.                                                             *)
(***************************************************************************)
\* The datagrams counted as lost are those that did not arrive before the
\* receiver stopped, less the duplicates, which are counted as received: a
\* duplicate hides a loss, and the loss may become negative.
LossIsMissing == result.read => result.lost = Cardinality((0..sent - 1) \ seen) - dups

\* A late datagram lowers lastSeq, so that those after it are compared with it
\* and not with the largest: the counter misses some late datagrams, but it
\* never counts one that is not, and is zero only if none was late.
OutOfOrderMeansLate == outOfOrder <= late /\ (outOfOrder = 0 => late = 0)

\* A limited sender stays within its budget and one datagram in each interval,
\* whatever time it loses to the scheduler.
RateIsLimited == limited => sent * PacketSize <= (now + 1) * (Budget + PacketSize - 1)

\* A result that cannot be read is graded as the worst there is, and not as a
\* test without loss.
UnreadIsWorst ==
  result.done /\ ~result.read /\ sent > 0 => GradeLoss(LossPerMille(result)) = 5

\* Both sides stop, and the client gets its result.
Terminates == <>(sender = "done" /\ receiver = "done" /\ result.done)
====
