---- MODULE MTUDiscovery ----
(***************************************************************************)
(* internal/tests/mtu.go: the client searches the largest payload its own  *)
(* interface accepts, sends probes from there down, and asks the server    *)
(* for the largest one that arrived.                                       *)
(*                                                                         *)
(* A send is accepted exactly when the payload fits Local, and an accepted *)
(* datagram arrives, if the network does not lose it, exactly when it fits *)
(* Path.  The server keeps nothing but a maximum, so a datagram overtaken  *)
(* by the terminator counts as lost, and one that arrives may arrive when  *)
(* it is sent.                                                             *)
(***************************************************************************)
EXTENDS Integers

CONSTANTS MinPayload,  \* 548
          MaxPayload,  \* 8972
          Divisions,   \* 20: the probes divide the range into this many steps
          Overhead,    \* 28: IP and UDP headers
          Limits       \* bound: the payload limits an interface or a path may have

ASSUME PayloadAssumption ==
  /\ MinPayload \in Nat \ {0} /\ MaxPayload \in Nat /\ MinPayload <= MaxPayload
  /\ Divisions \in Nat \ {0} /\ Overhead \in Nat \ {0}
ASSUME LimitsAssumption == Limits \subseteq Nat \ {0}

VARIABLES
  Local, Path,  \* the limits of the interface and of the path: they never change
  lossy,        \* the network may lose a datagram that fits: it never changes
  pc,           \* the client: "search", "probe", "last", "end1", "end2", "wait", "done"
  low, high,    \* the bounds of the binary search
  localMax,     \* the largest payload known to be accepted
  size,         \* the next probe
  whole,        \* the probes were not interrupted
  maxReceived,  \* the server's maximum
  reply,        \* the MTU the server answered: NoReply while its loop runs
  mtu,          \* what RunMTUClient returns
  source        \* where it comes from: "none", "server" or "local"

vars == <<Local, Path, lossy, pc, low, high, localMax, size, whole, maxReceived, reply, mtu, source>>

NoReply == -1

TypeOK ==
  /\ Local \in Limits /\ Path \in Limits /\ lossy \in BOOLEAN
  /\ pc \in {"search", "probe", "last", "end1", "end2", "wait", "done"}
  /\ low \in Int /\ high \in Int /\ localMax \in Int /\ size \in Int
  /\ whole \in BOOLEAN
  /\ maxReceived \in Nat /\ reply \in Nat \cup {NoReply} /\ mtu \in Int
  /\ source \in {"none", "server", "local"}

Init ==
  /\ Local \in Limits /\ Path \in Limits /\ lossy \in BOOLEAN
  /\ pc = "search" /\ low = MinPayload /\ high = MaxPayload /\ localMax = MinPayload
  /\ size = 0 /\ whole = TRUE
  /\ maxReceived = 0 /\ reply = NoReply /\ mtu = 0 /\ source = "none"

client == <<pc, low, high, localMax, size, whole, mtu, source>>
limits == <<Local, Path, lossy>>

KeepLast(n) == n                  \* mutant: the last arrival, not the largest
Keep(n) == IF n > maxReceived THEN n ELSE maxReceived

\* A write: refused by the interface, lost, too large for the path, or received
\* by the server, if its loop still runs.
Write(n) ==
  \/ /\ n <= Local /\ n <= Path /\ reply = NoReply
     /\ maxReceived' = Keep(n)
  \/ /\ n > Local \/ n > Path \/ reply # NoReply \/ lossy
     /\ UNCHANGED maxReceived

(***************************************************************************)
(* sendMTUProbes: the binary search, the probes, the terminators.          *)
(***************************************************************************)
StrictlyOpen == low < high        \* mutant: the search stops one size early
Open == low <= high

Search ==
  /\ pc = "search" /\ Open
  /\ LET mid == (low + high) \div 2 IN
       /\ Write(mid)
       /\ IF mid <= Local
            THEN localMax' = mid /\ low' = mid + 1 /\ UNCHANGED high
            ELSE high' = mid - 1 /\ UNCHANGED <<low, localMax>>
  /\ UNCHANGED <<limits, pc, size, whole, reply, mtu, source>>

Searched ==
  /\ pc = "search" /\ ~Open
  /\ pc' = "probe" /\ size' = localMax
  /\ UNCHANGED <<limits, low, high, localMax, whole, maxReceived, reply, mtu, source>>

ZeroStep == (localMax - MinPayload) \div Divisions     \* mutant: no lower bound on the step
ProbeStep == LET s == (localMax - MinPayload) \div Divisions IN IF s > 1 THEN s ELSE 1

Probe ==
  /\ pc = "probe" /\ size >= MinPayload
  /\ Write(size)
  /\ size' = size - ProbeStep
  /\ UNCHANGED <<limits, pc, low, high, localMax, whole, reply, mtu, source>>

Interrupt ==                      \* ctx.Done: no more probes, and no terminator
  /\ pc = "probe" /\ size >= MinPayload
  /\ pc' = "wait" /\ whole' = FALSE
  /\ UNCHANGED <<limits, low, high, localMax, size, maxReceived, reply, mtu, source>>

AfterProbes == "last"

Probed ==
  /\ pc = "probe" /\ size < MinPayload
  /\ pc' = AfterProbes
  /\ UNCHANGED <<limits, low, high, localMax, size, whole, maxReceived, reply, mtu, source>>

ProbeLast ==
  /\ pc = "last"
  /\ Write(MinPayload)
  /\ pc' = "end1"
  /\ UNCHANGED <<limits, low, high, localMax, size, whole, reply, mtu, source>>

Answer == maxReceived + Overhead

Terminate ==                      \* one byte, 0xFF, sent twice
  /\ pc \in {"end1", "end2"}
  /\ pc' = IF pc = "end1" THEN "end2" ELSE "wait"
  /\ \/ reply' = IF reply = NoReply THEN Answer ELSE reply
     \/ lossy /\ UNCHANGED reply
  /\ UNCHANGED <<limits, low, high, localMax, size, whole, maxReceived, mtu, source>>

(***************************************************************************)
(* handleMTUServer's other exits, and readMTUResult.                       *)
(***************************************************************************)
\* Ten seconds without a datagram.  A client that was interrupted does not wait
\* for that: its context stays done, and its select takes at most a reply that
\* is there already.
ServerTimeout ==
  /\ pc = "wait" /\ whole /\ reply = NoReply
  /\ reply' = Answer
  /\ UNCHANGED <<limits, client, maxReceived>>

ServerCancelled ==                \* the server shuts down: no headers are added
  /\ reply = NoReply
  /\ reply' = maxReceived
  /\ UNCHANGED <<limits, client, maxReceived>>

Return(n, from) ==
  /\ mtu' = n /\ source' = from /\ pc' = "done"
  /\ UNCHANGED <<limits, low, high, localMax, size, whole, maxReceived, reply>>

ReplyTwice == reply + Overhead    \* mutant: the headers are added a second time
Reported == reply

UseReply ==
  /\ pc = "wait" /\ reply # NoReply /\ reply > 0
  /\ Return(Reported, "server")

FallBack ==                       \* 15 s, a failed read, ctx.Done, or a reply of 0
  /\ pc = "wait"
  /\ Return(localMax + Overhead, "local")

Client == Search \/ Searched \/ Probe \/ Probed \/ ProbeLast \/ Terminate \/ UseReply \/ FallBack

Next == Client \/ Interrupt \/ ServerTimeout \/ ServerCancelled

Spec == Init /\ [][Next]_vars

\* The goroutine of the test runs, and its wait is bounded by a timer.  Nobody
\* has to interrupt it.
FairSpec == Spec /\ WF_vars(Client)

(***************************************************************************)
(* Properties.                                                             *)
(***************************************************************************)
Smaller(a, b) == IF a < b THEN a ELSE b
Larger(a, b) == IF a > b THEN a ELSE b

\* The binary search of sendMTUProbes finds the largest payload of its range
\* that the interface accepts.
SearchExact ==
  pc # "search" => localMax = Larger(MinPayload, Smaller(MaxPayload, Local))

\* An MTU the server reported was carried end to end: it is never above what
\* the interface and the path allow, whatever is lost.
NeverOverestimates ==
  source = "server" => mtu <= Smaller(Local, Path) + Overhead

\* Without loss the probes miss the true limit by less than one step: the
\* first probe below it arrives, and the last probe covers the smallest size.
WithinOneStep ==
  (source = "server" /\ whole /\ ~lossy /\ reply = maxReceived + Overhead
     /\ Smaller(Local, Path) >= MinPayload)
  => mtu + ProbeStep > Smaller(localMax, Path) + Overhead

\* The test ends: the probes reach the smallest size, and a lost terminator
\* is replaced by a timeout.
Terminates == <>(pc = "done")

\* RunMTUClient works by "letting the server report the largest one that
\* arrived" (mtu.go): what the server reports is the size of a datagram, not
\* the headers of none.
ReportsAnArrival == source = "server" => maxReceived > 0
====
