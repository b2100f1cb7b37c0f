---- MODULE MCReport ----
(***************************************************************************)
(* Three clients, one of them with two tests; measurements on both sides   *)
(* of the bounds that matter, of every kind of test.                       *)
(***************************************************************************)
EXTENDS Report, TLC

CONSTANTS c1, c2, c3

ThreeClients == {c1, c2, c3}
Tests == c1 :> 2 @@ c2 :> 1 @@ c3 :> 1

EveryKind ==
  {[test |-> "latency", avg |-> 10, p95 |-> 60],
   [test |-> "udp", loss |-> -5, kbps |-> 120000],   \* duplicates
   [test |-> "udp", loss |-> 7, kbps |-> 60000],
   [test |-> "tcp", kbps |-> 150900],
   [test |-> "tcp", kbps |-> 900],
   [test |-> "bidir", upload |-> 130400, download |-> 9000],
   [test |-> "bufferbloat", rpm |-> 150, kbps |-> 20500],
   [test |-> "mtu", mtu |-> 1300],
   [test |-> "jitter", avg |-> 0],                   \* too few arrivals
   [test |-> "dns", avg |-> 40], [test |-> "connect", avg |-> 120]}

\* for the others: one figure that is better, one that is worse, two the same
Others ==
  {[test |-> "latency", avg |-> 10, p95 |-> 10],
   [test |-> "udp", loss |-> 7, kbps |-> 20000],
   [test |-> "jitter", avg |-> 0],
   [test |-> "bufferbloat", rpm |-> 999999, kbps |-> 20500]}   \* no sample under load

Figures == c1 :> EveryKind @@ c2 :> Others @@ c3 :> {[test |-> "jitter", avg |-> 0]}
====
