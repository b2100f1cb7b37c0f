---- MODULE MCControl ----
(***************************************************************************)
(* Scenarios for model checking Control.                                   *)
(***************************************************************************)
EXTENDS Control

Served == {"latency", "mtu", "tcp", "udp", "jitter", "bufferbloat"}

Asked(tests) == [tests |-> tests, ping |-> FALSE, offers |-> Served, dialFails |-> {}, faults |-> {}]

Calm   == Asked(<<>>)
Older  == [Asked(<<"bidir", "udp", "latency", "dns", "jitter">>) EXCEPT !.offers = {"latency", "jitter"}]
NoDial == [Asked(<<"udp", "dns", "latency", "jitter", "udp", "bufferbloat", "tcp">>)
             EXCEPT !.dialFails = {"udp", "jitter"}]
Stuck  == [Asked(<<"mtu", "latency", "tcp", "bidir", "dns">>)
             EXCEPT !.faults = {"timeout", "stream", "stall"}]
Pinged == [Asked(<<>>) EXCEPT !.ping = TRUE, !.faults = {"abort", "shutdown", "refused"}]

Killed == [Asked(<<"mtu", "tcp", "bufferbloat", "jitter">>) EXCEPT !.faults = {"crash", "timeout"}]

\* everything the two programs handle, in any order
Troubled == [Asked(<<"bufferbloat", "tcp", "latency">>)
               EXCEPT !.faults = {"timeout", "abort", "shutdown", "refused", "listen"}]

All == {Calm, Older, NoDial, Stuck, Pinged, Killed, Troubled}

\* an IPv6 literal: the address of the MTU probes cannot be resolved
LiteralIPv6 == {[Asked(<<"mtu", "latency", "tcp">>) EXCEPT !.dialFails = {"mtu"}]}

\* a data stream of the TCP test that cannot be opened
LostStream == {[Asked(<<"tcp">>) EXCEPT !.faults = {"stream"}]}

\* the bufferbloat handler has passed its deadline when the goodbye arrives
Overrun == {[Asked(<<"bufferbloat", "udp", "jitter">>) EXCEPT !.faults = {"overrun"}]}
====
