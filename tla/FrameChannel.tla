---- MODULE FrameChannel ----
(***************************************************************************)
(* What the control protocol expects of its framing: frames come out in    *)
(* the order they went in, each at most once, and, as long as no read was  *)
(* torn (given up in the middle of a frame, or shared with a second        *)
(* reader), none is missing.                                               *)
(***************************************************************************)
EXTENDS Naturals

VARIABLES sent,   \* frames written whole
          got,    \* the last frame returned to the reader
          torn    \* a read was cut short or shared

vars == <<sent, got, torn>>

Init == sent = 0 /\ got = 0 /\ torn = FALSE

Send    == sent' = sent + 1 /\ UNCHANGED <<got, torn>>
Deliver == /\ got < sent /\ got' \in IF torn THEN got + 1..sent ELSE {got + 1}
           /\ UNCHANGED <<sent, torn>>
Tear    == torn' = TRUE /\ UNCHANGED <<sent, got>>

Next == Send \/ Deliver \/ Tear
Spec == Init /\ [][Next]_vars
====
