---- MODULE MCFraming ----
(***************************************************************************)
(* Two frames; a payload as long as a header lets a reader that is out of   *)
(* step fall back into step, a longer one does not.                        *)
(***************************************************************************)
EXTENDS Framing

TwoFrames == <<4, 5>>
====
