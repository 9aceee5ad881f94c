----------------------------- MODULE MCFraming -----------------------------
(* Instances of Framing for TLC: three messages, the middle one empty, so that *)
(* chunks end inside a header, at its last byte, inside a payload and at its   *)
(* end, and a header may be all there is of a message.                         *)
EXTENDS Framing

MCSize == <<2, 0, 1>>
MCStart == <<0, 7, 12, 18>>
=============================================================================
