--------------------------- MODULE MCChildCalls ---------------------------
(* An instance of ChildCalls for TLC: a call, a call made for it, and a call *)
(* made for that one, which sets no timeout of its own.                      *)
EXTENDS ChildCalls, TLC

CONSTANTS a, b, d

MCParent == a :> None @@ b :> a @@ d :> b

MCTimeouts == a :> {2} @@ b :> {1} @@ d :> {}
=============================================================================
