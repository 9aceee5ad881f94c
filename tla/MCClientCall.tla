---------------------------- MODULE MCClientCall ----------------------------
(* Instances of ClientCall for TLC; see the README for the bounds. *)
EXTENDS ClientCall
=============================================================================
