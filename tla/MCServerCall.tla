---------------------------- MODULE MCServerCall ----------------------------
(* One rpc at the server: a handler that writes up to two messages for a *)
(* client that sends up to two.                                          *)
EXTENDS ServerCall
=============================================================================
