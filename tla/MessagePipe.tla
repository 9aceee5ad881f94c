---------------------------- MODULE MessagePipe ----------------------------
(***************************************************************************)
(* What one direction of an rpc promises its two ends: the messages one    *)
(* end submits reach the other whole, in order and once each, and the      *)
(* receiver is told of a clean end only after all of them.  The framing    *)
(* of codec.js, detailed in module Framing, implements it.                 *)
(***************************************************************************)
EXTENDS Naturals, Sequences

CONSTANT Message       \* the messages, in the order they are written

VARIABLES submitted,   \* how many messages the sender has handed over
          delivered,   \* the messages the receiver has been given
          outcome      \* "open", then "ended" or "broken"

vars == <<submitted, delivered, outcome>>

Init ==
  /\ submitted = 0
  /\ delivered = <<>>
  /\ outcome = "open"

(* The sender hands over its next message. *)
Submit ==
  /\ outcome # "ended"
  /\ submitted < Len(Message)
  /\ submitted' = submitted + 1
  /\ UNCHANGED <<delivered, outcome>>

(* The receiver is given the next message it has not seen. *)
Deliver ==
  /\ outcome = "open"
  /\ Len(delivered) < submitted
  /\ delivered' = Append(delivered, Message[Len(delivered) + 1])
  /\ UNCHANGED <<submitted, outcome>>

(* The receiver is told that nothing follows: it has everything. *)
EndCleanly ==
  /\ outcome = "open"
  /\ Len(delivered) = submitted
  /\ outcome' = "ended"
  /\ UNCHANGED <<submitted, delivered>>

(* The receiver is told, or left to notice, that something was lost. *)
Break ==
  /\ outcome = "open"
  /\ outcome' = "broken"
  /\ UNCHANGED <<submitted, delivered>>

Next == Submit \/ Deliver \/ EndCleanly \/ Break

Spec == Init /\ [][Next]_vars
=============================================================================
