----------------------------- MODULE ChildCalls -----------------------------
(***************************************************************************)
(* Calls made while serving a call: how their timeouts are bounded and how  *)
(* they are cancelled (lib/client.js and lib/server.js, addChild, abort,    *)
(* _with_parent_timeout, _checkTimeout).                                    *)
(*                                                                          *)
(* A call is an EncodedOutgoingRequest at its client and, once it has       *)
(* arrived, a DecodedIncomingRequest at its server, whose handler may make  *)
(* further calls. Deadlines are kept as the milliseconds left, all of which *)
(* Tick counts down: time is not bounded. How an interval is rounded is in  *)
(* module Headers; what a call does besides, in ClientCall and ServerCall.  *)
(*                                                                          *)
(* External: HTTP/2 streams deliver a request before its reset.             *)
(***************************************************************************)
EXTENDS Integers, Sequences

CONSTANTS
  Calls,
  Parent,     \* of each call: the call its handler is called for, or None
  Timeouts,   \* bound: of each call, the milliseconds it may ask for
  Unruly,     \* bound: calls that their makers may cancel, and whose decoders may fail
  None

ASSUME ChildAssumption ==
  /\ Parent \in [Calls -> Calls \cup {None}]
  /\ Timeouts \in [Calls -> SUBSET Nat]
  /\ None \notin Calls \cup Nat

(* rpc status codes *)
CANCELLED == 1
DEADLINE_EXCEEDED == 4
INTERNAL == 13
Codes == {CANCELLED, DEADLINE_EXCEEDED, INTERNAL}

VARIABLES
  \* EncodedOutgoingRequest
  phase,       \* "none", "made", "started"
  stream,      \* has it a stream?
  waiting,     \* codes of the aborts that wait for 'socket', in the order they were asked
  cancels,     \* codes of its 'cancel' events
  timer,       \* milliseconds until its timer is due; None if not set, or called
  sent,        \* grpc-timeout in its headers, None without
  reset,       \* was its stream reset?
  \* DecodedIncomingRequest
  arrived,     \* has the server got it, and called the handler?
  checked,     \* has it looked for a timeout in the headers?
  deadline,    \* milliseconds left of its deadline, None without
  alarm,       \* is its timer set?
  broken,      \* has the decoder failed?
  closed,      \* is the stream CLOSED?
  added,       \* requests its addChild has listen to 'cancel' and 'error'
  \* history
  early,       \* was the parent's timeout not known yet when the timer was set?
  late,        \* was the parent past its deadline, or broken, when the call was made?
  cause        \* the code of the first abort asked of the call

client == <<phase, stream, waiting, cancels, timer, sent, reset>>
server == <<arrived, checked, deadline, alarm, broken, closed, added>>
vars == <<client, server, early, late, cause>>

Init ==
  /\ phase = [c \in Calls |-> "none"]
  /\ stream = [c \in Calls |-> FALSE]
  /\ waiting = [c \in Calls |-> <<>>]
  /\ cancels = [c \in Calls |-> <<>>]
  /\ timer = [c \in Calls |-> None]
  /\ sent = [c \in Calls |-> None]
  /\ reset = [c \in Calls |-> FALSE]
  /\ arrived = [c \in Calls |-> FALSE]
  /\ checked = [c \in Calls |-> FALSE]
  /\ deadline = [c \in Calls |-> None]
  /\ alarm = [c \in Calls |-> FALSE]
  /\ broken = [c \in Calls |-> FALSE]
  /\ closed = [c \in Calls |-> FALSE]
  /\ added = [c \in Calls |-> {}]
  /\ early = [c \in Calls |-> FALSE]
  /\ late = [c \in Calls |-> FALSE]
  /\ cause = [c \in Calls |-> None]

-----------------------------------------------------------------------------
(* EncodedOutgoingRequest *)

(* this.stream = null *)
KeepsStream(c, cs) == stream[c] /\ c \notin cs

(* abort(code) of the calls cs: those that have a stream emit 'cancel' and   *)
(* reset the stream. The others wait for 'socket', which is for nothing once *)
(* it was emitted.                                                           *)
Abort(cs, code) ==
  /\ cancels' = [c \in Calls |-> IF c \in cs /\ stream[c] THEN Append(cancels[c], code) ELSE cancels[c]]
  /\ reset' = [c \in Calls |-> reset[c] \/ (c \in cs /\ stream[c])]
  /\ stream' = [c \in Calls |-> KeepsStream(c, cs)]
  /\ waiting' = [c \in Calls |->
       IF c \in cs /\ phase[c] = "made" THEN Append(waiting[c], code) ELSE waiting[c]]
  /\ cause' = [c \in Calls |-> IF c \in cs /\ cause[c] = None THEN code ELSE cause[c]]

(* Faulty: the last abort to be asked comes first. *)
LastOf(codes) == codes[Len(codes)]

(* Of the aborts that wait for 'socket', only the first finds a stream. *)
FirstOf(codes) == codes[1]

Has(p) == p # None

(* addChild, called by the constructor, listens to a parent that is not      *)
(* closed, and cancels the request otherwise.                                *)
Adds(c) == Has(Parent[c]) /\ ~closed[Parent[c]]

(* Faulty: a request made for a closed parent is not cancelled. *)
NotTooLate(c) == FALSE

TooLate(c) == Has(Parent[c]) /\ closed[Parent[c]]

(* A handler, or for a call without parent anybody, makes a request. *)
Make(c) ==
  /\ phase[c] = "none"
  /\ Has(Parent[c]) => arrived[Parent[c]]
  /\ phase' = [phase EXCEPT ![c] = "made"]
  /\ added' = [p \in Calls |-> IF p = Parent[c] /\ Adds(c) THEN added[p] \cup {c} ELSE added[p]]
  /\ waiting' = [waiting EXCEPT ![c] = IF TooLate(c) THEN <<CANCELLED>> ELSE <<>>]
  /\ cause' = [cause EXCEPT ![c] = IF TooLate(c) THEN CANCELLED ELSE None]
  /\ late' = [late EXCEPT ![c] =
       Has(Parent[c]) /\ (broken[Parent[c]] \/ (deadline[Parent[c]] # None /\ ~alarm[Parent[c]]))]
  /\ UNCHANGED <<stream, cancels, timer, sent, reset, arrived, checked, deadline, alarm, broken,
                 closed, early>>

(* Faulty: what the call asks for is taken as it is. *)
OwnTimeout(c, ms) == ms

(* _with_parent_timeout: what is left to the parent, if that is less. *)
WithParentTimeout(c, ms) ==
  LET p == Parent[c] IN
  IF Has(p) /\ deadline[p] # None /\ deadline[p] < ms THEN deadline[p] ELSE ms

(* _start, with a stream: the timer is set and the headers are sent; then    *)
(* 'socket' lets the aborts that wait go ahead. Over a kept connection a     *)
(* handler's call starts at once, perhaps before its parent's headers were   *)
(* searched for a timeout.                                                   *)
Start(c, ms) ==
  LET limit == IF ms = None THEN None ELSE WithParentTimeout(c, ms) IN
  /\ phase[c] = "made"
  /\ phase' = [phase EXCEPT ![c] = "started"]
  /\ timer' = [timer EXCEPT ![c] = limit]
  /\ sent' = [sent EXCEPT ![c] = limit]
  /\ stream' = [stream EXCEPT ![c] = waiting[c] = <<>>]
  /\ cancels' = [cancels EXCEPT ![c] = IF waiting[c] = <<>> THEN <<>> ELSE <<FirstOf(waiting[c])>>]
  /\ reset' = [reset EXCEPT ![c] = waiting[c] # <<>>]
  /\ waiting' = [waiting EXCEPT ![c] = <<>>]
  /\ early' = [early EXCEPT ![c] = limit # None /\ Has(Parent[c]) /\ ~checked[Parent[c]]]
  /\ UNCHANGED <<server, late, cause>>

(* The timer of a request, which is never cleared. It is called in a turn of *)
(* its own, as is whatever ends a parent.                                    *)
TimerCalled(c) ==
  /\ timer[c] = 0
  /\ Has(Parent[c]) => checked[Parent[c]]
  /\ timer' = [timer EXCEPT ![c] = None]
  /\ Abort({c}, DEADLINE_EXCEEDED)
  /\ UNCHANGED <<phase, sent, server, early, late>>

(* Who made the request cancels it, once: cancelling again changes nothing. *)
Cancel(c) ==
  /\ c \in Unruly /\ phase[c] # "none" /\ cause[c] = None
  /\ Abort({c}, CANCELLED)
  /\ UNCHANGED <<phase, timer, sent, server, early, late>>

-----------------------------------------------------------------------------
(* DecodedIncomingRequest *)

(* _onHeaders: 'ready' calls the handler, *)
Arrive(c) ==
  /\ phase[c] = "started" /\ ~arrived[c]
  /\ arrived' = [arrived EXCEPT ![c] = TRUE]
  /\ UNCHANGED <<client, checked, deadline, alarm, broken, closed, added, early, late, cause>>

(* and then, in the same turn, _checkTimeout sets the deadline, which counts *)
(* from here. What the handler makes and starts in its own turn comes        *)
(* between.                                                                  *)
CheckTimeout(c) ==
  /\ arrived[c] /\ ~checked[c]
  /\ checked' = [checked EXCEPT ![c] = TRUE]
  /\ deadline' = [deadline EXCEPT ![c] = sent[c]]
  /\ alarm' = [alarm EXCEPT ![c] = sent[c] # None]
  /\ UNCHANGED <<client, arrived, broken, closed, added, early, late, cause>>

(* Faulty: a child listens to nothing. *)
HeardNever(p) == {}

(* The calls that hear the request emit 'cancel' or 'error'. *)
Heard(p) == added[p]

(* The timer of the deadline, which is not cleared either. *)
AlarmCalled(p) ==
  /\ alarm[p] /\ deadline[p] = 0
  /\ alarm' = [alarm EXCEPT ![p] = FALSE]
  /\ Abort(Heard(p), DEADLINE_EXCEEDED)
  /\ UNCHANGED <<phase, timer, sent, arrived, checked, deadline, broken, closed, added, early, late>>

(* The decoder fails: 'cancel' with INTERNAL if a message could not be       *)
(* unmarshalled, else 'error'.                                               *)
DecoderFails(p, code) ==
  /\ p \in Unruly /\ checked[p] /\ ~closed[p] /\ ~broken[p]
  /\ broken' = [broken EXCEPT ![p] = TRUE]
  /\ Abort(Heard(p), code)
  /\ UNCHANGED <<phase, timer, sent, arrived, checked, deadline, alarm, closed, added, early, late>>

(* The stream is CLOSED, because the call is over or because it was reset. *)
Close(p) ==
  /\ checked[p] /\ ~closed[p]
  /\ closed' = [closed EXCEPT ![p] = TRUE]
  /\ Abort(Heard(p), CANCELLED)
  /\ UNCHANGED <<phase, timer, sent, arrived, checked, deadline, alarm, broken, added, early, late>>

ResetArrives(p) == reset[p] /\ Close(p)

-----------------------------------------------------------------------------
(* Faulty: below zero, too. *)
LessStill(left) == IF left = None THEN left ELSE left - 1

Less(left) == IF left = None \/ left = 0 THEN left ELSE left - 1

(* A millisecond passes; what is due may be called late. *)
Tick ==
  /\ timer' = [c \in Calls |-> Less(timer[c])]
  /\ deadline' = [c \in Calls |-> Less(deadline[c])]
  /\ <<timer', deadline'>> # <<timer, deadline>>
  /\ UNCHANGED <<phase, stream, waiting, cancels, sent, reset, arrived, checked, alarm, broken,
                 closed, added, early, late, cause>>

Next ==
  \/ \E c \in Calls :
       \/ Make(c)
       \/ \E ms \in Timeouts[c] \cup {None} : Start(c, ms)
       \/ TimerCalled(c) \/ Cancel(c)
       \/ Arrive(c) \/ CheckTimeout(c) \/ AlarmCalled(c) \/ Close(c)
       \/ \E code \in {INTERNAL, CANCELLED} : DecoderFails(c, code)
  \/ Tick

Spec == Init /\ [][Next]_vars

(* Time passes, timers are called, a turn ends, and a reset arrives where    *)
(* the request did.                                                          *)
Fairness ==
  /\ WF_vars(Tick)
  /\ \A c \in Calls :
       /\ WF_vars(TimerCalled(c))
       /\ WF_vars(Arrive(c))
       /\ WF_vars(CheckTimeout(c))
       /\ WF_vars(ResetArrives(c))

FairSpec == Spec /\ Fairness

-----------------------------------------------------------------------------
(* Properties *)

Left == Nat \cup {None}

TypeOK ==
  /\ phase \in [Calls -> {"none", "made", "started"}]
  /\ stream \in [Calls -> BOOLEAN]
  /\ waiting \in [Calls -> Seq(Codes)]
  /\ cancels \in [Calls -> Seq(Codes)]
  /\ timer \in [Calls -> Left] /\ sent \in [Calls -> Left] /\ deadline \in [Calls -> Left]
  /\ reset \in [Calls -> BOOLEAN] /\ arrived \in [Calls -> BOOLEAN]
  /\ checked \in [Calls -> BOOLEAN] /\ alarm \in [Calls -> BOOLEAN]
  /\ broken \in [Calls -> BOOLEAN] /\ closed \in [Calls -> BOOLEAN]
  /\ added \in [Calls -> SUBSET Calls]
  /\ early \in [Calls -> BOOLEAN] /\ late \in [Calls -> BOOLEAN]
  /\ cause \in [Calls -> Codes \cup {None}]

(* Whatever cancels a call - who made it, its timer, its parent's deadline,  *)
(* failure or end - and however many of them do, before it has a stream or   *)
(* after, it emits 'cancel' once, with the code of the first.                *)
FirstCauseWins ==
  \A c \in Calls : cancels[c] # <<>> => cancels[c] = <<cause[c]>>

(* A call that sets a timeout gives up no later than the call it is made for *)
(* is to be done, however late it is made or started. It may give up later   *)
(* only when it was started too early: by the handler, in the turn in which  *)
(* it is called, when _checkTimeout has not set the deadline yet             *)
(* (lib/server.js:317-320, lib/client.js:257-258 and 643).                   *)
ChildWithinParent ==
  \A c \in Calls :
    timer[c] # None /\ ~early[c] /\ Has(Parent[c]) /\ deadline[Parent[c]] # None =>
      timer[c] <= deadline[Parent[c]]

(* No call goes on for a parent that is over: closed, or past its deadline   *)
(* or broken, unless in the last two cases it was made only after that.      *)
NoOrphans ==
  \A c \in Calls :
    stream[c] /\ Has(Parent[c]) =>
      LET p == Parent[c] IN
      /\ ~closed[p]
      /\ (broken[p] \/ (deadline[p] # None /\ ~alarm[p])) => late[c]

Ancestors ==
  LET up[c \in Calls] == IF Has(Parent[c]) THEN {c} \cup up[Parent[c]] ELSE {c}
  IN up

Serving(c) == arrived[c] /\ ~closed[c]

(* When a call is cancelled, or has a timer that will cancel it, in the end   *)
(* no server works on it any more, nor on any call made on its behalf.        *)
EndsEverywhere ==
  \A r \in Calls :
    <>(cancels[r] # <<>> \/ timer[r] # None) =>
      <>[](\A c \in Calls : r \in Ancestors[c] => ~Serving(c))
=============================================================================
