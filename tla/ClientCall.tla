----------------------------- MODULE ClientCall -----------------------------
(***************************************************************************)
(* One rpc seen from the client (lib/client.js): an EncodedOutgoingRequest *)
(* and the DecodedIncomingResponse made for it.                            *)
(*                                                                         *)
(* The application may write, end and abort before the request has an      *)
(* HTTP/2 stream; such calls wait as listeners of the 'socket' event.      *)
(* _start gives the request its stream, perhaps only after an asynchronous *)
(* updateHeaders.  From then on three things go on at once: the encoder    *)
(* works off what was written, the peer's frames come in, and the          *)
(* application, a parent call or the deadline timer may abort.             *)
(*                                                                         *)
(* External, modelled from how client.js uses it: the HTTP/2 stream, which *)
(* takes frames in order and ignores them once it is reset, and Node's     *)
(* streams and pipes.                                                      *)
(***************************************************************************)
EXTENDS Integers, Sequences, FiniteSets

CONSTANTS
  Writes,     \* bound: messages the application writes
  Replies,    \* bound: response messages of the peer
  MaxAborts   \* bound: calls of abort by the application or a parent

ASSUME BoundsAssumption ==
  /\ Writes \in Nat
  /\ Replies \in Nat
  /\ MaxAborts \in Nat

(* rpc status codes, dorusu.js:181-310, and two readings of a header. *)
OK == 0
CANCELLED == 1
UNKNOWN == 2
DEADLINE_EXCEEDED == 4
NOT_FOUND == 5
INTERNAL == 13
UNAUTHENTICATED == 16
Codes == {OK, CANCELLED, UNKNOWN, DEADLINE_EXCEEDED, NOT_FOUND, INTERNAL, UNAUTHENTICATED}
None == -1        \* no grpc-status header, or no status yet
Garbled == -2     \* a grpc-status that is not a number

(* What the application can ask of the request: to write its message of that *)
(* number or to end, with such a message or without (0), which the encoder    *)
(* works off, or to abort with a code.                                        *)
EncoderCall == [call : {"write", "end"}, arg : Nat]
AbortCall == [call : {"abort"}, arg : Codes]
Call == EncoderCall \cup AbortCall

(* What the request hands to its HTTP/2 stream; DATA 0 is the empty frame. *)
Frame == [type : {"HEADERS", "DATA", "END", "RST"}, arg : Nat]
(* A 'cancel' event: its code, and whether the response was told of it. *)
Cancel == [code : Codes, told : BOOLEAN]

VARIABLES
  \* EncodedOutgoingRequest
  phase,       \* "new", "updating" the headers, "refused" by that, "started"
  stream,      \* this.stream: "none" (undefined), "live" or "null"
  cancelled,   \* this.cancelled
  onSocket,    \* calls waiting for 'socket', in the order of the listeners
  dataSent,    \* this._data_sent
  encIn,       \* write and end calls the encoder has not worked off
  encOut,      \* encoded messages not yet piped to the HTTP/2 stream
  sent,        \* frames handed to the HTTP/2 stream
  timer,       \* the deadline timer: "off", "armed" or "fired"
  congested,   \* may the HTTP/2 stream push back on the pipe into it?
  \* DecodedIncomingResponse
  rpcStatus,   \* this._rpcStatus
  piped,       \* is the HTTP/2 stream piped into the decoder?
  inq,         \* data, and the end, waiting in the HTTP/2 stream's buffer
  received,    \* response messages the application was given
  respEnded,   \* did the response emit 'end'?
  \* the rest of the world
  written,     \* messages the application has written
  ended,       \* has the application called end?
  aborts,      \* how often abort was called by hand
  peer,        \* the peer's last word: "silent", "headers", "trailers", "end", "reset"
  replies,     \* response messages the peer has sent
  \* history
  serverStatus, \* the status the peer reported, None if none yet
  statuses,    \* codes of the 'status' events
  cancels,     \* the 'cancel' events
  failure      \* an exception nobody catches: "none", "marshal", "no status",
               \* "unheard error" (an 'error' of a response without a listener for it)

requestVars == <<phase, stream, cancelled, onSocket, timer>>
encoderVars == <<dataSent, encIn, encOut, sent>>
statusVars == <<rpcStatus, statuses>>
decoderVars == <<piped, inq, received, respEnded>>
appVars == <<written, ended, aborts>>
peerVars == <<peer, replies, serverStatus>>
vars == <<requestVars, encoderVars, congested, statusVars, decoderVars,
          appVars, peerVars, cancels, failure>>

Init ==
  /\ phase = "new" /\ stream = "none" /\ cancelled = FALSE
  /\ onSocket = <<>> /\ timer = "off"
  /\ dataSent = FALSE /\ encIn = <<>> /\ encOut = <<>> /\ sent = <<>>
  /\ congested \in BOOLEAN
  /\ rpcStatus = None /\ statuses = <<>>
  /\ piped = FALSE /\ inq = <<>> /\ received = 0 /\ respEnded = FALSE
  /\ written = 0 /\ ended = FALSE /\ aborts = 0
  /\ peer = "silent" /\ replies = 0 /\ serverStatus = None
  /\ cancels = <<>> /\ failure = "none"

(* An exception that is not caught ends the process. *)
Running == failure = "none"

-----------------------------------------------------------------------------
(* Before the stream *)

FrameOf(type, arg) == [type |-> type, arg |-> arg]

Handed(type) == \E i \in DOMAIN sent : sent[i].type = type

(* The HTTP/2 stream after it is given frames: a closed one ignores them. *)
Hand(frames) ==
  IF Handed("RST") \/ peer = "reset" THEN sent ELSE sent \o frames

(* When 'socket' fires, the listeners before the first abort do what they   *)
(* were queued for; the abort cancels the request, and what follows returns *)
(* early (write, end) or waits for a second 'socket' (abort).               *)
BeforeAbort(n) ==
  /\ \A i \in 1..n : onSocket[i].call # "abort"
  /\ n < Len(onSocket) => onSocket[n + 1].call = "abort"

(* _start with its final headers: it sets the stream, arms the timer if there *)
(* is a grpc-timeout, sends the headers, fires 'socket' and makes the         *)
(* response.  An abort among the listeners finds no response to tell.         *)
StartStream ==
  \E n \in 0..Len(onSocket) :
    LET aborted == n < Len(onSocket)
    IN  /\ BeforeAbort(n)
        /\ phase' = "started"
        /\ stream' = IF aborted THEN "null" ELSE "live"
        /\ cancelled' = aborted
        /\ cancels' = IF aborted
                      THEN Append(cancels, [code |-> onSocket[n + 1].arg, told |-> FALSE])
                      ELSE cancels
        /\ encIn' = SubSeq(onSocket, 1, n)
        /\ dataSent' = \E i \in 1..n : onSocket[i].call = "write"
        /\ sent' = <<FrameOf("HEADERS", 0)>>
                     \o (IF aborted THEN <<FrameOf("RST", 0)>> ELSE <<>>)
        /\ onSocket' = <<>>
        /\ timer' \in {"off", "armed"}
        /\ piped' = TRUE
        /\ UNCHANGED <<encOut, congested, statusVars, inq, received, respEnded,
                       appVars, peerVars, failure>>

(* The agent has a stream and calls _start. *)
Start ==
  /\ Running
  /\ phase = "new"
  /\ \/ StartStream
     \/ /\ phase' = "updating"   \* options.updateHeaders is called next tick
        /\ UNCHANGED <<stream, cancelled, onSocket, timer, encoderVars, congested,
                       statusVars, decoderVars, appVars, peerVars, cancels, failure>>

(* updateHeaders calls back with headers: _start runs again, without it. *)
HeadersUpdated ==
  /\ Running
  /\ phase = "updating"
  /\ StartStream

(* updateHeaders calls back with an error: the request never starts. *)
HeadersRefused ==
  /\ Running
  /\ phase = "updating"
  /\ phase' = "refused"
  /\ cancelled' = TRUE
  /\ cancels' = Append(cancels, [code |-> UNAUTHENTICATED, told |-> FALSE])
  /\ UNCHANGED <<stream, onSocket, timer, encoderVars, congested, statusVars,
                 decoderVars, appVars, peerVars, failure>>

-----------------------------------------------------------------------------
(* The application's calls *)

(* Faulty: a call before 'socket' is dropped. *)
WaitForSocketNever(c) == onSocket
(* Faulty: a call before 'socket' goes to the front. *)
WaitForSocketFirst(c) == <<c>> \o onSocket

(* The listeners of 'socket' once call c waits for it too. *)
WaitForSocket(c) == Append(onSocket, c)

(* write and end: ignored once cancelled, given to the encoder if there is a *)
(* stream, left to wait for one otherwise.                                   *)
Ask(c) ==
  \/ /\ cancelled
     /\ UNCHANGED <<onSocket, encIn, dataSent>>
  \/ /\ ~cancelled
     /\ stream = "live"
     /\ encIn' = Append(encIn, c)
     /\ dataSent' = (dataSent \/ c.call = "write")
     /\ UNCHANGED onSocket
  \/ /\ ~cancelled
     /\ stream # "live"
     /\ onSocket' = WaitForSocket(c)
     /\ UNCHANGED <<encIn, dataSent>>

Write ==
  /\ Running
  /\ ~ended
  /\ written < Writes
  /\ written' = written + 1
  /\ Ask([call |-> "write", arg |-> written + 1])
  /\ UNCHANGED <<phase, stream, cancelled, timer, encOut, sent, congested, statusVars,
                 decoderVars, ended, aborts, peerVars, cancels, failure>>

End ==
  /\ Running
  /\ ~ended
  /\ ended' = TRUE
  /\ \/ /\ written' = written
        /\ Ask([call |-> "end", arg |-> 0])
     \/ /\ written < Writes   \* end(msg)
        /\ written' = written + 1
        /\ Ask([call |-> "end", arg |-> written + 1])
  /\ UNCHANGED <<phase, stream, cancelled, timer, encOut, sent, congested, statusVars,
                 decoderVars, aborts, peerVars, cancels, failure>>

(* DecodedIncomingResponse._cancel: set the status, whatever it was, end the *)
(* decoder's output and emit 'status'.                                       *)
CancelResponse(code) ==
  /\ rpcStatus' = code
  /\ statuses' = Append(statuses, code)
  /\ respEnded' = TRUE

(* Faulty: abort keeps its stream, and so can run again. *)
StreamKept == "live"

(* this.stream once abort is through. *)
StreamDropped == "null"

(* abort(code), also known as cancel.  With a stream: tell the response, emit *)
(* 'cancel', drop and reset the stream, whose unpipe stops the decoder's      *)
(* input.  Without: wait for 'socket', which is past once the request has     *)
(* started and never comes to a refused one.                                  *)
Abort(code) ==
  \/ /\ stream = "live"
     /\ CancelResponse(code)
     /\ cancels' = Append(cancels, [code |-> code, told |-> TRUE])
     /\ cancelled' = TRUE
     /\ piped' = FALSE
     /\ sent' = Append(sent, FrameOf("RST", 0))
     /\ stream' = StreamDropped
     /\ UNCHANGED onSocket
  \/ /\ stream # "live"
     /\ onSocket' = IF phase \in {"new", "updating"}
                    THEN WaitForSocket([call |-> "abort", arg |-> code])
                    ELSE onSocket
     /\ UNCHANGED <<rpcStatus, statuses, respEnded, cancels, cancelled, piped, sent, stream>>

(* The application cancels, or a parent call's end reaches this request. *)
AbortByHand ==
  /\ Running
  /\ aborts < MaxAborts
  /\ aborts' = aborts + 1
  /\ \E code \in {CANCELLED, DEADLINE_EXCEEDED} : Abort(code)
  /\ UNCHANGED <<phase, timer, dataSent, encIn, encOut, congested, inq, received,
                 written, ended, peerVars, failure>>

(* The timer set in _start fires: nothing ever clears it. *)
TimerFires ==
  /\ Running
  /\ timer = "armed"
  /\ timer' = "fired"
  /\ Abort(DEADLINE_EXCEEDED)
  /\ UNCHANGED <<phase, dataSent, encIn, encOut, congested, inq, received,
                 appVars, peerVars, failure>>

-----------------------------------------------------------------------------
(* The encoder and the pipe into the HTTP/2 stream *)

(* The encoder encodes the message of a write, or of an end that brings one; *)
(* when marshal throws, it emits an 'error' that the client does not listen  *)
(* for.                                                                      *)
EncodeNext ==
  /\ Running
  /\ encIn # <<>> /\ Head(encIn).arg > 0
  /\ encIn' = IF Head(encIn).call = "write" THEN Tail(encIn)
              ELSE <<[call |-> "end", arg |-> 0]>>
  /\ \/ /\ encOut' = Append(encOut, Head(encIn).arg)
        /\ UNCHANGED failure
     \/ /\ failure' = "marshal"
        /\ UNCHANGED encOut
  /\ UNCHANGED <<requestVars, dataSent, sent, congested, statusVars, decoderVars,
                 appVars, peerVars, cancels>>

(* The pipe moves an encoded message on.  A stream that was ended meanwhile *)
(* takes no more writes.                                                    *)
PipeEncoded ==
  /\ Running
  /\ encOut # <<>>
  /\ encOut' = Tail(encOut)
  /\ sent' = IF Handed("END") THEN sent ELSE Hand(<<FrameOf("DATA", Head(encOut))>>)
  /\ UNCHANGED <<requestVars, dataSent, encIn, congested, statusVars, decoderVars,
                 appVars, peerVars, cancels, failure>>

(* Faulty: _finish writes no empty frame. *)
FinalFramesBare == <<FrameOf("END", 0)>>

(* What _finish hands over: an empty DATA frame if nothing was written, END. *)
FinalFrames ==
  (IF dataSent THEN <<>> ELSE <<FrameOf("DATA", 0)>>) \o <<FrameOf("END", 0)>>

(* The encoder emits 'finish' when all writes are encoded.  They are piped by *)
(* then too, unless the HTTP/2 stream pushed back.  _finish of a request that *)
(* lost its stream waits for a 'socket' that is past.                         *)
Finish ==
  /\ Running
  /\ encIn # <<>> /\ Head(encIn) = [call |-> "end", arg |-> 0]
  /\ congested \/ encOut = <<>>
  /\ encIn' = Tail(encIn)
  /\ sent' = IF stream = "live" THEN Hand(FinalFrames) ELSE sent
  /\ UNCHANGED <<requestVars, dataSent, encOut, congested, statusVars, decoderVars,
                 appVars, peerVars, cancels, failure>>

-----------------------------------------------------------------------------
(* The response *)

(* Faulty: a garbled status is reported as it is. *)
ParsedRaw(st) == st

(* The code a status header stands for; parseInt of anything but a number, *)
(* a missing header included, is NaN.                                      *)
Parsed(st) == IF st \in Codes THEN st ELSE UNKNOWN

(* Faulty: each status is reported. *)
StatusIsSetNever == FALSE
(* Faulty: an OK, which is 0, does not count as a status. *)
StatusIsSetUnlessOK == rpcStatus \notin {None, OK}

StatusIsSet == rpcStatus # None

(* An 'error' event of the response throws if the application does not *)
(* listen for it.                                                      *)
EmitError == failure' \in {"none", "unheard error"}

(* _checkStatusHeaders: the first status counts, and trailers must have one; *)
(* a status other than OK is an 'error' too.                                 *)
CheckStatusHeaders(st, trailers) ==
  IF ~StatusIsSet /\ (st # None \/ trailers)
  THEN /\ rpcStatus' = Parsed(st)
       /\ statuses' = Append(statuses, Parsed(st))
       /\ IF Parsed(st) = OK THEN UNCHANGED failure ELSE EmitError
  ELSE UNCHANGED <<rpcStatus, statuses, failure>>

(* The peer's frames can come in as soon as it has the headers, and those *)
(* that were under way still do after a reset from this end.              *)
Listening == Running /\ Handed("HEADERS")

(* The first header block: 'response' is emitted, then its status checked. *)
RecvHeaders ==
  /\ Listening
  /\ peer = "silent"
  /\ peer' = "headers"
  /\ \E st \in {None, Garbled, OK, NOT_FOUND} :
       /\ CheckStatusHeaders(st, FALSE)
       /\ serverStatus' = IF st = None THEN None ELSE IF st = Garbled THEN UNKNOWN ELSE st
  /\ UNCHANGED <<requestVars, encoderVars, congested, decoderVars, appVars, replies, cancels>>

(* A second header block, the trailers. *)
RecvTrailers ==
  /\ Listening
  /\ peer = "headers"
  /\ peer' = "trailers"
  /\ \E st \in {None, Garbled, OK, NOT_FOUND} :
       /\ CheckStatusHeaders(st, TRUE)
       /\ serverStatus' = IF serverStatus # None THEN serverStatus
                          ELSE IF st \in {None, Garbled} THEN UNKNOWN ELSE st
  /\ UNCHANGED <<requestVars, encoderVars, congested, decoderVars, appVars, replies, cancels>>

(* A response message arrives in the HTTP/2 stream's buffer. *)
RecvData ==
  /\ Listening
  /\ peer = "headers"
  /\ replies < Replies
  /\ replies' = replies + 1
  /\ inq' = Append(inq, "message")
  /\ UNCHANGED <<requestVars, encoderVars, congested, statusVars, piped, received,
                 respEnded, appVars, peer, serverStatus, cancels, failure>>

(* The peer ends its side.  *)
RecvEnd ==
  /\ Listening
  /\ peer \in {"headers", "trailers"}
  /\ peer' = "end"
  /\ inq' = Append(inq, "end")
  /\ UNCHANGED <<requestVars, encoderVars, congested, statusVars, piped, received,
                 respEnded, appVars, replies, serverStatus, cancels, failure>>

(* The peer resets the stream, which ends what can be read from it. *)
RecvReset ==
  /\ Listening
  /\ peer \in {"silent", "headers", "trailers"}
  /\ peer' = "reset"
  /\ inq' = Append(inq, "end")
  /\ UNCHANGED <<requestVars, encoderVars, congested, statusVars, piped, received,
                 respEnded, appVars, replies, serverStatus, cancels, failure>>

(* The next message flows into the decoder and out to the application; when *)
(* unmarshal throws, the decoder is unpiped, the response cancelled and the *)
(* 'error' passed on.                                                       *)
FlowMessage ==
  /\ Running
  /\ piped
  /\ inq # <<>> /\ Head(inq) = "message"
  /\ inq' = Tail(inq)
  /\ \/ /\ received' = received + 1
        /\ UNCHANGED <<statusVars, piped, respEnded, failure>>
     \/ /\ piped' = FALSE
        /\ CancelResponse(INTERNAL)
        /\ EmitError
        /\ UNCHANGED received
  /\ UNCHANGED <<requestVars, encoderVars, congested, appVars, peerVars, cancels>>

(* The HTTP/2 stream's 'end' reaches the decoder, and _checkOnEnd throws if *)
(* no status has come by then.                                              *)
FlowEnd ==
  /\ Running
  /\ piped
  /\ inq # <<>> /\ Head(inq) = "end"
  /\ inq' = Tail(inq)
  /\ \/ /\ StatusIsSet
        /\ respEnded' = TRUE
        /\ UNCHANGED failure
     \/ /\ ~StatusIsSet
        /\ failure' = "no status"
        /\ UNCHANGED respEnded
  /\ UNCHANGED <<requestVars, encoderVars, congested, statusVars, piped, received,
                 appVars, peerVars, cancels>>

-----------------------------------------------------------------------------
Next ==
  \/ Start \/ HeadersUpdated \/ HeadersRefused
  \/ Write \/ End \/ AbortByHand \/ TimerFires
  \/ EncodeNext \/ PipeEncoded \/ Finish
  \/ RecvHeaders \/ RecvTrailers \/ RecvData \/ RecvEnd \/ RecvReset
  \/ FlowMessage \/ FlowEnd

Spec == Init /\ [][Next]_vars

(* The agent comes up with a stream, updateHeaders calls back (its contract, *)
(* client.js:531), and what is queued in Node's streams moves on.            *)
Fairness ==
  /\ WF_vars(Start) /\ WF_vars(HeadersUpdated)
  /\ WF_vars(EncodeNext) /\ WF_vars(PipeEncoded) /\ WF_vars(Finish)
  /\ WF_vars(FlowMessage) /\ WF_vars(FlowEnd)

FairSpec == Spec /\ Fairness

-----------------------------------------------------------------------------
(* Properties *)

RequestTypeOK ==
  /\ phase \in {"new", "updating", "refused", "started"}
  /\ stream \in {"none", "live", "null"}
  /\ cancelled \in BOOLEAN
  /\ onSocket \in Seq(Call)
  /\ timer \in {"off", "armed", "fired"}
  /\ cancels \in Seq(Cancel)

EncoderTypeOK ==
  /\ dataSent \in BOOLEAN
  /\ encIn \in Seq(EncoderCall)
  /\ encOut \in Seq(Nat)
  /\ sent \in Seq(Frame)
  /\ congested \in BOOLEAN

ResponseTypeOK ==
  /\ rpcStatus \in Codes \cup {None}
  /\ statuses \in Seq(Codes)
  /\ piped \in BOOLEAN
  /\ inq \in Seq({"message", "end"})
  /\ received \in Nat
  /\ respEnded \in BOOLEAN

WorldTypeOK ==
  /\ written \in 0..Writes
  /\ ended \in BOOLEAN
  /\ aborts \in 0..MaxAborts
  /\ peer \in {"silent", "headers", "trailers", "end", "reset"}
  /\ replies \in 0..Replies
  /\ serverStatus \in Codes \cup {None}
  /\ failure \in {"none", "marshal", "no status", "unheard error"}

TypeOK == RequestTypeOK /\ EncoderTypeOK /\ ResponseTypeOK /\ WorldTypeOK

(* However the application, a parent, the deadline and updateHeaders race, a *)
(* request emits 'cancel' at most once (client.js:557-559, 618-632).         *)
CancelledOnce == Len(cancels) <= 1

(* The code of a 'cancel' event is the status of the response it cancelled, *)
(* and remains so whatever still comes in (client.js:620-624, 835-838).     *)
CancelIsTheStatus ==
  \A i \in DOMAIN cancels : cancels[i].told => rpcStatus = cancels[i].code

(* While nobody cancels and every message unmarshals, the peer's status is *)
(* reported once, and it is the first it sent (client.js:745-758).         *)
ServerStatusReportedOnce ==
  cancels = <<>> /\ (piped \/ phase # "started") =>
    /\ statuses = IF serverStatus = None THEN <<>> ELSE <<serverStatus>>
    /\ rpcStatus = serverStatus

(* The messages among the frames handed to the HTTP/2 stream. *)
Message(f) == f.type = "DATA" /\ f.arg > 0
DataSent == {i \in DOMAIN sent : Message(sent[i])}

(* Messages leave in the order they were written with none left out, those *)
(* written before there was a stream included (client.js:440-464).         *)
SentInOrder ==
  /\ \A i, j \in DataSent : i < j => sent[i].arg < sent[j].arg
  /\ \E n \in 0..written : {sent[i].arg : i \in DataSent} = 1..n

(* A request whose stream does not push back ends after all its messages, *)
(* and after an empty DATA frame if it has none (client.js:429-435).      *)
EndsAfterAll ==
  ~congested /\ Handed("END") =>
    /\ ended
    /\ {sent[i].arg : i \in DataSent} = 1..written
    /\ Handed("DATA")

(* A request that was ended gets to say so to the peer, unless it is       *)
(* cancelled, the peer reset the stream, or an exception ends the process. *)
EndIsSent ==
  ended ~> \/ Handed("END") \/ cancelled \/ peer = "reset" \/ ~Running

(* dorusu.js:201, "DEADLINE_EXCEEDED means operation expired before *)
(* completion": the deadline's status is not for an rpc whose       *)
(* response has ended.                                              *)
DeadlineMeansUnfinished ==
  [][rpcStatus # DEADLINE_EXCEEDED /\ rpcStatus' = DEADLINE_EXCEEDED => ~respEnded]_vars

(* dorusu.js:365, "used when constructing a grpc status code when non-OK *)
(* http2 response is received": a reset by the peer ends in a status.    *)
ResetGivesStatus == ~(peer = "reset" /\ failure = "no status")
=============================================================================
