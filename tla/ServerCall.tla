----------------------------- MODULE ServerCall -----------------------------
(***************************************************************************)
(* One rpc seen from the server (lib/server.js): the DecodedIncomingRequest *)
(* and EncodedOutgoingResponse made for a new HTTP/2 stream, and the handler *)
(* they are dispatched to, one of the application's or a fallback of        *)
(* lib/dorusu.js.                                                           *)
(*                                                                          *)
(* The response ends for many reasons - the handler's end, a cancel by the  *)
(* deadline or by a failure to unmarshal, an exception in a 'data' listener, *)
(* a failure to marshal - and its status is what rpcCode happens to be when *)
(* the encoder has finished, some time after the first of them.             *)
(*                                                                          *)
(* External, modelled from how server.js uses it: the HTTP/2 stream, Node's *)
(* streams and pipes, and the handlers of an application, which write, end  *)
(* once, perhaps with a status, and need not listen for 'cancel'.           *)
(***************************************************************************)
EXTENDS Integers, Sequences, FiniteSets

CONSTANTS
  Writes,    \* bound: messages the handler writes
  Requests   \* bound: messages the client sends

ASSUME BoundsAssumption == Writes \in Nat /\ Requests \in Nat

(* rpc status codes, dorusu.js:181-310. *)
OK == 0
CANCELLED == 1
UNKNOWN == 2
DEADLINE_EXCEEDED == 4
NOT_FOUND == 5
UNIMPLEMENTED == 12
INTERNAL == 13
Codes == {OK, CANCELLED, UNKNOWN, DEADLINE_EXCEEDED, NOT_FOUND, UNIMPLEMENTED, INTERNAL}
None == -1   \* rpcCode is null

(* What the response hands to its HTTP/2 stream: DATA holds the number of a *)
(* message, TRAILERS the grpc-status.                                       *)
Frame == [type : {"HEADERS", "DATA", "TRAILERS", "END", "RST"}, arg : Nat]

VARIABLES
  phase,        \* "new", "ready" (its listeners run), "checked" (the timeout, too)
  handler,      \* "none", "app", "unimplemented" or "unknown"
  streamState,  \* of the HTTP/2 stream: "open", "remote" or "local" half closed, "CLOSED"
  requests,     \* messages the client has sent
  \* DecodedIncomingRequest
  piped,        \* is the HTTP/2 stream piped into the decoder?
  timer,        \* the deadline timer: "off", "armed" or "fired"
  cancelHeard,  \* was the once('cancel') listener called?
  errorHeard,   \* was the once('error') listener called?
  \* EncodedOutgoingResponse
  rpcCode,      \* this.rpcCode
  encIn,        \* calls the encoder has not worked off: a message's number, 0 for end
  encEnded,     \* was the encoder's end called?
  encFailed,    \* did its marshal throw?
  encOut,       \* encoded messages not yet piped to the HTTP/2 stream
  sent,         \* frames handed to the HTTP/2 stream
  congested,    \* may the HTTP/2 stream push back on the pipe into it?
  \* the handler
  written,      \* messages the encoder has taken
  ended,        \* has the handler, or the fallback in its place, called end?
  \* history
  late,         \* was a message written after the encoder's end?
  failure       \* an exception nobody catches: "none", "null stream", "unheard error"

handlerVars == <<phase, handler, written, ended>>
requestVars == <<requests, piped, timer, cancelHeard, errorHeard>>
encoderVars == <<encIn, encEnded, encFailed, encOut>>
vars == <<handlerVars, streamState, requestVars, rpcCode, encoderVars, sent,
          congested, late, failure>>

Init ==
  /\ phase = "new" /\ handler = "none" /\ written = 0 /\ ended = FALSE
  /\ streamState = "open" /\ requests = 0
  /\ piped = TRUE /\ timer = "off" /\ cancelHeard = FALSE /\ errorHeard = FALSE
  /\ rpcCode = None
  /\ encIn = <<>> /\ encEnded = FALSE /\ encFailed = FALSE /\ encOut = <<>>
  /\ sent = <<>> /\ congested \in BOOLEAN
  /\ late = FALSE /\ failure = "none"

Running == failure = "none"

(* Events other than the handler's own calls wait for 'ready' and what       *)
(* _onHeaders does after it: all of that is one synchronous call.            *)
Idle == Running /\ phase = "checked"

(* response.stream: set to null when the stream is CLOSED. *)
Live == streamState # "CLOSED"

FrameOf(type, arg) == [type |-> type, arg |-> arg]
Handed(type) == \E i \in DOMAIN sent : sent[i].type = type

-----------------------------------------------------------------------------
(* The response *)

(* The frames handed over once _implicitHeaders made sure of the headers. *)
WithHeaders == IF Handed("HEADERS") THEN sent ELSE Append(sent, FrameOf("HEADERS", 0))

(* end() without a message: nothing once the stream is gone or the encoder *)
(* has been ended before.                                                  *)
EndResponse ==
  IF Live /\ ~encEnded
  THEN encEnded' = TRUE /\ encIn' = Append(encIn, 0) /\ sent' = WithHeaders
  ELSE UNCHANGED <<encEnded, encIn, sent>>

(* Faulty: no status is made up when no rpcCode was set. *)
StatusBare(code, old) == IF old # None THEN old ELSE code

(* _updateTrailers: a grpc-status that is there already stays, and OK stands *)
(* in for a missing rpcCode.                                                 *)
Status(code, old) == IF old # None THEN old ELSE IF code = None THEN OK ELSE code

(* The grpc-status among this._trailers. *)
TrailerStatus ==
  IF Handed("TRAILERS")
  THEN (CHOOSE f \in {sent[i] : i \in DOMAIN sent} : f.type = "TRAILERS").arg
  ELSE None

(* _finish with this rpcCode: the trailers and the end, if there still is a *)
(* stream; otherwise it waits for a 'socket' that never comes.              *)
FinishWith(code) ==
  sent' = IF Live
          THEN sent \o <<FrameOf("TRAILERS", Status(code, TrailerStatus)), FrameOf("END", 0)>>
          ELSE sent

(* The encoder's 'error': the status becomes INTERNAL and _finish runs. *)
EncoderError == rpcCode' = INTERNAL /\ FinishWith(INTERNAL)

-----------------------------------------------------------------------------
(* The events of the request that end the response *)

(* Faulty: the response ends without the code of the cancel. *)
CancelledCodeLost(code) == rpcCode

(* response.rpcCode after a 'cancel' with this code. *)
CancelledCode(code) == code

(* Faulty: the first cancel does not end the response. *)
CancelsForgotten == UNCHANGED <<encEnded, encIn, sent>>

CancelEndsResponse == EndResponse

(* 'cancel' is emitted: the once listener of _onStream takes the first. *)
EmitCancel(code) ==
  IF cancelHeard
  THEN UNCHANGED <<cancelHeard, rpcCode, encEnded, encIn, sent>>
  ELSE /\ cancelHeard' = TRUE
       /\ rpcCode' = CancelledCode(code)
       /\ CancelEndsResponse

(* 'error' is emitted: once, too, but a second one would have no listener. *)
EmitError ==
  IF errorHeard
  THEN /\ failure' = "unheard error"
       /\ UNCHANGED <<errorHeard, rpcCode, encEnded, encIn, sent>>
  ELSE /\ errorHeard' = TRUE
       /\ rpcCode' = UNKNOWN
       /\ EndResponse
       /\ UNCHANGED failure

(* The HTTP/2 stream turns CLOSED.  response.stream is null before the       *)
(* request emits 'cancel', so that the listener's end() does nothing.        *)
CloseStream ==
  /\ streamState' = "CLOSED"
  /\ cancelHeard' = TRUE
  /\ rpcCode' = IF cancelHeard THEN rpcCode ELSE CANCELLED

-----------------------------------------------------------------------------
(* A new stream and its headers *)

(* _onStream and the first half of _onHeaders: 'ready' is emitted, which sets *)
(* the route's (un)marshaller and calls its handler.                          *)
RecvHeaders ==
  /\ Running
  /\ phase = "new"
  /\ phase' = "ready"
  /\ handler' \in {"app", "unimplemented"}
  /\ UNCHANGED <<written, ended, streamState, requestVars, rpcCode, encoderVars, sent,
                 congested, late, failure>>

(* The handler throws before it returns, and unknown takes over, whatever the *)
(* handler did until then.                                                    *)
HandlerThrows ==
  /\ Running
  /\ phase = "ready"
  /\ handler = "app"
  /\ handler' = "unknown"
  /\ ended' = FALSE
  /\ UNCHANGED <<phase, written, streamState, requestVars, rpcCode, encoderVars,
                 sent, congested, late, failure>>

(* The second half: without a grpc-timeout there is nothing to do, a good one *)
(* arms the timer, and a bad one resets the stream, which cancels the request, *)
(* and then emits 'error'.                                                    *)
CheckTimeout ==
  /\ Running
  /\ phase = "ready"
  /\ phase' = "checked"
  /\ \/ UNCHANGED <<timer, streamState, cancelHeard, errorHeard, rpcCode, sent>>
     \/ /\ timer' = "armed"
        /\ UNCHANGED <<streamState, cancelHeard, errorHeard, rpcCode, sent>>
     \/ /\ streamState' = "CLOSED"
        /\ sent' = Append(sent, FrameOf("RST", 0))
        /\ cancelHeard' = TRUE
        /\ errorHeard' = TRUE
        /\ rpcCode' = UNKNOWN
        /\ UNCHANGED timer
  /\ UNCHANGED <<handler, written, ended, requests, piped, encoderVars, congested,
                 late, failure>>

(* The deadline timer fires: nothing ever clears it. *)
TimerFires ==
  /\ Idle
  /\ timer = "armed"
  /\ timer' = "fired"
  /\ EmitCancel(DEADLINE_EXCEEDED)
  /\ UNCHANGED <<handlerVars, streamState, requests, piped, errorHeard, encFailed,
                 encOut, congested, late, failure>>

-----------------------------------------------------------------------------
(* The handler's calls *)

Handling == Running /\ phase # "new" /\ handler = "app" /\ ~ended

(* write: _implicitHeaders needs the stream unless the headers are out; the *)
(* encoder takes a message until it is ended and fails on a later one.      *)
Write ==
  /\ Handling
  /\ written < Writes
  /\ \/ /\ ~Live /\ ~Handed("HEADERS")
        /\ failure' = "null stream"
        /\ UNCHANGED <<written, rpcCode, encIn, sent, late>>
     \/ /\ Live \/ Handed("HEADERS")
        /\ ~encEnded
        /\ written' = written + 1
        /\ encIn' = Append(encIn, written + 1)
        /\ sent' = WithHeaders
        /\ UNCHANGED <<rpcCode, late, failure>>
     \/ /\ Live \/ Handed("HEADERS")
        /\ encEnded
        /\ ~late                     \* bound: one late message
        /\ late' = TRUE
        /\ EncoderError
        /\ UNCHANGED <<written, encIn, failure>>
  /\ UNCHANGED <<phase, handler, ended, streamState, requestVars, encEnded, encFailed,
                 encOut, congested>>

(* end, perhaps with a status set just before. *)
End ==
  /\ Handling
  /\ ended' = TRUE
  /\ rpcCode' \in {rpcCode, NOT_FOUND}
  /\ EndResponse
  /\ UNCHANGED <<phase, handler, written, streamState, requestVars, encFailed, encOut,
                 congested, late, failure>>

-----------------------------------------------------------------------------
(* The client's frames *)

(* A fallback answers the first message: its status, then end(''), which is *)
(* a message more.                                                          *)
Fallback(code) ==
  IF encEnded
  THEN /\ late' = TRUE
       /\ EncoderError
       /\ UNCHANGED <<written, encIn, encEnded>>
  ELSE /\ rpcCode' = code
       /\ written' = written + 1
       /\ encIn' = encIn \o <<written + 1, 0>>
       /\ encEnded' = TRUE
       /\ sent' = WithHeaders
       /\ UNCHANGED late

(* The client's next message reaches the decoder. *)
RecvMessage ==
  /\ Idle
  /\ streamState \in {"open", "local"}
  /\ piped
  /\ requests < Requests
  /\ requests' = requests + 1
  /\ \/ /\ handler = "app" \/ ended   \* the application gets it; a fallback is done
        /\ UNCHANGED <<piped, cancelHeard, errorHeard, rpcCode, encIn, encEnded, sent,
                       written, ended, late, failure>>
     \/ /\ handler = "app"            \* unmarshal throws
        /\ piped' = FALSE
        /\ EmitCancel(INTERNAL)
        /\ UNCHANGED <<errorHeard, written, ended, late, failure>>
     \/ /\ handler = "app"            \* the 'data' listener throws
        /\ piped' = FALSE
        /\ EmitError
        /\ UNCHANGED <<cancelHeard, written, ended, late>>
     \/ /\ handler # "app" /\ ~ended
        /\ Fallback(IF handler = "unimplemented" THEN UNIMPLEMENTED ELSE UNKNOWN)
        /\ ended' = TRUE
        /\ UNCHANGED <<piped, cancelHeard, errorHeard, failure>>
  /\ UNCHANGED <<phase, handler, streamState, timer, encFailed, encOut, congested>>

(* The client ends its side. *)
RecvEnd ==
  /\ Idle
  /\ \/ /\ streamState = "open"
        /\ streamState' = "remote"
        /\ UNCHANGED <<cancelHeard, rpcCode>>
     \/ streamState = "local" /\ CloseStream
  /\ UNCHANGED <<handlerVars, requests, piped, timer, errorHeard, encoderVars, sent,
                 congested, late, failure>>

(* The client resets the stream, or its connection is lost. *)
RecvReset ==
  /\ Idle
  /\ Live
  /\ CloseStream
  /\ UNCHANGED <<handlerVars, requests, piped, timer, errorHeard, encoderVars, sent,
                 congested, late, failure>>

-----------------------------------------------------------------------------
(* The encoder and the pipe into the HTTP/2 stream *)

(* What is encoded has been piped on, unless the HTTP/2 stream pushed back. *)
Drained == congested \/ encOut = <<>>

(* The encoder encodes its next message; when marshal throws, it gives up. *)
EncodeNext ==
  /\ Idle
  /\ ~encFailed
  /\ encIn # <<>> /\ Head(encIn) # 0
  /\ encIn' = Tail(encIn)
  /\ \/ /\ encOut' = Append(encOut, Head(encIn))
        /\ UNCHANGED <<encFailed, rpcCode, sent>>
     \/ /\ Drained
        /\ encFailed' = TRUE
        /\ EncoderError
        /\ UNCHANGED encOut
  /\ UNCHANGED <<handlerVars, streamState, requestVars, encEnded, congested, late, failure>>

(* The pipe moves an encoded message on.  A stream that was ended or closed *)
(* takes no more of them.                                                   *)
PipeEncoded ==
  /\ Idle
  /\ encOut # <<>>
  /\ encOut' = Tail(encOut)
  /\ sent' = IF Live /\ ~Handed("END") THEN Append(sent, FrameOf("DATA", Head(encOut)))
             ELSE sent
  /\ UNCHANGED <<handlerVars, streamState, requestVars, rpcCode, encIn, encEnded,
                 encFailed, congested, late, failure>>

(* Faulty: the response ends when end is called, not when all is encoded. *)
FinishReadyAtEnd == encEnded /\ encIn # <<>> /\ ~encFailed
(* Faulty: an encoder that failed finishes as well. *)
FinishReadyAfterError == encIn # <<>> /\ (encFailed \/ (Head(encIn) = 0 /\ Drained))

(* The encoder can emit 'finish': all its messages are encoded. *)
FinishReady == encIn # <<>> /\ Head(encIn) = 0 /\ ~encFailed /\ Drained

(* A response that ends without a message finishes at once: in the handler, *)
(* perhaps, and so ahead of CheckTimeout.                                   *)
FinishesAtOnce == Running /\ phase = "ready" /\ written = 0

Finish ==
  /\ Idle \/ FinishesAtOnce
  /\ FinishReady
  /\ encIn' = Tail(encIn)
  /\ FinishWith(rpcCode)
  /\ UNCHANGED <<handlerVars, streamState, requestVars, rpcCode, encEnded, encFailed,
                 encOut, congested, late, failure>>

(* The HTTP/2 stream gets to send its end. *)
SendEnd ==
  /\ Idle
  /\ Handed("END")
  /\ \/ /\ streamState = "open"
        /\ streamState' = "local"
        /\ UNCHANGED <<cancelHeard, rpcCode>>
     \/ streamState = "remote" /\ CloseStream
  /\ UNCHANGED <<handlerVars, requests, piped, timer, errorHeard, encoderVars, sent,
                 congested, late, failure>>

-----------------------------------------------------------------------------
Next ==
  \/ RecvHeaders \/ HandlerThrows \/ CheckTimeout \/ TimerFires
  \/ Write \/ End
  \/ RecvMessage \/ RecvEnd \/ RecvReset
  \/ EncodeNext \/ PipeEncoded \/ Finish \/ SendEnd

Spec == Init /\ [][Next]_vars

(* _onHeaders returns, a timer that was set fires, and what is queued in *)
(* Node's streams moves on.                                              *)
Fairness ==
  /\ WF_vars(CheckTimeout) /\ WF_vars(TimerFires)
  /\ WF_vars(EncodeNext) /\ WF_vars(PipeEncoded) /\ WF_vars(Finish) /\ WF_vars(SendEnd)

FairSpec == Spec /\ Fairness

(* The client ends its request too, as a client does that has no more to say. *)
RequestEndsSpec == FairSpec /\ WF_vars(RecvEnd)

-----------------------------------------------------------------------------
(* Properties *)

HandlerTypeOK ==
  /\ phase \in {"new", "ready", "checked"}
  /\ handler \in {"none", "app", "unimplemented", "unknown"}
  /\ written \in Nat
  /\ ended \in BOOLEAN
  /\ late \in BOOLEAN
  /\ failure \in {"none", "null stream", "unheard error"}

RequestTypeOK ==
  /\ streamState \in {"open", "remote", "local", "CLOSED"}
  /\ requests \in 0..Requests
  /\ piped \in BOOLEAN
  /\ timer \in {"off", "armed", "fired"}
  /\ cancelHeard \in BOOLEAN
  /\ errorHeard \in BOOLEAN

ResponseTypeOK ==
  /\ rpcCode \in Codes \cup {None}
  /\ encIn \in Seq(Nat)
  /\ encEnded \in BOOLEAN
  /\ encFailed \in BOOLEAN
  /\ encOut \in Seq(Nat)
  /\ sent \in Seq(Frame)
  /\ congested \in BOOLEAN

TypeOK == HandlerTypeOK /\ RequestTypeOK /\ ResponseTypeOK

DataSent == {i \in DOMAIN sent : sent[i].type = "DATA"}

(* However the reasons to end a response meet, it has one set of trailers,   *)
(* unless the handler writes to a response that was ended under it           *)
(* (server.js:101-106, 150, 164, 425-438).                                   *)
TrailersOnce ==
  ~late => Cardinality({i \in DOMAIN sent : sent[i].type = "TRAILERS"}) <= 1

(* What is sent of a response are its first messages, in the order they were *)
(* written and without a gap; if it does not fail and its stream does not    *)
(* push back, all of them are sent before its trailers (server.js:92-106,    *)
(* 134-150).                                                                 *)
WholeBeforeTrailers ==
  /\ \A i, j \in DataSent : i < j => sent[i].arg < sent[j].arg
  /\ \E n \in 0..written :
       /\ {sent[i].arg : i \in DataSent} = 1..n
       /\ Handed("TRAILERS") /\ ~congested /\ ~late /\ ~encFailed => n = written

(* Once the request was cancelled or an error was caught, or marshal failed, *)
(* trailers yet to come do not say OK, though rpcCode may still change until *)
(* the encoder has finished (server.js:102-106, 172-179, 424-438).           *)
FailureIsNotOK ==
  [][~Handed("TRAILERS") /\ Handed("TRAILERS")' /\ (cancelHeard \/ errorHeard \/ encFailed')
       => TrailerStatus' # OK]_vars

Answered == Handed("TRAILERS") \/ ~Live \/ ~Running

(* An rpc whose handler ends, whose deadline passes or whose handler fails *)
(* is answered, if its stream lasts (server.js:424-438).                   *)
EndIsAnswered == ended \/ timer = "fired" \/ errorHeard \/ ~piped ~> Answered

(* dorusu.js:441, a handler "that terminates the rpc with rpc code         *)
(* UNIMPLEMENTED": an rpc dispatched to it is answered once its request is *)
(* complete.                                                               *)
FallbackAnswers == handler = "unimplemented" ~> Answered
=============================================================================
