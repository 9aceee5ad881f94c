-------------------------- MODULE ServerCallProofs --------------------------
(***************************************************************************)
(* Proofs about one rpc seen from the server, for any number of messages.  *)
(***************************************************************************)
EXTENDS ServerCall, SequenceTheorems, FiniteSetTheorems, TLAPS

(* A cancel or an error that was heard, and a failure to marshal, have left *)
(* a code in rpcCode that is not OK, and nothing takes it back.             *)
FailureNoted == cancelHeard \/ errorHeard \/ encFailed => rpcCode \in Codes \ {OK}

-----------------------------------------------------------------------------
(* What the parts shared by several actions do to the state. *)

LEMMA CodeFacts ==
  /\ Codes \subseteq Nat
  /\ OK \in Codes /\ None \notin Codes
  /\ {CANCELLED, UNKNOWN, DEADLINE_EXCEEDED, NOT_FOUND, UNIMPLEMENTED, INTERNAL}
       \subseteq Codes \ {OK}
<1> QED
  BY DEF Codes, None, OK, CANCELLED, UNKNOWN, DEADLINE_EXCEEDED, NOT_FOUND,
         UNIMPLEMENTED, INTERNAL

LEMMA FrameOfType ==
  ASSUME NEW type \in {"HEADERS", "DATA", "TRAILERS", "END", "RST"}, NEW arg \in Nat
  PROVE  FrameOf(type, arg) \in Frame
<1> QED
  BY DEF FrameOf, Frame

LEMMA WithHeadersType ==
  ASSUME ResponseTypeOK
  PROVE  WithHeaders \in Seq(Frame)
<1>1. FrameOf("HEADERS", 0) \in Frame
  BY FrameOfType
<1> QED
  BY <1>1, AppendProperties DEF WithHeaders, ResponseTypeOK

LEMMA EndResponseStep ==
  ASSUME ResponseTypeOK, EndResponse
  PROVE  encEnded' \in BOOLEAN /\ encIn' \in Seq(Nat) /\ sent' \in Seq(Frame)
<1>1. Append(encIn, 0) \in Seq(Nat)
  BY AppendProperties DEF ResponseTypeOK
<1> QED
  BY <1>1, WithHeadersType DEF EndResponse, ResponseTypeOK

LEMMA StatusType ==
  ASSUME ResponseTypeOK, NEW code \in Codes \cup {None}
  PROVE  Status(code, TrailerStatus) \in Nat
<1>1. CASE Handed("TRAILERS")
  <2>1. PICK i \in DOMAIN sent : sent[i].type = "TRAILERS"
    BY <1>1 DEF Handed
  <2> DEFINE F == {sent[k] : k \in DOMAIN sent}
  <2>2. sent[i] \in F /\ sent[i].type = "TRAILERS"
    BY <2>1
  <2>3. (CHOOSE f \in F : f.type = "TRAILERS") \in F
    BY <2>2
  <2>4. F \subseteq Frame
    BY DEF ResponseTypeOK
  <2>5. TrailerStatus \in Nat
    BY <1>1, <2>3, <2>4 DEF TrailerStatus, Frame
  <2> QED
    BY <2>5 DEF Status, None
<1>2. CASE ~Handed("TRAILERS")
  BY <1>2, CodeFacts DEF Status, TrailerStatus
<1> QED
  BY <1>1, <1>2

LEMMA FinishWithStep ==
  ASSUME ResponseTypeOK, NEW code \in Codes \cup {None}, FinishWith(code)
  PROVE  sent' \in Seq(Frame)
<1>1. FrameOf("TRAILERS", Status(code, TrailerStatus)) \in Frame /\ FrameOf("END", 0) \in Frame
  BY StatusType, FrameOfType
<1>2. <<FrameOf("TRAILERS", Status(code, TrailerStatus)), FrameOf("END", 0)>> \in Seq(Frame)
  BY <1>1
<1> QED
  BY <1>2, ConcatProperties DEF FinishWith, ResponseTypeOK

LEMMA EncoderErrorStep ==
  ASSUME ResponseTypeOK, EncoderError
  PROVE  rpcCode' \in Codes \ {OK} /\ sent' \in Seq(Frame)
<1>1. INTERNAL \in Codes \ {OK}
  BY CodeFacts
<1> QED
  BY <1>1, FinishWithStep DEF EncoderError

(* The listeners of 'cancel' and 'error'. *)
LEMMA EmitCancelStep ==
  ASSUME TypeOK, FailureNoted, NEW code \in Codes \ {OK}, EmitCancel(code)
  PROVE  /\ cancelHeard' = TRUE
         /\ rpcCode' \in Codes \ {OK}
         /\ encEnded' \in BOOLEAN /\ encIn' \in Seq(Nat) /\ sent' \in Seq(Frame)
<1>1. CASE cancelHeard
  BY <1>1 DEF EmitCancel, TypeOK, RequestTypeOK, ResponseTypeOK, FailureNoted
<1>2. CASE ~cancelHeard
  <2>1. cancelHeard' = TRUE /\ rpcCode' = code /\ EndResponse
    BY <1>2 DEF EmitCancel, CancelledCode, CancelEndsResponse
  <2> QED
    BY <2>1, EndResponseStep DEF TypeOK
<1> QED
  BY <1>1, <1>2

LEMMA EmitErrorStep ==
  ASSUME TypeOK, FailureNoted, EmitError
  PROVE  /\ errorHeard' \in BOOLEAN
         /\ failure' \in {"none", "null stream", "unheard error"}
         /\ rpcCode' \in Codes \ {OK}
         /\ encEnded' \in BOOLEAN /\ encIn' \in Seq(Nat) /\ sent' \in Seq(Frame)
<1>1. CASE errorHeard
  BY <1>1 DEF EmitError, TypeOK, RequestTypeOK, ResponseTypeOK, FailureNoted
<1>2. CASE ~errorHeard
  <2>1. errorHeard' = TRUE /\ rpcCode' = UNKNOWN /\ EndResponse /\ UNCHANGED failure
    BY <1>2 DEF EmitError
  <2>2. failure \in {"none", "null stream", "unheard error"}
    BY DEF TypeOK, HandlerTypeOK
  <2> QED
    BY <2>1, <2>2, CodeFacts, EndResponseStep DEF TypeOK
<1> QED
  BY <1>1, <1>2

LEMMA CloseStreamStep ==
  ASSUME TypeOK, FailureNoted, CloseStream
  PROVE  /\ streamState' = "CLOSED" /\ cancelHeard' = TRUE
         /\ rpcCode' \in Codes \ {OK}
<1> QED
  BY CodeFacts DEF CloseStream, FailureNoted

(* The parts of the type invariant an action leaves alone. *)
LEMMA HandlerFrame ==
  HandlerTypeOK /\ UNCHANGED <<handlerVars, late, failure>> => HandlerTypeOK'
<1> QED
  BY DEF HandlerTypeOK, handlerVars

LEMMA RequestFrame ==
  RequestTypeOK /\ UNCHANGED <<requestVars, streamState>> => RequestTypeOK'
<1> QED
  BY DEF RequestTypeOK, requestVars

LEMMA ResponseFrame ==
  ResponseTypeOK /\ UNCHANGED <<encoderVars, rpcCode, sent, congested>> => ResponseTypeOK'
<1> QED
  BY DEF ResponseTypeOK, encoderVars

LEMMA NotedFrame ==
  FailureNoted /\ UNCHANGED <<cancelHeard, errorHeard, encFailed, rpcCode>> => FailureNoted'
<1> QED
  BY DEF FailureNoted

-----------------------------------------------------------------------------
(* The invariant *)

LEMMA InitInvariant == Init => TypeOK /\ FailureNoted
<1> SUFFICES ASSUME Init PROVE TypeOK /\ FailureNoted
  OBVIOUS
<1>0. \A T : <<>> \in Seq(T)
  OBVIOUS
<1>1. HandlerTypeOK
  BY DEF Init, HandlerTypeOK
<1>2. RequestTypeOK
  <2>1. 0 \in 0..Requests
    BY BoundsAssumption
  <2> QED
    BY <2>1 DEF Init, RequestTypeOK
<1>3. ResponseTypeOK
  BY <1>0 DEF Init, ResponseTypeOK
<1>4. FailureNoted
  BY DEF Init, FailureNoted
<1> QED
  BY <1>1, <1>2, <1>3, <1>4 DEF TypeOK

LEMMA WriteStep == TypeOK /\ FailureNoted /\ Write => TypeOK' /\ FailureNoted'
<1> SUFFICES ASSUME TypeOK, FailureNoted, Write PROVE TypeOK' /\ FailureNoted'
  OBVIOUS
<1>1. /\ UNCHANGED <<phase, handler, ended, streamState, requestVars>>
      /\ UNCHANGED <<encEnded, encFailed, encOut, congested>>
  BY DEF Write
<1>r. RequestTypeOK'
  BY <1>1, RequestFrame DEF TypeOK
<1>2. CASE failure' = "null stream" /\ UNCHANGED <<written, rpcCode, encIn, sent, late>>
  <2>h. HandlerTypeOK'
    BY <1>1, <1>2 DEF TypeOK, HandlerTypeOK
  <2>s. ResponseTypeOK'
    BY <1>1, <1>2 DEF TypeOK, ResponseTypeOK
  <2>n. FailureNoted'
    BY <1>1, <1>2, NotedFrame DEF requestVars
  <2> QED
    BY <1>r, <2>h, <2>s, <2>n DEF TypeOK
<1>3. CASE /\ written' = written + 1
           /\ encIn' = Append(encIn, written + 1)
           /\ sent' = WithHeaders
           /\ UNCHANGED <<rpcCode, late, failure>>
  <2>0. written \in Nat /\ written' = written + 1
    BY <1>3 DEF TypeOK, HandlerTypeOK
  <2>1. written' \in Nat
    BY <2>0
  <2>2. encIn' \in Seq(Nat)
    BY <1>3, <2>1, AppendProperties DEF TypeOK, ResponseTypeOK
  <2>3. sent' \in Seq(Frame)
    BY <1>3, WithHeadersType DEF TypeOK
  <2>h. HandlerTypeOK'
    BY <1>1, <1>3, <2>1 DEF TypeOK, HandlerTypeOK
  <2>s. ResponseTypeOK'
    BY <1>1, <1>3, <2>2, <2>3 DEF TypeOK, ResponseTypeOK
  <2>n. FailureNoted'
    BY <1>1, <1>3, NotedFrame DEF requestVars
  <2> QED
    BY <1>r, <2>h, <2>s, <2>n DEF TypeOK
<1>4. CASE late' = TRUE /\ EncoderError /\ UNCHANGED <<written, encIn, failure>>
  <2>1. rpcCode' \in Codes \ {OK} /\ sent' \in Seq(Frame)
    BY <1>4, EncoderErrorStep DEF TypeOK
  <2>h. HandlerTypeOK'
    BY <1>1, <1>4 DEF TypeOK, HandlerTypeOK
  <2>s. ResponseTypeOK'
    BY <1>1, <1>4, <2>1 DEF TypeOK, ResponseTypeOK
  <2>n. FailureNoted'
    BY <2>1 DEF FailureNoted
  <2> QED
    BY <1>r, <2>h, <2>s, <2>n DEF TypeOK
<1> QED
  BY <1>2, <1>3, <1>4 DEF Write

LEMMA FallbackStep ==
  ASSUME TypeOK, NEW code \in Codes \ {OK}, Fallback(code)
  PROVE  /\ written' \in Nat /\ late' \in BOOLEAN
         /\ rpcCode' \in Codes \ {OK}
         /\ encIn' \in Seq(Nat) /\ encEnded' \in BOOLEAN /\ sent' \in Seq(Frame)
<1>1. CASE encEnded
  <2>1. late' = TRUE /\ EncoderError /\ UNCHANGED <<written, encIn, encEnded>>
    BY <1>1 DEF Fallback
  <2> QED
    BY <2>1, EncoderErrorStep DEF TypeOK, HandlerTypeOK, ResponseTypeOK
<1>2. CASE ~encEnded
  <2>1. /\ rpcCode' = code /\ written' = written + 1
        /\ encIn' = encIn \o <<written + 1, 0>>
        /\ encEnded' = TRUE /\ sent' = WithHeaders /\ UNCHANGED late
    BY <1>2 DEF Fallback
  <2>0. written \in Nat /\ late \in BOOLEAN
    BY DEF TypeOK, HandlerTypeOK
  <2>2. written + 1 \in Nat
    BY <2>0
  <2>3. <<written + 1, 0>> \in Seq(Nat)
    BY <2>2
  <2>4. encIn' \in Seq(Nat)
    BY <2>1, <2>3, ConcatProperties DEF TypeOK, ResponseTypeOK
  <2>5. sent' \in Seq(Frame)
    BY <2>1, WithHeadersType DEF TypeOK
  <2> QED
    BY <2>0, <2>1, <2>2, <2>4, <2>5
<1> QED
  BY <1>1, <1>2

LEMMA RecvMessageStep == TypeOK /\ FailureNoted /\ RecvMessage => TypeOK' /\ FailureNoted'
<1> SUFFICES ASSUME TypeOK, FailureNoted, RecvMessage PROVE TypeOK' /\ FailureNoted'
  OBVIOUS
<1>1. UNCHANGED <<phase, handler, streamState, timer, encFailed, encOut, congested>>
  BY DEF RecvMessage
<1>2. requests' \in 0..Requests
  <2>1. requests < Requests /\ requests' = requests + 1 /\ requests \in 0..Requests
    BY DEF RecvMessage, TypeOK, RequestTypeOK
  <2> QED
    BY <2>1, BoundsAssumption
<1>3. CASE UNCHANGED <<piped, cancelHeard, errorHeard, rpcCode, encIn, encEnded, sent,
                       written, ended, late, failure>>
  <2>h. HandlerTypeOK'
    BY <1>1, <1>3, HandlerFrame DEF TypeOK, handlerVars
  <2>r. RequestTypeOK'
    BY <1>1, <1>2, <1>3 DEF TypeOK, RequestTypeOK
  <2>s. ResponseTypeOK'
    BY <1>1, <1>3, ResponseFrame DEF TypeOK, encoderVars
  <2>n. FailureNoted'
    BY <1>1, <1>3, NotedFrame
  <2> QED
    BY <2>h, <2>r, <2>s, <2>n DEF TypeOK
<1>4. CASE piped' = FALSE /\ EmitCancel(INTERNAL)
           /\ UNCHANGED <<errorHeard, written, ended, late, failure>>
  <2>1. /\ cancelHeard' = TRUE /\ rpcCode' \in Codes \ {OK}
        /\ encEnded' \in BOOLEAN /\ encIn' \in Seq(Nat) /\ sent' \in Seq(Frame)
    BY <1>4, CodeFacts, EmitCancelStep
  <2>h. HandlerTypeOK'
    BY <1>1, <1>4, HandlerFrame DEF TypeOK, handlerVars
  <2>r. RequestTypeOK'
    BY <1>1, <1>2, <1>4, <2>1 DEF TypeOK, RequestTypeOK
  <2>s. ResponseTypeOK'
    BY <1>1, <2>1 DEF TypeOK, ResponseTypeOK
  <2>n. FailureNoted'
    BY <2>1 DEF FailureNoted
  <2> QED
    BY <2>h, <2>r, <2>s, <2>n DEF TypeOK
<1>5. CASE piped' = FALSE /\ EmitError /\ UNCHANGED <<cancelHeard, written, ended, late>>
  <2>1. /\ errorHeard' \in BOOLEAN
        /\ failure' \in {"none", "null stream", "unheard error"}
        /\ rpcCode' \in Codes \ {OK}
        /\ encEnded' \in BOOLEAN /\ encIn' \in Seq(Nat) /\ sent' \in Seq(Frame)
    BY <1>5, EmitErrorStep
  <2>h. HandlerTypeOK'
    BY <1>1, <1>5, <2>1 DEF TypeOK, HandlerTypeOK
  <2>r. RequestTypeOK'
    BY <1>1, <1>2, <1>5, <2>1 DEF TypeOK, RequestTypeOK
  <2>s. ResponseTypeOK'
    BY <1>1, <2>1 DEF TypeOK, ResponseTypeOK
  <2>n. FailureNoted'
    BY <2>1 DEF FailureNoted
  <2> QED
    BY <2>h, <2>r, <2>s, <2>n DEF TypeOK
<1>6. CASE /\ Fallback(IF handler = "unimplemented" THEN UNIMPLEMENTED ELSE UNKNOWN)
           /\ ended' = TRUE
           /\ UNCHANGED <<piped, cancelHeard, errorHeard, failure>>
  <2>1. /\ written' \in Nat /\ late' \in BOOLEAN
        /\ rpcCode' \in Codes \ {OK}
        /\ encIn' \in Seq(Nat) /\ encEnded' \in BOOLEAN /\ sent' \in Seq(Frame)
    BY <1>6, CodeFacts, FallbackStep
  <2>h. HandlerTypeOK'
    BY <1>1, <1>6, <2>1 DEF TypeOK, HandlerTypeOK
  <2>r. RequestTypeOK'
    BY <1>1, <1>2, <1>6 DEF TypeOK, RequestTypeOK
  <2>s. ResponseTypeOK'
    BY <1>1, <2>1 DEF TypeOK, ResponseTypeOK
  <2>n. FailureNoted'
    BY <2>1 DEF FailureNoted
  <2> QED
    BY <2>h, <2>r, <2>s, <2>n DEF TypeOK
<1> QED
  BY <1>3, <1>4, <1>5, <1>6 DEF RecvMessage

LEMMA NextStep == TypeOK /\ FailureNoted /\ [Next]_vars => TypeOK' /\ FailureNoted'
<1> SUFFICES ASSUME TypeOK, FailureNoted, [Next]_vars PROVE TypeOK' /\ FailureNoted'
  OBVIOUS
<1>0. HandlerTypeOK /\ RequestTypeOK /\ ResponseTypeOK
  BY DEF TypeOK
<1>1. CASE RecvHeaders \/ HandlerThrows
  <2>1. UNCHANGED <<written, late, failure, streamState, requestVars, rpcCode, encoderVars,
                    sent, congested>>
    BY <1>1 DEF RecvHeaders, HandlerThrows
  <2>h. HandlerTypeOK'
    BY <1>0, <1>1 DEF RecvHeaders, HandlerThrows, HandlerTypeOK
  <2>r. RequestTypeOK' /\ ResponseTypeOK'
    BY <1>0, <2>1, RequestFrame, ResponseFrame
  <2>n. FailureNoted'
    BY <2>1, NotedFrame DEF requestVars, encoderVars
  <2> QED
    BY <2>h, <2>r, <2>n DEF TypeOK
<1>2. CASE CheckTimeout
  <2>1. /\ phase' = "checked"
        /\ UNCHANGED <<handler, written, ended, requests, piped, encoderVars, congested,
                       late, failure>>
    BY <1>2 DEF CheckTimeout
  <2>h. HandlerTypeOK'
    BY <1>0, <2>1 DEF HandlerTypeOK
  <2>2. CASE /\ timer' \in {timer, "armed"}
             /\ UNCHANGED <<streamState, cancelHeard, errorHeard, rpcCode, sent>>
    <3>r. RequestTypeOK'
      BY <1>0, <2>1, <2>2 DEF RequestTypeOK
    <3>s. ResponseTypeOK'
      BY <1>0, <2>1, <2>2, ResponseFrame
    <3>n. FailureNoted'
      BY <2>1, <2>2, NotedFrame DEF encoderVars
    <3> QED
      BY <2>h, <3>r, <3>s, <3>n DEF TypeOK
  <2>3. CASE /\ streamState' = "CLOSED" /\ sent' = Append(sent, FrameOf("RST", 0))
             /\ cancelHeard' = TRUE /\ errorHeard' = TRUE /\ rpcCode' = UNKNOWN
             /\ UNCHANGED timer
    <3>1. FrameOf("RST", 0) \in Frame /\ sent \in Seq(Frame)
      BY <1>0, FrameOfType DEF ResponseTypeOK
    <3>2. sent' \in Seq(Frame) /\ rpcCode' \in Codes \ {OK}
      BY <2>3, <3>1, CodeFacts, AppendProperties
    <3>r. RequestTypeOK'
      BY <1>0, <2>1, <2>3 DEF RequestTypeOK
    <3>s. ResponseTypeOK'
      BY <1>0, <2>1, <3>2 DEF ResponseTypeOK, encoderVars
    <3>n. FailureNoted'
      BY <3>2 DEF FailureNoted
    <3> QED
      BY <2>h, <3>r, <3>s, <3>n DEF TypeOK
  <2> QED
    BY <1>2, <2>2, <2>3 DEF CheckTimeout
<1>3. CASE TimerFires
  <2>1. /\ timer' = "fired" /\ EmitCancel(DEADLINE_EXCEEDED)
        /\ UNCHANGED <<handlerVars, streamState, requests, piped, errorHeard, encFailed,
                       encOut, congested, late, failure>>
    BY <1>3 DEF TimerFires
  <2>2. /\ cancelHeard' = TRUE /\ rpcCode' \in Codes \ {OK}
        /\ encEnded' \in BOOLEAN /\ encIn' \in Seq(Nat) /\ sent' \in Seq(Frame)
    BY <2>1, CodeFacts, EmitCancelStep
  <2>h. HandlerTypeOK'
    BY <1>0, <2>1, HandlerFrame
  <2>r. RequestTypeOK'
    BY <1>0, <2>1, <2>2 DEF RequestTypeOK
  <2>s. ResponseTypeOK'
    BY <1>0, <2>1, <2>2 DEF ResponseTypeOK
  <2>n. FailureNoted'
    BY <2>2 DEF FailureNoted
  <2> QED
    BY <2>h, <2>r, <2>s, <2>n DEF TypeOK
<1>4. CASE Write
  BY <1>4, WriteStep
<1>5. CASE End
  <2>1. /\ ended' = TRUE /\ rpcCode' \in {rpcCode, NOT_FOUND} /\ EndResponse
        /\ UNCHANGED <<phase, handler, written, streamState, requestVars, encFailed,
                       encOut, congested, late, failure>>
    BY <1>5 DEF End
  <2>2. encEnded' \in BOOLEAN /\ encIn' \in Seq(Nat) /\ sent' \in Seq(Frame)
    BY <1>0, <2>1, EndResponseStep
  <2>h. HandlerTypeOK'
    BY <1>0, <2>1 DEF HandlerTypeOK
  <2>r. RequestTypeOK'
    BY <1>0, <2>1, RequestFrame
  <2>3. rpcCode' = rpcCode \/ rpcCode' \in Codes \ {OK}
    BY <2>1, CodeFacts
  <2>s. ResponseTypeOK'
    BY <1>0, <2>1, <2>2, <2>3 DEF ResponseTypeOK
  <2>n. FailureNoted'
    BY <2>1, <2>3 DEF FailureNoted, requestVars
  <2> QED
    BY <2>h, <2>r, <2>s, <2>n DEF TypeOK
<1>6. CASE RecvMessage
  BY <1>6, RecvMessageStep
<1>7. CASE RecvEnd \/ RecvReset \/ SendEnd
  <2>1. UNCHANGED <<handlerVars, requests, piped, timer, errorHeard, encoderVars, sent,
                    congested, late, failure>>
    BY <1>7 DEF RecvEnd, RecvReset, SendEnd
  <2>2. \/ streamState' \in {"remote", "local"} /\ UNCHANGED <<cancelHeard, rpcCode>>
        \/ CloseStream
    BY <1>7 DEF RecvEnd, RecvReset, SendEnd
  <2>3. \/ streamState' \in {"remote", "local"} /\ UNCHANGED <<cancelHeard, rpcCode>>
        \/ streamState' = "CLOSED" /\ cancelHeard' = TRUE /\ rpcCode' \in Codes \ {OK}
    BY <2>2, CloseStreamStep
  <2>h. HandlerTypeOK'
    BY <1>0, <2>1, HandlerFrame
  <2>r. RequestTypeOK'
    BY <1>0, <2>1, <2>3 DEF RequestTypeOK
  <2>s. ResponseTypeOK'
    BY <1>0, <2>1, <2>3 DEF ResponseTypeOK, encoderVars
  <2>n. FailureNoted'
    BY <2>1, <2>3 DEF FailureNoted, encoderVars
  <2> QED
    BY <2>h, <2>r, <2>s, <2>n DEF TypeOK
<1>8. CASE EncodeNext
  <2>1. /\ encIn # <<>> /\ encIn' = Tail(encIn)
        /\ UNCHANGED <<handlerVars, streamState, requestVars, encEnded, congested, late,
                       failure>>
    BY <1>8 DEF EncodeNext
  <2>2. encIn \in Seq(Nat) /\ encOut \in Seq(Nat)
    BY <1>0 DEF ResponseTypeOK
  <2>3. encIn' \in Seq(Nat) /\ Append(encOut, Head(encIn)) \in Seq(Nat)
    BY <2>1, <2>2, HeadTailProperties, AppendProperties
  <2>h. HandlerTypeOK'
    BY <1>0, <2>1, HandlerFrame
  <2>r. RequestTypeOK'
    BY <1>0, <2>1, RequestFrame
  <2>4. CASE encOut' = Append(encOut, Head(encIn)) /\ UNCHANGED <<encFailed, rpcCode, sent>>
    <3>s. ResponseTypeOK'
      BY <1>0, <2>1, <2>3, <2>4 DEF ResponseTypeOK
    <3>n. FailureNoted'
      BY <2>1, <2>4, NotedFrame DEF requestVars
    <3> QED
      BY <2>h, <2>r, <3>s, <3>n DEF TypeOK
  <2>5. CASE encFailed' = TRUE /\ EncoderError /\ UNCHANGED encOut
    <3>1. rpcCode' \in Codes \ {OK} /\ sent' \in Seq(Frame)
      BY <1>0, <2>5, EncoderErrorStep
    <3>s. ResponseTypeOK'
      BY <1>0, <2>1, <2>3, <2>5, <3>1 DEF ResponseTypeOK
    <3>n. FailureNoted'
      BY <3>1 DEF FailureNoted
    <3> QED
      BY <2>h, <2>r, <3>s, <3>n DEF TypeOK
  <2> QED
    BY <1>8, <2>4, <2>5 DEF EncodeNext
<1>9. CASE PipeEncoded
  <2>1. /\ encOut # <<>> /\ encOut' = Tail(encOut)
        /\ sent' = sent \/ sent' = Append(sent, FrameOf("DATA", Head(encOut)))
        /\ UNCHANGED <<handlerVars, streamState, requestVars, rpcCode, encIn, encEnded,
                       encFailed, congested, late, failure>>
    BY <1>9 DEF PipeEncoded
  <2>2. Head(encOut) \in Nat /\ encOut' \in Seq(Nat) /\ sent \in Seq(Frame)
    BY <1>0, <2>1, HeadTailProperties DEF ResponseTypeOK
  <2>f. FrameOf("DATA", Head(encOut)) \in Frame
    BY <2>2, FrameOfType
  <2>a. sent' = sent \/ sent' = Append(sent, FrameOf("DATA", Head(encOut)))
    BY <2>1
  <2>b. Append(sent, FrameOf("DATA", Head(encOut))) \in Seq(Frame)
    BY <2>2, <2>f, AppendProperties
  <2>3. sent' \in Seq(Frame)
    BY <2>2, <2>a, <2>b
  <2>h. HandlerTypeOK' /\ RequestTypeOK'
    BY <1>0, <2>1, HandlerFrame, RequestFrame
  <2>s. ResponseTypeOK'
    BY <1>0, <2>1, <2>2, <2>3 DEF ResponseTypeOK
  <2>n. FailureNoted'
    BY <2>1, NotedFrame DEF requestVars
  <2> QED
    BY <2>h, <2>s, <2>n DEF TypeOK
<1>10. CASE Finish
  <2>1. /\ encIn # <<>> /\ encIn' = Tail(encIn) /\ FinishWith(rpcCode)
        /\ UNCHANGED <<handlerVars, streamState, requestVars, rpcCode, encEnded, encFailed,
                       encOut, congested, late, failure>>
    BY <1>10 DEF Finish, FinishReady
  <2>2. encIn' \in Seq(Nat) /\ rpcCode \in Codes \cup {None}
    BY <1>0, <2>1, HeadTailProperties DEF ResponseTypeOK
  <2>3. sent' \in Seq(Frame)
    BY <1>0, <2>1, <2>2, FinishWithStep
  <2>h. HandlerTypeOK' /\ RequestTypeOK'
    BY <1>0, <2>1, HandlerFrame, RequestFrame
  <2>s. ResponseTypeOK'
    BY <1>0, <2>1, <2>2, <2>3 DEF ResponseTypeOK
  <2>n. FailureNoted'
    BY <2>1, NotedFrame DEF requestVars
  <2> QED
    BY <2>h, <2>s, <2>n DEF TypeOK
<1>11. CASE UNCHANGED vars
  <2>1. UNCHANGED <<handlerVars, streamState, requestVars, rpcCode, encoderVars, sent,
                    congested, late, failure>>
    BY <1>11 DEF vars
  <2>2. TypeOK'
    BY <1>0, <2>1, HandlerFrame, RequestFrame, ResponseFrame DEF TypeOK
  <2> QED
    BY <2>1, <2>2, NotedFrame DEF requestVars, encoderVars
<1> QED
  BY <1>1, <1>2, <1>3, <1>4, <1>5, <1>6, <1>7, <1>8, <1>9, <1>10, <1>11 DEF Next

LEMMA Invariant == Spec => [](TypeOK /\ FailureNoted)
<1> QED
  BY InitInvariant, NextStep, PTL DEF Spec

-----------------------------------------------------------------------------
(* The first trailers *)

(* The first trailers that _finish hands over carry the status of its code. *)
LEMMA FirstTrailers ==
  ASSUME ResponseTypeOK, ~Handed("TRAILERS"), NEW code \in Codes \cup {None},
         FinishWith(code), Live
  PROVE  TrailerStatus' = Status(code, None)
<1> DEFINE T == FrameOf("TRAILERS", Status(code, None))
           E == FrameOf("END", 0)
<1>1. TrailerStatus = None /\ sent \in Seq(Frame)
  BY DEF TrailerStatus, ResponseTypeOK
<1>2. sent' = sent \o <<T, E>>
  BY <1>1 DEF FinishWith
<1>3. T.type = "TRAILERS" /\ E.type = "END" /\ T.arg = Status(code, None)
  BY DEF FrameOf
<1>4. \A i \in DOMAIN sent : sent[i].type # "TRAILERS"
  BY DEF Handed
<1> HIDE DEF T, E
<1>5. /\ DOMAIN sent' = 1..(Len(sent) + 2)
      /\ \A i \in 1..Len(sent) : sent'[i] = sent[i]
      /\ sent'[Len(sent) + 1] = T /\ sent'[Len(sent) + 2] = E
  BY <1>1, <1>2
<1>6. DOMAIN sent = 1..Len(sent) /\ Len(sent) \in Nat
  BY <1>1, LenProperties
<1>7. \A i \in DOMAIN sent' : sent'[i].type = "TRAILERS" => sent'[i] = T
  <2> SUFFICES ASSUME NEW i \in DOMAIN sent', sent'[i].type = "TRAILERS"
               PROVE  sent'[i] = T
    OBVIOUS
  <2>1. i \in 1..Len(sent) \/ i = Len(sent) + 1 \/ i = Len(sent) + 2
    BY <1>5, <1>6
  <2> QED
    BY <1>3, <1>4, <1>5, <1>6, <2>1
<1>8. Len(sent) + 1 \in DOMAIN sent' /\ sent'[Len(sent) + 1].type = "TRAILERS"
  BY <1>3, <1>5, <1>6
<1>9. (CHOOSE f \in {sent'[i] : i \in DOMAIN sent'} : f.type = "TRAILERS") = T
  BY <1>7, <1>8
<1>10. Handed("TRAILERS")'
  BY <1>8 DEF Handed
<1> QED
  BY <1>3, <1>9, <1>10 DEF TrailerStatus

(* Frames of other types bring no trailers. *)
LEMMA NoTrailersBy ==
  ASSUME ResponseTypeOK, ~Handed("TRAILERS"), NEW f \in Frame, f.type # "TRAILERS",
         sent' = Append(sent, f)
  PROVE  ~Handed("TRAILERS")'
<1>1. sent \in Seq(Frame)
  BY DEF ResponseTypeOK
<1>2. \A i \in DOMAIN sent' : sent'[i] = f \/ (i \in DOMAIN sent /\ sent'[i] = sent[i])
  BY <1>1
<1> QED
  BY <1>2 DEF Handed

LEMMA NoTrailersByHeaders ==
  ASSUME ResponseTypeOK, ~Handed("TRAILERS"), sent' \in {sent, WithHeaders}
  PROVE  ~Handed("TRAILERS")'
<1>1. FrameOf("HEADERS", 0) \in Frame /\ FrameOf("HEADERS", 0).type # "TRAILERS"
  BY FrameOfType DEF FrameOf
<1>2. sent' = sent \/ sent' = Append(sent, FrameOf("HEADERS", 0))
  BY DEF WithHeaders
<1>3. CASE sent' = sent
  BY <1>3 DEF Handed
<1> QED
  BY <1>1, <1>2, <1>3, NoTrailersBy

(* A code other than OK, set by the time _finish runs, is the status. *)
LEMMA FailureIsStatus ==
  ASSUME ResponseTypeOK, ~Handed("TRAILERS"), Handed("TRAILERS")',
         NEW code \in Codes \ {OK}, FinishWith(code)
  PROVE  TrailerStatus' # OK
<1>1. Live
  <2>1. CASE ~Live
    <3>1. sent' = sent
      BY <2>1 DEF FinishWith
    <3> QED
      BY <3>1 DEF Handed
  <2> QED
    BY <2>1
<1>2. TrailerStatus' = Status(code, None)
  BY <1>1, FirstTrailers
<1> QED
  BY <1>2, CodeFacts DEF Status

LEMMA FailureStep ==
  ASSUME TypeOK, FailureNoted, [Next]_vars, ~Handed("TRAILERS"), Handed("TRAILERS")',
         cancelHeard \/ errorHeard \/ encFailed'
  PROVE  TrailerStatus' # OK
<1>0. ResponseTypeOK
  BY DEF TypeOK
<1>i. INTERNAL \in Codes \ {OK}
  BY CodeFacts
<1>e. ASSUME EncoderError PROVE TrailerStatus' # OK
  BY <1>0, <1>e, <1>i, FailureIsStatus DEF EncoderError
<1>1. CASE sent' \in {sent, WithHeaders}
  BY <1>0, <1>1, NoTrailersByHeaders
<1>2. CASE CheckTimeout
  <2>1. FrameOf("RST", 0) \in Frame /\ FrameOf("RST", 0).type # "TRAILERS"
    BY FrameOfType DEF FrameOf
  <2>2. sent' = sent \/ sent' = Append(sent, FrameOf("RST", 0))
    BY <1>2 DEF CheckTimeout
  <2> QED
    BY <1>0, <1>1, <2>1, <2>2, NoTrailersBy
<1>3. CASE RecvHeaders \/ HandlerThrows \/ RecvEnd \/ RecvReset \/ SendEnd \/ UNCHANGED vars
  BY <1>1, <1>3 DEF RecvHeaders, HandlerThrows, RecvEnd, RecvReset, SendEnd, vars
<1>4. CASE TimerFires \/ End
  <2>1. EmitCancel(DEADLINE_EXCEEDED) \/ EndResponse
    BY <1>4 DEF TimerFires, End
  <2> QED
    BY <1>1, <2>1 DEF EmitCancel, CancelEndsResponse, EndResponse
<1>5. CASE Write
  BY <1>1, <1>5, <1>e DEF Write
<1>6. CASE RecvMessage
  <2>1. CASE \E code : Fallback(code)
    BY <1>1, <1>e, <2>1 DEF Fallback
  <2>2. CASE EmitCancel(INTERNAL) \/ EmitError \/ UNCHANGED sent
    BY <1>1, <2>2 DEF EmitCancel, EmitError, CancelEndsResponse, EndResponse
  <2> QED
    BY <1>6, <2>1, <2>2 DEF RecvMessage
<1>7. CASE EncodeNext
  BY <1>1, <1>7, <1>e DEF EncodeNext
<1>8. CASE PipeEncoded
  <2>1. Head(encOut) \in Nat
    BY <1>0, <1>8, HeadTailProperties DEF PipeEncoded, ResponseTypeOK
  <2>2. FrameOf("DATA", Head(encOut)) \in Frame
        /\ FrameOf("DATA", Head(encOut)).type # "TRAILERS"
    BY <2>1, FrameOfType DEF FrameOf
  <2>3. sent' = sent \/ sent' = Append(sent, FrameOf("DATA", Head(encOut)))
    BY <1>8 DEF PipeEncoded
  <2> QED
    BY <1>0, <1>1, <2>2, <2>3, NoTrailersBy
<1>9. CASE Finish
  <2>1. FinishWith(rpcCode) /\ UNCHANGED encFailed
    BY <1>9 DEF Finish
  <2>2. rpcCode \in Codes \ {OK}
    BY <2>1 DEF FailureNoted
  <2> QED
    BY <1>0, <2>1, <2>2, FailureIsStatus
<1> QED
  BY <1>2, <1>3, <1>4, <1>5, <1>6, <1>7, <1>8, <1>9 DEF Next

-----------------------------------------------------------------------------
(* What a step does to the response, whoever takes it.                     *)

(* Frames of these types, if any, are handed to the stream. *)
SentGrows(types) ==
  /\ sent' \in Seq(Frame) /\ Len(sent) <= Len(sent')
  /\ \A i \in 1..Len(sent) : sent'[i] = sent[i]
  /\ \A i \in (Len(sent) + 1)..Len(sent') : sent'[i].type \in types

Quiet ==
  /\ SentGrows({"HEADERS", "RST"})
  /\ UNCHANGED <<written, encoderVars, late>>

Ends ==
  /\ SentGrows({"HEADERS"})
  /\ ~encEnded /\ encEnded' = TRUE /\ encIn' = Append(encIn, 0)
  /\ UNCHANGED <<written, encFailed, encOut, late>>

Writes1 ==
  /\ SentGrows({"HEADERS"})
  /\ ~encEnded /\ written' = written + 1 /\ encIn' = Append(encIn, written + 1)
  /\ UNCHANGED <<encEnded, encFailed, encOut, late>>

WritesLast ==
  /\ SentGrows({"HEADERS"})
  /\ ~encEnded /\ encEnded' = TRUE
  /\ written' = written + 1 /\ encIn' = encIn \o <<written + 1, 0>>
  /\ UNCHANGED <<encFailed, encOut, late>>

WritesLate ==
  /\ SentGrows({"TRAILERS", "END"})
  /\ late' = TRUE
  /\ UNCHANGED <<written, encoderVars>>

Encodes ==
  /\ ~encFailed /\ encIn # <<>> /\ Head(encIn) # 0
  /\ encIn' = Tail(encIn) /\ encOut' = Append(encOut, Head(encIn))
  /\ UNCHANGED <<written, encEnded, encFailed, sent, late>>

Fails ==
  /\ ~encFailed /\ encIn # <<>> /\ Head(encIn) # 0
  /\ encIn' = Tail(encIn) /\ encFailed' = TRUE
  /\ FinishWith(INTERNAL)
  /\ UNCHANGED <<written, encEnded, encOut, late>>

Pipes ==
  /\ encOut # <<>> /\ encOut' = Tail(encOut)
  /\ sent' = IF Live /\ ~Handed("END") THEN Append(sent, FrameOf("DATA", Head(encOut)))
             ELSE sent
  /\ UNCHANGED <<written, encIn, encEnded, encFailed, late>>

Finishes ==
  /\ FinishReady
  /\ encIn' = Tail(encIn)
  /\ FinishWith(rpcCode)
  /\ UNCHANGED <<written, encEnded, encFailed, encOut, late>>

LEMMA SameGrows ==
  ASSUME ResponseTypeOK, sent' = sent, NEW types
  PROVE  SentGrows(types)
<1>1. sent \in Seq(Frame) /\ Len(sent) \in Nat
  BY LenProperties DEF ResponseTypeOK
<1> QED
  BY <1>1 DEF SentGrows

LEMMA AppendGrows ==
  ASSUME ResponseTypeOK, NEW f \in Frame, sent' = Append(sent, f), NEW types, f.type \in types
  PROVE  SentGrows(types)
<1>1. sent \in Seq(Frame) /\ Len(sent) \in Nat
  BY LenProperties DEF ResponseTypeOK
<1>2. /\ sent' \in Seq(Frame) /\ Len(sent') = Len(sent) + 1
      /\ \A i \in 1..Len(sent) : sent'[i] = sent[i]
      /\ sent'[Len(sent) + 1] = f
  BY <1>1, AppendProperties
<1> QED
  BY <1>1, <1>2 DEF SentGrows

LEMMA HeadersGrow ==
  ASSUME ResponseTypeOK, sent' = WithHeaders, NEW types, "HEADERS" \in types
  PROVE  SentGrows(types)
<1>1. FrameOf("HEADERS", 0) \in Frame /\ FrameOf("HEADERS", 0).type = "HEADERS"
  BY FrameOfType DEF FrameOf
<1> QED
  BY <1>1, AppendGrows, SameGrows DEF WithHeaders

LEMMA PipeGrows ==
  ASSUME ResponseTypeOK, Pipes
  PROVE  SentGrows({"DATA"})
<1>1. Head(encOut) \in Nat
  BY HeadTailProperties DEF Pipes, ResponseTypeOK
<1>2. FrameOf("DATA", Head(encOut)) \in Frame /\ FrameOf("DATA", Head(encOut)).type = "DATA"
  BY <1>1, FrameOfType DEF FrameOf
<1> QED
  BY <1>2, SameGrows, AppendGrows DEF Pipes

LEMMA FinishGrows ==
  ASSUME ResponseTypeOK, NEW code \in Codes \cup {None}, FinishWith(code)
  PROVE  SentGrows({"TRAILERS", "END"})
<1> DEFINE T == FrameOf("TRAILERS", Status(code, TrailerStatus))
           E == FrameOf("END", 0)
<1>1. T \in Frame /\ E \in Frame /\ T.type = "TRAILERS" /\ E.type = "END"
  BY StatusType, FrameOfType DEF FrameOf
<1>2. sent' = sent \/ sent' = sent \o <<T, E>>
  BY DEF FinishWith
<1> HIDE DEF T, E
<1>3. sent \in Seq(Frame) /\ Len(sent) \in Nat
  BY LenProperties DEF ResponseTypeOK
<1>4. CASE sent' = sent \o <<T, E>>
  <2>1. /\ sent' \in Seq(Frame) /\ Len(sent') = Len(sent) + 2
        /\ \A i \in 1..Len(sent) : sent'[i] = sent[i]
        /\ sent'[Len(sent) + 1] = T /\ sent'[Len(sent) + 2] = E
    BY <1>1, <1>3, <1>4
  <2> QED
    BY <1>1, <1>3, <2>1 DEF SentGrows
<1> QED
  BY <1>2, <1>4, SameGrows

LEMMA EndResponseKinds ==
  ASSUME TypeOK, EndResponse, UNCHANGED <<written, encFailed, encOut, late>>
  PROVE  Quiet \/ Ends
<1>0. ResponseTypeOK
  BY DEF TypeOK
<1>1. CASE Live /\ ~encEnded
  <2>1. encEnded' = TRUE /\ encIn' = Append(encIn, 0) /\ sent' = WithHeaders
    BY <1>1 DEF EndResponse
  <2>2. SentGrows({"HEADERS"})
    BY <1>0, <2>1, HeadersGrow
  <2> QED
    BY <1>1, <2>1, <2>2 DEF Ends
<1>2. CASE ~(Live /\ ~encEnded)
  <2>1. UNCHANGED <<encEnded, encIn, sent>>
    BY <1>2 DEF EndResponse
  <2> QED
    BY <1>0, <2>1, SameGrows DEF Quiet, encoderVars
<1> QED
  BY <1>1, <1>2

LEMMA LateKind ==
  ASSUME TypeOK, EncoderError, late' = TRUE, UNCHANGED <<written, encoderVars>>
  PROVE  WritesLate
<1>1. INTERNAL \in Codes
  BY CodeFacts
<1> QED
  BY <1>1, FinishGrows DEF TypeOK, EncoderError, WritesLate

LEMMA WriteKinds ==
  ASSUME TypeOK, Write
  PROVE  /\ Live' => Live
         /\ congested' = congested
         /\ Quiet \/ Writes1 \/ WritesLate
<1>0. ResponseTypeOK
  BY DEF TypeOK
<1>1. /\ UNCHANGED <<phase, handler, ended, streamState, requestVars>>
      /\ UNCHANGED <<encEnded, encFailed, encOut, congested>>
  BY DEF Write
<1>2. (Live' => Live) /\ congested' = congested
  BY <1>1 DEF Live
<1>3. CASE UNCHANGED <<written, rpcCode, encIn, sent, late>>
  BY <1>0, <1>1, <1>2, <1>3, SameGrows DEF Quiet, encoderVars
<1>4. CASE /\ ~encEnded /\ written' = written + 1 /\ encIn' = Append(encIn, written + 1)
           /\ sent' = WithHeaders /\ UNCHANGED <<rpcCode, late, failure>>
  <2>1. SentGrows({"HEADERS"})
    BY <1>0, <1>4, HeadersGrow
  <2> QED
    BY <1>1, <1>2, <1>4, <2>1 DEF Writes1
<1>5. CASE late' = TRUE /\ EncoderError /\ UNCHANGED <<written, encIn, failure>>
  BY <1>1, <1>2, <1>5, LateKind DEF encoderVars
<1> QED
  BY <1>2, <1>3, <1>4, <1>5 DEF Write

(* Every step does one of these; a stream that is CLOSED stays so, and one *)
(* that pushes back or keeps up does so for good.                          *)
LEMMA StepKinds ==
  ASSUME TypeOK, [Next]_vars
  PROVE  /\ Live' => Live
         /\ congested' = congested
         /\ \/ Quiet \/ Ends \/ Writes1 \/ WritesLast \/ WritesLate
            \/ Encodes \/ Fails \/ Pipes \/ Finishes
<1> DEFINE Kinds == \/ Quiet \/ Ends \/ Writes1 \/ WritesLast \/ WritesLate
                    \/ Encodes \/ Fails \/ Pipes \/ Finishes
<1> HIDE DEF Kinds
<1>0. ResponseTypeOK
  BY DEF TypeOK
<1>q. ASSUME UNCHANGED <<written, encoderVars, late>>, sent' = sent PROVE Kinds
  BY <1>0, <1>q, SameGrows DEF Kinds, Quiet
<1>e. ASSUME EndResponse, UNCHANGED <<written, encFailed, encOut, late>> PROVE Kinds
  BY <1>e, EndResponseKinds DEF Kinds
<1>1. CASE RecvHeaders \/ HandlerThrows \/ RecvEnd \/ RecvReset \/ SendEnd \/ UNCHANGED vars
  <2>1. /\ UNCHANGED <<written, encoderVars, late>> /\ sent' = sent
        /\ congested' = congested
    BY <1>1 DEF RecvHeaders, HandlerThrows, RecvEnd, RecvReset, SendEnd, vars, handlerVars
  <2>2. Live' => Live
    BY <1>1 DEF RecvHeaders, HandlerThrows, RecvEnd, RecvReset, SendEnd, vars, Live, CloseStream
  <2> QED
    BY <1>q, <2>1, <2>2 DEF Kinds
<1>2. CASE CheckTimeout
  <2>1. UNCHANGED <<written, encoderVars, late, congested>>
    BY <1>2 DEF CheckTimeout
  <2>2. \/ sent' = sent /\ UNCHANGED streamState
        \/ sent' = Append(sent, FrameOf("RST", 0)) /\ streamState' = "CLOSED"
    BY <1>2 DEF CheckTimeout
  <2>3. FrameOf("RST", 0) \in Frame /\ FrameOf("RST", 0).type = "RST"
    BY FrameOfType DEF FrameOf
  <2>4. SentGrows({"HEADERS", "RST"})
    BY <1>0, <2>2, <2>3, SameGrows, AppendGrows
  <2> QED
    BY <2>1, <2>2, <2>4 DEF Quiet, Live
<1>3. CASE TimerFires
  <2>1. /\ EmitCancel(DEADLINE_EXCEEDED)
        /\ UNCHANGED <<written, encFailed, encOut, late, congested, streamState>>
    BY <1>3 DEF TimerFires, handlerVars
  <2>2. EndResponse \/ UNCHANGED <<encEnded, encIn, sent>>
    BY <2>1 DEF EmitCancel, CancelEndsResponse
  <2> QED
    BY <1>q, <1>e, <2>1, <2>2 DEF Kinds, encoderVars, Live
<1>4. CASE Write
  BY <1>4, WriteKinds DEF Kinds
<1>5. CASE End
  <2>1. EndResponse /\ UNCHANGED <<written, encFailed, encOut, late, congested, streamState>>
    BY <1>5 DEF End
  <2> QED
    BY <1>e, <2>1 DEF Kinds, Live
<1>6. CASE RecvMessage
  <2>1. UNCHANGED <<streamState, encFailed, encOut, congested>>
    BY <1>6 DEF RecvMessage
  <2>2. CASE \E code : Fallback(code)
    <3>1. CASE encEnded
      <4>1. late' = TRUE /\ EncoderError /\ UNCHANGED <<written, encIn, encEnded>>
        BY <2>2, <3>1 DEF Fallback
      <4> QED
        BY <2>1, <4>1, LateKind DEF encoderVars, Live
    <3>2. CASE ~encEnded
      <4>1. /\ written' = written + 1 /\ encIn' = encIn \o <<written + 1, 0>>
            /\ encEnded' = TRUE /\ sent' = WithHeaders /\ UNCHANGED late
        BY <2>2, <3>2 DEF Fallback
      <4>2. SentGrows({"HEADERS"})
        BY <1>0, <4>1, HeadersGrow
      <4> QED
        BY <2>1, <3>2, <4>1, <4>2 DEF WritesLast, Live
    <3> QED
      BY <3>1, <3>2
  <2>3. CASE /\ EmitCancel(INTERNAL) \/ EmitError \/ UNCHANGED <<encIn, encEnded, sent>>
             /\ UNCHANGED <<written, late>>
    <3>1. EmitCancel(INTERNAL) => EndResponse \/ UNCHANGED <<encEnded, encIn, sent>>
      BY DEF EmitCancel, CancelEndsResponse
    <3>2. EmitError => EndResponse \/ UNCHANGED <<encEnded, encIn, sent>>
      BY DEF EmitError
    <3>3. EndResponse \/ UNCHANGED <<encEnded, encIn, sent>>
      BY <2>3, <3>1, <3>2
    <3> QED
      BY <1>q, <1>e, <2>1, <2>3, <3>3 DEF Kinds, encoderVars, Live
  <2> QED
    BY <1>6, <2>2, <2>3 DEF RecvMessage
<1>7. CASE EncodeNext
  <2>1. /\ ~encFailed /\ encIn # <<>> /\ Head(encIn) # 0 /\ encIn' = Tail(encIn)
        /\ UNCHANGED <<written, streamState, encEnded, congested, late>>
    BY <1>7 DEF EncodeNext, handlerVars
  <2>2. \/ encOut' = Append(encOut, Head(encIn)) /\ UNCHANGED <<encFailed, sent>>
        \/ encFailed' = TRUE /\ EncoderError /\ UNCHANGED encOut
    BY <1>7 DEF EncodeNext
  <2> QED
    BY <2>1, <2>2 DEF Encodes, Fails, EncoderError, Live
<1>8. CASE PipeEncoded
  BY <1>8 DEF PipeEncoded, Pipes, handlerVars, Live
<1>9. CASE Finish
  BY <1>9 DEF Finish, Finishes, handlerVars, Live
<1> QED
  BY <1>1, <1>2, <1>3, <1>4, <1>5, <1>6, <1>7, <1>8, <1>9 DEF Next, Kinds

-----------------------------------------------------------------------------
(* The trailers are handed over once, and when nothing is left to encode. *)

(* A 0 comes last, and is there as long as an ended encoder has work left. *)
EncShape ==
  /\ \A i \in 1..Len(encIn) : encIn[i] = 0 => encEnded /\ i = Len(encIn)
  /\ encEnded /\ encIn # <<>> => encIn[Len(encIn)] = 0

Settled ==
  ~late /\ (Handed("TRAILERS") \/ Handed("END")) => encFailed \/ (encEnded /\ encIn = <<>>)

OnlyOne ==
  ~late => \A i, j \in 1..Len(sent) :
             sent[i].type = "TRAILERS" /\ sent[j].type = "TRAILERS" => i = j

LEMMA HandedGrows ==
  ASSUME ResponseTypeOK, NEW types, SentGrows(types), NEW type
  PROVE  /\ Handed(type) => Handed(type)'
         /\ type \notin types => (Handed(type)' => Handed(type))
<1>1. /\ DOMAIN sent = 1..Len(sent) /\ Len(sent) \in Nat
      /\ DOMAIN sent' = 1..Len(sent') /\ Len(sent') \in Nat
  BY LenProperties DEF ResponseTypeOK, SentGrows
<1>2. ASSUME NEW i \in 1..Len(sent), sent[i].type = type PROVE Handed(type)'
  BY <1>1, <1>2 DEF Handed, SentGrows
<1>3. ASSUME type \notin types, NEW i \in 1..Len(sent'), sent'[i].type = type PROVE Handed(type)
  BY <1>1, <1>3 DEF Handed, SentGrows
<1> QED
  BY <1>1, <1>2, <1>3 DEF Handed

LEMMA EncShapeStep ==
  ASSUME ResponseTypeOK, HandlerTypeOK, EncShape,
         \/ Quiet \/ Ends \/ Writes1 \/ WritesLast \/ WritesLate
         \/ Encodes \/ Fails \/ Pipes \/ Finishes
  PROVE  EncShape'
<1>0. encIn \in Seq(Nat) /\ Len(encIn) \in Nat /\ written \in Nat
  BY LenProperties DEF ResponseTypeOK, HandlerTypeOK
<1>1. CASE UNCHANGED <<encIn, encEnded>>
  BY <1>1 DEF EncShape
<1>2. CASE Ends
  <2>1. /\ ~encEnded /\ encEnded' /\ encIn' = Append(encIn, 0)
    BY <1>2 DEF Ends
  <2>2. /\ Len(encIn') = Len(encIn) + 1 /\ encIn'[Len(encIn) + 1] = 0
        /\ \A i \in 1..Len(encIn) : encIn'[i] = encIn[i]
    BY <1>0, <2>1, AppendProperties
  <2> QED
    BY <1>0, <2>1, <2>2 DEF EncShape
<1>3. CASE Writes1
  <2>1. /\ ~encEnded /\ ~encEnded' /\ encIn' = Append(encIn, written + 1)
    BY <1>3 DEF Writes1
  <2>2. /\ Len(encIn') = Len(encIn) + 1 /\ encIn'[Len(encIn) + 1] = written + 1
        /\ \A i \in 1..Len(encIn) : encIn'[i] = encIn[i]
    BY <1>0, <2>1, AppendProperties
  <2> QED
    BY <1>0, <2>1, <2>2 DEF EncShape
<1>4. CASE WritesLast
  <2>1. /\ ~encEnded /\ encEnded' /\ encIn' = encIn \o <<written + 1, 0>>
    BY <1>4 DEF WritesLast
  <2>2. /\ Len(encIn') = Len(encIn) + 2
        /\ encIn'[Len(encIn) + 1] = written + 1 /\ encIn'[Len(encIn) + 2] = 0
        /\ \A i \in 1..Len(encIn) : encIn'[i] = encIn[i]
    BY <1>0, <2>1
  <2> QED
    BY <1>0, <2>1, <2>2 DEF EncShape
<1>5. CASE encIn # <<>> /\ encIn' = Tail(encIn) /\ UNCHANGED encEnded
  <2>1. /\ Len(encIn') = Len(encIn) - 1
        /\ \A i \in 1..Len(encIn') : encIn'[i] = encIn[i + 1]
        /\ Len(encIn') \in Nat /\ (encIn' # <<>> => Len(encIn') >= 1)
    BY <1>0, <1>5, HeadTailProperties, LenProperties
  <2>2. \A i \in 1..Len(encIn') : encIn'[i] = 0 => encEnded' /\ i = Len(encIn')
    <3> SUFFICES ASSUME NEW i \in 1..Len(encIn'), encIn'[i] = 0
                 PROVE  encEnded' /\ i = Len(encIn')
      OBVIOUS
    <3>1. i + 1 \in 1..Len(encIn) /\ encIn[i + 1] = 0
      BY <1>0, <2>1
    <3>2. encEnded /\ i + 1 = Len(encIn)
      BY <3>1 DEF EncShape
    <3>3. i = Len(encIn')
      BY <1>0, <2>1, <3>2
    <3>4. encEnded'
      BY <1>5, <3>2
    <3> QED
      BY <3>3, <3>4
  <2>3. ASSUME encEnded', encIn' # <<>> PROVE encIn'[Len(encIn')] = 0
    <3>1. encIn[Len(encIn)] = 0
      BY <1>5, <2>3 DEF EncShape
    <3> QED
      BY <1>0, <2>1, <2>3, <3>1
  <2> QED
    BY <2>2, <2>3 DEF EncShape
<1> QED
  BY <1>1, <1>2, <1>3, <1>4, <1>5
  DEF Quiet, WritesLate, Encodes, Fails, Pipes, Finishes, FinishReady, encoderVars

(* If the encoder's end is next, it is all that is left, and was asked for. *)
LEMMA ZeroIsLast ==
  ASSUME ResponseTypeOK, EncShape, encIn # <<>>, Head(encIn) = 0
  PROVE  encEnded /\ Len(encIn) = 1 /\ Tail(encIn) = <<>>
<1>1. encIn \in Seq(Nat) /\ Len(encIn) \in Nat /\ Len(encIn) >= 1 /\ encIn[1] = 0
  BY HeadTailProperties, LenProperties DEF ResponseTypeOK
<1>2. 1 \in 1..Len(encIn)
  BY <1>1
<1>3. encEnded /\ Len(encIn) = 1
  BY <1>1, <1>2 DEF EncShape
<1>4. Tail(encIn) \in Seq(Nat) /\ Len(Tail(encIn)) = 0
  BY <1>1, <1>3, HeadTailProperties
<1> QED
  BY <1>3, <1>4, EmptySeq

LEMMA SettledStep ==
  ASSUME ResponseTypeOK, EncShape, Settled,
         \/ Quiet \/ Ends \/ Writes1 \/ WritesLast \/ WritesLate
         \/ Encodes \/ Fails \/ Pipes \/ Finishes
  PROVE  Settled'
<1>1. CASE Quiet
  <2>1. SentGrows({"HEADERS", "RST"}) /\ UNCHANGED <<encoderVars, late>>
    BY <1>1 DEF Quiet
  <2>2. (Handed("TRAILERS")' => Handed("TRAILERS")) /\ (Handed("END")' => Handed("END"))
    BY <2>1, HandedGrows
  <2> QED
    BY <2>1, <2>2 DEF Settled, encoderVars
<1>2. CASE Ends \/ Writes1 \/ WritesLast
  <2>1. SentGrows({"HEADERS"}) /\ ~encEnded /\ UNCHANGED <<encFailed, late>>
    BY <1>2 DEF Ends, Writes1, WritesLast
  <2>2. (Handed("TRAILERS")' => Handed("TRAILERS")) /\ (Handed("END")' => Handed("END"))
    BY <2>1, HandedGrows
  <2> QED
    BY <2>1, <2>2 DEF Settled
<1>3. CASE WritesLate
  BY <1>3 DEF WritesLate, Settled
<1>4. CASE Encodes
  <2>1. ~encFailed /\ encIn # <<>> /\ sent' = sent /\ late' = late
    BY <1>4 DEF Encodes
  <2>2. (Handed("TRAILERS")' => Handed("TRAILERS")) /\ (Handed("END")' => Handed("END"))
    BY <2>1 DEF Handed
  <2> QED
    BY <2>1, <2>2 DEF Settled
<1>5. CASE Fails
  BY <1>5 DEF Fails, Settled
<1>6. CASE Pipes
  <2>1. UNCHANGED <<encIn, encEnded, encFailed, late>>
    BY <1>6 DEF Pipes
  <2>2. (Handed("TRAILERS")' => Handed("TRAILERS")) /\ (Handed("END")' => Handed("END"))
    BY <1>6, PipeGrows, HandedGrows
  <2> QED
    BY <2>1, <2>2 DEF Settled
<1>7. CASE Finishes
  <2>1. encEnded' /\ encIn' = <<>>
    BY <1>7, ZeroIsLast DEF Finishes, FinishReady
  <2> QED
    BY <2>1 DEF Settled
<1> QED
  BY <1>1, <1>2, <1>3, <1>4, <1>5, <1>6, <1>7

LEMMA OnlyOneStep ==
  ASSUME ResponseTypeOK, Settled, OnlyOne,
         \/ Quiet \/ Ends \/ Writes1 \/ WritesLast \/ WritesLate
         \/ Encodes \/ Fails \/ Pipes \/ Finishes
  PROVE  OnlyOne'
<1>0. sent \in Seq(Frame) /\ Len(sent) \in Nat
  BY LenProperties DEF ResponseTypeOK
<1>1. ASSUME NEW types, SentGrows(types), "TRAILERS" \notin types, late' = late
      PROVE  OnlyOne'
  <2>1. Len(sent') \in Nat
    BY <1>1, LenProperties DEF SentGrows
  <2> QED
    BY <1>0, <1>1, <2>1 DEF OnlyOne, SentGrows
<1>2. CASE sent' = sent /\ late' = late
  BY <1>2 DEF OnlyOne
<1>3. ASSUME NEW code, FinishWith(code), ~Handed("TRAILERS"), late' = late PROVE OnlyOne'
  <2> DEFINE T == FrameOf("TRAILERS", Status(code, TrailerStatus))
             E == FrameOf("END", 0)
  <2>1. sent' = sent \/ sent' = sent \o <<T, E>>
    BY <1>3 DEF FinishWith
  <2>2. E.type = "END"
    BY DEF FrameOf
  <2>3. \A i \in 1..Len(sent) : sent[i].type # "TRAILERS"
    BY <1>0, <1>3, LenProperties DEF Handed
  <2> HIDE DEF T, E
  <2>4. CASE sent' = sent \o <<T, E>>
    <3>1. /\ Len(sent') = Len(sent) + 2 /\ sent'[Len(sent) + 2] = E
          /\ \A i \in 1..Len(sent) : sent'[i] = sent[i]
      BY <1>0, <2>4
    <3> QED
      BY <1>0, <2>2, <2>3, <3>1 DEF OnlyOne
  <2> QED
    BY <1>2, <1>3, <2>1, <2>4
<1>4. CASE WritesLate
  BY <1>4 DEF WritesLate, OnlyOne
<1>5. CASE Fails \/ Finishes
  <2>1. /\ ~encFailed /\ encIn # <<>> /\ late' = late
        /\ FinishWith(INTERNAL) \/ FinishWith(rpcCode)
    BY <1>5 DEF Fails, Finishes, FinishReady
  <2>2. CASE late
    BY <2>1, <2>2 DEF OnlyOne
  <2>3. CASE ~late
    BY <1>3, <2>1, <2>3 DEF Settled
  <2> QED
    BY <2>2, <2>3
<1>6. CASE Pipes
  BY <1>1, <1>6, PipeGrows DEF Pipes
<1> QED
  BY <1>1, <1>2, <1>4, <1>5, <1>6 DEF Quiet, Ends, Writes1, WritesLast, Encodes

-----------------------------------------------------------------------------
(* What is sent are the first n messages; m messages were encoded, those not *)
(* yet piped on are the last of them, and what was written after is encIn.   *)

DataPart(n) ==
  /\ \A i \in 1..Len(sent) : sent[i].type = "DATA" => sent[i].arg \in 1..n
  /\ \A i, j \in 1..Len(sent) :
       sent[i].type = "DATA" /\ sent[j].type = "DATA" /\ i < j => sent[i].arg < sent[j].arg
  /\ \A k \in 1..n : \E i \in 1..Len(sent) : sent[i].type = "DATA" /\ sent[i].arg = k

OutPart(n, m) ==
  /\ \A i \in 1..Len(encOut) : encOut[i] = m - Len(encOut) + i
  /\ n + Len(encOut) <= m
  /\ Live /\ ~Handed("END") => n + Len(encOut) = m

InPart(m) ==
  /\ m <= written
  /\ ~encFailed =>
       /\ \A i \in 1..Len(encIn) : encIn[i] # 0 => encIn[i] = m + i
       /\ written = m + IF encEnded /\ encIn # <<>> THEN Len(encIn) - 1 ELSE Len(encIn)

AllPart(n) == Handed("TRAILERS") /\ ~congested /\ ~late /\ ~encFailed => n = written

FlowAt(n, m) == DataPart(n) /\ OutPart(n, m) /\ InPart(m) /\ AllPart(n)
Flow == \E n, m \in Nat : FlowAt(n, m)

LEMMA SentLen == ResponseTypeOK => sent \in Seq(Frame) /\ Len(sent) \in Nat
<1> QED
  BY LenProperties DEF ResponseTypeOK

LEMMA DataKept ==
  ASSUME ResponseTypeOK, NEW types, SentGrows(types), "DATA" \notin types,
         NEW n \in Nat, DataPart(n)
  PROVE  DataPart(n)'
<1>1. Len(sent) \in Nat /\ Len(sent') \in Nat
  BY SentLen, LenProperties DEF SentGrows
<1>2. \A i \in 1..Len(sent') : sent'[i].type = "DATA" => i \in 1..Len(sent) /\ sent'[i] = sent[i]
  BY <1>1 DEF SentGrows
<1>3. \A i \in 1..Len(sent) : i \in 1..Len(sent') /\ sent'[i] = sent[i]
  BY <1>1 DEF SentGrows
<1>4. \A i \in 1..Len(sent') : sent'[i].type = "DATA" => sent'[i].arg \in 1..n
  BY <1>2 DEF DataPart
<1>5. \A i, j \in 1..Len(sent') :
        sent'[i].type = "DATA" /\ sent'[j].type = "DATA" /\ i < j => sent'[i].arg < sent'[j].arg
  BY <1>2 DEF DataPart
<1>6. \A k \in 1..n : \E i \in 1..Len(sent') : sent'[i].type = "DATA" /\ sent'[i].arg = k
  BY <1>3 DEF DataPart
<1> QED
  BY <1>4, <1>5, <1>6 DEF DataPart

LEMMA DataGrows ==
  ASSUME ResponseTypeOK, NEW n \in Nat, DataPart(n), sent' = Append(sent, FrameOf("DATA", n + 1))
  PROVE  DataPart(n + 1)'
<1> DEFINE f == FrameOf("DATA", n + 1)
<1>1. f.type = "DATA" /\ f.arg = n + 1
  BY DEF FrameOf
<1> HIDE DEF f
<1>2. sent \in Seq(Frame) /\ Len(sent) \in Nat
  BY SentLen
<1>3. /\ Len(sent') = Len(sent) + 1 /\ sent'[Len(sent) + 1] = f
      /\ \A i \in 1..Len(sent) : sent'[i] = sent[i]
  BY <1>2 DEF f
<1>4. \A i \in 1..Len(sent') : sent'[i].type = "DATA" => sent'[i].arg \in 1..(n + 1)
  BY <1>1, <1>2, <1>3 DEF DataPart
<1>5. ASSUME NEW i \in 1..Len(sent'), NEW j \in 1..Len(sent'),
             sent'[i].type = "DATA", sent'[j].type = "DATA", i < j
      PROVE  sent'[i].arg < sent'[j].arg
  <2>1. i \in 1..Len(sent) /\ sent'[i] = sent[i] /\ sent[i].arg \in 1..n
    BY <1>2, <1>3, <1>5 DEF DataPart
  <2>2. CASE j = Len(sent) + 1
    BY <1>1, <1>3, <2>1, <2>2
  <2>3. CASE j \in 1..Len(sent)
    BY <1>3, <1>5, <2>1, <2>3 DEF DataPart
  <2> QED
    BY <1>2, <1>3, <2>2, <2>3
<1>6. ASSUME NEW k \in 1..(n + 1)
      PROVE  \E i \in 1..Len(sent') : sent'[i].type = "DATA" /\ sent'[i].arg = k
  <2>1. CASE k = n + 1
    BY <1>1, <1>2, <1>3, <2>1
  <2>2. CASE k \in 1..n
    <3>1. PICK i \in 1..Len(sent) : sent[i].type = "DATA" /\ sent[i].arg = k
      BY <2>2 DEF DataPart
    <3>2. i \in 1..Len(sent') /\ sent'[i] = sent[i]
      BY <1>2, <1>3
    <3> QED
      BY <3>1, <3>2
  <2> QED
    BY <2>1, <2>2
<1> QED
  BY <1>4, <1>5, <1>6 DEF DataPart

LEMMA OutKept ==
  ASSUME ResponseTypeOK, NEW types, SentGrows(types), Live' => Live, encOut' = encOut,
         NEW n \in Nat, NEW m \in Nat, OutPart(n, m)
  PROVE  OutPart(n, m)'
<1>1. Handed("END") => Handed("END")'
  BY HandedGrows
<1> QED
  BY <1>1 DEF OutPart

(* Nothing to encode is left or added; trailers are kept or come late. *)
LEMMA FlowQuiet ==
  ASSUME ResponseTypeOK, Live' => Live, congested' = congested, Quiet \/ WritesLate,
         NEW n \in Nat, NEW m \in Nat, FlowAt(n, m)
  PROVE  FlowAt(n, m)'
<1>1. UNCHANGED <<written, encIn, encEnded, encFailed, encOut>>
  BY DEF Quiet, WritesLate, encoderVars
<1>2. InPart(m)'
  BY <1>1 DEF FlowAt, InPart
<1>3. CASE Quiet
  <2>1. SentGrows({"HEADERS", "RST"}) /\ late' = late
    BY <1>3 DEF Quiet
  <2>2. DataPart(n)' /\ OutPart(n, m)'
    BY <1>1, <2>1, DataKept, OutKept DEF FlowAt
  <2>3. Handed("TRAILERS")' => Handed("TRAILERS")
    BY <2>1, HandedGrows
  <2>4. AllPart(n)'
    BY <1>1, <2>1, <2>3 DEF FlowAt, AllPart
  <2> QED
    BY <1>2, <2>2, <2>4 DEF FlowAt
<1>4. CASE WritesLate
  <2>1. SentGrows({"TRAILERS", "END"}) /\ late'
    BY <1>4 DEF WritesLate
  <2>2. DataPart(n)' /\ OutPart(n, m)'
    BY <1>1, <2>1, DataKept, OutKept DEF FlowAt
  <2> QED
    BY <1>2, <2>1, <2>2 DEF FlowAt, AllPart
<1> QED
  BY <1>3, <1>4

(* The encoder is given a message, its end, or both. *)
LEMMA FlowWrites ==
  ASSUME ResponseTypeOK, HandlerTypeOK, EncShape, Settled, Live' => Live,
         congested' = congested, Ends \/ Writes1 \/ WritesLast,
         NEW n \in Nat, NEW m \in Nat, FlowAt(n, m)
  PROVE  FlowAt(n, m)'
<1>0. encIn \in Seq(Nat) /\ Len(encIn) \in Nat /\ written \in Nat
  BY LenProperties DEF ResponseTypeOK, HandlerTypeOK
<1>1. SentGrows({"HEADERS"}) /\ ~encEnded /\ UNCHANGED <<encFailed, encOut, late>>
  BY DEF Ends, Writes1, WritesLast
<1>2. DataPart(n)' /\ OutPart(n, m)'
  BY <1>1, DataKept, OutKept DEF FlowAt
<1>3. AllPart(n)'
  <2>1. Handed("TRAILERS")' => Handed("TRAILERS")
    BY <1>1, HandedGrows
  <2> QED
    BY <1>1, <2>1 DEF AllPart, Settled
<1>4. m <= written
  BY DEF FlowAt, InPart
<1>5. ASSUME ~encFailed
      PROVE  /\ \A i \in 1..Len(encIn) : encIn[i] = m + i
             /\ written = m + Len(encIn)
  BY <1>0, <1>1, <1>5 DEF FlowAt, InPart, EncShape
<1>6. CASE Ends
  <2>1. encIn' = Append(encIn, 0) /\ encEnded' /\ written' = written
    BY <1>6 DEF Ends
  <2>2. /\ Len(encIn') = Len(encIn) + 1 /\ encIn'[Len(encIn) + 1] = 0 /\ encIn' # <<>>
        /\ \A i \in 1..Len(encIn) : encIn'[i] = encIn[i]
    BY <1>0, <2>1, AppendProperties
  <2>3. InPart(m)'
    BY <1>0, <1>1, <1>4, <1>5, <2>1, <2>2 DEF InPart
  <2> QED
    BY <1>2, <1>3, <2>3 DEF FlowAt
<1>7. CASE Writes1
  <2>1. encIn' = Append(encIn, written + 1) /\ ~encEnded' /\ written' = written + 1
    BY <1>1, <1>7 DEF Writes1
  <2>2. /\ Len(encIn') = Len(encIn) + 1 /\ encIn'[Len(encIn) + 1] = written + 1
        /\ \A i \in 1..Len(encIn) : encIn'[i] = encIn[i]
    BY <1>0, <2>1, AppendProperties
  <2>3. InPart(m)'
    BY <1>0, <1>1, <1>4, <1>5, <2>1, <2>2 DEF InPart
  <2> QED
    BY <1>2, <1>3, <2>3 DEF FlowAt
<1>8. CASE WritesLast
  <2>1. encIn' = encIn \o <<written + 1, 0>> /\ encEnded' /\ written' = written + 1
    BY <1>8 DEF WritesLast
  <2>2. /\ Len(encIn') = Len(encIn) + 2
        /\ encIn'[Len(encIn) + 1] = written + 1 /\ encIn'[Len(encIn) + 2] = 0
        /\ \A i \in 1..Len(encIn) : encIn'[i] = encIn[i]
    BY <1>0, <2>1
  <2>3. encIn' # <<>>
    BY <1>0, <2>2
  <2>4. m <= written'
    BY <1>0, <1>4, <2>1
  <2>5. ASSUME ~encFailed
        PROVE  /\ \A i \in 1..Len(encIn') : encIn'[i] # 0 => encIn'[i] = m + i
               /\ written' = m + (Len(encIn') - 1)
    <3>1. /\ \A i \in 1..Len(encIn) : encIn[i] = m + i
          /\ written = m + Len(encIn)
      BY <1>5, <2>5
    <3>2. encIn'[Len(encIn) + 1] = m + (Len(encIn) + 1)
      BY <1>0, <2>2, <3>1
    <3>3. \A i \in 1..Len(encIn') : i \in 1..Len(encIn) \/ i = Len(encIn) + 1 \/ i = Len(encIn) + 2
      BY <1>0, <2>2
    <3>4. \A i \in 1..Len(encIn') : encIn'[i] # 0 => encIn'[i] = m + i
      BY <2>2, <3>1, <3>2, <3>3
    <3>5. written' = m + (Len(encIn') - 1)
      BY <1>0, <2>1, <2>2, <3>1
    <3> QED
      BY <3>4, <3>5
  <2>6. InPart(m)'
    BY <1>1, <2>1, <2>3, <2>4, <2>5 DEF InPart
  <2> QED
    BY <1>2, <1>3, <2>6 DEF FlowAt
<1> QED
  BY <1>6, <1>7, <1>8

(* The encoder encodes a message. *)
LEMMA FlowEncodes ==
  ASSUME ResponseTypeOK, HandlerTypeOK, EncShape, Live' => Live, congested' = congested,
         Encodes, NEW n \in Nat, NEW m \in Nat, FlowAt(n, m), Settled
  PROVE  FlowAt(n, m + 1)'
<1>0. /\ encIn \in Seq(Nat) /\ Len(encIn) \in Nat /\ written \in Nat
      /\ encOut \in Seq(Nat) /\ Len(encOut) \in Nat
  BY LenProperties DEF ResponseTypeOK, HandlerTypeOK
<1>1. /\ ~encFailed /\ encIn # <<>> /\ Head(encIn) # 0 /\ encIn' = Tail(encIn)
      /\ encOut' = Append(encOut, Head(encIn))
      /\ UNCHANGED <<written, encEnded, encFailed, sent, late>>
  BY DEF Encodes
<1>2. /\ Len(encIn) >= 1 /\ encIn[1] # 0 /\ Len(encIn') = Len(encIn) - 1
      /\ \A i \in 1..Len(encIn') : encIn'[i] = encIn[i + 1]
      /\ Len(encIn') \in Nat
  BY <1>0, <1>1, HeadTailProperties, LenProperties
<1>3. Head(encIn) = m + 1
  <2>1. Head(encIn) = encIn[1] /\ 1 \in 1..Len(encIn)
    BY <1>0, <1>1, <1>2
  <2> QED
    BY <1>1, <1>2, <2>1 DEF FlowAt, InPart
<1>4. /\ Len(encOut') = Len(encOut) + 1 /\ encOut'[Len(encOut) + 1] = m + 1
      /\ \A i \in 1..Len(encOut) : encOut'[i] = encOut[i]
  BY <1>0, <1>1, <1>3, AppendProperties
<1>5. DataPart(n)'
  BY <1>1 DEF FlowAt, DataPart
<1>6. Handed("END")' = Handed("END") /\ Handed("TRAILERS")' = Handed("TRAILERS")
  BY <1>1 DEF Handed
<1>7. OutPart(n, m + 1)'
  <2>1. /\ \A i \in 1..Len(encOut) : encOut[i] = m - Len(encOut) + i
        /\ n + Len(encOut) <= m
        /\ Live /\ ~Handed("END") => n + Len(encOut) = m
    BY DEF FlowAt, OutPart
  <2>2. \A i \in 1..Len(encOut') : encOut'[i] = (m + 1) - Len(encOut') + i
    <3> SUFFICES ASSUME NEW i \in 1..Len(encOut')
                 PROVE  encOut'[i] = (m + 1) - Len(encOut') + i
      OBVIOUS
    <3>1. CASE i = Len(encOut) + 1
      BY <1>0, <1>4, <3>1
    <3>2. CASE i \in 1..Len(encOut)
      <4>1. encOut'[i] = m - Len(encOut) + i
        BY <1>4, <2>1, <3>2
      <4> QED
        BY <1>0, <1>4, <4>1
    <3> QED
      BY <1>0, <1>4, <3>1, <3>2
  <2> QED
    BY <1>0, <1>4, <1>6, <2>1, <2>2 DEF OutPart
<1>8. InPart(m + 1)'
  <2>1. /\ m <= written
        /\ \A i \in 1..Len(encIn) : encIn[i] # 0 => encIn[i] = m + i
        /\ written = m + IF encEnded /\ encIn # <<>> THEN Len(encIn) - 1 ELSE Len(encIn)
    BY <1>1 DEF FlowAt, InPart
  <2>2. \A i \in 1..Len(encIn') : encIn'[i] # 0 => encIn'[i] = (m + 1) + i
    <3> SUFFICES ASSUME NEW i \in 1..Len(encIn'), encIn'[i] # 0
                 PROVE  encIn'[i] = (m + 1) + i
      OBVIOUS
    <3>1. i + 1 \in 1..Len(encIn) /\ encIn'[i] = encIn[i + 1]
      BY <1>0, <1>2
    <3>2. encIn'[i] = m + (i + 1)
      BY <2>1, <3>1
    <3> QED
      BY <3>2
  <2>3. encEnded => Len(encIn) >= 2
    <3>1. encEnded => encIn[Len(encIn)] = 0
      BY <1>1 DEF EncShape
    <3> QED
      BY <1>0, <1>2, <3>1
  <2>4. encEnded => encIn' # <<>>
    BY <1>0, <1>2, <2>3
  <2>5. written = (m + 1) + IF encEnded /\ encIn' # <<>> THEN Len(encIn') - 1 ELSE Len(encIn')
    <3>1. CASE encEnded
      <4>1. written = m + (Len(encIn) - 1)
        BY <1>1, <2>1, <3>1
      <4>2. written = (m + 1) + (Len(encIn') - 1)
        BY <1>0, <1>2, <4>1
      <4> QED
        BY <2>4, <3>1, <4>2
    <3>2. CASE ~encEnded
      <4>1. written = m + Len(encIn)
        BY <2>1, <3>2
      <4>2. written = (m + 1) + Len(encIn')
        BY <1>0, <1>2, <4>1
      <4> QED
        BY <3>2, <4>2
    <3> QED
      BY <3>1, <3>2
  <2>6. m + 1 <= written
    <3>1. CASE encEnded
      <4>1. Len(encIn') - 1 >= 0
        BY <1>0, <1>2, <2>3, <3>1
      <4>2. written = (m + 1) + (Len(encIn') - 1)
        BY <2>4, <2>5, <3>1
      <4> QED
        BY <1>2, <4>1, <4>2
    <3>2. CASE ~encEnded
      BY <1>2, <2>5, <3>2
    <3> QED
      BY <3>1, <3>2
  <2> QED
    BY <1>1, <2>2, <2>5, <2>6 DEF InPart
<1>9. AllPart(n)'
  BY <1>1, <1>6 DEF FlowAt, AllPart
<1> QED
  BY <1>5, <1>7, <1>8, <1>9 DEF FlowAt

(* The encoder fails: its message is lost, and those after it with it. *)
LEMMA FlowFails ==
  ASSUME ResponseTypeOK, Live' => Live, Fails, NEW n \in Nat, NEW m \in Nat, FlowAt(n, m)
  PROVE  FlowAt(n, m)'
<1>1. SentGrows({"TRAILERS", "END"}) /\ encFailed' /\ encOut' = encOut /\ written' = written
  <2>1. INTERNAL \in Codes
    BY CodeFacts
  <2> QED
    BY <2>1, FinishGrows DEF Fails
<1>2. DataPart(n)' /\ OutPart(n, m)'
  BY <1>1, DataKept, OutKept DEF FlowAt
<1> QED
  BY <1>1, <1>2 DEF FlowAt, InPart, AllPart

(* A message is piped into the stream, which takes it unless it is done. *)
LEMMA FlowPipes ==
  ASSUME ResponseTypeOK, HandlerTypeOK, Settled, Live' => Live, congested' = congested, Pipes,
         NEW n \in Nat, NEW m \in Nat, FlowAt(n, m)
  PROVE  FlowAt(n, m)' \/ FlowAt(n + 1, m)'
<1>0. encOut \in Seq(Nat) /\ Len(encOut) \in Nat /\ written \in Nat
  BY LenProperties DEF ResponseTypeOK, HandlerTypeOK
<1>1. encOut # <<>> /\ encOut' = Tail(encOut) /\ UNCHANGED <<written, encIn, encEnded, encFailed, late>>
  BY DEF Pipes
<1>2. /\ Len(encOut) >= 1 /\ Len(encOut') = Len(encOut) - 1
      /\ \A i \in 1..Len(encOut') : encOut'[i] = encOut[i + 1]
      /\ Len(encOut') \in Nat
  BY <1>0, <1>1, HeadTailProperties, LenProperties
<1>3. /\ \A i \in 1..Len(encOut) : encOut[i] = m - Len(encOut) + i
      /\ n + Len(encOut) <= m
      /\ Live /\ ~Handed("END") => n + Len(encOut) = m
  BY DEF FlowAt, OutPart
<1>4. \A i \in 1..Len(encOut') : encOut'[i] = m - Len(encOut') + i
  BY <1>0, <1>2, <1>3
<1>5. InPart(m)'
  BY <1>1 DEF FlowAt, InPart
<1>6. SentGrows({"DATA"})
  BY PipeGrows
<1>7. (Handed("END")' <=> Handed("END")) /\ (Handed("TRAILERS")' <=> Handed("TRAILERS"))
  BY <1>6, HandedGrows
<1>8. CASE Live /\ ~Handed("END")
  <2>1. Head(encOut) = n + 1
    BY <1>0, <1>1, <1>2, <1>3, <1>8
  <2>2. sent' = Append(sent, FrameOf("DATA", n + 1))
    BY <1>8, <2>1 DEF Pipes
  <2>3. DataPart(n + 1)'
    BY <2>2, DataGrows DEF FlowAt
  <2>4. OutPart(n + 1, m)'
    <3>0. n + Len(encOut) = m
      BY <1>3, <1>8
    <3>l. Len(encOut') = Len(encOut) - 1 /\ Len(encOut) \in Nat
      BY <1>0, <1>2
    <3>1. (n + 1) + Len(encOut') = m
      BY <3>0, <3>l
    <3>2. (n + 1) + Len(encOut') <= m
      BY <3>1
    <3> QED
      BY <1>4, <3>1, <3>2 DEF OutPart
  <2>5. AllPart(n + 1)'
    <3> SUFFICES ASSUME Handed("TRAILERS")', ~congested, ~late, ~encFailed PROVE n + 1 = written
      BY <1>1 DEF AllPart
    <3>1. n = written
      BY <1>7 DEF FlowAt, AllPart
    <3>2. n + 1 <= m /\ m <= written
      BY <1>0, <1>2, <1>3 DEF FlowAt, InPart
    <3> QED
      BY <1>0, <3>1, <3>2
  <2> QED
    BY <1>5, <2>3, <2>4, <2>5 DEF FlowAt
<1>9. CASE ~(Live /\ ~Handed("END"))
  <2>1. sent' = sent
    BY <1>9 DEF Pipes
  <2>2. DataPart(n)'
    BY <2>1 DEF FlowAt, DataPart
  <2>3. OutPart(n, m)'
    BY <1>0, <1>2, <1>3, <1>4, <1>7, <1>9 DEF OutPart
  <2>4. AllPart(n)'
    BY <1>1, <1>7 DEF FlowAt, AllPart
  <2> QED
    BY <1>5, <2>2, <2>3, <2>4 DEF FlowAt
<1> QED
  BY <1>8, <1>9

(* The encoder has finished: all messages were encoded, and piped unless the *)
(* stream pushes back.                                                       *)
LEMMA FlowFinishes ==
  ASSUME ResponseTypeOK, HandlerTypeOK, EncShape, Settled, Live' => Live,
         congested' = congested, Finishes, NEW n \in Nat, NEW m \in Nat, FlowAt(n, m)
  PROVE  FlowAt(n, m)'
<1>0. /\ written \in Nat /\ encOut \in Seq(Nat) /\ Len(encOut) \in Nat
      /\ rpcCode \in Codes \cup {None}
  BY LenProperties DEF ResponseTypeOK, HandlerTypeOK
<1>1. /\ FinishReady /\ encIn # <<>> /\ Head(encIn) = 0 /\ ~encFailed
      /\ FinishWith(rpcCode) /\ encIn' = Tail(encIn)
      /\ UNCHANGED <<written, encEnded, encFailed, encOut, late>>
  BY DEF Finishes, FinishReady
<1>2. encEnded /\ Len(encIn) = 1 /\ encIn' = <<>>
  BY <1>1, ZeroIsLast
<1>3. SentGrows({"TRAILERS", "END"})
  BY <1>0, <1>1, FinishGrows
<1>4. DataPart(n)' /\ OutPart(n, m)'
  BY <1>1, <1>3, DataKept, OutKept DEF FlowAt
<1>5. written = m
  BY <1>0, <1>1, <1>2 DEF FlowAt, InPart
<1>6. InPart(m)'
  <2>1. written' = m /\ m <= written' /\ Len(encIn') = 0 /\ 1..Len(encIn') = {}
    BY <1>0, <1>1, <1>2, <1>5
  <2> QED
    BY <1>2, <2>1 DEF InPart
<1>7. AllPart(n)'
  <2> SUFFICES ASSUME Handed("TRAILERS")', ~congested, ~late PROVE n = written
    BY <1>1 DEF AllPart
  <2>1. ~Handed("TRAILERS") /\ ~Handed("END")
    BY <1>1 DEF Settled
  <2>2. Live
    BY <1>1, <2>1 DEF FinishWith, Handed
  <2>3. encOut = <<>>
    BY <1>1 DEF FinishReady, Drained
  <2>4. n + Len(encOut) = m
    BY <2>1, <2>2 DEF FlowAt, OutPart
  <2> QED
    BY <1>5, <2>3, <2>4
<1> QED
  BY <1>4, <1>6, <1>7 DEF FlowAt

LEMMA FlowStep ==
  ASSUME ResponseTypeOK, HandlerTypeOK, EncShape, Settled, Flow, Live' => Live,
         congested' = congested,
         \/ Quiet \/ Ends \/ Writes1 \/ WritesLast \/ WritesLate
         \/ Encodes \/ Fails \/ Pipes \/ Finishes
  PROVE  Flow'
<1>1. PICK n \in Nat, m \in Nat : FlowAt(n, m)
  BY DEF Flow
<1>2. n + 1 \in Nat /\ m + 1 \in Nat
  OBVIOUS
<1>3. \/ FlowAt(n, m)' \/ FlowAt(n + 1, m)' \/ FlowAt(n, m + 1)'
  <2>1. CASE Quiet \/ WritesLate
    BY <1>1, <2>1, FlowQuiet
  <2>2. CASE Ends \/ Writes1 \/ WritesLast
    BY <1>1, <2>2, FlowWrites
  <2>3. CASE Encodes
    BY <1>1, <2>3, FlowEncodes
  <2>4. CASE Fails
    BY <1>1, <2>4, FlowFails
  <2>5. CASE Pipes
    BY <1>1, <2>5, FlowPipes
  <2>6. CASE Finishes
    BY <1>1, <2>6, FlowFinishes
  <2> QED
    BY <2>1, <2>2, <2>3, <2>4, <2>5, <2>6
<1>4. \A k \in Nat, l \in Nat : FlowAt(k, l)' => Flow'
  BY DEF Flow
<1> QED
  BY <1>1, <1>2, <1>3, <1>4

ResponseInv == EncShape /\ Settled /\ OnlyOne /\ Flow

LEMMA ResponseInit == Init => ResponseInv
<1> SUFFICES ASSUME Init PROVE ResponseInv
  OBVIOUS
<1>1. /\ encIn = <<>> /\ encOut = <<>> /\ sent = <<>> /\ ~encEnded /\ ~encFailed /\ ~late
      /\ written = 0
  BY DEF Init
<1>2. Len(<<>>) = 0 /\ 1..0 = {} /\ DOMAIN sent = {}
  BY <1>1
<1>3. EncShape /\ OnlyOne
  BY <1>1, <1>2 DEF EncShape, OnlyOne
<1>4. Settled
  BY <1>2 DEF Settled, Handed
<1>5. DataPart(0) /\ OutPart(0, 0)
  BY <1>1, <1>2 DEF DataPart, OutPart
<1>6. InPart(0) /\ AllPart(0)
  BY <1>1, <1>2 DEF InPart, AllPart
<1>7. 0 \in Nat
  OBVIOUS
<1>8. Flow
  BY <1>5, <1>6, <1>7 DEF Flow, FlowAt
<1> QED
  BY <1>3, <1>4, <1>8 DEF ResponseInv

LEMMA ResponseStep ==
  ASSUME TypeOK, ResponseInv, [Next]_vars
  PROVE  ResponseInv'
<1>1. ResponseTypeOK /\ HandlerTypeOK /\ EncShape /\ Settled /\ OnlyOne /\ Flow
  BY DEF TypeOK, ResponseInv
<1>2. /\ Live' => Live
      /\ congested' = congested
      /\ \/ Quiet \/ Ends \/ Writes1 \/ WritesLast \/ WritesLate
         \/ Encodes \/ Fails \/ Pipes \/ Finishes
  BY StepKinds
<1>3. EncShape'
  BY <1>1, <1>2, EncShapeStep
<1>4. Settled'
  BY <1>1, <1>2, SettledStep
<1>5. OnlyOne'
  BY <1>1, <1>2, OnlyOneStep
<1>6. Flow'
  BY <1>1, <1>2, FlowStep
<1> QED
  BY <1>3, <1>4, <1>5, <1>6 DEF ResponseInv

LEMMA ResponseInvariant == Spec => [](TypeOK /\ ResponseInv)
<1>1. TypeOK /\ ResponseInv /\ [Next]_vars => ResponseInv'
  BY ResponseStep
<1> QED
  BY <1>1, Invariant, ResponseInit, PTL DEF Spec

-----------------------------------------------------------------------------
(* The theorems *)

(* The variables of a request and its response stay in their types. *)
THEOREM TypeCorrect == Spec => []TypeOK
<1> QED
  BY Invariant, PTL

(* Once a cancel or an error was heard or marshal has failed, the first *)
(* trailers do not say OK (server.js:102-106, 172-179, 424-438).        *)
THEOREM FailureIsReported == Spec => FailureIsNotOK
<1>1. TypeOK /\ FailureNoted /\ [Next]_vars =>
        [~Handed("TRAILERS") /\ Handed("TRAILERS")' /\ (cancelHeard \/ errorHeard \/ encFailed')
           => TrailerStatus' # OK]_vars
  BY FailureStep
<1> QED
  BY <1>1, Invariant, PTL DEF Spec, FailureIsNotOK

(* However the reasons to end a response meet, and however many messages are *)
(* written, it has one set of trailers (server.js:101-106, 425-438).         *)
THEOREM OneSetOfTrailers == Spec => []TrailersOnce
<1>1. TypeOK /\ ResponseInv => TrailersOnce
  <2> SUFFICES ASSUME TypeOK, ResponseInv, ~late
               PROVE  Cardinality({i \in DOMAIN sent : sent[i].type = "TRAILERS"}) <= 1
    BY DEF TrailersOnce
  <2> DEFINE T == {i \in DOMAIN sent : sent[i].type = "TRAILERS"}
  <2>1. DOMAIN sent = 1..Len(sent)
    BY LenProperties DEF TypeOK, ResponseTypeOK
  <2>2. \A i, j \in T : i = j
    BY <2>1 DEF ResponseInv, OnlyOne
  <2>3. T = {} \/ \E i : T = {i}
    BY <2>2
  <2> HIDE DEF T
  <2>4. Cardinality(T) <= 1
    BY <2>3, FS_EmptySet, FS_Singleton
  <2> QED
    BY <2>4 DEF T
<1> QED
  BY <1>1, ResponseInvariant, PTL

(* For any number of messages, what is sent are the first of them, in order  *)
(* and without a gap, and all of them before the trailers of a response that *)
(* does not fail (server.js:92-106, 134-150).                                *)
THEOREM AllBeforeTrailers == Spec => []WholeBeforeTrailers
<1>1. TypeOK /\ ResponseInv => WholeBeforeTrailers
  <2> SUFFICES ASSUME TypeOK, ResponseInv PROVE WholeBeforeTrailers
    OBVIOUS
  <2>0. written \in Nat
    BY DEF TypeOK, HandlerTypeOK
  <2>1. DOMAIN sent = 1..Len(sent) /\ Len(sent) \in Nat
    BY LenProperties DEF TypeOK, ResponseTypeOK
  <2>2. PICK n \in Nat, m \in Nat : FlowAt(n, m)
    BY DEF ResponseInv, Flow
  <2>3. n \in 0..written
    <3>1. n + Len(encOut) <= m /\ m <= written
      BY <2>2 DEF FlowAt, OutPart, InPart
    <3>2. Len(encOut) \in Nat
      BY LenProperties DEF TypeOK, ResponseTypeOK
    <3> QED
      BY <2>0, <3>1, <3>2
  <2>4. \A i, j \in DataSent : i < j => sent[i].arg < sent[j].arg
    BY <2>1, <2>2 DEF FlowAt, DataPart, DataSent
  <2>5. {sent[i].arg : i \in DataSent} = 1..n
    <3>1. \A i \in DataSent : sent[i].arg \in 1..n
      BY <2>1, <2>2 DEF FlowAt, DataPart, DataSent
    <3>2. \A k \in 1..n : \E i \in DataSent : sent[i].arg = k
      BY <2>1, <2>2 DEF FlowAt, DataPart, DataSent
    <3> QED
      BY <3>1, <3>2
  <2>6. Handed("TRAILERS") /\ ~congested /\ ~late /\ ~encFailed => n = written
    BY <2>2 DEF FlowAt, AllPart
  <2> QED
    BY <2>3, <2>4, <2>5, <2>6 DEF WholeBeforeTrailers
<1> QED
  BY <1>1, ResponseInvariant, PTL
=============================================================================
