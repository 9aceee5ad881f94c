-------------------------- MODULE ClientCallProofs --------------------------
(***************************************************************************)
(* Proofs about one rpc seen from the client, for any number of messages,  *)
(* replies and calls of abort.                                             *)
(***************************************************************************)
EXTENDS ClientCall, SequenceTheorems, TLAPS

(* Where a request stands, and whether it has been cancelled, go together: *)
(* only a request that still has its stream, or has yet to get one, can be *)
(* cancelled.                                                              *)
Lifecycle ==
  /\ phase \in {"new", "updating"} => stream = "none" /\ ~cancelled
  /\ phase = "refused" => stream = "none"
  /\ phase = "started" => stream \in {"live", "null"}
  /\ stream = "live" => ~cancelled
  /\ ~cancelled => cancels = <<>>
  /\ Len(cancels) <= 1

(* A response that was told of its request's cancellation gets no more data *)
(* and holds the code it was told.                                          *)
Told ==
  \A i \in DOMAIN cancels :
    cancels[i].told => rpcStatus = cancels[i].code /\ ~piped /\ cancelled

-----------------------------------------------------------------------------
(* The frames an action hands over, and the stream after them, are frames. *)
LEMMA FrameOfType ==
  ASSUME NEW type \in {"HEADERS", "DATA", "END", "RST"}, NEW arg \in Nat
  PROVE  FrameOf(type, arg) \in Frame
<1> QED
  BY DEF FrameOf, Frame

LEMMA HandType ==
  ASSUME TypeOK, NEW frames \in Seq(Frame)
  PROVE  Hand(frames) \in Seq(Frame)
<1> QED
  BY ConcatProperties DEF Hand, TypeOK, EncoderTypeOK

LEMMA FinalFramesType == FinalFrames \in Seq(Frame)
<1>1. FrameOf("DATA", 0) \in Frame /\ FrameOf("END", 0) \in Frame
  BY FrameOfType
<1>2. <<>> \in Seq(Frame) /\ <<FrameOf("DATA", 0)>> \in Seq(Frame)
      /\ <<FrameOf("END", 0)>> \in Seq(Frame)
  BY <1>1
<1> QED
  BY <1>2, ConcatProperties DEF FinalFrames

(* The codes the client gives out itself, and those it reads, are codes. *)
LEMMA CodeFacts ==
  /\ Codes \subseteq Nat
  /\ None \notin Codes
  /\ {CANCELLED, DEADLINE_EXCEEDED, INTERNAL, UNAUTHENTICATED, UNKNOWN} \subseteq Codes
  /\ \A st : Parsed(st) \in Codes
<1> QED
  BY DEF Codes, None, OK, CANCELLED, UNKNOWN, DEADLINE_EXCEEDED, NOT_FOUND, INTERNAL,
         UNAUTHENTICATED, Parsed

-----------------------------------------------------------------------------
(* What the parts shared by several actions do to the state. *)
LEMMA StartStreamStep ==
  ASSUME TypeOK, Lifecycle, phase \in {"new", "updating"}, StartStream
  PROVE  TypeOK' /\ Lifecycle'
<1>1. PICK n \in 0..Len(onSocket) :
        /\ BeforeAbort(n)
        /\ phase' = "started"
        /\ stream' = IF n < Len(onSocket) THEN "null" ELSE "live"
        /\ cancelled' = (n < Len(onSocket))
        /\ cancels' = IF n < Len(onSocket)
                      THEN Append(cancels, [code |-> onSocket[n + 1].arg, told |-> FALSE])
                      ELSE cancels
        /\ encIn' = SubSeq(onSocket, 1, n)
        /\ dataSent' = \E i \in 1..n : onSocket[i].call = "write"
        /\ sent' = <<FrameOf("HEADERS", 0)>>
                     \o (IF n < Len(onSocket) THEN <<FrameOf("RST", 0)>> ELSE <<>>)
  BY DEF StartStream
<1>2. /\ onSocket' = <<>>
      /\ timer' \in {"off", "armed"}
      /\ piped' = TRUE
      /\ UNCHANGED <<encOut, congested, statusVars, inq, received, respEnded,
                     appVars, peerVars, failure>>
  BY DEF StartStream
<1>3. onSocket \in Seq(Call) /\ n \in Nat /\ Len(onSocket) \in Nat
  <2>1. onSocket \in Seq(Call)
    BY DEF TypeOK, RequestTypeOK
  <2> QED
    BY <2>1, LenProperties
<1>4. encIn' \in Seq(EncoderCall)
  <2>1. \A i \in 1..n : onSocket[i] \in EncoderCall
    BY <1>1, <1>3 DEF BeforeAbort, Call, AbortCall
  <2> QED
    BY <1>1, <1>3, <2>1, SubSeqProperties
<1>5. sent' \in Seq(Frame)
  <2>1. FrameOf("HEADERS", 0) \in Frame /\ FrameOf("RST", 0) \in Frame
    BY FrameOfType
  <2>2. <<>> \in Seq(Frame) /\ <<FrameOf("HEADERS", 0)>> \in Seq(Frame)
        /\ <<FrameOf("RST", 0)>> \in Seq(Frame)
    BY <2>1
  <2> QED
    BY <1>1, <2>2, ConcatProperties
<1>6. cancels' \in Seq(Cancel) /\ Len(cancels') <= 1 /\ (~cancelled' => cancels' = <<>>)
  <2>0. cancels = <<>>
    BY DEF Lifecycle
  <2>1. CASE n < Len(onSocket)
    <3>1. onSocket[n + 1] \in Call /\ onSocket[n + 1].call = "abort"
      BY <1>1, <1>3, <2>1 DEF BeforeAbort
    <3>2. onSocket[n + 1].arg \in Codes
      BY <3>1 DEF Call, AbortCall, EncoderCall
    <3>3. [code |-> onSocket[n + 1].arg, told |-> FALSE] \in Cancel
      BY <3>2 DEF Cancel
    <3>4. cancels' = Append(<<>>, [code |-> onSocket[n + 1].arg, told |-> FALSE])
          /\ cancelled'
      BY <1>1, <2>0, <2>1
    <3>5. <<>> \in Seq(Cancel)
      OBVIOUS
    <3> QED
      BY <3>3, <3>4, <3>5, AppendProperties
  <2>2. CASE ~(n < Len(onSocket))
    <3>1. cancels' = <<>>
      BY <1>1, <2>0, <2>2
    <3> QED
      BY <3>1
  <2> QED
    BY <2>1, <2>2
<1>7. dataSent' \in BOOLEAN /\ cancelled' \in BOOLEAN
  BY <1>1
<1>8. TypeOK'
  <2>1. RequestTypeOK'
    <3>1. onSocket' \in Seq(Call)
      BY <1>2
    <3> QED
      BY <1>1, <1>2, <1>6, <1>7, <3>1 DEF RequestTypeOK
  <2>2. EncoderTypeOK'
    BY <1>2, <1>4, <1>5, <1>7 DEF TypeOK, EncoderTypeOK
  <2>3. ResponseTypeOK'
    BY <1>2 DEF TypeOK, ResponseTypeOK, statusVars
  <2>4. WorldTypeOK'
    BY <1>2 DEF TypeOK, WorldTypeOK, appVars, peerVars
  <2> QED
    BY <2>1, <2>2, <2>3, <2>4 DEF TypeOK
<1>9. Lifecycle'
  BY <1>1, <1>6 DEF Lifecycle
<1> QED
  BY <1>8, <1>9

LEMMA WaitType ==
  ASSUME TypeOK, NEW c \in Call
  PROVE  WaitForSocket(c) \in Seq(Call)
<1> QED
  BY AppendProperties DEF TypeOK, RequestTypeOK, WaitForSocket

LEMMA AskStep ==
  ASSUME TypeOK, NEW c \in EncoderCall, Ask(c)
  PROVE  onSocket' \in Seq(Call) /\ encIn' \in Seq(EncoderCall) /\ dataSent' \in BOOLEAN
<1>1. c \in Call
  BY DEF Call
<1>2. /\ onSocket \in Seq(Call) /\ encIn \in Seq(EncoderCall) /\ dataSent \in BOOLEAN
      /\ WaitForSocket(c) \in Seq(Call)
  BY <1>1, WaitType DEF TypeOK, RequestTypeOK, EncoderTypeOK
<1>3. Append(encIn, c) \in Seq(EncoderCall)
  BY <1>2, AppendProperties
<1> QED
  BY <1>2, <1>3 DEF Ask

LEMMA CancelResponseStep ==
  ASSUME TypeOK, NEW code \in Codes, CancelResponse(code)
  PROVE  /\ rpcStatus' \in Codes \cup {None}
         /\ statuses' \in Seq(Codes)
         /\ respEnded' \in BOOLEAN
<1> QED
  BY AppendProperties DEF CancelResponse, TypeOK, ResponseTypeOK

(* abort cancels a request that has its stream, once and for all. *)
LEMMA AbortStep ==
  ASSUME TypeOK, Lifecycle, NEW code \in Codes, Abort(code), UNCHANGED phase
  PROVE  /\ onSocket' \in Seq(Call)
         /\ rpcStatus' \in Codes \cup {None}
         /\ statuses' \in Seq(Codes)
         /\ respEnded' \in BOOLEAN
         /\ cancels' \in Seq(Cancel)
         /\ cancelled' \in BOOLEAN
         /\ piped' \in BOOLEAN
         /\ sent' \in Seq(Frame)
         /\ stream' \in {"none", "live", "null"}
         /\ Lifecycle'
<1>1. CASE stream = "live"
  <2>1. /\ CancelResponse(code)
        /\ cancels' = Append(cancels, [code |-> code, told |-> TRUE])
        /\ cancelled' = TRUE
        /\ piped' = FALSE
        /\ sent' = Append(sent, FrameOf("RST", 0))
        /\ stream' = "null"
        /\ UNCHANGED onSocket
    BY <1>1 DEF Abort, StreamDropped
  <2>2. cancels = <<>> /\ phase = "started"
    BY <1>1 DEF Lifecycle, TypeOK, RequestTypeOK
  <2>3. [code |-> code, told |-> TRUE] \in Cancel
    BY DEF Cancel
  <2>4. cancels' \in Seq(Cancel) /\ Len(cancels') = 1
    BY <2>1, <2>2, <2>3
  <2>5. FrameOf("RST", 0) \in Frame
    BY FrameOfType
  <2>6. sent' \in Seq(Frame)
    BY <2>1, <2>5, AppendProperties DEF TypeOK, EncoderTypeOK
  <2>7. Lifecycle'
    BY <2>1, <2>2, <2>4 DEF Lifecycle
  <2> QED
    BY <2>1, <2>4, <2>6, <2>7, CancelResponseStep DEF TypeOK, RequestTypeOK
<1>2. CASE stream # "live"
  <2>1. /\ onSocket' = IF phase \in {"new", "updating"}
                       THEN WaitForSocket([call |-> "abort", arg |-> code])
                       ELSE onSocket
        /\ UNCHANGED <<rpcStatus, statuses, respEnded, cancels, cancelled, piped, sent, stream>>
    BY <1>2 DEF Abort
  <2>2. [call |-> "abort", arg |-> code] \in Call
    BY DEF Call, AbortCall
  <2>3. onSocket' \in Seq(Call)
    BY <2>1, <2>2, WaitType DEF TypeOK, RequestTypeOK
  <2> QED
    BY <2>1, <2>3 DEF TypeOK, RequestTypeOK, EncoderTypeOK, ResponseTypeOK, Lifecycle
<1> QED
  BY <1>1, <1>2

LEMMA CheckStatusStep ==
  ASSUME TypeOK, NEW st, NEW trailers, CheckStatusHeaders(st, trailers)
  PROVE  rpcStatus' \in Codes \cup {None} /\ statuses' \in Seq(Codes)
<1>1. Parsed(st) \in Codes
  BY CodeFacts
<1>2. Append(statuses, Parsed(st)) \in Seq(Codes)
  BY <1>1, AppendProperties DEF TypeOK, ResponseTypeOK
<1> QED
  BY <1>1, <1>2 DEF CheckStatusHeaders, TypeOK, ResponseTypeOK

(* After a status only an 'error' nobody listens for can be the end of it all. *)
LEMMA CheckStatusFails ==
  ASSUME NEW st, NEW trailers, CheckStatusHeaders(st, trailers)
  PROVE  failure' \in {failure, "none", "unheard error"}
<1> QED
  BY DEF CheckStatusHeaders, EmitError

-----------------------------------------------------------------------------
(* Types and lifecycle *)

LEMMA InitInvariant == Init => TypeOK /\ Lifecycle /\ Told
<1> SUFFICES ASSUME Init PROVE TypeOK /\ Lifecycle /\ Told
  OBVIOUS
<1>0. \A S : <<>> \in Seq(S)
  OBVIOUS
<1>1. RequestTypeOK
  BY <1>0 DEF Init, RequestTypeOK
<1>2. EncoderTypeOK
  BY <1>0 DEF Init, EncoderTypeOK
<1>3. ResponseTypeOK
  BY <1>0 DEF Init, ResponseTypeOK
<1>4. WorldTypeOK
  <2>1. 0 \in 0..Writes /\ 0 \in 0..MaxAborts /\ 0 \in 0..Replies
    BY BoundsAssumption
  <2> QED
    BY <2>1 DEF Init, WorldTypeOK
<1>5. Lifecycle /\ Told
  BY DEF Init, Lifecycle, Told
<1> QED
  BY <1>1, <1>2, <1>3, <1>4, <1>5 DEF TypeOK

(* The parts of the type invariant an action leaves alone. *)
LEMMA RequestFrame ==
  RequestTypeOK /\ requestVars' = requestVars /\ cancels' = cancels => RequestTypeOK'
<1> QED
  BY DEF RequestTypeOK, requestVars

LEMMA EncoderFrame ==
  EncoderTypeOK /\ encoderVars' = encoderVars /\ congested' = congested => EncoderTypeOK'
<1> QED
  BY DEF EncoderTypeOK, encoderVars

LEMMA ResponseFrame ==
  ResponseTypeOK /\ statusVars' = statusVars /\ decoderVars' = decoderVars
    => ResponseTypeOK'
<1> QED
  BY DEF ResponseTypeOK, statusVars, decoderVars

LEMMA WorldFrame ==
  WorldTypeOK /\ appVars' = appVars /\ peerVars' = peerVars /\ failure' = failure
    => WorldTypeOK'
<1> QED
  BY DEF WorldTypeOK, appVars, peerVars

LEMMA WrittenNat == TypeOK => written \in Nat
<1>1. Writes \in Nat
  BY BoundsAssumption
<1> SUFFICES ASSUME TypeOK PROVE written \in Nat
  OBVIOUS
<1>2. written \in 0..Writes
  BY DEF TypeOK, WorldTypeOK
<1> QED
  BY <1>1, <1>2

LEMMA TypeStep == TypeOK /\ Lifecycle /\ [Next]_vars => TypeOK' /\ Lifecycle'
<1> SUFFICES ASSUME TypeOK, Lifecycle, [Next]_vars PROVE TypeOK' /\ Lifecycle'
  OBVIOUS
<1>1. CASE Start
  <2>1. CASE StartStream
    BY <1>1, <2>1, StartStreamStep DEF Start
  <2>2. CASE /\ phase' = "updating"
             /\ UNCHANGED <<stream, cancelled, onSocket, timer, encoderVars, congested,
                            statusVars, decoderVars, appVars, peerVars, cancels, failure>>
    <3>r. RequestTypeOK'
      BY <2>2 DEF TypeOK, RequestTypeOK
    <3>e. EncoderTypeOK'
      BY <2>2, EncoderFrame DEF TypeOK
    <3>s. ResponseTypeOK'
      BY <2>2, ResponseFrame DEF TypeOK
    <3>w. WorldTypeOK'
      BY <2>2, WorldFrame DEF TypeOK
    <3>l. Lifecycle'
      BY <1>1, <2>2 DEF Start, Lifecycle
    <3> QED
      BY <3>r, <3>e, <3>s, <3>w, <3>l DEF TypeOK
  <2> QED
    BY <1>1, <2>1, <2>2 DEF Start
<1>2. CASE HeadersUpdated
  BY <1>2, StartStreamStep DEF HeadersUpdated
<1>3. CASE HeadersRefused
  <2>1. cancels = <<>> /\ stream = "none"
    BY <1>3 DEF HeadersRefused, Lifecycle
  <2>2. [code |-> UNAUTHENTICATED, told |-> FALSE] \in Cancel
    BY CodeFacts DEF Cancel
  <2>3. cancels' = Append(<<>>, [code |-> UNAUTHENTICATED, told |-> FALSE])
    BY <1>3, <2>1 DEF HeadersRefused
  <2>4. cancels' \in Seq(Cancel) /\ Len(cancels') = 1
    BY <2>2, <2>3
  <2>r. RequestTypeOK'
    BY <1>3, <2>4 DEF HeadersRefused, TypeOK, RequestTypeOK, requestVars
  <2>e. EncoderTypeOK'
    BY <1>3, EncoderFrame DEF HeadersRefused, TypeOK
  <2>s. ResponseTypeOK'
    BY <1>3, ResponseFrame DEF HeadersRefused, TypeOK
  <2>w. WorldTypeOK'
    BY <1>3, WorldFrame DEF HeadersRefused, TypeOK
  <2>t. TypeOK'
    BY <2>r, <2>e, <2>s, <2>w DEF TypeOK
  <2> QED
    BY <1>3, <2>1, <2>4, <2>t DEF HeadersRefused, Lifecycle
<1>4. CASE Write
  <2>0. written < Writes /\ written \in 0..Writes /\ written' = written + 1
    BY <1>4 DEF Write, TypeOK, WorldTypeOK
  <2>1. written + 1 \in 0..Writes /\ written + 1 \in Nat
    BY <2>0, BoundsAssumption
  <2>2. [call |-> "write", arg |-> written + 1] \in EncoderCall
    BY <2>1 DEF EncoderCall
  <2>3. onSocket' \in Seq(Call) /\ encIn' \in Seq(EncoderCall) /\ dataSent' \in BOOLEAN
    BY <1>4, <2>2, AskStep DEF Write
  <2>r. RequestTypeOK'
    BY <1>4, <2>3 DEF Write, TypeOK, RequestTypeOK, requestVars
  <2>e. EncoderTypeOK'
    BY <1>4, <2>3 DEF Write, TypeOK, EncoderTypeOK, encoderVars
  <2>s. ResponseTypeOK'
    BY <1>4, ResponseFrame DEF Write, TypeOK
  <2>w. WorldTypeOK'
    BY <1>4, <2>0, <2>1 DEF Write, TypeOK, WorldTypeOK, appVars, peerVars
  <2>t. TypeOK'
    BY <2>r, <2>e, <2>s, <2>w DEF TypeOK
  <2> QED
    BY <1>4, <2>t DEF Write, Lifecycle, requestVars
<1>5. CASE End
  <2>0. PICK k \in {0, written + 1} :
          /\ Ask([call |-> "end", arg |-> k])
          /\ written' = written \/ (written < Writes /\ written' = written + 1)
    BY <1>5 DEF End
  <2>a. written \in 0..Writes /\ written \in Nat
    BY WrittenNat DEF TypeOK, WorldTypeOK
  <2>b. written' \in 0..Writes
    BY <2>0, <2>a, BoundsAssumption
  <2>1. [call |-> "end", arg |-> k] \in EncoderCall
    BY <2>a DEF EncoderCall
  <2>2. onSocket' \in Seq(Call) /\ encIn' \in Seq(EncoderCall) /\ dataSent' \in BOOLEAN
    BY <2>0, <2>1, AskStep
  <2>r. RequestTypeOK'
    BY <1>5, <2>2 DEF End, TypeOK, RequestTypeOK, requestVars
  <2>e. EncoderTypeOK'
    BY <1>5, <2>2 DEF End, TypeOK, EncoderTypeOK, encoderVars
  <2>s. ResponseTypeOK'
    BY <1>5, ResponseFrame DEF End, TypeOK
  <2>w. WorldTypeOK'
    BY <1>5, <2>b DEF End, TypeOK, WorldTypeOK, appVars, peerVars
  <2>t. TypeOK'
    BY <2>r, <2>e, <2>s, <2>w DEF TypeOK
  <2> QED
    BY <1>5, <2>t DEF End, Lifecycle, requestVars
<1>6. CASE AbortByHand
  <2>1. PICK code \in {CANCELLED, DEADLINE_EXCEEDED} : Abort(code)
    BY <1>6 DEF AbortByHand
  <2>2. code \in Codes
    BY CodeFacts
  <2>3. aborts < MaxAborts /\ aborts \in 0..MaxAborts /\ aborts' = aborts + 1
    BY <1>6 DEF AbortByHand, TypeOK, WorldTypeOK
  <2>4. aborts' \in 0..MaxAborts
    BY <2>3, BoundsAssumption
  <2>5. UNCHANGED phase
    BY <1>6 DEF AbortByHand
  <2>r. RequestTypeOK'
    BY <1>6, <2>1, <2>2, <2>5, AbortStep DEF AbortByHand, TypeOK, RequestTypeOK, requestVars
  <2>e. EncoderTypeOK'
    BY <1>6, <2>1, <2>2, <2>5, AbortStep DEF AbortByHand, TypeOK, EncoderTypeOK, encoderVars
  <2>s. ResponseTypeOK'
    BY <1>6, <2>1, <2>2, <2>5, AbortStep DEF AbortByHand, TypeOK, ResponseTypeOK, statusVars, decoderVars
  <2>w. WorldTypeOK'
    BY <1>6, <2>4 DEF AbortByHand, TypeOK, WorldTypeOK, appVars, peerVars
  <2>t. TypeOK'
    BY <2>r, <2>e, <2>s, <2>w DEF TypeOK
  <2> QED
    BY <2>1, <2>2, <2>5, <2>t, AbortStep
<1>7. CASE TimerFires
  <2>1. DEADLINE_EXCEEDED \in Codes /\ Abort(DEADLINE_EXCEEDED) /\ UNCHANGED phase
    BY <1>7, CodeFacts DEF TimerFires
  <2>r. RequestTypeOK'
    BY <1>7, <2>1, AbortStep DEF TimerFires, TypeOK, RequestTypeOK, requestVars
  <2>e. EncoderTypeOK'
    BY <1>7, <2>1, AbortStep DEF TimerFires, TypeOK, EncoderTypeOK, encoderVars
  <2>s. ResponseTypeOK'
    BY <1>7, <2>1, AbortStep DEF TimerFires, TypeOK, ResponseTypeOK, statusVars, decoderVars
  <2>w. WorldTypeOK'
    BY <1>7, WorldFrame DEF TimerFires, TypeOK
  <2>t. TypeOK'
    BY <2>r, <2>e, <2>s, <2>w DEF TypeOK
  <2> QED
    BY <2>1, <2>t, AbortStep
<1>8. CASE EncodeNext
  <2>1. /\ Head(encIn) \in EncoderCall /\ Tail(encIn) \in Seq(EncoderCall)
    BY <1>8, HeadTailProperties DEF EncodeNext, TypeOK, EncoderTypeOK
  <2>2. Append(encOut, Head(encIn).arg) \in Seq(Nat)
    BY <2>1, AppendProperties DEF EncoderCall, TypeOK, EncoderTypeOK
  <2>3. <<[call |-> "end", arg |-> 0]>> \in Seq(EncoderCall)
    BY DEF EncoderCall
  <2>r. RequestTypeOK'
    BY <1>8, RequestFrame DEF EncodeNext, TypeOK
  <2>e. EncoderTypeOK'
    BY <1>8, <2>1, <2>2, <2>3 DEF EncodeNext, TypeOK, EncoderTypeOK, encoderVars
  <2>s. ResponseTypeOK'
    BY <1>8, ResponseFrame DEF EncodeNext, TypeOK
  <2>w. WorldTypeOK'
    BY <1>8 DEF EncodeNext, TypeOK, WorldTypeOK, appVars, peerVars
  <2>t. TypeOK'
    BY <2>r, <2>e, <2>s, <2>w DEF TypeOK
  <2> QED
    BY <1>8, <2>t DEF EncodeNext, Lifecycle, requestVars
<1>9. CASE PipeEncoded
  <2>1. Head(encOut) \in Nat /\ Tail(encOut) \in Seq(Nat)
    BY <1>9, HeadTailProperties DEF PipeEncoded, TypeOK, EncoderTypeOK
  <2>2. <<FrameOf("DATA", Head(encOut))>> \in Seq(Frame)
    BY <2>1, FrameOfType
  <2>3. sent' \in Seq(Frame)
    BY <1>9, <2>2, HandType DEF PipeEncoded, TypeOK, EncoderTypeOK
  <2>r. RequestTypeOK'
    BY <1>9, RequestFrame DEF PipeEncoded, TypeOK
  <2>e. EncoderTypeOK'
    BY <1>9, <2>1, <2>3 DEF PipeEncoded, TypeOK, EncoderTypeOK, encoderVars
  <2>s. ResponseTypeOK'
    BY <1>9, ResponseFrame DEF PipeEncoded, TypeOK
  <2>w. WorldTypeOK'
    BY <1>9, WorldFrame DEF PipeEncoded, TypeOK
  <2>t. TypeOK'
    BY <2>r, <2>e, <2>s, <2>w DEF TypeOK
  <2> QED
    BY <1>9, <2>t DEF PipeEncoded, Lifecycle, requestVars
<1>10. CASE Finish
  <2>1. Tail(encIn) \in Seq(EncoderCall)
    BY <1>10, HeadTailProperties DEF Finish, TypeOK, EncoderTypeOK
  <2>2. sent' \in Seq(Frame)
    BY <1>10, FinalFramesType, HandType DEF Finish, TypeOK, EncoderTypeOK
  <2>r. RequestTypeOK'
    BY <1>10, RequestFrame DEF Finish, TypeOK
  <2>e. EncoderTypeOK'
    BY <1>10, <2>1, <2>2 DEF Finish, TypeOK, EncoderTypeOK, encoderVars
  <2>s. ResponseTypeOK'
    BY <1>10, ResponseFrame DEF Finish, TypeOK
  <2>w. WorldTypeOK'
    BY <1>10, WorldFrame DEF Finish, TypeOK
  <2>t. TypeOK'
    BY <2>r, <2>e, <2>s, <2>w DEF TypeOK
  <2> QED
    BY <1>10, <2>t DEF Finish, Lifecycle, requestVars
<1>11. CASE RecvHeaders \/ RecvTrailers
  <2>1. PICK st \in {None, Garbled, OK, NOT_FOUND}, trailers \in BOOLEAN :
          CheckStatusHeaders(st, trailers)
    BY <1>11 DEF RecvHeaders, RecvTrailers
  <2>2. rpcStatus' \in Codes \cup {None} /\ statuses' \in Seq(Codes)
    BY <2>1, CheckStatusStep
  <2>3. {UNKNOWN, OK, NOT_FOUND} \subseteq Codes
    BY DEF Codes
  <2>4. serverStatus' \in Codes \cup {None}
    BY <1>11, <2>3 DEF RecvHeaders, RecvTrailers, TypeOK, WorldTypeOK
  <2>r. RequestTypeOK'
    BY <1>11, RequestFrame DEF RecvHeaders, RecvTrailers, TypeOK
  <2>e. EncoderTypeOK'
    BY <1>11, EncoderFrame DEF RecvHeaders, RecvTrailers, TypeOK
  <2>s. ResponseTypeOK'
    BY <1>11, <2>2 DEF RecvHeaders, RecvTrailers, TypeOK, ResponseTypeOK, statusVars, decoderVars
  <2>w. WorldTypeOK'
    BY <1>11, <2>1, <2>4, CheckStatusFails
    DEF RecvHeaders, RecvTrailers, TypeOK, WorldTypeOK, appVars, peerVars
  <2>t. TypeOK'
    BY <2>r, <2>e, <2>s, <2>w DEF TypeOK
  <2>5. UNCHANGED <<requestVars, cancels>>
    BY <1>11 DEF RecvHeaders, RecvTrailers
  <2> QED
    BY <2>t, <2>5 DEF Lifecycle, requestVars
<1>12. CASE RecvData \/ RecvEnd \/ RecvReset
  <2>0. inq' = Append(inq, "message") \/ inq' = Append(inq, "end")
    BY <1>12 DEF RecvData, RecvEnd, RecvReset
  <2>1. inq' \in Seq({"message", "end"})
    BY <2>0, AppendProperties DEF TypeOK, ResponseTypeOK
  <2>2. replies \in 0..Replies
    BY DEF TypeOK, WorldTypeOK
  <2>3. replies' = replies \/ (replies < Replies /\ replies' = replies + 1)
    BY <1>12 DEF RecvData, RecvEnd, RecvReset, peerVars
  <2>4. replies' \in 0..Replies
    BY <2>2, <2>3, BoundsAssumption
  <2>r. RequestTypeOK'
    BY <1>12, RequestFrame DEF RecvData, RecvEnd, RecvReset, TypeOK
  <2>e. EncoderTypeOK'
    BY <1>12, EncoderFrame DEF RecvData, RecvEnd, RecvReset, TypeOK
  <2>s. ResponseTypeOK'
    BY <1>12, <2>1 DEF RecvData, RecvEnd, RecvReset, TypeOK, ResponseTypeOK, statusVars, decoderVars
  <2>w. WorldTypeOK'
    BY <1>12, <2>4 DEF RecvData, RecvEnd, RecvReset, TypeOK, WorldTypeOK, appVars, peerVars
  <2>t. TypeOK'
    BY <2>r, <2>e, <2>s, <2>w DEF TypeOK
  <2> QED
    BY <1>12, <2>t DEF RecvData, RecvEnd, RecvReset, Lifecycle, requestVars
<1>13. CASE FlowMessage
  <2>1. Tail(inq) \in Seq({"message", "end"})
    BY <1>13, HeadTailProperties DEF FlowMessage, TypeOK, ResponseTypeOK
  <2>2. CancelResponse(INTERNAL) =>
          /\ rpcStatus' \in Codes \cup {None} /\ statuses' \in Seq(Codes)
          /\ respEnded' \in BOOLEAN
    BY CodeFacts, CancelResponseStep
  <2>r. RequestTypeOK'
    BY <1>13, RequestFrame DEF FlowMessage, TypeOK
  <2>e. EncoderTypeOK'
    BY <1>13, EncoderFrame DEF FlowMessage, TypeOK
  <2>3. \/ received' = received + 1 /\ UNCHANGED <<statusVars, piped, respEnded>>
        \/ piped' = FALSE /\ CancelResponse(INTERNAL) /\ received' = received
    BY <1>13 DEF FlowMessage
  <2>4. inq' = Tail(inq)
    BY <1>13 DEF FlowMessage
  <2>5. ResponseTypeOK
    BY DEF TypeOK
  <2>s. ResponseTypeOK'
    <3>1. CASE received' = received + 1 /\ UNCHANGED <<statusVars, piped, respEnded>>
      BY <2>1, <2>4, <2>5, <3>1 DEF ResponseTypeOK, statusVars
    <3>2. CASE piped' = FALSE /\ CancelResponse(INTERNAL) /\ received' = received
      BY <2>1, <2>2, <2>4, <2>5, <3>2 DEF ResponseTypeOK
    <3> QED
      BY <2>3, <3>1, <3>2
  <2>6. failure' \in {failure, "none", "unheard error"}
    BY <1>13 DEF FlowMessage, EmitError
  <2>w. WorldTypeOK'
    BY <1>13, <2>6 DEF FlowMessage, TypeOK, WorldTypeOK, appVars, peerVars
  <2>t. TypeOK'
    BY <2>r, <2>e, <2>s, <2>w DEF TypeOK
  <2> QED
    BY <1>13, <2>t DEF FlowMessage, Lifecycle, requestVars
<1>14. CASE FlowEnd
  <2>1. Tail(inq) \in Seq({"message", "end"})
    BY <1>14, HeadTailProperties DEF FlowEnd, TypeOK, ResponseTypeOK
  <2>r. RequestTypeOK'
    BY <1>14, RequestFrame DEF FlowEnd, TypeOK
  <2>e. EncoderTypeOK'
    BY <1>14, EncoderFrame DEF FlowEnd, TypeOK
  <2>s. ResponseTypeOK'
    BY <1>14, <2>1 DEF FlowEnd, TypeOK, ResponseTypeOK, statusVars, decoderVars
  <2>w. WorldTypeOK'
    BY <1>14 DEF FlowEnd, TypeOK, WorldTypeOK, appVars, peerVars
  <2>t. TypeOK'
    BY <2>r, <2>e, <2>s, <2>w DEF TypeOK
  <2> QED
    BY <1>14, <2>t DEF FlowEnd, Lifecycle, requestVars
<1>15. CASE UNCHANGED vars
  <2>1. /\ UNCHANGED <<requestVars, encoderVars, congested, statusVars, decoderVars>>
        /\ UNCHANGED <<appVars, peerVars, cancels, failure>>
    BY <1>15 DEF vars
  <2>2. TypeOK'
    BY <2>1, RequestFrame, EncoderFrame, ResponseFrame, WorldFrame DEF TypeOK
  <2> QED
    BY <2>1, <2>2 DEF Lifecycle, requestVars
<1> QED
  BY <1>1, <1>2, <1>3, <1>4, <1>5, <1>6, <1>7, <1>8, <1>9, <1>10, <1>11, <1>12, <1>13,
     <1>14, <1>15 DEF Next

LEMMA LifecycleInvariant == Spec => [](TypeOK /\ Lifecycle)
<1> QED
  BY InitInvariant, TypeStep, PTL DEF Spec

-----------------------------------------------------------------------------
(* The code a cancelled response was told *)

LEMMA ToldFrame ==
  Told /\ UNCHANGED <<cancels, rpcStatus, piped, cancelled>> => Told'
<1> QED
  BY DEF Told

LEMMA ToldByStart ==
  ASSUME TypeOK, Lifecycle, phase \in {"new", "updating"}, StartStream
  PROVE  Told'
<1>1. cancels = <<>>
  BY DEF Lifecycle
<1>2. \/ cancels' = <<>>
      \/ \E code : cancels' = Append(<<>>, [code |-> code, told |-> FALSE])
  BY <1>1 DEF StartStream
<1>3. CASE cancels' = <<>>
  BY <1>3 DEF Told
<1>4. CASE \E code : cancels' = Append(<<>>, [code |-> code, told |-> FALSE])
  BY <1>4 DEF Told
<1> QED
  BY <1>2, <1>3, <1>4

LEMMA ToldByAbort ==
  ASSUME TypeOK, Lifecycle, Told, NEW code \in Codes, Abort(code)
  PROVE  Told'
<1>1. CASE stream = "live"
  <2>1. cancels = <<>>
    BY <1>1 DEF Lifecycle
  <2>2. /\ rpcStatus' = code /\ piped' = FALSE /\ cancelled' = TRUE
        /\ cancels' = Append(<<>>, [code |-> code, told |-> TRUE])
    BY <1>1, <2>1 DEF Abort, CancelResponse
  <2> QED
    BY <2>2 DEF Told
<1>2. CASE stream # "live"
  BY <1>2, ToldFrame DEF Abort
<1> QED
  BY <1>1, <1>2

(* A status that comes in later does not replace the code. *)
LEMMA ToldByStatus ==
  ASSUME TypeOK, Told, NEW st, NEW trailers, CheckStatusHeaders(st, trailers),
         UNCHANGED <<cancels, piped, cancelled>>
  PROVE  Told'
<1> SUFFICES ASSUME NEW i \in DOMAIN cancels, cancels[i].told
             PROVE  rpcStatus' = cancels[i].code /\ ~piped /\ cancelled
  BY DEF Told
<1>1. rpcStatus = cancels[i].code /\ ~piped /\ cancelled
  BY DEF Told
<1>2. cancels[i] \in Cancel
  BY DEF TypeOK, RequestTypeOK
<1>3. rpcStatus # None
  BY <1>1, <1>2, CodeFacts DEF Cancel
<1> QED
  BY <1>1, <1>3 DEF CheckStatusHeaders, StatusIsSet

LEMMA ToldStep == TypeOK /\ Lifecycle /\ Told /\ [Next]_vars => Told'
<1> SUFFICES ASSUME TypeOK, Lifecycle, Told, [Next]_vars PROVE Told'
  OBVIOUS
<1>1. CASE Start
  <2>1. CASE StartStream
    BY <1>1, <2>1, ToldByStart DEF Start
  <2>2. CASE UNCHANGED <<cancels, statusVars, decoderVars, cancelled>>
    BY <2>2, ToldFrame DEF statusVars, decoderVars
  <2> QED
    BY <1>1, <2>1, <2>2 DEF Start
<1>2. CASE HeadersUpdated
  BY <1>2, ToldByStart DEF HeadersUpdated
<1>3. CASE HeadersRefused
  <2>1. cancels' = Append(<<>>, [code |-> UNAUTHENTICATED, told |-> FALSE])
    BY <1>3 DEF HeadersRefused, Lifecycle
  <2> QED
    BY <2>1 DEF Told
<1>4. CASE Write \/ End
  <2>1. UNCHANGED <<cancels, cancelled, statusVars, decoderVars>>
    BY <1>4 DEF Write, End
  <2> QED
    BY <2>1, ToldFrame DEF statusVars, decoderVars
<1>5. CASE AbortByHand \/ TimerFires
  <2>1. \E code \in {CANCELLED, DEADLINE_EXCEEDED} : Abort(code)
    BY <1>5 DEF AbortByHand, TimerFires
  <2> QED
    BY <2>1, CodeFacts, ToldByAbort
<1>6. CASE EncodeNext \/ PipeEncoded \/ Finish \/ RecvData \/ RecvEnd \/ RecvReset
  <2>1. UNCHANGED <<cancels, requestVars, statusVars, piped>>
    BY <1>6 DEF EncodeNext, PipeEncoded, Finish, RecvData, RecvEnd, RecvReset, decoderVars
  <2> QED
    BY <2>1, ToldFrame DEF statusVars, requestVars
<1>7. CASE RecvHeaders \/ RecvTrailers
  <2>1. \E st \in {None, Garbled, OK, NOT_FOUND}, trailers \in BOOLEAN :
          CheckStatusHeaders(st, trailers)
    BY <1>7 DEF RecvHeaders, RecvTrailers
  <2>2. UNCHANGED <<cancels, piped, cancelled>>
    BY <1>7 DEF RecvHeaders, RecvTrailers, requestVars, decoderVars
  <2> QED
    BY <2>1, <2>2, ToldByStatus
<1>8. CASE FlowMessage \/ FlowEnd
  <2>1. piped /\ UNCHANGED cancels
    BY <1>8 DEF FlowMessage, FlowEnd
  <2> QED
    BY <2>1 DEF Told
<1>9. CASE UNCHANGED vars
  BY <1>9, ToldFrame DEF vars, requestVars, statusVars, decoderVars
<1> QED
  BY <1>1, <1>2, <1>3, <1>4, <1>5, <1>6, <1>7, <1>8, <1>9 DEF Next

LEMMA ToldInvariant == Spec => []Told
<1>1. TypeOK /\ Lifecycle /\ Told /\ [Next]_vars => (TypeOK /\ Lifecycle /\ Told)'
  BY TypeStep, ToldStep
<1> QED
  BY InitInvariant, <1>1, PTL DEF Spec

-----------------------------------------------------------------------------
(* The peer's status *)

(* Data flows only once there is a stream, and a status comes with headers. *)
Reported ==
  /\ piped => phase = "started"
  /\ peer = "silent" => serverStatus = None
  /\ ServerStatusReportedOnce

LEMMA ReportedFrame ==
  Reported /\ UNCHANGED <<phase, cancels, piped, peer, serverStatus, statusVars>> => Reported'
<1> QED
  BY DEF Reported, ServerStatusReportedOnce, statusVars

LEMMA ReportedByStart ==
  ASSUME Lifecycle, Reported, phase \in {"new", "updating"}, StartStream
  PROVE  Reported'
<1>1. phase' = "started" /\ UNCHANGED <<statusVars, peerVars>>
  BY DEF StartStream
<1>2. cancels = <<>> /\ phase # "started"
  BY DEF Lifecycle
<1> QED
  BY <1>1, <1>2 DEF Reported, ServerStatusReportedOnce, statusVars, peerVars

LEMMA ReportedByAbort ==
  ASSUME TypeOK, Reported, NEW code, Abort(code), UNCHANGED <<phase, peerVars>>
  PROVE  Reported'
<1>1. CASE stream = "live"
  <2>1. piped' = FALSE /\ cancels' = Append(cancels, [code |-> code, told |-> TRUE])
    BY <1>1 DEF Abort
  <2>2. cancels' # <<>>
    BY <2>1 DEF TypeOK, RequestTypeOK
  <2> QED
    BY <2>1, <2>2 DEF Reported, ServerStatusReportedOnce, peerVars
<1>2. CASE stream # "live"
  BY <1>2, ReportedFrame DEF Abort, statusVars, peerVars
<1> QED
  BY <1>1, <1>2

(* The first header block: no status came before. *)
LEMMA ReportedByHeaders == Reported /\ RecvHeaders => Reported'
<1> SUFFICES ASSUME Reported, RecvHeaders PROVE Reported'
  OBVIOUS
<1>1. PICK st \in {None, Garbled, OK, NOT_FOUND} :
        /\ CheckStatusHeaders(st, FALSE)
        /\ serverStatus' = IF st = None THEN None ELSE IF st = Garbled THEN UNKNOWN ELSE st
  BY DEF RecvHeaders
<1>2. serverStatus = None /\ peer' = "headers" /\ UNCHANGED <<phase, cancels, piped>>
  BY DEF Reported, RecvHeaders, requestVars, decoderVars
<1>3. st # None => serverStatus' = Parsed(st) /\ Parsed(st) # None
  BY <1>1 DEF Parsed, Codes, None, Garbled, OK, CANCELLED, UNKNOWN, DEADLINE_EXCEEDED,
              NOT_FOUND, INTERNAL, UNAUTHENTICATED
<1>4. ASSUME statuses = <<>>, rpcStatus = None
      PROVE  /\ rpcStatus' = serverStatus'
             /\ statuses' = IF serverStatus' = None THEN <<>> ELSE <<serverStatus'>>
  <2>1. CASE st = None
    BY <1>1, <1>4, <2>1 DEF CheckStatusHeaders
  <2>2. CASE st # None
    BY <1>1, <1>3, <1>4, <2>2 DEF CheckStatusHeaders, StatusIsSet
  <2> QED
    BY <2>1, <2>2
<1> QED
  BY <1>2, <1>4 DEF Reported, ServerStatusReportedOnce

(* The trailers: they count if the headers had no status. *)
LEMMA ReportedByTrailers == Reported /\ RecvTrailers => Reported'
<1> SUFFICES ASSUME Reported, RecvTrailers PROVE Reported'
  OBVIOUS
<1>1. PICK st \in {None, Garbled, OK, NOT_FOUND} :
        /\ CheckStatusHeaders(st, TRUE)
        /\ serverStatus' = IF serverStatus # None THEN serverStatus
                           ELSE IF st \in {None, Garbled} THEN UNKNOWN ELSE st
  BY DEF RecvTrailers
<1>2. peer' = "trailers" /\ UNCHANGED <<phase, cancels, piped>>
  BY DEF RecvTrailers, requestVars, decoderVars
<1>3. serverStatus = None => serverStatus' = Parsed(st) /\ Parsed(st) # None
  BY <1>1 DEF Parsed, Codes, None, Garbled, OK, CANCELLED, UNKNOWN, DEADLINE_EXCEEDED,
              NOT_FOUND, INTERNAL, UNAUTHENTICATED
<1>4. ASSUME rpcStatus = serverStatus,
             statuses = IF serverStatus = None THEN <<>> ELSE <<serverStatus>>
      PROVE  /\ rpcStatus' = serverStatus'
             /\ statuses' = IF serverStatus' = None THEN <<>> ELSE <<serverStatus'>>
  <2>1. CASE serverStatus # None
    BY <1>1, <1>4, <2>1 DEF CheckStatusHeaders, StatusIsSet
  <2>2. CASE serverStatus = None
    BY <1>1, <1>3, <1>4, <2>2 DEF CheckStatusHeaders, StatusIsSet
  <2> QED
    BY <2>1, <2>2
<1> QED
  BY <1>2, <1>4 DEF Reported, ServerStatusReportedOnce

LEMMA ReportedStep == TypeOK /\ Lifecycle /\ Reported /\ [Next]_vars => Reported'
<1> SUFFICES ASSUME TypeOK, Lifecycle, Reported, [Next]_vars PROVE Reported'
  OBVIOUS
<1>1. CASE Start
  <2>1. CASE StartStream
    BY <1>1, <2>1, ReportedByStart DEF Start
  <2>2. CASE phase' = "updating" /\ UNCHANGED <<cancels, statusVars, decoderVars, peerVars>>
    BY <1>1, <2>2 DEF Start, Reported, ServerStatusReportedOnce, statusVars, decoderVars, peerVars
  <2> QED
    BY <1>1, <2>1, <2>2 DEF Start
<1>2. CASE HeadersUpdated
  BY <1>2, ReportedByStart DEF HeadersUpdated
<1>3. CASE HeadersRefused
  <2>1. /\ cancels' = Append(cancels, [code |-> UNAUTHENTICATED, told |-> FALSE])
        /\ phase = "updating" /\ UNCHANGED <<decoderVars, peerVars>>
    BY <1>3 DEF HeadersRefused
  <2>2. cancels' # <<>>
    BY <2>1 DEF TypeOK, RequestTypeOK
  <2> QED
    BY <2>1, <2>2 DEF Reported, ServerStatusReportedOnce, decoderVars, peerVars
<1>4. CASE Write \/ End \/ EncodeNext \/ PipeEncoded \/ Finish
  <2>1. UNCHANGED <<phase, cancels, statusVars, decoderVars, peerVars>>
    BY <1>4 DEF Write, End, EncodeNext, PipeEncoded, Finish, requestVars
  <2> QED
    BY <2>1, ReportedFrame DEF decoderVars, peerVars
<1>5. CASE AbortByHand \/ TimerFires
  <2>1. (\E code : Abort(code)) /\ UNCHANGED <<phase, peerVars>>
    BY <1>5 DEF AbortByHand, TimerFires
  <2> QED
    BY <2>1, ReportedByAbort
<1>6. CASE RecvHeaders \/ RecvTrailers
  BY <1>6, ReportedByHeaders, ReportedByTrailers
<1>7. CASE RecvData \/ RecvEnd \/ RecvReset
  <2>1. /\ UNCHANGED <<phase, cancels, piped, statusVars, serverStatus>>
        /\ peer' = "silent" => peer = "silent"
    BY <1>7 DEF RecvData, RecvEnd, RecvReset, requestVars
  <2> QED
    BY <2>1 DEF Reported, ServerStatusReportedOnce, statusVars
<1>8. CASE FlowMessage
  <2>1. piped /\ UNCHANGED <<phase, cancels, peerVars>>
    BY <1>8 DEF FlowMessage, requestVars
  <2>2. piped' = FALSE \/ UNCHANGED <<statusVars, piped>>
    BY <1>8 DEF FlowMessage
  <2> QED
    BY <2>1, <2>2 DEF Reported, ServerStatusReportedOnce, statusVars, peerVars
<1>9. CASE FlowEnd
  <2>1. UNCHANGED <<phase, cancels, piped, statusVars, peerVars>>
    BY <1>9 DEF FlowEnd, requestVars
  <2> QED
    BY <2>1, ReportedFrame DEF peerVars
<1>10. CASE UNCHANGED vars
  BY <1>10, ReportedFrame DEF vars, requestVars, decoderVars, peerVars
<1> QED
  BY <1>1, <1>2, <1>3, <1>4, <1>5, <1>6, <1>7, <1>8, <1>9, <1>10 DEF Next

LEMMA ReportedInvariant == Spec => []Reported
<1>1. Init => Reported
  BY DEF Init, Reported, ServerStatusReportedOnce
<1> QED
  BY <1>1, LifecycleInvariant, ReportedStep, PTL DEF Spec

-----------------------------------------------------------------------------
(* The order of the messages *)

(* Nothing is left after an end, and nothing is handed over before the start. *)
EndShape ==
  /\ phase # "started" => encIn = <<>> /\ encOut = <<>> /\ sent = <<>>
  /\ Handed("RST") => stream # "live"
  /\ Handed("END") => encIn = <<>> /\ ended
  /\ \A i \in 1..Len(encIn) : encIn[i].call = "end" => i = Len(encIn) /\ ended
  /\ dataSent => written >= 1

(* An end that is call number i brings the last of w messages, or comes after it. *)
EndsAt(arg, i, w) == (arg = 0 /\ i = w + 1) \/ (arg = i /\ i = w)

(* What waits for 'socket' ahead of the first abort are the messages in order, *)
(* and the end with the last of them or after it.                              *)
Unaborted(calls, k) == \A j \in 1..k : calls[j].call # "abort"

Waits ==
  phase \in {"new", "updating"} =>
    /\ \A i \in 1..Len(onSocket) : Unaborted(onSocket, i) =>
         /\ onSocket[i].call = "write" => onSocket[i].arg = i /\ i <= written
         /\ onSocket[i].call = "end" =>
              /\ ended /\ EndsAt(onSocket[i].arg, i, written)
              /\ \A j \in (i + 1)..Len(onSocket) : onSocket[j].call = "abort"
    /\ ~ended /\ Unaborted(onSocket, Len(onSocket)) => Len(onSocket) = written

(* The first n messages are handed over; m are encoded, of which those not yet *)
(* piped on are the last; and the encoder has been asked for those after them. *)
DataPart(n) ==
  /\ \A i \in 1..Len(sent) : Message(sent[i]) => sent[i].arg \in 1..n
  /\ \A i, j \in 1..Len(sent) :
       Message(sent[i]) /\ Message(sent[j]) /\ i < j => sent[i].arg < sent[j].arg
  /\ \A k \in 1..n : \E i \in 1..Len(sent) : Message(sent[i]) /\ sent[i].arg = k

OutPart(n, m) ==
  /\ \A i \in 1..Len(encOut) : encOut[i] = m - Len(encOut) + i
  /\ n + Len(encOut) <= m
  /\ ~Handed("RST") /\ peer # "reset" /\ ~Handed("END") => n + Len(encOut) = m

InPart(m) ==
  /\ m <= written
  /\ Running =>
       /\ \A i \in 1..Len(encIn) :
            /\ encIn[i].call = "write" => encIn[i].arg = m + i /\ m + i <= written
            /\ encIn[i].call = "end" =>
                 (encIn[i].arg = 0 /\ written = m + i - 1) \/ (encIn[i].arg = m + i /\ written = m + i)
       /\ stream = "live" /\ ~ended => written = m + Len(encIn)

AllPart(n) == ~congested /\ Handed("END") => n = written /\ Handed("DATA")

FlowAt(n, m) == DataPart(n) /\ OutPart(n, m) /\ InPart(m) /\ AllPart(n)
Flow == \E n, m \in Nat : FlowAt(n, m)

(* Frames of F, if any, are handed to the stream. *)
SentGrows(F) ==
  /\ sent' \in Seq(Frame) /\ Len(sent) <= Len(sent')
  /\ \A i \in 1..Len(sent) : sent'[i] = sent[i]
  /\ \A i \in (Len(sent) + 1)..Len(sent') : sent'[i] \in F

LEMMA SentLen == TypeOK => sent \in Seq(Frame) /\ Len(sent) \in Nat /\ DOMAIN sent = 1..Len(sent)
<1> QED
  BY LenProperties DEF TypeOK, EncoderTypeOK

LEMMA SentSame ==
  ASSUME TypeOK, sent' = sent, NEW F
  PROVE  SentGrows(F)
<1> QED
  BY SentLen DEF SentGrows

LEMMA SentAppended ==
  ASSUME TypeOK, NEW f \in Frame, sent' = Append(sent, f), NEW F, f \in F
  PROVE  SentGrows(F)
<1>1. sent \in Seq(Frame) /\ Len(sent) \in Nat
  BY SentLen
<1>2. /\ sent' \in Seq(Frame) /\ Len(sent') = Len(sent) + 1 /\ sent'[Len(sent) + 1] = f
      /\ \A i \in 1..Len(sent) : sent'[i] = sent[i]
  BY <1>1, AppendProperties
<1> QED
  BY <1>1, <1>2 DEF SentGrows

LEMMA HandedGrows ==
  ASSUME TypeOK, NEW F, SentGrows(F), NEW type
  PROVE  /\ Handed(type) => Handed(type)'
         /\ (\A f \in F : f.type # type) => (Handed(type)' => Handed(type))
<1>1. /\ DOMAIN sent = 1..Len(sent) /\ Len(sent) \in Nat
      /\ DOMAIN sent' = 1..Len(sent') /\ Len(sent') \in Nat
  BY SentLen, LenProperties DEF SentGrows
<1>2. ASSUME NEW i \in 1..Len(sent), sent[i].type = type PROVE Handed(type)'
  BY <1>1, <1>2 DEF Handed, SentGrows
<1>3. ASSUME \A f \in F : f.type # type, NEW i \in 1..Len(sent'), sent'[i].type = type
      PROVE  Handed(type)
  <2>1. CASE i \in 1..Len(sent)
    BY <1>1, <1>3, <2>1 DEF Handed, SentGrows
  <2>2. CASE i \in (Len(sent) + 1)..Len(sent')
    BY <1>3, <2>2 DEF SentGrows
  <2> QED
    BY <1>1, <2>1, <2>2
<1> QED
  BY <1>1, <1>2, <1>3 DEF Handed

LEMMA DataKept ==
  ASSUME TypeOK, NEW F, SentGrows(F), \A f \in F : ~Message(f), NEW n \in Nat, DataPart(n)
  PROVE  DataPart(n)'
<1>1. Len(sent) \in Nat /\ Len(sent') \in Nat
  BY SentLen, LenProperties DEF SentGrows
<1>2. \A i \in 1..Len(sent') : Message(sent'[i]) => i \in 1..Len(sent) /\ sent'[i] = sent[i]
  BY <1>1 DEF SentGrows
<1>3. \A i \in 1..Len(sent) : i \in 1..Len(sent') /\ sent'[i] = sent[i]
  BY <1>1 DEF SentGrows
<1>4. \A i \in 1..Len(sent') : Message(sent'[i]) => sent'[i].arg \in 1..n
  BY <1>2 DEF DataPart
<1>5. \A i, j \in 1..Len(sent') :
        Message(sent'[i]) /\ Message(sent'[j]) /\ i < j => sent'[i].arg < sent'[j].arg
  BY <1>2 DEF DataPart
<1>6. \A k \in 1..n : \E i \in 1..Len(sent') : Message(sent'[i]) /\ sent'[i].arg = k
  <2> SUFFICES ASSUME NEW k \in 1..n
               PROVE  \E i \in 1..Len(sent') : Message(sent'[i]) /\ sent'[i].arg = k
    OBVIOUS
  <2>1. PICK i \in 1..Len(sent) : Message(sent[i]) /\ sent[i].arg = k
    BY DEF DataPart
  <2> QED
    BY <1>3, <2>1
<1> QED
  BY <1>4, <1>5, <1>6 DEF DataPart, Message

LEMMA DataGrows ==
  ASSUME TypeOK, NEW n \in Nat, DataPart(n), sent' = Append(sent, FrameOf("DATA", n + 1))
  PROVE  DataPart(n + 1)'
<1> DEFINE f == FrameOf("DATA", n + 1)
<1>1. f.arg = n + 1
  BY DEF FrameOf
<1> HIDE DEF f
<1>2. sent \in Seq(Frame) /\ Len(sent) \in Nat
  BY SentLen
<1>3. /\ Len(sent') = Len(sent) + 1 /\ sent'[Len(sent) + 1] = f
      /\ \A i \in 1..Len(sent) : sent'[i] = sent[i]
  BY <1>2 DEF f
<1>m. Message(f)
  BY DEF f, FrameOf, Message
<1>4. \A i \in 1..Len(sent') : Message(sent'[i]) => sent'[i].arg \in 1..(n + 1)
  BY <1>1, <1>2, <1>3 DEF DataPart
<1>5. ASSUME NEW i \in 1..Len(sent'), NEW j \in 1..Len(sent'),
             Message(sent'[i]), Message(sent'[j]), i < j
      PROVE  sent'[i].arg < sent'[j].arg
  <2>1. i \in 1..Len(sent) /\ sent'[i] = sent[i] /\ sent[i].arg \in 1..n
    BY <1>2, <1>3, <1>5 DEF DataPart
  <2>2. CASE j = Len(sent) + 1
    BY <1>1, <1>3, <2>1, <2>2
  <2>3. CASE j \in 1..Len(sent)
    BY <1>3, <1>5, <2>1, <2>3 DEF DataPart
  <2> QED
    BY <1>2, <1>3, <2>2, <2>3
<1>6. ASSUME NEW k \in 1..(n + 1)
      PROVE  \E i \in 1..Len(sent') : Message(sent'[i]) /\ sent'[i].arg = k
  <2>1. CASE k = n + 1
    <3>1. Len(sent) + 1 \in 1..Len(sent')
      BY <1>2, <1>3
    <3> QED
      BY <1>1, <1>3, <1>m, <2>1, <3>1
  <2>2. CASE k \in 1..n
    <3>1. PICK i \in 1..Len(sent) : Message(sent[i]) /\ sent[i].arg = k
      BY <2>2 DEF DataPart
    <3>2. i \in 1..Len(sent') /\ sent'[i] = sent[i]
      BY <1>2, <1>3
    <3> QED
      BY <3>1, <3>2
  <2> QED
    BY <2>1, <2>2
<1> QED
  BY <1>4, <1>5, <1>6 DEF DataPart, Message

(* What a step leaves alone. *)
LEMMA ShapeFrame ==
  ASSUME EndShape, UNCHANGED <<sent, encOut, encIn, dataSent, written, ended, stream>>,
         phase' # "started" => phase # "started"
  PROVE  EndShape'
<1> QED
  BY DEF EndShape, Handed

LEMMA WaitsFrame ==
  ASSUME Waits, UNCHANGED <<onSocket, written, ended>>,
         phase' \in {"new", "updating"} => phase \in {"new", "updating"}
  PROVE  Waits'
<1> QED
  BY DEF Waits, Unaborted, EndsAt

LEMMA SentFrame ==
  ASSUME UNCHANGED <<sent, encOut>>, peer = "reset" => peer' = "reset",
         NEW n \in Nat, NEW m \in Nat, DataPart(n), OutPart(n, m)
  PROVE  DataPart(n)' /\ OutPart(n, m)'
<1>1. DataPart(n)'
  BY DEF DataPart, Message
<1>2. OutPart(n, m)'
  BY DEF OutPart, Handed
<1> QED
  BY <1>1, <1>2

LEMMA FlowFrame ==
  ASSUME UNCHANGED <<sent, encOut, encIn, written, ended, congested>>,
         stream' = "live" => stream = "live", peer = "reset" => peer' = "reset",
         Running' => Running, NEW n \in Nat, NEW m \in Nat, FlowAt(n, m)
  PROVE  FlowAt(n, m)'
<1>1. DataPart(n)' /\ OutPart(n, m)'
  BY SentFrame DEF FlowAt
<1>2. InPart(m)'
  BY DEF FlowAt, InPart
<1>3. AllPart(n)'
  BY DEF FlowAt, AllPart, Handed
<1> QED
  BY <1>1, <1>2, <1>3 DEF FlowAt

(* 'socket' fires: the encoder is asked for what waited ahead of an abort. *)
LEMMA FlowStart ==
  ASSUME TypeOK, Lifecycle, EndShape, Waits, phase \in {"new", "updating"}, StartStream
  PROVE  EndShape' /\ Waits' /\ FlowAt(0, 0)'
<1>1. PICK n \in 0..Len(onSocket) :
        /\ BeforeAbort(n)
        /\ phase' = "started"
        /\ stream' = IF n < Len(onSocket) THEN "null" ELSE "live"
        /\ encIn' = SubSeq(onSocket, 1, n)
        /\ dataSent' = \E i \in 1..n : onSocket[i].call = "write"
        /\ sent' = <<FrameOf("HEADERS", 0)>>
                     \o (IF n < Len(onSocket) THEN <<FrameOf("RST", 0)>> ELSE <<>>)
  BY DEF StartStream
<1>2. UNCHANGED <<encOut, congested, written, ended, peer, failure>>
  BY DEF StartStream, appVars, peerVars
<1>3. onSocket \in Seq(Call) /\ n \in Nat /\ Len(onSocket) \in Nat /\ written \in Nat
  <2>1. onSocket \in Seq(Call)
    BY DEF TypeOK, RequestTypeOK
  <2>2. Len(onSocket) \in Nat
    BY <2>1, LenProperties
  <2> QED
    BY <2>1, <2>2, WrittenNat
<1>4. Len(encIn') = n /\ \A i \in 1..n : encIn'[i] = onSocket[i]
  BY <1>1, <1>3, SubSeqProperties
<1>5. \A i \in 1..n :
        /\ onSocket[i].call \in {"write", "end"}
        /\ onSocket[i].call = "write" => onSocket[i].arg = i /\ i <= written
        /\ onSocket[i].call = "end" => ended /\ EndsAt(onSocket[i].arg, i, written) /\ i = n
  <2> SUFFICES ASSUME NEW i \in 1..n
               PROVE  /\ onSocket[i].call \in {"write", "end"}
                      /\ onSocket[i].call = "write" => onSocket[i].arg = i /\ i <= written
                      /\ onSocket[i].call = "end" => ended /\ EndsAt(onSocket[i].arg, i, written) /\ i = n
    OBVIOUS
  <2>1. i \in 1..Len(onSocket) /\ Unaborted(onSocket, i)
    BY <1>1, <1>3 DEF BeforeAbort, Unaborted
  <2>2. onSocket[i] \in Call /\ onSocket[i].call # "abort"
    BY <1>1, <1>3, <2>1 DEF BeforeAbort
  <2>3. onSocket[i].call \in {"write", "end"}
    BY <2>2 DEF Call, EncoderCall, AbortCall
  <2>4. /\ onSocket[i].call = "write" => onSocket[i].arg = i /\ i <= written
        /\ onSocket[i].call = "end" =>
             /\ ended /\ EndsAt(onSocket[i].arg, i, written)
             /\ \A j \in (i + 1)..Len(onSocket) : onSocket[j].call = "abort"
    BY <2>1 DEF Waits
  <2>5. ASSUME onSocket[i].call = "end", i # n PROVE FALSE
    <3>1. i + 1 \in 1..n /\ i + 1 \in (i + 1)..Len(onSocket)
      BY <1>3, <2>5
    <3> QED
      BY <1>1, <2>4, <2>5, <3>1 DEF BeforeAbort
  <2> QED
    BY <2>3, <2>4, <2>5
<1>6. Len(sent') \in Nat /\ DOMAIN sent' = 1..Len(sent')
      /\ \A i \in 1..Len(sent') :
           /\ sent'[i].type \in {"HEADERS", "RST"}
           /\ n = Len(onSocket) => sent'[i].type = "HEADERS"
  <2>1. CASE n < Len(onSocket)
    <3>1. sent' = <<FrameOf("HEADERS", 0)>> \o <<FrameOf("RST", 0)>>
      BY <1>1, <2>1
    <3> HIDE DEF FrameOf
    <3>2. Len(sent') = 2 /\ sent'[1] = FrameOf("HEADERS", 0) /\ sent'[2] = FrameOf("RST", 0)
          /\ DOMAIN sent' = 1..2
      BY <3>1
    <3> QED
      BY <1>3, <2>1, <3>2 DEF FrameOf
  <2>2. CASE ~(n < Len(onSocket))
    <3>1. sent' = <<FrameOf("HEADERS", 0)>>
      BY <1>1, <2>2
    <3> QED
      BY <3>1 DEF FrameOf
  <2> QED
    BY <2>1, <2>2
<1>7. /\ ~Handed("END")' /\ ~Handed("DATA")'
      /\ n = Len(onSocket) => ~Handed("RST")'
      /\ \A i \in 1..Len(sent') : ~Message(sent'[i])
  BY <1>6 DEF Handed, Message
<1>8. EndShape'
  <2>1. Handed("RST")' => stream' # "live"
    BY <1>1, <1>3, <1>7
  <2>2. \A i \in 1..n : encIn'[i].call = "end" => i = n /\ ended
    BY <1>4, <1>5
  <2>3. dataSent' => written >= 1
    <3> SUFFICES ASSUME NEW i \in 1..n, onSocket[i].call = "write" PROVE written >= 1
      BY <1>1
    <3>1. i <= written
      BY <1>5
    <3> QED
      BY <1>3, <3>1
  <2> QED
    BY <1>1, <1>2, <1>4, <1>7, <2>1, <2>2, <2>3 DEF EndShape
<1>9. Waits'
  BY <1>1 DEF Waits
<1>10. DataPart(0)'
  BY <1>7 DEF DataPart, Message
<1>11. OutPart(0, 0)'
  <2>1. encOut' = <<>> /\ Len(encOut') = 0
    BY <1>2 DEF EndShape, Lifecycle
  <2> QED
    BY <2>1 DEF OutPart
<1>12. InPart(0)'
  <2>1. \A i \in 1..Len(encIn') :
          /\ encIn'[i].call = "write" => encIn'[i].arg = 0 + i /\ 0 + i <= written
          /\ encIn'[i].call = "end" =>
               \/ encIn'[i].arg = 0 /\ written = 0 + i - 1
               \/ encIn'[i].arg = 0 + i /\ written = 0 + i
    BY <1>3, <1>4, <1>5 DEF EndsAt
  <2>2. stream' = "live" /\ ~ended => written = 0 + Len(encIn')
    <3> SUFFICES ASSUME stream' = "live", ~ended PROVE written = 0 + Len(encIn')
      OBVIOUS
    <3>1. n = Len(onSocket)
      BY <1>1, <1>3
    <3>2. Unaborted(onSocket, Len(onSocket))
      BY <1>1, <3>1 DEF BeforeAbort, Unaborted
    <3>3. Len(onSocket) = written
      BY <1>2, <1>3, <3>2 DEF Waits
    <3> QED
      BY <1>3, <1>4, <3>1, <3>3
  <2> QED
    BY <1>2, <1>3, <2>1, <2>2 DEF InPart
<1>13. AllPart(0)'
  BY <1>7 DEF AllPart
<1> QED
  BY <1>8, <1>9, <1>10, <1>11, <1>12, <1>13 DEF FlowAt

(* What is left of FlowAt when the encoder gets one call more. *)
LEMMA InGrows ==
  ASSUME TypeOK, EndShape, Running, ~ended, stream = "live", NEW m \in Nat, InPart(m)
  PROVE  /\ m <= written /\ written = m + Len(encIn)
         /\ \A i \in 1..Len(encIn) :
              encIn[i].call = "write" /\ encIn[i].arg = m + i /\ m + i <= written
<1>1. encIn \in Seq(EncoderCall)
  BY DEF TypeOK, EncoderTypeOK
<1>2. ASSUME NEW i \in 1..Len(encIn) PROVE encIn[i].call = "write"
  <2>1. encIn[i] \in EncoderCall
    BY <1>1, ElementOfSeq
  <2>2. encIn[i].call # "end"
    BY DEF EndShape
  <2> QED
    BY <2>1, <2>2 DEF EncoderCall
<1> QED
  BY <1>2 DEF InPart

(* One call more waits for 'socket'. *)
LEMMA WaitsGrows ==
  ASSUME TypeOK, Waits, phase \in {"new", "updating"}, NEW c, onSocket' = Append(onSocket, c),
         written \in Nat,
         \/ /\ c.call = "write" /\ c.arg = written + 1 /\ ~ended
            /\ written' = written + 1 /\ ended' = ended
         \/ /\ c.call = "end" /\ ~ended /\ ended' = TRUE
            /\ \/ c.arg = 0 /\ written' = written
               \/ c.arg = written + 1 /\ written' = written + 1
         \/ c.call = "abort" /\ UNCHANGED <<written, ended>>
  PROVE  Waits'
<1>1. onSocket \in Seq(Call) /\ Len(onSocket) \in Nat
  BY LenProperties DEF TypeOK, RequestTypeOK
<1>2. /\ Len(onSocket') = Len(onSocket) + 1 /\ onSocket'[Len(onSocket) + 1] = c
      /\ \A i \in 1..Len(onSocket) : onSocket'[i] = onSocket[i]
  BY <1>1, AppendProperties
<1>3. \A i \in 1..Len(onSocket) : Unaborted(onSocket', i) => Unaborted(onSocket, i)
  BY <1>1, <1>2 DEF Unaborted
<1>4. Unaborted(onSocket', Len(onSocket) + 1) => Unaborted(onSocket, Len(onSocket)) /\ c.call # "abort"
  BY <1>1, <1>2 DEF Unaborted
<1>5. Unaborted(onSocket, Len(onSocket)) /\ ~ended => Len(onSocket) = written
  BY DEF Waits
<1>6. ASSUME NEW i \in 1..Len(onSocket), Unaborted(onSocket', i)
      PROVE  /\ onSocket'[i].call = "write" => onSocket'[i].arg = i /\ i <= written'
             /\ onSocket'[i].call = "end" =>
                  /\ ended' /\ EndsAt(onSocket'[i].arg, i, written')
                  /\ \A j \in (i + 1)..Len(onSocket') : onSocket'[j].call = "abort"
  <2>1. /\ onSocket[i].call = "write" => onSocket[i].arg = i /\ i <= written
        /\ onSocket[i].call = "end" =>
             /\ ended /\ EndsAt(onSocket[i].arg, i, written)
             /\ \A j \in (i + 1)..Len(onSocket) : onSocket[j].call = "abort"
    BY <1>3, <1>6 DEF Waits
  <2>2. onSocket'[i].call = "write" => onSocket'[i].arg = i /\ i <= written'
    BY <1>1, <1>2, <2>1
  <2>3. ASSUME onSocket'[i].call = "end"
        PROVE  /\ ended' /\ EndsAt(onSocket'[i].arg, i, written')
               /\ \A j \in (i + 1)..Len(onSocket') : onSocket'[j].call = "abort"
    <3>1. /\ ended /\ EndsAt(onSocket[i].arg, i, written)
          /\ \A j \in (i + 1)..Len(onSocket) : onSocket[j].call = "abort"
      BY <1>2, <2>1, <2>3
    <3>2. c.call = "abort" /\ written' = written /\ ended' = ended
      BY <3>1
    <3>3. EndsAt(onSocket'[i].arg, i, written')
      BY <1>2, <3>1, <3>2 DEF EndsAt
    <3>4. ASSUME NEW j \in (i + 1)..Len(onSocket') PROVE onSocket'[j].call = "abort"
      <4>1. CASE j = Len(onSocket) + 1
        BY <1>2, <3>2, <4>1
      <4>2. CASE j \in (i + 1)..Len(onSocket)
        BY <1>1, <1>2, <3>1, <4>2
      <4> QED
        BY <1>1, <1>2, <3>4, <4>1, <4>2
    <3> QED
      BY <3>1, <3>2, <3>3, <3>4
  <2> QED
    BY <2>2, <2>3
<1>7. ASSUME Unaborted(onSocket', Len(onSocket) + 1)
      PROVE  /\ c.call = "write" => c.arg = Len(onSocket) + 1 /\ Len(onSocket) + 1 <= written'
             /\ c.call = "end" => ended' /\ EndsAt(c.arg, Len(onSocket) + 1, written')
             /\ ~ended' => Len(onSocket) + 1 = written'
  BY <1>1, <1>4, <1>5, <1>7 DEF EndsAt
<1>8. \A i \in 1..Len(onSocket') : Unaborted(onSocket', i) =>
        /\ onSocket'[i].call = "write" => onSocket'[i].arg = i /\ i <= written'
        /\ onSocket'[i].call = "end" =>
             /\ ended' /\ EndsAt(onSocket'[i].arg, i, written')
             /\ \A j \in (i + 1)..Len(onSocket') : onSocket'[j].call = "abort"
  <2> SUFFICES ASSUME NEW i \in 1..Len(onSocket'), Unaborted(onSocket', i)
               PROVE  /\ onSocket'[i].call = "write" => onSocket'[i].arg = i /\ i <= written'
                      /\ onSocket'[i].call = "end" =>
                           /\ ended' /\ EndsAt(onSocket'[i].arg, i, written')
                           /\ \A j \in (i + 1)..Len(onSocket') : onSocket'[j].call = "abort"
    OBVIOUS
  <2>1. CASE i \in 1..Len(onSocket)
    BY <1>6, <2>1
  <2>2. CASE i = Len(onSocket) + 1
    <3>1. onSocket'[i] = c /\ Unaborted(onSocket', Len(onSocket) + 1)
      BY <1>2, <2>2
    <3>2. \A j \in (i + 1)..Len(onSocket') : FALSE
      BY <1>1, <1>2, <2>2
    <3>3. /\ c.call = "write" => c.arg = i /\ i <= written'
          /\ c.call = "end" => ended' /\ EndsAt(c.arg, i, written')
      BY <1>7, <2>2, <3>1
    <3> QED
      BY <3>1, <3>2, <3>3
  <2> QED
    BY <1>1, <1>2, <2>1, <2>2
<1>9. ~ended' /\ Unaborted(onSocket', Len(onSocket')) => Len(onSocket') = written'
  BY <1>2, <1>7 DEF Unaborted
<1> QED
  BY <1>8, <1>9 DEF Waits

LEMMA FlowAsksWrite ==
  ASSUME TypeOK, Lifecycle, EndShape, Waits, Write, NEW n \in Nat, NEW m \in Nat, FlowAt(n, m)
  PROVE  EndShape' /\ Waits' /\ FlowAt(n, m)'
<1> DEFINE c == [call |-> "write", arg |-> written + 1]
<1>1. /\ Running /\ ~ended /\ written' = written + 1 /\ Ask(c)
      /\ UNCHANGED <<phase, stream, cancelled, encOut, sent, congested, ended, peer, failure>>
  BY DEF Write, peerVars
<1>2. c.call = "write" /\ c.arg = written + 1
  OBVIOUS
<1> HIDE DEF c
<1>3. /\ written \in Nat /\ encIn \in Seq(EncoderCall) /\ Len(encIn) \in Nat
      /\ onSocket \in Seq(Call) /\ Len(onSocket) \in Nat
  <2>1. encIn \in Seq(EncoderCall) /\ onSocket \in Seq(Call)
    BY DEF TypeOK, EncoderTypeOK, RequestTypeOK
  <2> QED
    BY <2>1, WrittenNat, LenProperties
<1>4. DataPart(n)' /\ OutPart(n, m)'
  BY <1>1, SentFrame DEF FlowAt
<1>5. ~Handed("END") /\ ~Handed("END")'
  BY <1>1 DEF EndShape, Handed
<1>6. AllPart(n)'
  BY <1>5 DEF AllPart
<1>7. m <= written /\ InPart(m)
  BY DEF FlowAt, InPart
<1>8. CASE UNCHANGED <<encIn, dataSent>> /\ (cancelled \/ stream # "live")
  <2>1. stream # "live"
    BY <1>8 DEF Lifecycle
  <2>2. EndShape'
    BY <1>1, <1>3, <1>8 DEF EndShape, Handed
  <2>3. \A i \in 1..Len(encIn) :
          encIn[i].call = "write" => encIn[i].arg = m + i /\ m + i <= written + 1
    BY <1>1, <1>3, <1>7 DEF InPart
  <2>4. \A i \in 1..Len(encIn) : encIn[i].call # "end"
    BY <1>1 DEF EndShape
  <2>5. InPart(m)'
    BY <1>1, <1>3, <1>7, <1>8, <2>1, <2>3, <2>4 DEF InPart
  <2>6. Waits'
    <3>1. CASE phase \notin {"new", "updating"}
      BY <1>1, <3>1 DEF Waits
    <3>2. CASE phase \in {"new", "updating"}
      <4>1. onSocket' = Append(onSocket, c)
        BY <1>1, <1>8, <2>1, <3>2 DEF Ask, WaitForSocket, Lifecycle
      <4> QED
        BY <1>1, <1>2, <1>3, <3>2, <4>1, WaitsGrows
    <3> QED
      BY <3>1, <3>2
  <2> QED
    BY <1>4, <1>6, <2>2, <2>5, <2>6 DEF FlowAt
<1>10. CASE /\ stream = "live" /\ encIn' = Append(encIn, c) /\ dataSent' = TRUE
            /\ UNCHANGED onSocket
  <2>1. phase \notin {"new", "updating"} /\ phase = "started"
    BY <1>10 DEF Lifecycle, TypeOK, RequestTypeOK
  <2>2. /\ Len(encIn') = Len(encIn) + 1 /\ encIn'[Len(encIn) + 1] = c
        /\ \A i \in 1..Len(encIn) : encIn'[i] = encIn[i]
    BY <1>3, <1>10, AppendProperties
  <2>3. /\ written = m + Len(encIn)
        /\ \A i \in 1..Len(encIn) :
             encIn[i].call = "write" /\ encIn[i].arg = m + i /\ m + i <= written
    BY <1>1, <1>7, <1>10, InGrows
  <2>4. \A i \in 1..Len(encIn') :
          encIn'[i].call = "write" /\ encIn'[i].arg = m + i /\ m + i <= written'
    <3> SUFFICES ASSUME NEW i \in 1..Len(encIn')
                 PROVE  encIn'[i].call = "write" /\ encIn'[i].arg = m + i /\ m + i <= written'
      OBVIOUS
    <3>1. CASE i \in 1..Len(encIn)
      <4>1. encIn'[i] = encIn[i] /\ encIn[i].call = "write" /\ encIn[i].arg = m + i /\ m + i <= written
        BY <2>2, <2>3, <3>1
      <4> QED
        BY <1>1, <1>3, <3>1, <4>1
    <3>2. CASE i = Len(encIn) + 1
      BY <1>1, <1>2, <1>3, <2>2, <2>3, <3>2
    <3> QED
      BY <1>3, <2>2, <3>1, <3>2
  <2>5. written' = m + Len(encIn') /\ m <= written' /\ written' >= 1
    BY <1>1, <1>3, <1>7, <2>2, <2>3
  <2>6. InPart(m)'
    BY <2>4, <2>5 DEF InPart
  <2>7. EndShape'
    BY <1>1, <1>5, <1>10, <2>1, <2>4, <2>5 DEF EndShape, Handed
  <2>8. Waits'
    BY <1>1, <2>1 DEF Waits
  <2> QED
    BY <1>4, <1>6, <2>6, <2>7, <2>8 DEF FlowAt
<1> QED
  BY <1>1, <1>2, <1>8, <1>10 DEF Ask

LEMMA FlowAsksEnd ==
  ASSUME TypeOK, Lifecycle, EndShape, Waits, End, NEW n \in Nat, NEW m \in Nat, FlowAt(n, m)
  PROVE  EndShape' /\ Waits' /\ FlowAt(n, m)'
<1>0. PICK k : /\ Ask([call |-> "end", arg |-> k])
               /\ (k = 0 /\ written' = written) \/ (k = written + 1 /\ written' = written + 1)
  BY DEF End
<1> DEFINE c == [call |-> "end", arg |-> k]
<1>a. /\ Running /\ ~ended /\ ended' = TRUE
      /\ UNCHANGED <<phase, stream, cancelled, encOut, sent, congested, peer, failure>>
  BY DEF End, peerVars
<1>1. /\ Running /\ ~ended /\ ended' = TRUE /\ Ask(c)
      /\ UNCHANGED <<phase, stream, cancelled, encOut, sent, congested, peer, failure>>
  BY <1>0, <1>a
<1>2. /\ c.call = "end" /\ c.arg = k
      /\ (k = 0 /\ written' = written) \/ (k = written + 1 /\ written' = written + 1)
  BY <1>0
<1> HIDE DEF c
<1>3. /\ written \in Nat /\ encIn \in Seq(EncoderCall) /\ Len(encIn) \in Nat
      /\ onSocket \in Seq(Call) /\ Len(onSocket) \in Nat
  <2>1. encIn \in Seq(EncoderCall) /\ onSocket \in Seq(Call)
    BY DEF TypeOK, EncoderTypeOK, RequestTypeOK
  <2> QED
    BY <2>1, WrittenNat, LenProperties
<1>4. DataPart(n)' /\ OutPart(n, m)'
  BY <1>1, SentFrame DEF FlowAt
<1>5. ~Handed("END") /\ ~Handed("END")'
  BY <1>1 DEF EndShape, Handed
<1>6. AllPart(n)'
  BY <1>5 DEF AllPart
<1>7. m <= written /\ InPart(m)
  BY DEF FlowAt, InPart
<1>8. CASE UNCHANGED <<encIn, dataSent>> /\ (cancelled \/ stream # "live")
  <2>1. stream # "live"
    BY <1>8 DEF Lifecycle
  <2>2. EndShape'
    BY <1>1, <1>2, <1>3, <1>8 DEF EndShape, Handed
  <2>3. InPart(m)'
    <3>1. \A i \in 1..Len(encIn) : encIn[i].call # "end"
      BY <1>1 DEF EndShape
    <3>2. \A i \in 1..Len(encIn) :
            encIn[i].call = "write" => encIn[i].arg = m + i /\ m + i <= written'
      BY <1>1, <1>2, <1>3, <1>7 DEF InPart
    <3>3. m <= written'
      BY <1>2, <1>3, <1>7
    <3> QED
      BY <1>1, <1>8, <2>1, <3>1, <3>2, <3>3 DEF InPart
  <2>6. Waits'
    <3>1. CASE phase \notin {"new", "updating"}
      BY <1>1, <3>1 DEF Waits
    <3>2. CASE phase \in {"new", "updating"}
      <4>1. onSocket' = Append(onSocket, c)
        BY <1>1, <1>8, <2>1, <3>2 DEF Ask, WaitForSocket, Lifecycle
      <4> QED
        BY <1>1, <1>2, <1>3, <3>2, <4>1, WaitsGrows
    <3> QED
      BY <3>1, <3>2
  <2> QED
    BY <1>4, <1>6, <2>2, <2>3, <2>6 DEF FlowAt
<1>10. CASE /\ stream = "live" /\ encIn' = Append(encIn, c) /\ (dataSent' => dataSent)
            /\ UNCHANGED onSocket
  <2>1. phase \notin {"new", "updating"} /\ phase = "started"
    BY <1>10 DEF Lifecycle, TypeOK, RequestTypeOK
  <2>2. /\ Len(encIn') = Len(encIn) + 1 /\ encIn'[Len(encIn) + 1] = c
        /\ \A i \in 1..Len(encIn) : encIn'[i] = encIn[i]
    BY <1>3, <1>10, AppendProperties
  <2>3. /\ written = m + Len(encIn)
        /\ \A i \in 1..Len(encIn) :
             encIn[i].call = "write" /\ encIn[i].arg = m + i /\ m + i <= written
    BY <1>1, <1>7, <1>10, InGrows
  <2>4. ASSUME NEW i \in 1..Len(encIn')
        PROVE  /\ encIn'[i].call = "write" => encIn'[i].arg = m + i /\ m + i <= written'
               /\ encIn'[i].call = "end" =>
                    /\ i = Len(encIn')
                    /\ \/ encIn'[i].arg = 0 /\ written' = m + i - 1
                       \/ encIn'[i].arg = m + i /\ written' = m + i
    <3>1. CASE i \in 1..Len(encIn)
      <4>1. encIn'[i] = encIn[i] /\ encIn[i].call = "write" /\ encIn[i].arg = m + i /\ m + i <= written
        BY <2>2, <2>3, <3>1
      <4> QED
        BY <1>2, <1>3, <4>1
    <3>2. CASE i = Len(encIn) + 1
      <4>1. written = m + i - 1
        BY <1>3, <2>3, <3>2
      <4>2. (k = 0 /\ written' = m + i - 1) \/ (k = m + i /\ written' = m + i)
        BY <1>2, <1>3, <4>1, <3>2
      <4> QED
        BY <1>2, <2>2, <3>2, <4>2
    <3> QED
      BY <1>3, <2>2, <3>1, <3>2
  <2>5. m <= written' /\ written' >= written /\ written' \in Nat
    BY <1>2, <1>3, <1>7
  <2>6. InPart(m)'
    BY <1>1, <2>4, <2>5 DEF InPart
  <2>7. EndShape'
    <3>1. dataSent' => written' >= 1
      BY <1>3, <1>10, <2>5 DEF EndShape
    <3>2. \A i \in 1..Len(encIn') : encIn'[i].call = "end" => i = Len(encIn') /\ ended'
      BY <1>1, <2>4
    <3> QED
      BY <1>1, <1>5, <2>1, <3>1, <3>2 DEF EndShape, Handed
  <2>8. Waits'
    BY <1>1, <2>1 DEF Waits
  <2> QED
    BY <1>4, <1>6, <2>6, <2>7, <2>8 DEF FlowAt
<1> QED
  BY <1>1, <1>2, <1>8, <1>10 DEF Ask

LEMMA FlowAbort ==
  ASSUME TypeOK, Lifecycle, EndShape, Waits, NEW code, Abort(code),
         UNCHANGED <<phase, encIn, encOut, dataSent, written, ended, congested, peer, failure>>,
         NEW n \in Nat, NEW m \in Nat, FlowAt(n, m)
  PROVE  EndShape' /\ Waits' /\ FlowAt(n, m)'
<1>1. CASE stream = "live"
  <2>1. phase = "started"
    BY <1>1 DEF Lifecycle, TypeOK, RequestTypeOK
  <2>2. sent' = Append(sent, FrameOf("RST", 0)) /\ stream' = "null"
    BY <1>1 DEF Abort, StreamDropped
  <2>3. /\ FrameOf("RST", 0) \in Frame /\ FrameOf("RST", 0).type = "RST"
    BY FrameOfType DEF FrameOf
  <2>4. SentGrows({FrameOf("RST", 0)})
    BY <2>2, <2>3, SentAppended
  <2>5. /\ Handed("END")' <=> Handed("END")
        /\ Handed("RST") => Handed("RST")'
        /\ Handed("DATA") => Handed("DATA")'
    BY <2>3, <2>4, HandedGrows
  <2>6. DataPart(n)'
    BY <2>3, <2>4, DataKept DEF FlowAt, Message
  <2>7. OutPart(n, m)'
    BY <2>5 DEF FlowAt, OutPart
  <2>8. InPart(m)'
    BY <2>2 DEF FlowAt, InPart, Running
  <2>9. AllPart(n)'
    BY <2>5 DEF FlowAt, AllPart
  <2>10. EndShape'
    BY <2>1, <2>2, <2>5 DEF EndShape
  <2>11. Waits'
    BY <2>1 DEF Waits
  <2> QED
    BY <2>6, <2>7, <2>8, <2>9, <2>10, <2>11 DEF FlowAt
<1>2. CASE stream # "live"
  <2>1. UNCHANGED <<sent, stream>>
    BY <1>2 DEF Abort
  <2>2. EndShape'
    BY <2>1, ShapeFrame
  <2>3. FlowAt(n, m)'
    BY <2>1, FlowFrame DEF Running
  <2>4. CASE phase \notin {"new", "updating"}
    BY <2>2, <2>3, <2>4 DEF Waits
  <2>5. CASE phase \in {"new", "updating"}
    <3> DEFINE c == [call |-> "abort", arg |-> code]
    <3>1. onSocket' = Append(onSocket, c) /\ c.call = "abort"
      BY <1>2, <2>5 DEF Abort, WaitForSocket
    <3> HIDE DEF c
    <3>2. Waits'
      BY <2>5, <3>1, WrittenNat, WaitsGrows
    <3> QED
      BY <2>2, <2>3, <3>2
  <2> QED
    BY <2>4, <2>5
<1> QED
  BY <1>1, <1>2

(* What is encoded next is the message after the first m. *)
LEMMA FlowEncode ==
  ASSUME TypeOK, EndShape, EncodeNext, NEW n \in Nat, NEW m \in Nat, FlowAt(n, m)
  PROVE  EndShape' /\ (FlowAt(n, m)' \/ FlowAt(n, m + 1)')
<1>1. /\ Running /\ encIn # <<>> /\ Head(encIn).arg > 0
      /\ encIn' = IF Head(encIn).call = "write" THEN Tail(encIn)
                  ELSE <<[call |-> "end", arg |-> 0]>>
      /\ UNCHANGED <<phase, stream, dataSent, sent, congested, written, ended, peer>>
  BY DEF EncodeNext, requestVars, appVars, peerVars
<1>2. encIn \in Seq(EncoderCall) /\ encOut \in Seq(Nat)
  BY DEF TypeOK, EncoderTypeOK
<1>3. /\ Len(encIn) \in Nat /\ Len(encIn) >= 1 /\ 1 \in 1..Len(encIn)
      /\ Head(encIn) = encIn[1] /\ encIn[1] \in EncoderCall
  BY <1>1, <1>2, HeadTailProperties, LenProperties
<1>4. written \in Nat /\ Len(encOut) \in Nat
  BY <1>2, WrittenNat, LenProperties
<1>5. /\ ~Handed("END") /\ ~Handed("END")' /\ phase = "started"
      /\ Handed("RST")' = Handed("RST")
  BY <1>1 DEF EndShape, Handed
<1>6. /\ m <= written
      /\ \A i \in 1..Len(encIn) :
           /\ encIn[i].call = "write" => encIn[i].arg = m + i /\ m + i <= written
           /\ encIn[i].call = "end" =>
                \/ encIn[i].arg = 0 /\ written = m + i - 1
                \/ encIn[i].arg = m + i /\ written = m + i
      /\ stream = "live" /\ ~ended => written = m + Len(encIn)
  BY <1>1 DEF FlowAt, InPart
<1>7. Head(encIn).arg = m + 1 /\ m + 1 <= written
  <2>1. encIn[1].call \in {"write", "end"} /\ encIn[1].arg > 0
    BY <1>1, <1>3 DEF EncoderCall
  <2> QED
    BY <1>3, <1>6, <2>1
<1>i. /\ Len(encIn') \in Nat
      /\ \A i \in 1..Len(encIn') :
           /\ encIn'[i].call = "write" => encIn'[i].arg = (m + 1) + i /\ (m + 1) + i <= written
           /\ encIn'[i].call = "end" =>
                /\ i = Len(encIn') /\ ended
                /\ \/ encIn'[i].arg = 0 /\ written = (m + 1) + i - 1
                   \/ encIn'[i].arg = (m + 1) + i /\ written = (m + 1) + i
      /\ stream = "live" /\ ~ended => written = (m + 1) + Len(encIn')
  <2>1. CASE Head(encIn).call = "write"
    <3>1. /\ Len(encIn') \in Nat /\ Len(encIn') = Len(encIn) - 1
          /\ \A i \in 1..Len(encIn') : encIn'[i] = encIn[i + 1]
      <4>1. encIn' = Tail(encIn) /\ encIn # <<>>
        BY <1>1, <2>1
      <4>2. /\ Tail(encIn) \in Seq(EncoderCall) /\ Len(Tail(encIn)) = Len(encIn) - 1
            /\ \A i \in 1..Len(Tail(encIn)) : Tail(encIn)[i] = encIn[i + 1]
        BY <1>2, <4>1, HeadTailProperties
      <4> QED
        BY <4>1, <4>2, LenProperties
    <3>2. ASSUME NEW i \in 1..Len(encIn')
          PROVE  /\ encIn'[i].call = "write" =>
                      encIn'[i].arg = (m + 1) + i /\ (m + 1) + i <= written
                 /\ encIn'[i].call = "end" =>
                      /\ i = Len(encIn') /\ ended
                      /\ \/ encIn'[i].arg = 0 /\ written = (m + 1) + i - 1
                         \/ encIn'[i].arg = (m + 1) + i /\ written = (m + 1) + i
      <4>1. i + 1 \in 1..Len(encIn) /\ encIn'[i] = encIn[i + 1]
        BY <1>3, <3>1
      <4>2. encIn[i + 1].call = "end" => i + 1 = Len(encIn) /\ ended
        BY <4>1 DEF EndShape
      <4>3. /\ encIn[i + 1].call = "write" => encIn[i + 1].arg = m + (i + 1) /\ m + (i + 1) <= written
            /\ encIn[i + 1].call = "end" =>
                 \/ encIn[i + 1].arg = 0 /\ written = m + (i + 1) - 1
                 \/ encIn[i + 1].arg = m + (i + 1) /\ written = m + (i + 1)
        BY <1>6, <4>1
      <4> QED
        BY <1>3, <1>4, <3>1, <4>1, <4>2, <4>3
    <3>3. stream = "live" /\ ~ended => written = (m + 1) + Len(encIn')
      BY <1>3, <1>4, <1>6, <3>1
    <3> QED
      BY <3>1, <3>2, <3>3
  <2>2. CASE Head(encIn).call # "write"
    <3>1. encIn[1].call = "end" /\ encIn' = <<[call |-> "end", arg |-> 0]>>
      BY <1>1, <1>3, <2>2 DEF EncoderCall
    <3>2. ended /\ written = m + 1
      BY <1>1, <1>3, <1>4, <1>6, <3>1 DEF EndShape
    <3>3. /\ Len(encIn') = 1 /\ encIn'[1].call = "end" /\ encIn'[1].arg = 0
          /\ written = (m + 1) + 1 - 1
      BY <3>1, <3>2
    <3> QED
      BY <3>2, <3>3
  <2> QED
    BY <2>1, <2>2
<1>s. EndShape'
  BY <1>1, <1>5, <1>i DEF EndShape
<1>8. DataPart(n)'
  BY <1>1 DEF FlowAt, DataPart, Message
<1>9. AllPart(n)'
  BY <1>5 DEF AllPart
<1>10. CASE failure' = "marshal" /\ UNCHANGED encOut
  <2>1. InPart(m)'
    BY <1>1, <1>10 DEF FlowAt, InPart, Running
  <2>2. OutPart(n, m)'
    BY <1>1, <1>5, <1>10 DEF FlowAt, OutPart
  <2> QED
    BY <1>s, <1>8, <1>9, <2>1, <2>2 DEF FlowAt
<1>11. CASE encOut' = Append(encOut, Head(encIn).arg) /\ UNCHANGED failure
  <2>5. InPart(m + 1)'
    BY <1>1, <1>7, <1>i DEF InPart
  <2>6. /\ Len(encOut') = Len(encOut) + 1 /\ encOut'[Len(encOut) + 1] = m + 1
        /\ \A i \in 1..Len(encOut) : encOut'[i] = encOut[i]
    BY <1>2, <1>7, <1>11, AppendProperties
  <2>7. /\ \A i \in 1..Len(encOut) : encOut[i] = m - Len(encOut) + i
        /\ n + Len(encOut) <= m
        /\ ~Handed("RST") /\ peer # "reset" => n + Len(encOut) = m
    BY <1>5 DEF FlowAt, OutPart
  <2>8. ASSUME NEW i \in 1..Len(encOut') PROVE encOut'[i] = (m + 1) - Len(encOut') + i
    <3>1. CASE i = Len(encOut) + 1
      BY <1>4, <2>6, <3>1
    <3>2. CASE i \in 1..Len(encOut)
      <4>1. encOut'[i] = m - Len(encOut) + i
        BY <2>6, <2>7, <3>2
      <4> QED
        BY <1>4, <2>6, <4>1
    <3> QED
      BY <1>4, <2>6, <3>1, <3>2
  <2>9. n + Len(encOut') <= m + 1 /\ (n + Len(encOut) = m => n + Len(encOut') = m + 1)
    <3>1. Len(encOut') = Len(encOut) + 1 /\ n + Len(encOut) <= m
      BY <2>6, <2>7
    <3> QED
      BY <1>4, <3>1
  <2>10. OutPart(n, m + 1)'
    BY <1>1, <1>5, <2>7, <2>8, <2>9 DEF OutPart
  <2> QED
    BY <1>s, <1>8, <1>9, <2>5, <2>10 DEF FlowAt
<1> QED
  BY <1>10, <1>11 DEF EncodeNext

(* The first message that was encoded and not yet piped on is the next. *)
LEMMA FlowPipe ==
  ASSUME TypeOK, EndShape, PipeEncoded, NEW n \in Nat, NEW m \in Nat, FlowAt(n, m)
  PROVE  EndShape' /\ (FlowAt(n, m)' \/ FlowAt(n + 1, m)')
<1>1. /\ encOut # <<>> /\ encOut' = Tail(encOut)
      /\ UNCHANGED <<phase, stream, dataSent, encIn, congested, written, ended, peer, failure>>
  BY DEF PipeEncoded, requestVars, appVars, peerVars
<1>2. encOut \in Seq(Nat)
  BY DEF TypeOK, EncoderTypeOK
<1>3. /\ Len(encOut) \in Nat /\ Len(encOut) >= 1 /\ Len(encOut') = Len(encOut) - 1
      /\ \A i \in 1..Len(encOut') : encOut'[i] = encOut[i + 1]
      /\ Head(encOut) = encOut[1] /\ Len(encOut') \in Nat /\ Head(encOut) \in Nat
  BY <1>1, <1>2, HeadTailProperties, LenProperties
<1>4. /\ \A i \in 1..Len(encOut) : encOut[i] = m - Len(encOut) + i
      /\ n + Len(encOut) <= m
      /\ ~Handed("RST") /\ peer # "reset" /\ ~Handed("END") => n + Len(encOut) = m
  BY DEF FlowAt, OutPart
<1>5. ASSUME NEW i \in 1..Len(encOut') PROVE encOut'[i] = m - Len(encOut') + i
  <2>1. i + 1 \in 1..Len(encOut) /\ encOut'[i] = encOut[i + 1]
    BY <1>3
  <2>2. encOut'[i] = m - Len(encOut) + (i + 1)
    BY <1>4, <2>1
  <2> QED
    BY <1>3, <2>2
<1>6. InPart(m)'
  BY <1>1 DEF FlowAt, InPart, Running
<1>7. phase = "started" /\ written \in Nat
  BY <1>1, WrittenNat DEF EndShape
<1>8. CASE Handed("END") \/ Handed("RST") \/ peer = "reset"
  <2>1. sent' = sent
    BY <1>8 DEF PipeEncoded, Hand
  <2>2. EndShape'
    BY <1>1, <1>7, <2>1 DEF EndShape, Handed
  <2>3. DataPart(n)'
    BY <2>1 DEF FlowAt, DataPart, Message
  <2>4. n + Len(encOut') <= m
    BY <1>3, <1>4
  <2>5. OutPart(n, m)'
    BY <1>1, <1>5, <1>8, <2>1, <2>4 DEF OutPart, Handed
  <2>6. AllPart(n)'
    BY <1>1, <2>1 DEF FlowAt, AllPart, Handed
  <2> QED
    BY <1>6, <2>2, <2>3, <2>5, <2>6 DEF FlowAt
<1>9. CASE ~(Handed("END") \/ Handed("RST") \/ peer = "reset")
  <2> DEFINE f == FrameOf("DATA", Head(encOut))
  <2>1. n + Len(encOut) = m /\ Head(encOut) = n + 1
    <3>1. 1 \in 1..Len(encOut)
      BY <1>3
    <3>2. n + Len(encOut) = m /\ encOut[1] = m - Len(encOut) + 1
      BY <1>4, <1>9, <3>1
    <3> QED
      BY <1>3, <3>2
  <2>2. f \in Frame /\ f.type = "DATA"
    BY <1>3, FrameOfType DEF FrameOf
  <2>3. sent' = sent \o <<f>>
    BY <1>9 DEF PipeEncoded, Hand
  <2> HIDE DEF f
  <2>4. sent' = Append(sent, f)
    <3>1. sent \in Seq(Frame)
      BY SentLen
    <3> QED
      BY <2>2, <2>3, <3>1, AppendIsConcat
  <2>5. DataPart(n + 1)'
    <3>1. sent' = Append(sent, FrameOf("DATA", n + 1))
      BY <2>1, <2>4 DEF f
    <3> QED
      BY <3>1, DataGrows DEF FlowAt
  <2>6. SentGrows({f})
    BY <2>2, <2>4, SentAppended
  <2>7. ~Handed("END")' /\ ~Handed("RST")'
    BY <1>9, <2>2, <2>6, HandedGrows
  <2>8. EndShape'
    BY <1>1, <1>7, <2>7 DEF EndShape
  <2>9. (n + 1) + Len(encOut') = m /\ (n + 1) + Len(encOut') <= m
    <3>1. Len(encOut') = Len(encOut) - 1 /\ Len(encOut) \in Nat
      BY <1>3
    <3> QED
      BY <2>1, <3>1
  <2>10. OutPart(n + 1, m)'
    BY <1>5, <2>9 DEF OutPart
  <2>11. AllPart(n + 1)'
    BY <2>7 DEF AllPart
  <2> QED
    BY <1>6, <2>5, <2>8, <2>10, <2>11 DEF FlowAt
<1> QED
  BY <1>8, <1>9

(* What _finish hands over: no message, but DATA and END. *)
LEMMA FinishHands ==
  ASSUME TypeOK, sent' = sent \o FinalFrames
  PROVE  /\ SentGrows({FrameOf("DATA", 0), FrameOf("END", 0)})
         /\ ~dataSent => Handed("DATA")'
<1> DEFINE d == FrameOf("DATA", 0)
           e == FrameOf("END", 0)
<1>1. d \in Frame /\ e \in Frame /\ d.type = "DATA"
  BY FrameOfType DEF FrameOf
<1>2. FinalFrames = IF dataSent THEN <<>> \o <<e>> ELSE <<d>> \o <<e>>
  BY DEF FinalFrames
<1> HIDE DEF d, e
<1>3. sent \in Seq(Frame) /\ Len(sent) \in Nat
  BY SentLen
<1>4. CASE dataSent
  <2>1. FinalFrames = <<e>>
    BY <1>2, <1>4
  <2>2. /\ sent' \in Seq(Frame) /\ Len(sent') = Len(sent) + 1 /\ sent'[Len(sent) + 1] = e
        /\ \A i \in 1..Len(sent) : sent'[i] = sent[i]
    BY <1>1, <1>3, <2>1
  <2>3. SentGrows({d, e})
    BY <1>3, <2>2 DEF SentGrows
  <2> QED
    BY <1>4, <2>3 DEF d, e
<1>5. CASE ~dataSent
  <2>0. FinalFrames = <<d>> \o <<e>>
    BY <1>2, <1>5
  <2>1. /\ FinalFrames \in Seq(Frame) /\ Len(FinalFrames) = 2
        /\ FinalFrames[1] = d /\ FinalFrames[2] = e
    BY <1>1, <2>0
  <2>2. /\ sent' \in Seq(Frame) /\ Len(sent') = Len(sent) + 2
        /\ sent'[Len(sent) + 1] = d /\ sent'[Len(sent) + 2] = e
        /\ \A i \in 1..Len(sent) : sent'[i] = sent[i]
    <3>0. /\ sent \o FinalFrames \in Seq(Frame)
          /\ Len(sent \o FinalFrames) = Len(sent) + Len(FinalFrames)
          /\ \A i \in 1..(Len(sent) + Len(FinalFrames)) :
               (sent \o FinalFrames)[i]
                 = IF i <= Len(sent) THEN sent[i] ELSE FinalFrames[i - Len(sent)]
      BY <1>3, <2>1, ConcatProperties, Zenon
    <3>1. /\ sent' \in Seq(Frame) /\ Len(sent') = Len(sent) + 2
          /\ \A i \in 1..(Len(sent) + 2) :
               sent'[i] = IF i <= Len(sent) THEN sent[i] ELSE FinalFrames[i - Len(sent)]
      BY <2>1, <3>0, Zenon
    <3>2. sent'[Len(sent) + 1] = FinalFrames[1] /\ sent'[Len(sent) + 2] = FinalFrames[2]
      BY <1>3, <3>1
    <3> QED
      BY <1>3, <2>1, <3>1, <3>2
  <2>3. SentGrows({d, e})
    BY <1>3, <2>2 DEF SentGrows
  <2>4. Len(sent) + 1 \in DOMAIN sent'
    BY <1>3, <2>2, LenProperties
  <2>5. Handed("DATA")'
    BY <1>1, <2>2, <2>4 DEF Handed
  <2> QED
    BY <2>3, <2>5 DEF d, e
<1> QED
  BY <1>4, <1>5

(* The end that the encoder has worked off comes after all messages. *)
LEMMA FlowFinish ==
  ASSUME TypeOK, EndShape, Finish, NEW n \in Nat, NEW m \in Nat, FlowAt(n, m)
  PROVE  EndShape' /\ FlowAt(n, m)'
<1>1. /\ Running /\ encIn # <<>> /\ encIn' = Tail(encIn)
      /\ Head(encIn).call = "end" /\ Head(encIn).arg = 0
      /\ congested \/ encOut = <<>>
      /\ UNCHANGED <<phase, stream, dataSent, encOut, congested, written, ended, peer, failure>>
  BY DEF Finish, requestVars, appVars, peerVars
<1>2. encIn \in Seq(EncoderCall) /\ Len(encIn) \in Nat /\ Len(encIn) >= 1 /\ Head(encIn) = encIn[1]
  <2>1. encIn \in Seq(EncoderCall)
    BY DEF TypeOK, EncoderTypeOK
  <2> QED
    BY <1>1, <2>1, HeadTailProperties, LenProperties
<1>3. 1 \in 1..Len(encIn) /\ encIn[1].call = "end" /\ encIn[1].arg = 0
  BY <1>1, <1>2
<1>4. Len(encIn) = 1 /\ ended /\ written = m + 1 - 1
  <2>1. Len(encIn) = 1 /\ ended
    BY <1>3 DEF EndShape
  <2>2. written = m + 1 - 1 \/ (0 = m + 1 /\ written = m + 1)
    BY <1>1, <1>3 DEF FlowAt, InPart
  <2> QED
    BY <2>1, <2>2
<1>5. encIn' = <<>> /\ written = m
  <2>1. Tail(encIn) \in Seq(EncoderCall) /\ Len(Tail(encIn)) = 0
    BY <1>1, <1>2, <1>4, HeadTailProperties
  <2> QED
    BY <1>1, <1>4, <2>1, EmptySeq
<1>6. InPart(m)'
  <2>1. Len(encIn') = 0 /\ m <= written /\ 1..0 = {}
    BY <1>5
  <2> QED
    BY <1>1, <1>4, <2>1 DEF InPart
<1>7. phase = "started" /\ ~Handed("END")
  BY <1>1 DEF EndShape
<1>8. CASE sent' = sent
  <2>1. EndShape'
    BY <1>1, <1>5, <1>7, <1>8 DEF EndShape, Handed
  <2>2. DataPart(n)' /\ OutPart(n, m)' /\ AllPart(n)'
    BY <1>1, <1>7, <1>8, SentFrame DEF FlowAt, AllPart, Handed
  <2> QED
    BY <1>6, <2>1, <2>2 DEF FlowAt
<1>9. CASE sent' = sent \o FinalFrames /\ ~Handed("RST") /\ peer # "reset"
  <2> DEFINE F == {FrameOf("DATA", 0), FrameOf("END", 0)}
  <2>1. SentGrows(F) /\ (~dataSent => Handed("DATA")')
    BY <1>9, FinishHands
  <2>2. \A f \in F : ~Message(f) /\ f.type # "RST"
    BY DEF Message, FrameOf
  <2> HIDE DEF F
  <2>3. DataPart(n)'
    BY <2>1, <2>2, DataKept DEF FlowAt
  <2>4. ~Handed("RST")' /\ (Handed("DATA") => Handed("DATA")')
    BY <1>9, <2>1, <2>2, HandedGrows
  <2>5. EndShape'
    <3>1. encIn' = <<>> /\ Len(encIn') = 0 /\ ended'
      BY <1>1, <1>4, <1>5
    <3>2. phase' = "started" /\ (dataSent' => written' >= 1)
      BY <1>1, <1>7 DEF EndShape
    <3> QED
      BY <2>4, <3>1, <3>2 DEF EndShape
  <2>6. n + Len(encOut) = m
    BY <1>7, <1>9 DEF FlowAt, OutPart
  <2>7. OutPart(n, m)'
    BY <1>1, <2>6 DEF FlowAt, OutPart
  <2>8. dataSent /\ ~congested => Handed("DATA")
    <3> SUFFICES ASSUME dataSent, ~congested PROVE Handed("DATA")
      OBVIOUS
    <3>1. n = m /\ written >= 1
      BY <1>1, <2>6 DEF EndShape
    <3>2. 1 \in 1..n
      BY <1>5, <3>1
    <3>3. PICK i \in 1..Len(sent) : Message(sent[i])
      BY <3>2 DEF FlowAt, DataPart
    <3> QED
      BY <3>3, SentLen DEF Message, Handed
  <2>9. ~congested => n = written
    BY <1>1, <1>5, <2>6
  <2>10. AllPart(n)'
    BY <1>1, <2>1, <2>4, <2>8, <2>9 DEF AllPart
  <2> QED
    BY <1>6, <2>3, <2>5, <2>7, <2>10 DEF FlowAt
<1>10. \/ sent' = sent
       \/ sent' = sent \o FinalFrames /\ ~Handed("RST") /\ peer # "reset"
  BY DEF Finish, Hand
<1> QED
  BY <1>8, <1>9, <1>10

FlowInv == EndShape /\ Waits /\ Flow

LEMMA FlowInit == Init => FlowInv
<1> SUFFICES ASSUME Init PROVE FlowInv
  OBVIOUS
<1>1. /\ encIn = <<>> /\ encOut = <<>> /\ sent = <<>> /\ onSocket = <<>> /\ dataSent = FALSE
      /\ stream = "none" /\ written = 0 /\ ended = FALSE
  BY DEF Init
<1>2. Len(<<>>) = 0 /\ 1..0 = {} /\ DOMAIN sent = {}
  BY <1>1
<1>3. ~Handed("RST") /\ ~Handed("END")
  BY <1>2 DEF Handed
<1>4. EndShape
  BY <1>1, <1>2, <1>3 DEF EndShape
<1>5. Waits
  BY <1>1, <1>2 DEF Waits
<1>6. DataPart(0) /\ OutPart(0, 0)
  BY <1>1, <1>2 DEF DataPart, OutPart
<1>7. InPart(0) /\ AllPart(0)
  BY <1>1, <1>2, <1>3 DEF InPart, AllPart
<1>8. 0 \in Nat
  OBVIOUS
<1>9. Flow
  BY <1>6, <1>7, <1>8 DEF Flow, FlowAt
<1> QED
  BY <1>4, <1>5, <1>9 DEF FlowInv

LEMMA FlowStep == TypeOK /\ Lifecycle /\ FlowInv /\ [Next]_vars => FlowInv'
<1> SUFFICES ASSUME TypeOK, Lifecycle, FlowInv, [Next]_vars PROVE FlowInv'
  OBVIOUS
<1>0. EndShape /\ Waits
  BY DEF FlowInv
<1>1. PICK n \in Nat, m \in Nat : FlowAt(n, m)
  BY DEF FlowInv, Flow
<1>2. \A k \in Nat, l \in Nat : FlowAt(k, l)' => Flow'
  BY DEF Flow
<1>3. n + 1 \in Nat /\ m + 1 \in Nat /\ 0 \in Nat
  OBVIOUS
<1>f. ASSUME UNCHANGED <<sent, encOut, encIn, dataSent, written, ended, congested, stream, onSocket>>,
             peer = "reset" => peer' = "reset", Running' => Running,
             phase' = phase \/ (phase \in {"new", "updating"} /\ phase' # "started")
      PROVE  FlowInv'
  <2>1. FlowAt(n, m)'
    BY <1>1, <1>f, FlowFrame
  <2>2. EndShape'
    BY <1>0, <1>f, ShapeFrame
  <2>3. Waits'
    BY <1>0, <1>f, WaitsFrame
  <2> QED
    BY <1>2, <2>1, <2>2, <2>3 DEF FlowInv
<1>4. CASE Start \/ HeadersUpdated
  <2>1. CASE phase \in {"new", "updating"} /\ StartStream
    BY <1>0, <1>2, <1>3, <2>1, FlowStart DEF FlowInv
  <2>2. CASE /\ phase = "new" /\ phase' = "updating"
             /\ UNCHANGED <<stream, onSocket, encoderVars, congested, appVars, peerVars, failure>>
    BY <1>f, <2>2 DEF encoderVars, appVars, peerVars, Running
  <2> QED
    BY <1>4, <2>1, <2>2 DEF Start, HeadersUpdated
<1>5. CASE HeadersRefused
  <2>1. /\ phase = "updating" /\ phase' = "refused"
        /\ UNCHANGED <<stream, onSocket, encoderVars, congested, appVars, peerVars, failure>>
    BY <1>5 DEF HeadersRefused
  <2> QED
    BY <1>f, <2>1 DEF encoderVars, appVars, peerVars, Running
<1>6. CASE Write
  BY <1>0, <1>1, <1>2, <1>6, FlowAsksWrite DEF FlowInv
<1>7. CASE End
  BY <1>0, <1>1, <1>2, <1>7, FlowAsksEnd DEF FlowInv
<1>8. CASE AbortByHand \/ TimerFires
  <2>1. (\E code : Abort(code))
        /\ UNCHANGED <<phase, encIn, encOut, dataSent, written, ended, congested, peer, failure>>
    BY <1>8 DEF AbortByHand, TimerFires, appVars, peerVars
  <2> QED
    BY <1>0, <1>1, <1>2, <2>1, FlowAbort DEF FlowInv
<1>9. CASE EncodeNext \/ PipeEncoded \/ Finish
  <2>1. EndShape' /\ Flow'
    BY <1>0, <1>1, <1>2, <1>3, <1>9, FlowEncode, FlowPipe, FlowFinish
  <2>2. UNCHANGED <<onSocket, written, ended, phase>>
    BY <1>9 DEF EncodeNext, PipeEncoded, Finish, requestVars, appVars
  <2>3. Waits'
    BY <1>0, <2>2, WaitsFrame
  <2> QED
    BY <2>1, <2>3 DEF FlowInv
<1>10. CASE RecvHeaders \/ RecvTrailers \/ RecvData \/ RecvEnd \/ RecvReset
  <2>1. /\ Running /\ UNCHANGED <<requestVars, encoderVars, congested, appVars>>
        /\ peer = "reset" => peer' = "reset"
    BY <1>10 DEF RecvHeaders, RecvTrailers, RecvData, RecvEnd, RecvReset, Listening
  <2> QED
    BY <1>f, <2>1 DEF requestVars, encoderVars, appVars
<1>11. CASE FlowMessage \/ FlowEnd
  <2>1. Running /\ UNCHANGED <<requestVars, encoderVars, congested, appVars, peerVars>>
    BY <1>11 DEF FlowMessage, FlowEnd
  <2> QED
    BY <1>f, <2>1 DEF requestVars, encoderVars, appVars, peerVars
<1>12. CASE UNCHANGED vars
  BY <1>f, <1>12 DEF vars, requestVars, encoderVars, appVars, peerVars, Running
<1> QED
  BY <1>4, <1>5, <1>6, <1>7, <1>8, <1>9, <1>10, <1>11, <1>12 DEF Next

LEMMA FlowInvariant == Spec => [](TypeOK /\ FlowInv)
<1> QED
  BY LifecycleInvariant, FlowInit, FlowStep, PTL DEF Spec

(* What n messages in DataPart come to. *)
LEMMA DataIs ==
  ASSUME TypeOK, NEW n \in Nat, DataPart(n)
  PROVE  {sent[i].arg : i \in DataSent} = 1..n
<1>1. DOMAIN sent = 1..Len(sent)
  BY SentLen
<1>2. \A i \in DataSent : sent[i].arg \in 1..n
  BY <1>1 DEF DataPart, DataSent
<1>3. \A k \in 1..n : \E i \in DataSent : sent[i].arg = k
  <2> SUFFICES ASSUME NEW k \in 1..n PROVE \E i \in DataSent : sent[i].arg = k
    OBVIOUS
  <2>1. PICK i \in 1..Len(sent) : Message(sent[i]) /\ sent[i].arg = k
    BY DEF DataPart
  <2> QED
    BY <1>1, <2>1 DEF DataSent
<1> QED
  BY <1>2, <1>3

-----------------------------------------------------------------------------
(* The theorems *)

(* The variables of a request and its response stay in their types. *)
THEOREM TypeCorrect == Spec => []TypeOK
<1> QED
  BY LifecycleInvariant, PTL

(* No race of the application, a parent call, the deadline timer and         *)
(* updateHeaders makes a request emit 'cancel' twice (client.js:618-632).    *)
THEOREM CancelsOnce == Spec => []CancelledOnce
<1>1. Lifecycle => CancelledOnce
  BY DEF Lifecycle, CancelledOnce
<1> QED
  BY <1>1, LifecycleInvariant, PTL

(* Whatever the peer still sends, a cancelled response keeps the code that *)
(* was given with 'cancel' (client.js:620-624, 835-838).                   *)
THEOREM CancelKeepsStatus == Spec => []CancelIsTheStatus
<1>1. Told => CancelIsTheStatus
  BY DEF Told, CancelIsTheStatus
<1> QED
  BY <1>1, ToldInvariant, PTL

(* In whatever order headers, trailers, data and a reset come in, a response *)
(* that nobody cancels reports the first status its peer sent, and no other  *)
(* (client.js:745-758).                                                      *)
THEOREM StatusReportedOnce == Spec => []ServerStatusReportedOnce
<1>1. Reported => ServerStatusReportedOnce
  BY DEF Reported
<1> QED
  BY <1>1, ReportedInvariant, PTL

(* For any number of messages, written before or after there was a stream,   *)
(* what leaves are the first of them, in order (client.js:440-464).          *)
THEOREM MessagesInOrder == Spec => []SentInOrder
<1>1. TypeOK /\ FlowInv => SentInOrder
  <2> SUFFICES ASSUME TypeOK, FlowInv PROVE SentInOrder
    OBVIOUS
  <2>1. PICK n \in Nat, m \in Nat : FlowAt(n, m)
    BY DEF FlowInv, Flow
  <2>2. {sent[i].arg : i \in DataSent} = 1..n
    BY <2>1, DataIs DEF FlowAt
  <2>3. n \in 0..written
    <3>1. n + Len(encOut) <= m /\ m <= written
      BY <2>1 DEF FlowAt, OutPart, InPart
    <3>2. Len(encOut) \in Nat /\ written \in Nat
      BY WrittenNat, LenProperties DEF TypeOK, EncoderTypeOK
    <3> QED
      BY <3>1, <3>2
  <2>4. \A i, j \in DataSent : i < j => sent[i].arg < sent[j].arg
    <3>1. DOMAIN sent = 1..Len(sent)
      BY SentLen
    <3> QED
      BY <2>1, <3>1 DEF FlowAt, DataPart, DataSent
  <2> QED
    BY <2>2, <2>3, <2>4 DEF SentInOrder
<1> QED
  BY <1>1, FlowInvariant, PTL

(* For any number of messages, a request whose stream keeps up ends after    *)
(* all of them, and never without DATA (client.js:429-435).                  *)
THEOREM EndsLast == Spec => []EndsAfterAll
<1>1. TypeOK /\ FlowInv => EndsAfterAll
  <2> SUFFICES ASSUME TypeOK, FlowInv, ~congested, Handed("END")
               PROVE  /\ ended
                      /\ {sent[i].arg : i \in DataSent} = 1..written
                      /\ Handed("DATA")
    BY DEF EndsAfterAll
  <2>1. PICK n \in Nat, m \in Nat : FlowAt(n, m)
    BY DEF FlowInv, Flow
  <2>2. {sent[i].arg : i \in DataSent} = 1..n
    BY <2>1, DataIs DEF FlowAt
  <2>3. n = written /\ Handed("DATA")
    BY <2>1 DEF FlowAt, AllPart
  <2>4. ended
    BY DEF FlowInv, EndShape
  <2> QED
    BY <2>2, <2>3, <2>4
<1> QED
  BY <1>1, FlowInvariant, PTL
=============================================================================
