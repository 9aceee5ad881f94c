------------------------------ MODULE Interop ------------------------------
(***************************************************************************)
(* An rpc from end to end: one of the test clients of interop_client.js and *)
(* math_client.js calls a handler of interop_server.js or math_server.js.   *)
(*                                                                          *)
(* The client's stream of requests, the request, the handler, the response  *)
(* and the deadline timers of both sides all go on at once; what one side   *)
(* sends reaches the other in order, later. What ClientCall, ServerCall and *)
(* Framing show of each side is relied on here: that messages are sent in   *)
(* the order they are written, the end of a request and the trailers of a   *)
(* response after them unless the HTTP/2 streams push back. The connection  *)
(* lasts, as it does in these tests.                                        *)
(***************************************************************************)
EXTENDS Integers, Sequences, FiniteSets, SequencesExt

CONSTANT Tests   \* the tests to run, and other calls of that kind

(* rpc status codes, dorusu.js:181-310. *)
OK == 0
CANCELLED == 1
INVALID_ARGUMENT == 3
DEADLINE_EXCEEDED == 4
INTERNAL == 13
None == -1

-----------------------------------------------------------------------------
(* The handlers. Each reacts to a message, or to the request's end, knowing  *)
(* the total of the messages before: it writes responses, and may end.       *)

Methods ==
  {"Div", "DivMany", "Fib", "Sum", "EmptyCall", "UnaryCall", "StreamingInputCall",
   "StreamingOutputCall", "FullDuplexCall"}

(* What is sent to a method: of a payload, its size only; an int64 that is *)
(* not negative.                                                           *)
Message(method) ==
  CASE method \in {"Div", "DivMany"} -> [dividend : Nat, divisor : Nat]
    [] method = "EmptyCall" -> {"{}"}
    [] method = "UnaryCall" -> [response_size : Nat]
    [] method \in {"StreamingOutputCall", "FullDuplexCall"} -> [response_parameters : Seq(Nat)]
    [] OTHER -> Nat

Reaction(writes, ends) == [writes |-> writes, ends |-> ends, code |-> None]
Nothing == Reaction(<<>>, FALSE)

(* Faulty: the reply's fields are swapped. *)
mathDivSwapped(m) ==
  IF m.divisor = 0 THEN [Reaction(<<>>, TRUE) EXCEPT !.code = INVALID_ARGUMENT]
  ELSE Reaction(<<[quotient |-> m.dividend % m.divisor,
                   remainder |-> m.dividend \div m.divisor]>>, FALSE)

mathDiv(m) ==
  IF m.divisor = 0 THEN [Reaction(<<>>, TRUE) EXCEPT !.code = INVALID_ARGUMENT]
  ELSE Reaction(<<[quotient |-> m.dividend \div m.divisor,    \* as an int64
                   remainder |-> m.dividend % m.divisor]>>, FALSE)

(* What previous and current are in the i-th turn of the loop, which writes *)
(* the latter.                                                              *)
Fibonacci(n) ==
  LET turn[i \in 1..n] ==
        IF i = 1 THEN <<0, 1>> ELSE <<turn[i - 1][2], turn[i - 1][2] + turn[i - 1][1]>>
  IN  [i \in 1..n |-> turn[i][2]]

(* Faulty: one number too few. *)
mathFibShort(m) == Reaction(Fibonacci(m - 1), TRUE)

mathFib(m) == Reaction(Fibonacci(m), TRUE)

emptyCall(m) == Reaction(<<"{}">>, TRUE)
unaryCall(m) == Reaction(<<m.response_size>>, TRUE)
streamingOutputCall(m) == Reaction(m.response_parameters, FALSE)

(* mathSum and streamingInputCall add up, and answer at the end. *)
AnswerTotal(total) == Reaction(<<total>>, TRUE)

Summing == {"Sum", "StreamingInputCall"}

(* These answer a message only, and all there is to answer with the first. *)
AnswersFirst == {"Fib", "EmptyCall", "UnaryCall"}

(* buildApp, of both servers: the handler of each method. *)
OnData(method, m) ==
  CASE method \in {"Div", "DivMany"} -> mathDiv(m)
    [] method = "Fib" -> mathFib(m)
    [] method = "EmptyCall" -> emptyCall(m)
    [] method = "UnaryCall" -> unaryCall(m)
    [] method \in {"StreamingOutputCall", "FullDuplexCall"} -> streamingOutputCall(m)
    [] OTHER -> Nothing

(* Faulty: a handler that streams does not end with its request. *)
OnEndForgotten(method, total) ==
  IF method \in Summing THEN AnswerTotal(total) ELSE Nothing

OnEnd(method, total) ==
  CASE method \in Summing -> AnswerTotal(total)
    [] method \in AnswersFirst -> Nothing
    [] OTHER -> Reaction(<<>>, TRUE)

-----------------------------------------------------------------------------
(* The tests. A test calls a method with messages that are all there at the  *)
(* start or, in a ping-pong, each when the one before was answered; it may   *)
(* check the responses it gets, and is done at an event.                     *)

Unchecked(method, sends, doneOn) ==
  [method |-> method, sends |-> sends, checks |-> FALSE, wants |-> <<>>, doneOn |-> doneOn,
   pings |-> FALSE, cancel |-> "never", timed |-> FALSE, errors |-> {}]

Checked(method, sends, wants, doneOn) ==
  [Unchecked(method, sends, doneOn) EXCEPT !.checks = TRUE, !.wants = wants]

Quotient(q, r) == [quotient |-> q, remainder |-> r]
Dividing(n, d) == [dividend |-> n, divisor |-> d]

doOkDiv == Checked("Div", <<Dividing(7, 3)>>, <<Quotient(2, 1)>>, "end")
doStreamDiv == Checked("DivMany", [i \in 1..5 |-> Dividing(3 * (i - 1) + 2, 3)],
                       [i \in 1..5 |-> Quotient(i - 1, 2)], "status")
doBadDiv == [Unchecked("Div", <<Dividing(7, 0)>>, "end") EXCEPT !.errors = {INVALID_ARGUMENT}]
doOkSum == Checked("Sum", [i \in 1..7 |-> i - 1], <<21>>, "end")
doOkFib == Checked("Fib", <<7>>, <<1, 1, 2, 3, 5, 8, 13>>, "status")

payloadSizes == <<27182, 8, 1828, 45904>>
responseSizes == <<31415, 9, 2653, 58979>>
Ping(i) == [response_parameters |-> <<responseSizes[i]>>]

emptyUnary == Checked("EmptyCall", <<"{}">>, <<"{}">>, "end")
largeUnary == Checked("UnaryCall", <<[response_size |-> 314159]>>, <<314159>>, "end")
clientStreaming == Checked("StreamingInputCall", payloadSizes, <<74922>>, "end")
serverStreaming ==
  Unchecked("StreamingOutputCall", <<[response_parameters |-> responseSizes]>>, "end")
emptyStream == Checked("FullDuplexCall", <<>>, <<>>, "end")
pingPong ==
  [Unchecked("FullDuplexCall", [i \in 1..4 |-> Ping(i)], "end") EXCEPT !.pings = TRUE]
cancelAfterBegin ==
  [Unchecked("StreamingInputCall", <<>>, "cancel") EXCEPT !.cancel = "begin"]
cancelAfterFirst == [pingPong EXCEPT !.cancel = "first"]
timeoutOnSleeper == [pingPong EXCEPT !.timed = TRUE, !.doneOn = "cancel"]

ASSUME TestsAssumption ==
  \A t \in Tests :
    /\ DOMAIN t = {"method", "sends", "checks", "wants", "doneOn", "pings", "cancel", "timed", "errors"}
    /\ t.method \in Methods /\ t.sends \in Seq(Message(t.method))
    /\ t.doneOn \in {"end", "status", "cancel"} /\ t.cancel \in {"never", "begin", "first"}
    /\ {t.checks, t.pings, t.timed} \subseteq BOOLEAN
    /\ t.pings => t.method = "FullDuplexCall"

-----------------------------------------------------------------------------
VARIABLES
  test,        \* the test that runs
  congested,   \* may the HTTP/2 streams push back on the pipes into them?
  \* the client
  stream,      \* the request's stream: "none", "live" or "null"
  written,     \* how many messages were written to the request
  ended,       \* was the request ended?
  timer,       \* its deadline timer: "off", "armed" or "fired"
  arrived,     \* the messages that came, in the order they came
  eof,         \* did the response's end come?
  cut,         \* was the response cut by a cancellation?
  seen,        \* how many responses the test was given
  respEnded,   \* did the response emit 'end'?
  status,      \* the response's status
  cancelHeard, \* did the request emit 'cancel'?
  done,        \* has the test called done?
  failure,     \* an exception: "none", "assertion" or "unheard error"
  \* the wire: frames under way
  up, down,
  \* the server
  handling,    \* was the handler called?
  total,       \* what the handler added up
  serverTimer, \* the request's deadline timer
  headersSent, \* were the response's headers sent?
  endCalled,   \* was the response ended?
  encoded,     \* messages of the response not yet piped to its stream
  rpcCode,     \* response.rpcCode
  finished,    \* were trailers sent?
  closed       \* is the stream closed?

clientVars == <<stream, written, ended, timer, arrived, eof, cut, seen, respEnded,
                status, cancelHeard, done, failure>>
serverVars == <<handling, total, serverTimer, headersSent, endCalled, encoded,
                rpcCode, finished, closed>>
vars == <<test, congested, clientVars, up, down, serverVars>>

(* runInteropTest, or a test of the math client: its call waits for a stream. *)
Init ==
  /\ test \in Tests /\ congested \in BOOLEAN
  /\ stream = "none" /\ written = 0 /\ ended = FALSE /\ timer = "off"
  /\ arrived = <<>> /\ eof = FALSE /\ cut = FALSE /\ seen = 0 /\ respEnded = FALSE
  /\ status = None /\ cancelHeard = FALSE /\ done = FALSE /\ failure = "none"
  /\ up = <<>> /\ down = <<>>
  /\ handling = FALSE /\ total = 0 /\ serverTimer = "off"
  /\ headersSent = FALSE /\ endCalled = FALSE /\ encoded = <<>> /\ rpcCode = None
  /\ finished = FALSE /\ closed = FALSE

Frame(type, body) == [type |-> type, body |-> body]

(* An exception ends the test. *)
Running == failure = "none"

-----------------------------------------------------------------------------
(* The client's side *)

(* The response's 'status' event, the request's 'cancel' event, and what the *)
(* test expects then.                                                        *)
CancelEvent(code) ==
  /\ cancelHeard' = TRUE
  /\ IF test.doneOn # "cancel"
     THEN done' = (done \/ test.doneOn = "status") /\ UNCHANGED failure
     ELSE IF \/ test.cancel = "begin" /\ code = CANCELLED
             \/ test.cancel # "begin" /\ seen < Len(test.sends)
          THEN done' = TRUE /\ UNCHANGED failure
          ELSE failure' = "assertion" /\ UNCHANGED done

(* abort of a request with a stream. *)
Abort(code) ==
  /\ stream' = "null"
  /\ status' = code
  /\ cut' = TRUE
  /\ up' = Append(up, Frame("RST", None))
  /\ CancelEvent(code)

(* _start sends the headers; a cancel that waited for it follows at once. *)
Start ==
  /\ Running /\ stream = "none"
  /\ timer' = IF test.timed THEN "armed" ELSE "off"
  /\ \/ /\ test.cancel = "begin"
        /\ stream' = "null"
        /\ up' = <<Frame("HEADERS", None), Frame("RST", None)>>
        /\ \/ status' = CANCELLED /\ cut' = TRUE   \* there was a stream at once
           \/ UNCHANGED <<status, cut>>            \* no response to tell of it yet
        /\ CancelEvent(CANCELLED)
     \/ /\ test.cancel # "begin"
        /\ stream' = "live"
        /\ up' = <<Frame("HEADERS", None)>>
        /\ UNCHANGED <<status, cut, cancelHeard, done, failure>>
  /\ UNCHANGED <<test, congested, written, ended, arrived, eof, seen, respEnded, down, serverVars>>

(* The messages the test has put in the stream of requests by now. *)
Released == IF test.pings /\ seen < Len(test.sends) THEN seen + 1 ELSE Len(test.sends)

(* The next of them is piped to the request and on to its stream, which takes *)
(* no more once it was ended.                                                 *)
WriteNext ==
  /\ Running /\ stream = "live" /\ ~ended /\ written < Released
  /\ written' = written + 1
  /\ up' = Append(up, Frame("DATA", test.sends[written + 1]))
  /\ UNCHANGED <<test, congested, stream, ended, timer, arrived, eof, cut, seen, respEnded, status,
                 cancelHeard, done, failure, down, serverVars>>

(* The request is ended after all its messages, and so is its stream once     *)
(* they are encoded: if it pushes back, some may not have got there yet, and  *)
(* are lost.                                                                  *)
EndRequest ==
  /\ Running /\ stream = "live" /\ ~ended
  /\ test.pings => seen = Len(test.sends)
  /\ congested \/ written = Len(test.sends)
  /\ ended' = TRUE
  /\ up' = Append(up, Frame("END", None))
  /\ UNCHANGED <<test, congested, stream, written, timer, arrived, eof, cut, seen, respEnded, status,
                 cancelHeard, done, failure, down, serverVars>>

(* The deadline passes, at any time, perhaps after the response. A request *)
(* cancelled before has no stream: abort waits for another 'socket' event, *)
(* which never comes.                                                      *)
TimerFires ==
  /\ Running /\ timer = "armed"
  /\ timer' = "fired"
  /\ IF stream = "live" THEN Abort(DEADLINE_EXCEEDED)
     ELSE UNCHANGED <<stream, status, cut, up, cancelHeard, done, failure>>
  /\ UNCHANGED <<test, congested, written, ended, arrived, eof, seen, respEnded, down, serverVars>>

(* The status comes with the trailers: 'status' is emitted, and 'error', which *)
(* throws if nobody listens, unless it is OK.                                  *)
StatusEvent(code) ==
  /\ status' = code
  /\ done' = (done \/ test.doneOn = "status")
  /\ failure' = IF code = OK \/ code \in test.errors THEN failure
                ELSE IF test.errors = {} THEN "unheard error" ELSE "assertion"

(* A frame comes; those that come after a reset are ignored. *)
Receive ==
  /\ Running /\ down # <<>>
  /\ down' = Tail(down)
  /\ LET f == Head(down) IN
     IF stream = "null" THEN UNCHANGED <<arrived, eof, status, done, failure>>
     ELSE
       /\ arrived' = IF f.type = "DATA" THEN Append(arrived, f.body) ELSE arrived
       /\ eof' = (eof \/ f.type = "END")
       /\ IF f.type = "TRAILERS" /\ status = None THEN StatusEvent(f.body)
          ELSE UNCHANGED <<status, done, failure>>
  /\ UNCHANGED <<test, congested, stream, written, ended, timer, cut, seen, respEnded, cancelHeard,
                 up, serverVars>>

(* What the test expects of its next response. *)
Expected(v) == ~test.checks \/ (seen < Len(test.wants) /\ v = test.wants[seen + 1])

(* The test is given the next response, in order, and may cancel then. *)
DataEvent ==
  /\ Running /\ ~cut /\ seen < Len(arrived)
  /\ seen' = seen + 1
  /\ IF test.cancel = "first" THEN Abort(CANCELLED)
     ELSE /\ failure' = IF Expected(arrived[seen + 1]) THEN failure ELSE "assertion"
          /\ UNCHANGED <<stream, status, cut, up, cancelHeard, done>>
  /\ UNCHANGED <<test, congested, written, ended, timer, arrived, eof, respEnded, down, serverVars>>

(* What the tests done at 'end' expect then: that a cancel was heard, or the *)
(* last response.                                                            *)
ExpectedAtEnd ==
  IF test.cancel = "first" THEN cancelHeard
  ELSE ~test.checks \/ seen = Len(test.wants)

(* The response emits 'end' after its last message, or because it was cut. *)
EndEvent ==
  /\ Running /\ ~respEnded
  /\ cut \/ (eof /\ seen = Len(arrived))
  /\ respEnded' = TRUE
  /\ IF test.doneOn # "end" THEN UNCHANGED <<done, failure>>
     ELSE IF ExpectedAtEnd THEN done' = TRUE /\ UNCHANGED failure
     ELSE failure' = "assertion" /\ UNCHANGED done
  /\ UNCHANGED <<test, congested, stream, written, ended, timer, arrived, eof, cut, seen, status,
                 cancelHeard, up, down, serverVars>>

-----------------------------------------------------------------------------
(* The server's side *)

Headers == IF headersSent THEN <<>> ELSE <<Frame("HEADERS", None)>>

(* Faulty: no status is made up when no rpcCode was set. *)
TrailersBare(code) == <<Frame("TRAILERS", code), Frame("END", None)>>

Trailers(code) == <<Frame("TRAILERS", IF code = None THEN OK ELSE code), Frame("END", None)>>

(* The handler reacts. Writing after the response was ended, by the deadline, *)
(* fails the encoder, and the response is finished with INTERNAL at once,     *)
(* without what was not piped yet.                                            *)
React(r) ==
  IF endCalled /\ r.writes # <<>>
  THEN /\ rpcCode' = INTERNAL
       /\ down' = IF finished THEN down ELSE down \o Trailers(INTERNAL)
       /\ finished' = TRUE /\ encoded' = <<>>
       /\ UNCHANGED <<headersSent, endCalled>>
  ELSE /\ rpcCode' = IF r.code = None THEN rpcCode ELSE r.code
       /\ headersSent' = (headersSent \/ r.writes # <<>> \/ r.ends)
       /\ down' = IF headersSent' THEN down \o Headers ELSE down
       /\ encoded' = encoded \o r.writes
       /\ endCalled' = (endCalled \/ r.ends)
       /\ UNCHANGED finished

(* The request's headers come, and its handler is called. *)
ServerHeaders ==
  /\ Running /\ ~closed /\ ~handling /\ up # <<>>
  /\ handling' = TRUE
  /\ serverTimer' = IF test.timed THEN "armed" ELSE "off"
  /\ up' = Tail(up)
  /\ UNCHANGED <<test, congested, clientVars, down, total, headersSent, endCalled, encoded,
                 rpcCode, finished, closed>>

(* A message comes, or the end of the request. *)
ServerData ==
  /\ Running /\ ~closed /\ handling /\ up # <<>> /\ Head(up).type = "DATA"
  /\ up' = Tail(up)
  /\ React(OnData(test.method, Head(up).body))
  /\ total' = IF test.method \in Summing THEN total + Head(up).body ELSE total
  /\ UNCHANGED <<test, congested, clientVars, handling, serverTimer, closed>>

ServerEnd ==
  /\ Running /\ ~closed /\ handling /\ up # <<>> /\ Head(up).type = "END"
  /\ up' = Tail(up)
  /\ React(OnEnd(test.method, total))
  /\ UNCHANGED <<test, congested, clientVars, total, handling, serverTimer, closed>>

(* A reset comes: it overtakes messages that were not decoded yet. *)
ServerReset ==
  /\ Running /\ ~closed /\ handling
  /\ \E i \in DOMAIN up : up[i].type = "RST"
  /\ closed' = TRUE
  /\ up' = <<>>
  /\ UNCHANGED <<test, congested, clientVars, down, handling, total, serverTimer, headersSent,
                 endCalled, encoded, rpcCode, finished>>

(* The next message moves on to the stream. *)
PipeEncoded ==
  /\ Running /\ ~closed /\ encoded # <<>>
  /\ down' = Append(down, Frame("DATA", Head(encoded)))
  /\ encoded' = Tail(encoded)
  /\ UNCHANGED <<test, congested, clientVars, up, handling, total, serverTimer, headersSent, endCalled,
                 rpcCode, finished, closed>>

(* Faulty: the trailers wait for no message, whether the stream pushes back *)
(* or not.                                                                  *)
FinishReadyEarly == endCalled /\ ~finished /\ ~closed

(* The encoder is through with what was written before the end. What it has  *)
(* encoded is with the stream by then, unless that pushes back.              *)
FinishReady == endCalled /\ ~finished /\ ~closed /\ (congested \/ encoded = <<>>)

(* _finish: trailers and the end, after which the stream takes no message. *)
ServerFinish ==
  /\ Running /\ FinishReady
  /\ finished' = TRUE /\ encoded' = <<>>
  /\ down' = down \o Trailers(rpcCode)
  /\ UNCHANGED <<test, congested, clientVars, up, handling, total, serverTimer, headersSent, endCalled,
                 rpcCode, closed>>

(* The deadline passes: 'cancel' ends the response with its code. *)
ServerTimerFires ==
  /\ Running /\ serverTimer = "armed"
  /\ serverTimer' = "fired"
  /\ rpcCode' = DEADLINE_EXCEEDED
  /\ IF closed \/ endCalled THEN UNCHANGED <<headersSent, endCalled, down>>
     ELSE /\ headersSent' = TRUE /\ endCalled' = TRUE
          /\ down' = down \o Headers
  /\ UNCHANGED <<test, congested, clientVars, up, handling, total, encoded, finished, closed>>

-----------------------------------------------------------------------------
ClientStep ==
  Start \/ WriteNext \/ EndRequest \/ TimerFires \/ Receive \/ DataEvent \/ EndEvent
ServerStep ==
  \/ ServerHeaders \/ ServerData \/ ServerEnd \/ ServerReset
  \/ PipeEncoded \/ ServerFinish \/ ServerTimerFires

Next == ClientStep \/ ServerStep

Spec == Init /\ [][Next]_vars

(* Each side goes on while it has something to do, and timers fire. *)
Fairness ==
  /\ WF_vars(Start) /\ WF_vars(WriteNext) /\ WF_vars(EndRequest) /\ WF_vars(Receive)
  /\ WF_vars(DataEvent) /\ WF_vars(EndEvent) /\ WF_vars(TimerFires)
  /\ WF_vars(ServerHeaders) /\ WF_vars(ServerData) /\ WF_vars(ServerEnd)
  /\ WF_vars(ServerReset) /\ WF_vars(PipeEncoded) /\ WF_vars(ServerFinish) /\ WF_vars(ServerTimerFires)

FairSpec == Spec /\ Fairness

-----------------------------------------------------------------------------
(* Properties *)

Codes == {OK, CANCELLED, INVALID_ARGUMENT, DEADLINE_EXCEEDED, INTERNAL}

FrameOK(f, types) == f.type \in types /\ (f.type = "TRAILERS" => f.body \in Codes)

TypeOK ==
  /\ test \in Tests /\ congested \in BOOLEAN
  /\ stream \in {"none", "live", "null"}
  /\ written \in 0..Len(test.sends) /\ seen \in 0..Len(arrived)
  /\ {timer, serverTimer} \subseteq {"off", "armed", "fired"}
  /\ {ended, eof, cut, respEnded, cancelHeard, done} \subseteq BOOLEAN
  /\ {handling, headersSent, endCalled, finished, closed} \subseteq BOOLEAN
  /\ {status, rpcCode} \subseteq Codes \cup {None}
  /\ failure \in {"none", "assertion", "unheard error"}
  /\ total \in Nat
  /\ \A i \in DOMAIN up : FrameOK(up[i], {"HEADERS", "DATA", "END", "RST"})
  /\ \A i \in DOMAIN down : FrameOK(down[i], {"HEADERS", "DATA", "TRAILERS", "END"})

(* A test without a deadline never fails: each response, status and event it *)
(* checks is what it expects, however the two sides interleave               *)
(* (interop_client.js:126-614, math_client.js:78-179). With a deadline, the  *)
(* last answer or the server's status may come before the client's timer,    *)
(* which timeoutOnSleeper does not expect; when streams push back, messages  *)
(* may be lost (server.js:99, client.js:409).                                *)
ExpectationsHold == failure # "none" => test.timed \/ congested

(* The messages the handlers owe, in terms of what was asked only. *)
Zeros(asked) == {i \in DOMAIN asked : asked[i].divisor = 0}

Sum(asked) ==
  LET sum[i \in 0..Len(asked)] == IF i = 0 THEN 0 ELSE sum[i - 1] + asked[i]
  IN  sum[Len(asked)]

Owed(method, asked, whole) ==
  IF method \in Summing THEN IF whole THEN <<Sum(asked)>> ELSE <<>>
  ELSE IF asked = <<>> THEN <<>>
  ELSE
    CASE method \in {"Div", "DivMany"} ->
           [i \in {j \in DOMAIN asked : Zeros(asked) \cap 1..j = {}} |->
              Quotient(asked[i].dividend \div asked[i].divisor,
                       asked[i].dividend % asked[i].divisor)]
      [] method = "Fib" ->
           LET number[i \in 1..asked[1]] == IF i <= 2 THEN 1 ELSE number[i - 2] + number[i - 1]
           IN  number
      [] method = "EmptyCall" -> <<"{}">>
      [] method = "UnaryCall" -> <<asked[1].response_size>>
      [] OTHER -> FlattenSeq([i \in DOMAIN asked |-> asked[i].response_parameters])

OwesNoMore(method, asked, whole) ==
  \/ whole
  \/ method \in AnswersFirst /\ asked # <<>>
  \/ method \in {"Div", "DivMany"} /\ Zeros(asked) # {}

ProperStatus(method, asked) ==
  IF method \in {"Div", "DivMany"} /\ Zeros(asked) # {} THEN INVALID_ARGUMENT ELSE OK

(* A handler that gets a message after its last answer, and writes what that *)
(* asks for, may fail its response.                                          *)
Overrun(method, asked) ==
  LET last == CASE method \in {"Div", "DivMany"} -> Zeros(asked)
                [] method \in AnswersFirst -> DOMAIN asked \cap {1}
                [] OTHER -> {}
  IN  \E i \in last : \E j \in DOMAIN asked : j > i /\ OnData(method, asked[j]).writes # <<>>

(* A test without a deadline listens for the errors its handler makes, and *)
(* checks for what it owes; it is done at an event that comes.             *)
ASSUME ExpectationsAssumption ==
  \A t \in Tests : ~t.timed =>
    LET answers == Owed(t.method, t.sends, TRUE)
        overrun == Overrun(t.method, t.sends) IN
    /\ ProperStatus(t.method, t.sends) \in t.errors \cup {OK}
    /\ overrun => INTERNAL \in t.errors
    /\ t.checks => t.wants = answers
    /\ t.doneOn = "end" /\ t.checks => ~overrun /\ t.cancel # "begin"
    /\ t.doneOn = "end" /\ t.cancel = "first" => ~overrun /\ answers # <<>>
    /\ t.doneOn = "cancel" => t.cancel = "begin" \/ t.sends # <<>>

(* The event that a test is done at can come: a deadline passes, or the test  *)
(* cancels at once; a request that was cancelled before it had a stream may   *)
(* get no response; and each message of a ping-pong asks for one.             *)
ASSUME EventsAssumption ==
  \A t \in Tests :
    /\ t.doneOn = "cancel" => t.timed \/ t.cancel = "begin"
    /\ t.doneOn = "end" => t.cancel # "begin"
    /\ t.pings => \A i \in DOMAIN t.sends : Len(t.sends[i].response_parameters) = 1

(* The responses the application was given. *)
Given == SubSeq(arrived, 1, seen)

(* To the application, all of this is an rpc as module Rpc has it: it is     *)
(* given what the handler owes to what was sent, all of it before 'end'      *)
(* unless the rpc failed or messages were lost to streams that push back.    *)
Promise == INSTANCE Rpc WITH
  method <- test.method, timed <- test.timed,
  asked <- SubSeq(test.sends, 1, written), whole <- ended,
  given <- Given, over <- respEnded \/ cut,
  Answers <- Owed, Finished <- OwesNoMore, Verdict <- ProperStatus, Overruns <- Overrun,
  Failures <- {DEADLINE_EXCEEDED, INTERNAL}, Cancellations <- {CANCELLED, DEADLINE_EXCEEDED}

RpcSpec == Promise!Spec

(* Every test calls done or fails, so that a series of tests goes on         *)
(* (interop_client.js:625-634), and so does every other call, except of a    *)
(* handler that waits for a message (interop_server.js:94-117) when the      *)
(* request ended without any.                                                *)
TestEnds ==
  <>(done \/ failure # "none" \/ (ended /\ written = 0 /\ test.method \in AnswersFirst))
=============================================================================
