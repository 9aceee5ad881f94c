----------------------------- MODULE MCInterop -----------------------------
(* An instance of Interop for TLC: all tests of both clients, and other calls *)
(* of the same handlers, with messages after a handler's last answer, with    *)
(* deadlines, or cancelled, by a client that listens for errors.              *)
EXTENDS Interop

Errors == {INVALID_ARGUMENT, DEADLINE_EXCEEDED, INTERNAL}

Call(method, sends) == [Unchecked(method, sends, "end") EXCEPT !.errors = Errors]
TimedCall(method, sends) == [Call(method, sends) EXCEPT !.timed = TRUE]

Calls ==
  {Call("DivMany", <<Dividing(7, 3), Dividing(1, 0), Dividing(5, 2), Dividing(2, 0)>>),
   TimedCall("DivMany", <<Dividing(7, 3), Dividing(1, 0), Dividing(5, 2)>>),
   TimedCall("DivMany", <<Dividing(7, 3), Dividing(3, 2), Dividing(5, 2)>>),
   [Call("DivMany", <<Dividing(7, 3), Dividing(1, 0), Dividing(5, 2)>>)
      EXCEPT !.cancel = "first", !.doneOn = "status"],
   TimedCall("Fib", <<3, 2>>), Call("EmptyCall", <<"{}", "{}">>), Call("EmptyCall", <<>>),
   TimedCall("Sum", <<2, 3>>), TimedCall("StreamingOutputCall", <<Ping(1), Ping(2), Ping(3)>>),
   [TimedCall("FullDuplexCall", <<Ping(1), Ping(2)>>) EXCEPT !.cancel = "first"],
   [TimedCall("StreamingInputCall", <<2>>) EXCEPT !.cancel = "begin", !.doneOn = "cancel"]}

AllTests ==
  {doOkDiv, doStreamDiv, doBadDiv, doOkSum, doOkFib, emptyUnary, largeUnary,
   clientStreaming, serverStreaming, emptyStream, pingPong, cancelAfterBegin,
   cancelAfterFirst, timeoutOnSleeper} \cup Calls
=============================================================================
