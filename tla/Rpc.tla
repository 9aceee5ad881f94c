-------------------------------- MODULE Rpc --------------------------------
(***************************************************************************)
(* What an rpc promises the application that makes it, whatever lies        *)
(* between it and the handler: it is given the handler's answers to what it *)
(* asked, in order, and told that there are no more only once it has been   *)
(* given all of them, or was told of a failure, which takes a deadline or a *)
(* client that asks more than its handler answers. The handler's verdict    *)
(* may come while answers are still to be given. When streams push back,    *)
(* the end of an rpc may overtake messages, and then only their order is    *)
(* promised. Module Interop, detailed with the clients and handlers of the  *)
(* repository, implements it.                                               *)
(***************************************************************************)
EXTENDS Integers, Sequences

CONSTANTS
  Answers(_, _, _),   \* the messages a method owes, when asked these, perhaps all
  Finished(_, _, _),  \* is that all it will ever owe?
  Verdict(_, _),      \* its status then
  Overruns(_, _),     \* was it asked more than it answers?
  Failures,           \* the statuses of an rpc that failed
  Cancellations,      \* the statuses a client gives its own rpc
  None

VARIABLES
  method,    \* the method called
  timed,     \* has the rpc a deadline?
  congested, \* may the streams push back?
  asked,     \* the messages sent
  whole,     \* are they all that are sent?
  given,     \* the messages given to the application
  over,      \* was the application told that there are no more, or did it cancel?
  status     \* the status told, None before

call == <<method, timed, congested>>
vars == <<call, asked, whole, given, over, status>>

Init ==
  /\ asked = <<>> /\ whole = FALSE
  /\ given = <<>> /\ over = FALSE /\ status = None

(* The client asks for one thing more, or for nothing more. *)
Ask ==
  /\ ~whole
  /\ Len(asked') = Len(asked) + 1 /\ SubSeq(asked', 1, Len(asked)) = asked
  /\ UNCHANGED <<call, whole, given, over, status>>

Close ==
  /\ ~whole
  /\ whole' = TRUE
  /\ UNCHANGED <<call, asked, given, over, status>>

Owes == Len(given) < Len(Answers(method, asked, whole))

GivesNext == given' = Append(given, Answers(method, asked, whole)[Len(given) + 1])

(* The application is given the next message owed, perhaps after the status. *)
Give ==
  /\ ~over /\ Owes /\ GivesNext
  /\ UNCHANGED <<call, asked, whole, over, status>>

(* The handler is through: its verdict. *)
Settle ==
  /\ status = None
  /\ Finished(method, asked, whole)
  /\ status' = Verdict(method, asked)
  /\ UNCHANGED <<call, asked, whole, given, over>>

(* The deadline passes at the server, or the handler is asked for more. *)
Fail ==
  /\ status = None
  /\ timed \/ Overruns(method, asked)
  /\ status' \in Failures
  /\ UNCHANGED <<call, asked, whole, given, over>>

(* The application is told that there are no more messages. *)
End ==
  /\ ~over /\ status # None
  /\ \/ status \in Failures \/ congested
     \/ Finished(method, asked, whole) /\ given = Answers(method, asked, whole)
  /\ over' = TRUE
  /\ UNCHANGED <<call, asked, whole, given, status>>

(* The client gives up, perhaps with the message it is given, and perhaps on *)
(* an rpc that has a status or is over.                                      *)
Cancel ==
  /\ status' \in Cancellations
  /\ over' = TRUE
  /\ UNCHANGED given \/ (~over /\ Owes /\ GivesNext)
  /\ UNCHANGED <<call, asked, whole>>

Next == Ask \/ Close \/ Give \/ Settle \/ Fail \/ End \/ Cancel

Spec == Init /\ [][Next]_vars
=============================================================================
