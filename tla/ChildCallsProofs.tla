-------------------------- MODULE ChildCallsProofs --------------------------
(* The safety properties of ChildCalls, for every tree of calls and every    *)
(* timeout.                                                                  *)
EXTENDS ChildCalls, TLAPS

(* What each phase of a call goes with: before it has a stream, its first    *)
(* reason to be cancelled waits at the head; afterwards it has a stream as   *)
(* long as there is none.                                                    *)
Shape ==
  \A c \in Calls :
    /\ phase[c] = "none" => waiting[c] = <<>> /\ cause[c] = None
    /\ phase[c] # "started" =>
         ~stream[c] /\ cancels[c] = <<>> /\ timer[c] = None /\ ~arrived[c]
    /\ phase[c] = "made" /\ cause[c] = None => waiting[c] = <<>>
    /\ phase[c] = "made" /\ cause[c] # None => waiting[c] # <<>> /\ waiting[c][1] = cause[c]
    /\ phase[c] = "started" => waiting[c] = <<>>
    /\ phase[c] = "started" /\ stream[c] => cancels[c] = <<>> /\ cause[c] = None
    /\ phase[c] = "started" /\ ~stream[c] => cancels[c] = <<cause[c]>> /\ cause[c] # None

Made(c) == phase[c] # "none"

(* Calls are made for calls that have arrived; who listens was made. *)
Lineage ==
  \A c \in Calls :
    /\ Made(c) /\ Has(Parent[c]) => arrived[Parent[c]]
    /\ \A p \in Calls : c \in added[p] => Made(c)

(* A call has a reason to be cancelled, or listens to a parent that goes on. *)
Bound ==
  \A c \in Calls :
    Made(c) /\ Has(Parent[c]) =>
      LET p == Parent[c] IN
      /\ c \in added[p] \/ cause[c] # None
      /\ closed[p] => cause[c] # None
      /\ (broken[p] \/ (deadline[p] # None /\ ~alarm[p])) => late[c] \/ cause[c] # None

(* A call started before its parent's timeout is known is remembered. *)
Earliness ==
  \A c \in Calls :
    timer[c] # None /\ Has(Parent[c]) /\ ~checked[Parent[c]] => early[c]

IInv == TypeOK /\ Shape /\ Lineage /\ Bound /\ Earliness /\ ChildWithinParent

-----------------------------------------------------------------------------
LEMMA ParentType ==
  ASSUME NEW c \in Calls, Has(Parent[c])
  PROVE  Parent[c] \in Calls
BY ChildAssumption DEF Has

(* The first of a sequence stays when something is appended to it. *)
LEMMA AppendFirst ==
  ASSUME NEW s \in Seq(Codes), NEW x \in Codes
  PROVE  /\ Append(s, x) \in Seq(Codes)
         /\ Append(s, x) # <<>>
         /\ s # <<>> => Append(s, x)[1] = s[1]
         /\ s = <<>> => Append(s, x) = <<x>> /\ Append(s, x)[1] = x
<1>1. Len(s) \in Nat /\ (s # <<>> => Len(s) >= 1) /\ (s = <<>> => Len(s) = 0)
  OBVIOUS
<1>2. Append(s, x) \in Seq(Codes) /\ Len(Append(s, x)) = Len(s) + 1
  OBVIOUS
<1>3. Append(s, x) # <<>>
  <2>1. Len(Append(s, x)) # 0
    BY <1>1, <1>2
  <2>2. Len(<<>>) = 0
    OBVIOUS
  <2>3. QED
    BY <2>1, <2>2, Zenon
<1>4. s # <<>> => Append(s, x)[1] = s[1]
  BY <1>1
<1>5. s = <<>> => Append(s, x) = <<x>> /\ Append(s, x)[1] = x
  OBVIOUS
<1>6. QED
  BY <1>2, <1>3, <1>4, <1>5

LEMMA InitInv == Init => IInv
<1> SUFFICES ASSUME Init PROVE IInv
  OBVIOUS
<1>1. TypeOK
  BY DEF Init, TypeOK, Left
<1>2. Shape
  BY DEF Init, Shape
<1>3. Lineage /\ Bound
  BY DEF Init, Lineage, Bound, Made
<1>4. Earliness /\ ChildWithinParent
  BY DEF Init, Earliness, ChildWithinParent
<1>5. QED
  BY <1>1, <1>2, <1>3, <1>4 DEF IInv

-----------------------------------------------------------------------------
(* Aborting calls keeps their types and shapes, whatever else happens to     *)
(* timers that are called; it gives a reason to each that was made.          *)
LEMMA AbortStep ==
  ASSUME TypeOK, Shape, NEW cs \in SUBSET Calls, NEW code \in Codes,
         \A c \in cs : Made(c),
         Abort(cs, code), phase' = phase, arrived' = arrived,
         \A c \in Calls : timer'[c] = timer[c] \/ timer'[c] = None
  PROVE  /\ Shape'
         /\ stream' \in [Calls -> BOOLEAN] /\ reset' \in [Calls -> BOOLEAN]
         /\ waiting' \in [Calls -> Seq(Codes)] /\ cancels' \in [Calls -> Seq(Codes)]
         /\ cause' \in [Calls -> Codes \cup {None}]
         /\ \A c \in Calls : cause[c] # None => cause'[c] # None
         /\ \A c \in cs : cause'[c] # None
<1>1. \A c \in Calls : waiting[c] \in Seq(Codes) /\ cancels[c] \in Seq(Codes)
                         /\ stream[c] \in BOOLEAN /\ reset[c] \in BOOLEAN
                         /\ cause[c] \in Codes \cup {None}
                         /\ phase[c] \in {"none", "made", "started"}
  BY DEF TypeOK
<1>2. None \notin Codes
  BY ChildAssumption DEF Codes, CANCELLED, DEADLINE_EXCEEDED, INTERNAL
<1>3. stream' \in [Calls -> BOOLEAN] /\ reset' \in [Calls -> BOOLEAN]
  BY <1>1, Zenon DEF Abort, KeepsStream
<1>4. waiting' \in [Calls -> Seq(Codes)] /\ cancels' \in [Calls -> Seq(Codes)]
  BY <1>1, AppendFirst, Zenon DEF Abort
<1>5. cause' \in [Calls -> Codes \cup {None}]
  BY <1>1 DEF Abort
<1>6. \A c \in Calls : cause[c] # None => cause'[c] # None
  BY DEF Abort
<1>7. \A c \in cs : cause'[c] # None
  BY <1>2 DEF Abort
<1>8. Shape'
  <2> SUFFICES ASSUME NEW c \in Calls
               PROVE  /\ phase'[c] = "none" => waiting'[c] = <<>> /\ cause'[c] = None
                      /\ phase'[c] # "started" =>
                           ~stream'[c] /\ cancels'[c] = <<>> /\ timer'[c] = None /\ ~arrived'[c]
                      /\ phase'[c] = "made" /\ cause'[c] = None => waiting'[c] = <<>>
                      /\ phase'[c] = "made" /\ cause'[c] # None =>
                           waiting'[c] # <<>> /\ waiting'[c][1] = cause'[c]
                      /\ phase'[c] = "started" => waiting'[c] = <<>>
                      /\ phase'[c] = "started" /\ stream'[c] => cancels'[c] = <<>> /\ cause'[c] = None
                      /\ phase'[c] = "started" /\ ~stream'[c] =>
                           cancels'[c] = <<cause'[c]>> /\ cause'[c] # None
    BY DEF Shape
  <2>1. /\ cancels'[c] = IF c \in cs /\ stream[c] THEN Append(cancels[c], code) ELSE cancels[c]
        /\ stream'[c] = (stream[c] /\ c \notin cs)
        /\ waiting'[c] = IF c \in cs /\ phase[c] = "made" THEN Append(waiting[c], code) ELSE waiting[c]
        /\ cause'[c] = IF c \in cs /\ cause[c] = None THEN code ELSE cause[c]
    BY DEF Abort, KeepsStream
  <2>2. CASE c \notin cs
    BY <2>1, <2>2 DEF Shape
  <2>3. CASE c \in cs /\ phase[c] = "made"
    <3>1. ~stream[c] /\ cancels[c] = <<>> /\ timer[c] = None /\ ~arrived[c]
      BY <2>3 DEF Shape
    <3>2. waiting'[c] = Append(waiting[c], code)
      BY <2>1, <2>3
    <3>3. CASE cause[c] = None
      <4>1. waiting[c] = <<>>
        BY <2>3, <3>3 DEF Shape
      <4>2. waiting'[c] # <<>> /\ waiting'[c][1] = code
        BY <1>1, <3>2, <4>1, AppendFirst
      <4>3. cause'[c] = code
        BY <2>1, <2>3, <3>3
      <4>4. QED
        BY <1>2, <2>1, <2>3, <3>1, <4>2, <4>3
    <3>4. CASE cause[c] # None
      <4>1. waiting[c] # <<>> /\ waiting[c][1] = cause[c]
        BY <2>3, <3>4 DEF Shape
      <4>2. waiting'[c] # <<>> /\ waiting'[c][1] = cause[c]
        BY <1>1, <3>2, <4>1, AppendFirst
      <4>3. cause'[c] = cause[c]
        BY <2>1, <3>4
      <4>4. QED
        BY <2>1, <2>3, <3>1, <3>4, <4>2, <4>3
    <3>5. QED
      BY <3>3, <3>4
  <2>4. CASE c \in cs /\ phase[c] = "started" /\ stream[c]
    <3>1. cancels[c] = <<>> /\ cause[c] = None /\ waiting[c] = <<>>
      BY <2>4 DEF Shape
    <3>2. cancels'[c] = <<code>>
      BY <1>1, <2>1, <2>4, <3>1, AppendFirst
    <3>3. QED
      BY <1>2, <2>1, <2>4, <3>1, <3>2
  <2>5. CASE c \in cs /\ phase[c] = "started" /\ ~stream[c]
    BY <2>1, <2>5 DEF Shape
  <2>6. QED
    BY <1>1, <2>2, <2>3, <2>4, <2>5 DEF Made
<1>9. QED
  BY <1>3, <1>4, <1>5, <1>6, <1>7, <1>8

(* A step that aborts calls and leaves made what was made. *)
LEMMA AbortInv ==
  ASSUME IInv, NEW cs \in SUBSET Calls, NEW code \in Codes,
         \A c \in cs : Made(c),
         Abort(cs, code), UNCHANGED <<phase, sent, arrived, checked, deadline, added, early, late>>,
         timer' \in [Calls -> Left],
         \A c \in Calls : timer'[c] = timer[c] \/ timer'[c] = None,
         alarm' \in [Calls -> BOOLEAN], broken' \in [Calls -> BOOLEAN],
         closed' \in [Calls -> BOOLEAN],
         \A p \in Calls : (alarm'[p] = alarm[p] /\ broken'[p] = broken[p] /\ closed'[p] = closed[p])
                          \/ cs = added[p]
  PROVE  IInv'
<1>1. /\ Shape'
      /\ stream' \in [Calls -> BOOLEAN] /\ reset' \in [Calls -> BOOLEAN]
      /\ waiting' \in [Calls -> Seq(Codes)] /\ cancels' \in [Calls -> Seq(Codes)]
      /\ cause' \in [Calls -> Codes \cup {None}]
      /\ \A c \in Calls : cause[c] # None => cause'[c] # None
      /\ \A c \in cs : cause'[c] # None
  BY AbortStep DEF IInv
<1>2. TypeOK'
  BY <1>1 DEF IInv, TypeOK
<1>3. Lineage'
  BY DEF IInv, Lineage, Made
<1>4. Bound'
  <2> SUFFICES ASSUME NEW c \in Calls, Made(c), Has(Parent[c])
               PROVE  LET p == Parent[c] IN
                      /\ c \in added[p] \/ cause'[c] # None
                      /\ closed'[p] => cause'[c] # None
                      /\ (broken'[p] \/ (deadline[p] # None /\ ~alarm'[p])) => late[c] \/ cause'[c] # None
    BY DEF Bound, Made
  <2>1. Parent[c] \in Calls
    BY ParentType
  <2>2. c \in added[Parent[c]] \/ cause[c] # None
    BY DEF IInv, Bound
  <2>3. CASE cs = added[Parent[c]]
    BY <1>1, <2>2, <2>3
  <2>4. CASE cs # added[Parent[c]]
    <3>1. alarm'[Parent[c]] = alarm[Parent[c]] /\ broken'[Parent[c]] = broken[Parent[c]]
          /\ closed'[Parent[c]] = closed[Parent[c]]
      BY <2>1, <2>4
    <3>2. QED
      BY <1>1, <2>2, <3>1 DEF IInv, Bound
  <2>5. QED
    BY <2>3, <2>4
<1>5. Earliness' /\ ChildWithinParent'
  BY DEF IInv, Earliness, ChildWithinParent
<1>6. QED
  BY <1>2, <1>3, <1>4, <1>5, <1>1 DEF IInv

-----------------------------------------------------------------------------
LEMMA MakeInv ==
  ASSUME IInv, NEW c \in Calls, Make(c)
  PROVE  IInv'
<1> DEFINE p == Parent[c]
<1>1. /\ phase' = [phase EXCEPT ![c] = "made"] /\ phase[c] = "none"
      /\ added' = [q \in Calls |-> IF q = p /\ Adds(c) THEN added[q] \cup {c} ELSE added[q]]
      /\ waiting' = [waiting EXCEPT ![c] = IF TooLate(c) THEN <<CANCELLED>> ELSE <<>>]
      /\ cause' = [cause EXCEPT ![c] = IF TooLate(c) THEN CANCELLED ELSE None]
      /\ Has(p) => arrived[p]
  BY DEF Make
<1>2. UNCHANGED <<stream, cancels, timer, sent, reset, arrived, checked, deadline, alarm, broken, closed,
                 early>>
  BY DEF Make
<1>3. CANCELLED \in Codes /\ CANCELLED # None
  BY ChildAssumption DEF Codes, CANCELLED
<1>4. late' = [late EXCEPT ![c] = Has(p) /\ (broken[p] \/ (deadline[p] # None /\ ~alarm[p]))]
  BY DEF Make
<1>5. TypeOK'
  <2>1. waiting' \in [Calls -> Seq(Codes)]
    BY <1>1, <1>3 DEF IInv, TypeOK
  <2>2. cause' \in [Calls -> Codes \cup {None}]
    BY <1>1, <1>3 DEF IInv, TypeOK
  <2>3. phase' \in [Calls -> {"none", "made", "started"}] /\ added' \in [Calls -> SUBSET Calls]
    BY <1>1 DEF IInv, TypeOK
  <2>4. late' \in [Calls -> BOOLEAN]
    <3>1. (Has(p) /\ (broken[p] \/ (deadline[p] # None /\ ~alarm[p]))) \in BOOLEAN
      OBVIOUS
    <3>2. QED
      BY <1>4, <3>1, Zenon DEF IInv, TypeOK
  <2>5. QED
    BY <1>2, <2>1, <2>2, <2>3, <2>4 DEF IInv, TypeOK
<1>6. Shape'
  <2>1. waiting'[c] = IF TooLate(c) THEN <<CANCELLED>> ELSE <<>>
    BY <1>1 DEF IInv, TypeOK
  <2>2. cause'[c] = IF TooLate(c) THEN CANCELLED ELSE None
    BY <1>1 DEF IInv, TypeOK
  <2>3. <<CANCELLED>> # <<>> /\ <<CANCELLED>>[1] = CANCELLED
    OBVIOUS
  <2>4. phase'[c] = "made"
    BY <1>1 DEF IInv, TypeOK
  <2>5. ~stream[c] /\ cancels[c] = <<>> /\ timer[c] = None /\ ~arrived[c]
    BY <1>1 DEF IInv, Shape
  <2>6. ASSUME NEW d \in Calls, d # c
        PROVE  phase'[d] = phase[d] /\ waiting'[d] = waiting[d] /\ cause'[d] = cause[d]
    BY <1>1, <2>6 DEF IInv, TypeOK
  <2>7. QED
    BY <1>2, <1>3, <2>1, <2>2, <2>3, <2>4, <2>5, <2>6 DEF IInv, Shape
<1>7. Lineage'
  BY <1>1, <1>2 DEF IInv, TypeOK, Lineage, Made
<1>8. Bound'
  <2> SUFFICES ASSUME NEW d \in Calls, Made(d)', Has(Parent[d])
               PROVE  LET q == Parent[d] IN
                      /\ d \in added'[q] \/ cause'[d] # None
                      /\ closed[q] => cause'[d] # None
                      /\ (broken[q] \/ (deadline[q] # None /\ ~alarm[q])) => late'[d] \/ cause'[d] # None
    BY <1>2 DEF Bound
  <2>1. Parent[d] \in Calls
    BY ParentType
  <2>2. CASE d = c
    <3>1. cause'[c] = IF TooLate(c) THEN CANCELLED ELSE None
      BY <1>1 DEF IInv, TypeOK
    <3>2. late'[c] = (Has(p) /\ (broken[p] \/ (deadline[p] # None /\ ~alarm[p])))
      BY <1>4 DEF IInv, TypeOK
    <3>3. closed[p] => TooLate(c)
      BY <2>2 DEF TooLate
    <3>4. ~closed[p] => c \in added'[p]
      BY <1>1, <2>1, <2>2 DEF Adds
    <3>5. QED
      BY <1>3, <2>2, <3>1, <3>2, <3>3, <3>4
  <2>3. CASE d # c
    <3>1. Made(d) /\ cause'[d] = cause[d] /\ late'[d] = late[d]
      BY <1>1, <1>4, <2>3 DEF IInv, TypeOK, Made
    <3>2. added[Parent[d]] \subseteq added'[Parent[d]]
      BY <1>1, <2>1
    <3>3. QED
      BY <3>1, <3>2 DEF IInv, Bound
  <2>4. QED
    BY <2>2, <2>3
<1>9. Earliness' /\ ChildWithinParent'
  BY <1>2 DEF IInv, Earliness, ChildWithinParent
<1>10. QED
  BY <1>5, <1>6, <1>7, <1>8, <1>9 DEF IInv

(* What is sent is what was asked for, or what is left to the parent. *)
LEMMA TimeoutType ==
  ASSUME TypeOK, NEW c \in Calls, NEW ms \in Timeouts[c]
  PROVE  /\ WithParentTimeout(c, ms) \in Nat
         /\ Has(Parent[c]) /\ deadline[Parent[c]] # None =>
              WithParentTimeout(c, ms) <= deadline[Parent[c]]
<1>1. ms \in Nat
  BY ChildAssumption
<1>2. Has(Parent[c]) => Parent[c] \in Calls
  BY ParentType
<1>3. Has(Parent[c]) /\ deadline[Parent[c]] # None => deadline[Parent[c]] \in Nat
  BY <1>2 DEF TypeOK, Left
<1>4. QED
  BY <1>1, <1>3 DEF WithParentTimeout

LEMMA StartInv ==
  ASSUME IInv, NEW c \in Calls, NEW ms \in Timeouts[c] \cup {None}, Start(c, ms)
  PROVE  IInv'
<1> DEFINE limit == IF ms = None THEN None ELSE WithParentTimeout(c, ms)
<1>1. /\ phase[c] = "made" /\ phase' = [phase EXCEPT ![c] = "started"]
      /\ timer' = [timer EXCEPT ![c] = limit] /\ sent' = [sent EXCEPT ![c] = limit]
      /\ stream' = [stream EXCEPT ![c] = waiting[c] = <<>>]
      /\ cancels' = [cancels EXCEPT ![c] =
           IF waiting[c] = <<>> THEN <<>> ELSE <<FirstOf(waiting[c])>>]
      /\ reset' = [reset EXCEPT ![c] = waiting[c] # <<>>]
      /\ waiting' = [waiting EXCEPT ![c] = <<>>]
      /\ early' = [early EXCEPT ![c] = limit # None /\ Has(Parent[c]) /\ ~checked[Parent[c]]]
  BY DEF Start
<1>2. UNCHANGED <<server, late, cause>>
  BY DEF Start
<1>3. limit \in Left
  BY TimeoutType DEF IInv, Left
<1>4. limit # None /\ Has(Parent[c]) /\ deadline[Parent[c]] # None => limit <= deadline[Parent[c]]
  BY TimeoutType DEF IInv
<1>5. waiting[c] # <<>> => FirstOf(waiting[c]) = cause[c] /\ cause[c] # None
  BY <1>1 DEF IInv, Shape, FirstOf
<1>6. waiting[c] = <<>> => cause[c] = None
  BY <1>1 DEF IInv, Shape
<1>7. cause[c] \in Codes \cup {None}
  BY DEF IInv, TypeOK
<1> HIDE DEF limit
<1>8. TypeOK'
  <2>1. timer' \in [Calls -> Left] /\ sent' \in [Calls -> Left]
    BY <1>1, <1>3 DEF IInv, TypeOK
  <2>2. cancels' \in [Calls -> Seq(Codes)]
    <3>1. (IF waiting[c] = <<>> THEN <<>> ELSE <<FirstOf(waiting[c])>>) \in Seq(Codes)
      BY <1>5, <1>7
    <3>2. QED
      BY <1>1, <3>1 DEF IInv, TypeOK
  <2>3. waiting' \in [Calls -> Seq(Codes)]
    BY <1>1 DEF IInv, TypeOK
  <2>4. phase' \in [Calls -> {"none", "made", "started"}]
    BY <1>1 DEF IInv, TypeOK
  <2>5. stream' \in [Calls -> BOOLEAN] /\ reset' \in [Calls -> BOOLEAN]
    <3>1. (waiting[c] = <<>>) \in BOOLEAN /\ (waiting[c] # <<>>) \in BOOLEAN
      OBVIOUS
    <3>2. QED
      BY <1>1, <3>1, Zenon DEF IInv, TypeOK
  <2>6. early' \in [Calls -> BOOLEAN]
    <3>1. (limit # None /\ Has(Parent[c]) /\ ~checked[Parent[c]]) \in BOOLEAN
      OBVIOUS
    <3>2. QED
      BY <1>1, <3>1, Zenon DEF IInv, TypeOK
  <2>7. QED
    BY <1>2, <2>1, <2>2, <2>3, <2>4, <2>5, <2>6 DEF IInv, TypeOK, server
<1>9. Shape'
  <2>1. /\ phase'[c] = "started" /\ waiting'[c] = <<>>
        /\ stream'[c] = (waiting[c] = <<>>)
        /\ cancels'[c] = IF waiting[c] = <<>> THEN <<>> ELSE <<FirstOf(waiting[c])>>
    BY <1>1 DEF IInv, TypeOK
  <2>2. stream'[c] => cancels'[c] = <<>> /\ cause[c] = None
    BY <1>6, <2>1
  <2>3. ~stream'[c] => cancels'[c] = <<cause[c]>> /\ cause[c] # None
    BY <1>5, <2>1
  <2>4. ASSUME NEW d \in Calls, d # c
        PROVE  /\ phase'[d] = phase[d] /\ waiting'[d] = waiting[d] /\ stream'[d] = stream[d]
               /\ cancels'[d] = cancels[d] /\ timer'[d] = timer[d]
    BY <1>1, <2>4 DEF IInv, TypeOK
  <2>5. cause' = cause /\ arrived' = arrived
    BY <1>2 DEF server
  <2>6. QED
    BY <2>1, <2>2, <2>3, <2>4, <2>5 DEF IInv, Shape
<1>10. Lineage' /\ Bound'
  <2>1. \A d \in Calls : Made(d)' => Made(d)
    BY <1>1 DEF IInv, TypeOK, Made
  <2>2. \A d \in Calls : Made(d) => Made(d)'
    BY <1>1 DEF IInv, TypeOK, Made
  <2>3. QED
    BY <1>2, <2>1, <2>2 DEF IInv, Lineage, Bound, server
<1>11. Earliness' /\ ChildWithinParent'
  <2>1. timer'[c] = limit
    BY <1>1 DEF IInv, TypeOK
  <2>2. \A d \in Calls : d # c => timer'[d] = timer[d] /\ early'[d] = early[d]
    BY <1>1 DEF IInv, TypeOK
  <2>3. early'[c] = (limit # None /\ Has(Parent[c]) /\ ~checked[Parent[c]])
    BY <1>1 DEF IInv, TypeOK
  <2>4. Earliness'
    BY <1>2, <2>1, <2>2, <2>3 DEF IInv, Earliness, server
  <2>5. ASSUME NEW d \in Calls, timer'[d] # None, ~early'[d], Has(Parent[d]),
               deadline[Parent[d]] # None
        PROVE  timer'[d] <= deadline[Parent[d]]
    <3>1. CASE d = c
      BY <1>4, <2>1, <2>5, <3>1
    <3>2. CASE d # c
      BY <2>2, <2>5, <3>2 DEF IInv, ChildWithinParent
    <3>3. QED
      BY <3>1, <3>2
  <2>6. deadline' = deadline
    BY <1>2 DEF server
  <2>7. ChildWithinParent'
    BY <2>5, <2>6 DEF ChildWithinParent
  <2>8. QED
    BY <2>4, <2>7
<1>12. QED
  BY <1>8, <1>9, <1>10, <1>11 DEF IInv

LEMMA ArriveInv ==
  ASSUME IInv, NEW c \in Calls, Arrive(c)
  PROVE  IInv'
<1>1. /\ arrived' = [arrived EXCEPT ![c] = TRUE] /\ phase[c] = "started"
      /\ UNCHANGED <<client, checked, deadline, alarm, broken, closed, added, early, late, cause>>
  BY DEF Arrive
<1>2. TypeOK'
  BY <1>1 DEF IInv, TypeOK, client
<1>3. Shape'
  BY <1>1 DEF IInv, TypeOK, Shape, client
<1>4. Lineage'
  BY <1>1, ParentType DEF IInv, TypeOK, Lineage, Made, client
<1>5. Bound' /\ Earliness' /\ ChildWithinParent'
  BY <1>1 DEF IInv, Bound, Made, Earliness, ChildWithinParent, client
<1>6. QED
  BY <1>2, <1>3, <1>4, <1>5 DEF IInv

(* When the deadline of a call is set, the timers of the calls made for it   *)
(* are those of calls started early.                                         *)
LEMMA CheckTimeoutInv ==
  ASSUME IInv, NEW c \in Calls, CheckTimeout(c)
  PROVE  IInv'
<1>1. /\ checked' = [checked EXCEPT ![c] = TRUE] /\ ~checked[c]
      /\ deadline' = [deadline EXCEPT ![c] = sent[c]]
      /\ alarm' = [alarm EXCEPT ![c] = sent[c] # None]
      /\ UNCHANGED <<client, arrived, broken, closed, added, early, late, cause>>
  BY DEF CheckTimeout
<1>2. TypeOK'
  <2>1. (sent[c] # None) \in BOOLEAN
    OBVIOUS
  <2>2. alarm' \in [Calls -> BOOLEAN] /\ checked' \in [Calls -> BOOLEAN]
    BY <1>1, <2>1, Zenon DEF IInv, TypeOK
  <2>3. deadline' \in [Calls -> Left]
    BY <1>1 DEF IInv, TypeOK
  <2>4. QED
    BY <1>1, <2>2, <2>3 DEF IInv, TypeOK, client
<1>3. Shape' /\ Lineage'
  BY <1>1 DEF IInv, Shape, Lineage, Made, client
<1>4. /\ deadline'[c] # None => alarm'[c]
      /\ checked'[c]
      /\ \A d \in Calls : d # c =>
           deadline'[d] = deadline[d] /\ alarm'[d] = alarm[d] /\ checked'[d] = checked[d]
  BY <1>1 DEF IInv, TypeOK
<1>5. Bound'
  <2> SUFFICES ASSUME NEW d \in Calls, Made(d), Has(Parent[d])
               PROVE  LET q == Parent[d] IN
                      /\ d \in added[q] \/ cause[d] # None
                      /\ closed[q] => cause[d] # None
                      /\ (broken[q] \/ (deadline'[q] # None /\ ~alarm'[q])) => late[d] \/ cause[d] # None
    BY <1>1 DEF Bound, Made, client
  <2>1. Parent[d] \in Calls
    BY ParentType
  <2>2. QED
    BY <1>4, <2>1 DEF IInv, Bound
<1>6. Earliness'
  BY <1>1, <1>4, ParentType DEF IInv, Earliness, client
<1>7. ChildWithinParent'
  <2> SUFFICES ASSUME NEW d \in Calls, timer[d] # None, ~early[d], Has(Parent[d]),
                      deadline'[Parent[d]] # None
               PROVE  timer[d] <= deadline'[Parent[d]]
    BY <1>1 DEF ChildWithinParent, client
  <2>1. Parent[d] \in Calls /\ Parent[d] # c
    BY <1>1, ParentType DEF IInv, Earliness
  <2>2. QED
    BY <1>4, <2>1 DEF IInv, ChildWithinParent
<1>8. QED
  BY <1>2, <1>3, <1>5, <1>6, <1>7 DEF IInv

LEMMA TickInv ==
  ASSUME IInv, Tick
  PROVE  IInv'
<1>1. /\ timer' = [c \in Calls |-> Less(timer[c])]
      /\ deadline' = [c \in Calls |-> Less(deadline[c])]
      /\ UNCHANGED <<phase, stream, waiting, cancels, sent, reset, arrived, checked, alarm, broken,
                     closed, added, early, late, cause>>
  BY DEF Tick
<1>2. \A x \in Left : Less(x) \in Left /\ (Less(x) = None <=> x = None)
  BY ChildAssumption DEF Left, Less
<1>3. \A x \in Nat, y \in Nat : x <= y => Less(x) <= Less(y)
  BY ChildAssumption DEF Less
<1>4. \A c \in Calls : timer[c] \in Left /\ deadline[c] \in Left
  BY DEF IInv, TypeOK
<1>5. TypeOK'
  BY <1>1, <1>2, <1>4 DEF IInv, TypeOK
<1>6. Shape'
  BY <1>1, <1>2, <1>4 DEF IInv, Shape
<1>7. Lineage'
  BY <1>1 DEF IInv, Lineage, Made
<1>8. Bound'
  <2>1. \A c \in Calls : deadline'[c] # None => deadline[c] # None
    BY <1>1, <1>2, <1>4
  <2>2. QED
    BY <1>1, <2>1, ParentType DEF IInv, Bound, Made
<1>9. Earliness'
  BY <1>1, <1>2, <1>4 DEF IInv, Earliness
<1>10. ChildWithinParent'
  <2> SUFFICES ASSUME NEW c \in Calls, timer'[c] # None, ~early[c], Has(Parent[c]),
                      deadline'[Parent[c]] # None
               PROVE  timer'[c] <= deadline'[Parent[c]]
    BY <1>1 DEF ChildWithinParent
  <2>1. Parent[c] \in Calls
    BY ParentType
  <2>2. timer[c] # None /\ deadline[Parent[c]] # None
    BY <1>1, <1>2, <1>4, <2>1
  <2>3. timer[c] \in Nat /\ deadline[Parent[c]] \in Nat
    BY <1>4, <2>1, <2>2 DEF Left
  <2>4. timer[c] <= deadline[Parent[c]]
    BY <2>2 DEF IInv, ChildWithinParent
  <2>5. timer'[c] = Less(timer[c]) /\ deadline'[Parent[c]] = Less(deadline[Parent[c]])
    BY <1>1, <2>1
  <2>6. QED
    BY <1>3, <2>3, <2>4, <2>5
<1>11. QED
  BY <1>5, <1>6, <1>7, <1>8, <1>9, <1>10 DEF IInv

-----------------------------------------------------------------------------
LEMMA CodesAre == CANCELLED \in Codes /\ DEADLINE_EXCEEDED \in Codes /\ INTERNAL \in Codes
BY DEF Codes

(* The calls that hear a parent were made. *)
LEMMA HeardMade ==
  ASSUME IInv, NEW p \in Calls
  PROVE  added[p] \in SUBSET Calls /\ \A c \in added[p] : Made(c)
<1>1. added[p] \in SUBSET Calls
  BY DEF IInv, TypeOK
<1>2. QED
  BY <1>1 DEF IInv, Lineage

LEMMA TimerCalledInv ==
  ASSUME IInv, NEW c \in Calls, TimerCalled(c)
  PROVE  IInv'
<1>1. /\ timer' = [timer EXCEPT ![c] = None] /\ timer[c] = 0
      /\ Abort({c}, DEADLINE_EXCEEDED)
      /\ UNCHANGED <<phase, sent, arrived, checked, deadline, alarm, broken, closed, added, early, late>>
  BY DEF TimerCalled, server
<1>2. Made(c)
  <2>1. timer[c] # None
    BY <1>1, ChildAssumption
  <2>2. QED
    BY <2>1 DEF IInv, Shape, Made
<1>3. timer' \in [Calls -> Left] /\ \A d \in Calls : timer'[d] = timer[d] \/ timer'[d] = None
  BY <1>1 DEF IInv, TypeOK, Left
<1>4. {c} \in SUBSET Calls /\ \A d \in {c} : Made(d)
  BY <1>2
<1>5. alarm' \in [Calls -> BOOLEAN] /\ broken' \in [Calls -> BOOLEAN] /\ closed' \in [Calls -> BOOLEAN]
  BY <1>1 DEF IInv, TypeOK
<1>6. \A p \in Calls : alarm'[p] = alarm[p] /\ broken'[p] = broken[p] /\ closed'[p] = closed[p]
  BY <1>1
<1>7. QED
  BY <1>1, <1>3, <1>4, <1>5, <1>6, CodesAre, AbortInv

LEMMA CancelInv ==
  ASSUME IInv, NEW c \in Calls, Cancel(c)
  PROVE  IInv'
<1>1. /\ Made(c) /\ Abort({c}, CANCELLED)
      /\ UNCHANGED <<phase, timer, sent, arrived, checked, deadline, alarm, broken, closed, added, early, late>>
  BY DEF Cancel, Made, server
<1>2. {c} \in SUBSET Calls /\ \A d \in {c} : Made(d)
  BY <1>1
<1>3. /\ timer' \in [Calls -> Left] /\ alarm' \in [Calls -> BOOLEAN]
      /\ broken' \in [Calls -> BOOLEAN] /\ closed' \in [Calls -> BOOLEAN]
  BY <1>1 DEF IInv, TypeOK
<1>4. \A p \in Calls : alarm'[p] = alarm[p] /\ broken'[p] = broken[p] /\ closed'[p] = closed[p]
  BY <1>1
<1>5. \A d \in Calls : timer'[d] = timer[d]
  BY <1>1
<1>6. QED
  BY <1>1, <1>2, <1>3, <1>4, <1>5, CodesAre, AbortInv

(* What a parent's own events have in common: they abort all that listen. *)
LEMMA ParentEventInv ==
  ASSUME IInv, NEW p \in Calls, NEW code \in Codes, Abort(Heard(p), code),
         UNCHANGED <<phase, timer, sent, arrived, checked, deadline, added, early, late>>,
         alarm' \in [Calls -> BOOLEAN], broken' \in [Calls -> BOOLEAN], closed' \in [Calls -> BOOLEAN],
         \A q \in Calls : q # p =>
           alarm'[q] = alarm[q] /\ broken'[q] = broken[q] /\ closed'[q] = closed[q]
  PROVE  IInv'
<1>1. Abort(added[p], code)
  BY DEF Heard
<1>2. timer' \in [Calls -> Left]
  BY DEF IInv, TypeOK
<1>3. \A q \in Calls :
        (alarm'[q] = alarm[q] /\ broken'[q] = broken[q] /\ closed'[q] = closed[q])
        \/ added[p] = added[q]
  OBVIOUS
<1>4. \A d \in Calls : timer'[d] = timer[d]
  OBVIOUS
<1>5. QED
  BY <1>1, <1>2, <1>3, <1>4, HeardMade, AbortInv

LEMMA AlarmCalledInv ==
  ASSUME IInv, NEW p \in Calls, AlarmCalled(p)
  PROVE  IInv'
<1>1. /\ alarm' = [alarm EXCEPT ![p] = FALSE] /\ Abort(Heard(p), DEADLINE_EXCEEDED)
      /\ UNCHANGED <<phase, timer, sent, arrived, checked, deadline, broken, closed, added, early, late>>
  BY DEF AlarmCalled
<1>2. /\ alarm' \in [Calls -> BOOLEAN] /\ broken' \in [Calls -> BOOLEAN] /\ closed' \in [Calls -> BOOLEAN]
      /\ \A q \in Calls : q # p =>
           alarm'[q] = alarm[q] /\ broken'[q] = broken[q] /\ closed'[q] = closed[q]
  BY <1>1 DEF IInv, TypeOK
<1>3. QED
  BY <1>1, <1>2, CodesAre, ParentEventInv

LEMMA DecoderFailsInv ==
  ASSUME IInv, NEW p \in Calls, NEW code \in Codes, DecoderFails(p, code)
  PROVE  IInv'
<1>1. /\ broken' = [broken EXCEPT ![p] = TRUE] /\ Abort(Heard(p), code)
      /\ UNCHANGED <<phase, timer, sent, arrived, checked, deadline, alarm, closed, added, early, late>>
  BY DEF DecoderFails
<1>2. /\ alarm' \in [Calls -> BOOLEAN] /\ broken' \in [Calls -> BOOLEAN] /\ closed' \in [Calls -> BOOLEAN]
      /\ \A q \in Calls : q # p =>
           alarm'[q] = alarm[q] /\ broken'[q] = broken[q] /\ closed'[q] = closed[q]
  BY <1>1 DEF IInv, TypeOK
<1>3. QED
  BY <1>1, <1>2, ParentEventInv

LEMMA CloseInv ==
  ASSUME IInv, NEW p \in Calls, Close(p)
  PROVE  IInv'
<1>1. /\ closed' = [closed EXCEPT ![p] = TRUE] /\ Abort(Heard(p), CANCELLED)
      /\ UNCHANGED <<phase, timer, sent, arrived, checked, deadline, alarm, broken, added, early, late>>
  BY DEF Close
<1>2. /\ alarm' \in [Calls -> BOOLEAN] /\ broken' \in [Calls -> BOOLEAN] /\ closed' \in [Calls -> BOOLEAN]
      /\ \A q \in Calls : q # p =>
           alarm'[q] = alarm[q] /\ broken'[q] = broken[q] /\ closed'[q] = closed[q]
  BY <1>1 DEF IInv, TypeOK
<1>3. QED
  BY <1>1, <1>2, CodesAre, ParentEventInv

-----------------------------------------------------------------------------
LEMMA StepInv ==
  ASSUME IInv, [Next]_vars
  PROVE  IInv'
<1>1. ASSUME UNCHANGED vars PROVE IInv'
  BY <1>1 DEF vars, client, server, IInv, TypeOK, Shape, Lineage, Bound, Made, Earliness,
     ChildWithinParent
<1>2. ASSUME NEW c \in Calls, NEW code \in {INTERNAL, CANCELLED}, DecoderFails(c, code) PROVE IInv'
  BY <1>2, DecoderFailsInv, CodesAre
<1>3. QED
  BY <1>1, <1>2, MakeInv, StartInv, TimerCalledInv, CancelInv, ArriveInv, CheckTimeoutInv,
     AlarmCalledInv,
     CloseInv, TickInv DEF Next

THEOREM Inductive == Spec => []IInv
<1>1. Init => IInv
  BY InitInv
<1>2. IInv /\ [Next]_vars => IInv'
  BY StepInv
<1>3. QED
  BY <1>1, <1>2, PTL DEF Spec

(* The variables of the calls stay in their types. *)
THEOREM TypeCorrect == Spec => []TypeOK
<1>1. IInv => TypeOK
  BY DEF IInv
<1>2. QED
  BY <1>1, Inductive, PTL

(* A call emits 'cancel' once at most, with the code of the first who asked. *)
THEOREM FirstCause == Spec => []FirstCauseWins
<1>1. IInv => FirstCauseWins
  BY DEF IInv, TypeOK, Shape, FirstCauseWins
<1>2. QED
  BY <1>1, Inductive, PTL

(* No timer of a child is due after its parent's deadline, unless it was set *)
(* by the parent's handler in the turn that is about to set that deadline.   *)
THEOREM WithinParent == Spec => []ChildWithinParent
<1>1. IInv => ChildWithinParent
  BY DEF IInv
<1>2. QED
  BY <1>1, Inductive, PTL

(* No call goes on for a parent that is over. *)
THEOREM Orphans == Spec => []NoOrphans
<1>1. IInv => NoOrphans
  <2> SUFFICES ASSUME IInv, NEW c \in Calls, stream[c], Has(Parent[c])
               PROVE  LET p == Parent[c] IN
                      /\ ~closed[p]
                      /\ (broken[p] \/ (deadline[p] # None /\ ~alarm[p])) => late[c]
    BY DEF NoOrphans
  <2>1. phase[c] = "started"
    BY DEF IInv, Shape
  <2>2. cause[c] = None /\ Made(c)
    BY <2>1 DEF IInv, Shape, Made
  <2>3. QED
    BY <2>2 DEF IInv, Bound
<1>2. QED
  BY <1>1, Inductive, PTL
=============================================================================
