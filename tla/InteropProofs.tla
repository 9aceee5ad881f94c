--------------------------- MODULE InteropProofs ---------------------------
(***************************************************************************)
(* Proofs about Interop: whatever the tests, as long as they ask a method   *)
(* for what it takes and expect what it owes, a test without a deadline     *)
(* never fails unless streams push back, and an rpc is to its client what   *)
(* module Rpc promises.                                                     *)
(*                                                                          *)
(* While the client has a stream, all that is under way is determined by    *)
(* how far each side has come: the server has handled p of the messages     *)
(* written, and perhaps the end; what it owes for these is, in order, what  *)
(* arrived, what is on the wire and what is still encoded. Once the client  *)
(* has dropped its stream it ignores what comes, and nothing is left to say. *)
(* That is the invariant Inv, which every step keeps; the theorems follow.    *)
(***************************************************************************)
EXTENDS Interop, SequenceTheorems, WellFoundedInduction, NaturalsInduction, TLAPS

Failures == {DEADLINE_EXCEEDED, INTERNAL}

(* What a method returns. *)
Reply(method) ==
  CASE method \in {"Div", "DivMany"} -> [quotient : Nat, remainder : Nat]
    [] method = "EmptyCall" -> {"{}"}
    [] OTHER -> Nat

UpFrame ==
  [type : {"DATA"}, body : Message(test.method)] \cup
  [type : {"HEADERS", "END", "RST"}, body : {None}]

DownFrame ==
  [type : {"DATA"}, body : Reply(test.method)] \cup [type : {"TRAILERS"}, body : Codes] \cup
  [type : {"HEADERS", "END"}, body : {None}]

ClientFlags ==
  /\ stream \in {"none", "live", "null"} /\ timer \in {"off", "armed", "fired"}
  /\ ended \in BOOLEAN /\ eof \in BOOLEAN /\ cut \in BOOLEAN /\ respEnded \in BOOLEAN
  /\ cancelHeard \in BOOLEAN /\ done \in BOOLEAN
  /\ status \in Codes \cup {None} /\ failure \in {"none", "assertion", "unheard error"}

ClientData ==
  /\ written \in 0..Len(test.sends)
  /\ arrived \in Seq(Reply(test.method)) /\ seen \in 0..Len(arrived)

ClientTyped == ClientFlags /\ ClientData

ServerTyped ==
  /\ serverTimer \in {"off", "armed", "fired"} /\ total \in Nat
  /\ handling \in BOOLEAN /\ headersSent \in BOOLEAN /\ endCalled \in BOOLEAN
  /\ finished \in BOOLEAN /\ closed \in BOOLEAN
  /\ rpcCode \in Codes \cup {None} /\ encoded \in Seq(Reply(test.method))

Typed ==
  /\ test \in Tests /\ ClientTyped /\ ServerTyped
  /\ up \in Seq(UpFrame) /\ down \in Seq(DownFrame)

-----------------------------------------------------------------------------
(* The first p messages, and what is owed for these. *)
First(p) == SubSeq(test.sends, 1, p)
OwedFor(p, e) == Owed(test.method, First(p), e)
NoMoreFor(p, e) == OwesNoMore(test.method, First(p), e)
StatusFor(p) == ProperStatus(test.method, First(p))
OverrunBy(p) == Overrun(test.method, First(p))

(* Before the request has a stream, nothing has happened. *)
Fresh ==
  /\ written = 0 /\ ~ended /\ timer = "off" /\ arrived = <<>> /\ ~eof /\ ~cut /\ seen = 0
  /\ status = None /\ up = <<>> /\ down = <<>> /\ ~handling /\ total = 0
  /\ serverTimer = "off" /\ ~headersSent /\ ~endCalled /\ encoded = <<>> /\ rpcCode = None
  /\ ~finished /\ ~closed

(* Why and when a stream is dropped. *)
Dropped ==
  /\ stream = "live" => ~cut /\ test.cancel # "begin"
  /\ stream = "null" => cancelHeard /\ (test.timed \/ test.cancel # "never")
  /\ stream = "null" => cut \/ test.cancel = "begin"
  /\ timer # "off" => test.timed
  /\ serverTimer # "off" => test.timed
  /\ test.cancel = "begin" => arrived = <<>> /\ ~eof
  /\ test.cancel = "first" /\ seen > 0 => cut

Dropping == (stream = "none" => Fresh) /\ Dropped

(* The frames to the server: what was written, without what it has handled. *)
Upward(p, e) ==
  /\ p \in 0..written /\ e \in BOOLEAN
  /\ ended => congested \/ written = Len(test.sends)
  /\ e => ended /\ p = written
  /\ LET h == IF handling THEN 0 ELSE 1 IN
     /\ Len(up) = h + (written - p) + (IF ended /\ ~e THEN 1 ELSE 0)
     /\ \A i \in DOMAIN up :
          up[i] = IF i <= h THEN Frame("HEADERS", None)
                  ELSE IF i <= h + (written - p) THEN Frame("DATA", test.sends[p + (i - h)])
                  ELSE Frame("END", None)

(* The handler: it has ended the response for a reason, or is not through. *)
Handler(p, e) ==
  /\ ~closed
  /\ ~handling => p = 0 /\ ~e
  /\ test.method \in Summing => total = Sum(First(p))
  /\ IF endCalled
     THEN \/ NoMoreFor(p, e) /\ (IF rpcCode = None THEN OK ELSE rpcCode) = StatusFor(p)
          \/ rpcCode \in Failures /\ (test.timed \/ (rpcCode = INTERNAL /\ OverrunBy(p)))
     ELSE /\ rpcCode = None /\ ~NoMoreFor(p, FALSE)
          /\ e => test.method \in AnswersFirst

(* A status that comes after n responses: it is the handler's and all that it *)
(* owed came before, unless the streams push back, or the rpc has failed for  *)
(* a reason.                                                                  *)
Justified(code, n, p, e) ==
  \/ /\ NoMoreFor(p, e) /\ code = StatusFor(p)
     /\ congested \/ n = Len(OwedFor(p, e))
  \/ code \in Failures /\ (test.timed \/ (code = INTERNAL /\ OverrunBy(p)))

(* What came is the start of what is owed, and the frames to the client go on *)
(* from there: k headers, n messages, and the last m of the two frames that   *)
(* end a response.                                                            *)
OnWire(came, frames, owed, k, n, m) ==
  /\ Len(came) + n <= Len(owed)
  /\ \A i \in DOMAIN came : came[i] = owed[i]
  /\ Len(frames) = k + n + m
  /\ \A i \in 1..(k + n) :
       frames[i] = IF i <= k THEN Frame("HEADERS", None)
                   ELSE Frame("DATA", owed[Len(came) + (i - k)])

(* These messages are what is owed after the first x. *)
Rest(messages, owed, x) ==
  /\ Len(messages) = Len(owed) - x
  /\ \A j \in DOMAIN messages : messages[j] = owed[x + j]

Downward(p, e, k, n, m) ==
  /\ k \in 0..1 /\ n \in Nat /\ m \in 0..2
  /\ OnWire(arrived, down, OwedFor(p, e), k, n, m)
  /\ m = 2 => down[k + n + 1].type = "TRAILERS"
  /\ m > 0 => down[k + n + m] = Frame("END", None)
  /\ ~headersSent => ~endCalled /\ down = <<>> /\ arrived = <<>> /\ encoded = <<>>
  /\ IF finished
     THEN /\ endCalled /\ encoded = <<>>
          /\ m = 2 => status = None /\ Justified(down[k + n + 1].body, Len(arrived) + n, p, e)
          /\ m < 2 => k + n = 0 /\ Justified(status, Len(arrived), p, e)
     ELSE /\ m = 0 /\ status = None
          /\ Rest(encoded, OwedFor(p, e), Len(arrived) + n)
  /\ eof => finished /\ m = 0

UnderWay ==
  \E p \in 0..written, e \in BOOLEAN, k \in 0..1, n \in 0..Len(down), m \in 0..2 :
    Upward(p, e) /\ Handler(p, e) /\ Downward(p, e, k, n, m)

Inv == Typed /\ Dropping /\ (stream = "live" => UnderWay) /\ ExpectationsHold

-----------------------------------------------------------------------------
(* Numbers and sequences *)

(* Induction over the natural numbers, for a set of them. *)
Less == {pair \in Nat \X Nat : pair[1] < pair[2]}

LEMMA LessWellFounded == IsWellFoundedOn(Less, Nat)
<1> QED
  BY NatLessThanWellFounded DEF OpToRel, Less

LEMMA Induction ==
  ASSUME NEW T, 0 \in T, \A n \in Nat : n \in T => n + 1 \in T
  PROVE  Nat \subseteq T
<1> SUFFICES ASSUME Nat \ T # {} PROVE FALSE
  OBVIOUS
<1>1. PICK x \in Nat \ T : \A y \in Nat \ T : <<y, x>> \notin Less
  BY LessWellFounded, WFMin, Nat \ T \subseteq Nat
<1>2. x # 0 /\ x - 1 \in Nat
  BY <1>1
<1>3. <<x - 1, x>> \in Less
  BY <1>2 DEF Less
<1>4. x - 1 \in T
  BY <1>1, <1>2, <1>3
<1>5. (x - 1) + 1 = x
  BY <1>2
<1> QED
  BY <1>4, <1>2, <1>5, <1>1

LEMMA SingletonType ==
  ASSUME NEW S, NEW x \in S
  PROVE  <<x>> \in Seq(S)
<1> QED
  OBVIOUS

(* What Append leaves in place, and what it adds. *)
LEMMA AppendFacts ==
  ASSUME NEW S, NEW s \in Seq(S), NEW x \in S
  PROVE  /\ Append(s, x) \in Seq(S) /\ Append(s, x) # <<>>
         /\ Len(s) \in Nat /\ DOMAIN s = 1..Len(s)
         /\ Len(Append(s, x)) = Len(s) + 1 /\ DOMAIN Append(s, x) = 1..Len(s) + 1
         /\ Append(s, x)[Len(s) + 1] = x
         /\ \A i \in 1..Len(s) : Append(s, x)[i] = s[i]
<1>1. /\ Append(s, x) \in Seq(S) /\ Len(s) \in Nat /\ DOMAIN s = 1..Len(s)
      /\ Len(Append(s, x)) = Len(s) + 1
      /\ Append(s, x)[Len(s) + 1] = x
      /\ \A i \in 1..Len(s) : Append(s, x)[i] = s[i]
  OBVIOUS
<1>2. DOMAIN Append(s, x) = 1..Len(s) + 1 /\ Append(s, x) # <<>>
  BY <1>1
<1> QED
  BY <1>1, <1>2

(* Tail moves each element one place forward. *)
LEMMA TailFacts ==
  ASSUME NEW S, NEW s \in Seq(S), s # <<>>
  PROVE  /\ Len(s) \in Nat \ {0} /\ Head(s) = s[1] /\ s[1] \in S /\ DOMAIN s = 1..Len(s)
         /\ Tail(s) \in Seq(S) /\ Len(Tail(s)) = Len(s) - 1 /\ DOMAIN Tail(s) = 1..Len(s) - 1
         /\ \A i \in 1..Len(s) - 1 : Tail(s)[i] = s[i + 1]
<1>1. /\ Len(s) \in Nat \ {0} /\ Head(s) = s[1] /\ s[1] \in S /\ DOMAIN s = 1..Len(s)
      /\ Tail(s) \in Seq(S) /\ Len(Tail(s)) = Len(s) - 1
      /\ \A i \in 1..Len(s) - 1 : Tail(s)[i] = s[i + 1]
  OBVIOUS
<1>2. DOMAIN Tail(s) = 1..Len(s) - 1
  BY <1>1
<1> QED
  BY <1>1, <1>2

(* The end of a concatenation, after the first sequence. *)
LEMMA ConcatEnd ==
  ASSUME NEW T, NEW d \in Seq(T), NEW x \in Seq(T)
  PROVE  /\ Len(d) \in Nat /\ Len(x) \in Nat /\ Len(d \o x) = Len(d) + Len(x)
         /\ \A i \in 1..Len(d) : (d \o x)[i] = d[i]
         /\ \A i \in 1..Len(x) : (d \o x)[Len(d) + i] = x[i]
<1>1. /\ Len(d) \in Nat /\ Len(x) \in Nat /\ Len(d \o x) = Len(d) + Len(x)
      /\ \A i \in 1..Len(d) + Len(x) : (d \o x)[i] = IF i <= Len(d) THEN d[i] ELSE x[i - Len(d)]
  BY ConcatProperties, LenProperties
<1> QED
  BY <1>1

LEMMA NotEmpty ==
  ASSUME NEW s, Len(s) # 0
  PROVE  s # <<>>
<1> SUFFICES ASSUME s = <<>> PROVE FALSE
  OBVIOUS
<1>1. Len(<<>>) = 0
  OBVIOUS
<1> QED
  BY <1>1

(* The last element of a concatenation. *)
LEMMA LastOfConcat ==
  ASSUME NEW S, NEW d \in Seq(S), NEW x \in Seq(S), Len(x) # 0
  PROVE  d \o x # <<>> /\ (d \o x)[Len(d \o x)] = x[Len(x)]
<1> DEFINE y == d \o x
<1>1. /\ Len(d) \in Nat /\ Len(x) \in Nat /\ Len(y) = Len(d) + Len(x)
      /\ \A i \in 1..Len(x) : y[Len(d) + i] = x[i]
  BY ConcatEnd
<1> HIDE DEF y
<1>2. Len(y) # 0 /\ y[Len(y)] = x[Len(x)]
  BY <1>1
<1> QED
  BY <1>2, NotEmpty DEF y

LEMMA SameElements ==
  ASSUME NEW S, NEW a \in Seq(S), NEW b \in Seq(S), Len(a) = Len(b),
         \A i \in DOMAIN a : a[i] = b[i]
  PROVE  a = b
<1>1. /\ a = [i \in 1..Len(a) |-> a[i]] /\ b = [i \in 1..Len(b) |-> b[i]] /\ DOMAIN a = 1..Len(a)
  BY SeqDef
<1> QED
  BY <1>1

(* The start of a sequence stays when it is appended to. *)
LEMMA StartOfAppend ==
  ASSUME NEW S, NEW a \in Seq(S), NEW x \in S
  PROVE  SubSeq(Append(a, x), 1, Len(a)) = a
<1> DEFINE b == Append(a, x)
           c == SubSeq(b, 1, Len(a))
<1>1. /\ b \in Seq(S) /\ Len(a) \in Nat /\ Len(b) = Len(a) + 1
      /\ \A i \in 1..Len(a) : b[i] = a[i]
  BY AppendFacts
<1> HIDE DEF b
<1>2. c \in Seq(S) /\ Len(c) = Len(a) /\ \A i \in 1..Len(a) : c[i] = b[i]
  BY <1>1
<1>3. DOMAIN c = 1..Len(a)
  BY <1>2
<1> HIDE DEF c
<1>4. c = a
  BY <1>1, <1>2, <1>3, SameElements
<1> QED
  BY <1>4 DEF b, c

(* The first elements determine a start. *)
LEMMA SameStart ==
  ASSUME NEW S, NEW a \in Seq(S), NEW b \in Seq(S), NEW n \in 0..Len(a), n <= Len(b),
         \A i \in 1..n : b[i] = a[i]
  PROVE  SubSeq(b, 1, n) = SubSeq(a, 1, n)
<1> DEFINE x == SubSeq(b, 1, n)
           y == SubSeq(a, 1, n)
<1>1. /\ x \in Seq(S) /\ y \in Seq(S) /\ Len(x) = n /\ Len(y) = n
      /\ \A i \in 1..n : x[i] = b[i] /\ y[i] = a[i]
  OBVIOUS
<1> HIDE DEF x, y
<1>2. Len(x) = Len(y) /\ \A i \in DOMAIN x : x[i] = y[i]
  BY <1>1
<1>3. x = y
  BY <1>1, <1>2, SameElements
<1> QED
  BY <1>3 DEF x, y

(* One more of the first elements is an Append. *)
LEMMA PrefixFacts ==
  ASSUME NEW S, NEW s \in Seq(S)
  PROVE  /\ SubSeq(s, 1, 0) = <<>> /\ SubSeq(s, 1, Len(s)) = s
         /\ \A p \in 0..Len(s) : SubSeq(s, 1, p) \in Seq(S) /\ Len(SubSeq(s, 1, p)) = p
         /\ \A p \in 0..Len(s) : p + 1 <= Len(s) =>
              SubSeq(s, 1, p + 1) = Append(SubSeq(s, 1, p), s[p + 1]) /\ s[p + 1] \in S
<1>1. SubSeq(s, 1, 0) = <<>> /\ SubSeq(s, 1, Len(s)) = s
  BY SubSeqEmpty, SubSeqFull
<1>2. ASSUME NEW p \in 0..Len(s)
      PROVE  SubSeq(s, 1, p) \in Seq(S) /\ Len(SubSeq(s, 1, p)) = p
  BY SubSeqProperties
<1>3. ASSUME NEW p \in 0..Len(s), p + 1 <= Len(s)
      PROVE  SubSeq(s, 1, p + 1) = Append(SubSeq(s, 1, p), s[p + 1]) /\ s[p + 1] \in S
  <2>1. p + 1 \in 1..Len(s) /\ 1 \in 1..p + 2 /\ (p + 1) - 1 = p /\ Len(s) \in Nat
    BY <1>3
  <2>2. SubSeq(s, 1, p + 1) = SubSeq(s, 1, p) \o <<s[p + 1]>>
    BY <2>1, SubSeqRecursiveSecond
  <2>3. SubSeq(s, 1, p) \o <<s[p + 1]>> = Append(SubSeq(s, 1, p), s[p + 1])
    BY <1>2, <2>1, AppendIsConcat
  <2> QED
    BY <2>1, <2>2, <2>3
<1> QED
  BY <1>1, <1>2, <1>3

-----------------------------------------------------------------------------
(* The functions that Sum, FlattenSeq and Fibonacci define recursively *)

(* The sums of the first numbers of a sequence. *)
AreSums(g, s) == g = [i \in 0..Len(s) |-> IF i = 0 THEN 0 ELSE g[i - 1] + s[i]]

(* There is a function of these sums: by induction over the numbers that    *)
(* are added.                                                               *)
LEMMA SumsExist ==
  ASSUME NEW s \in Seq(Nat)
  PROVE  \E g \in [0..Len(s) -> Nat] : AreSums(g, s)
<1> DEFINE Upto(g, n) == g = [i \in 0..n |-> IF i = 0 THEN 0 ELSE g[i - 1] + s[i]]
           T == {n \in Nat : n <= Len(s) => \E g \in [0..n -> Nat] : Upto(g, n)}
<1> HIDE DEF Upto
<1>1. 0 \in T
  <2> DEFINE z == [i \in 0..0 |-> 0]
  <2>1. z \in [0..0 -> Nat] /\ \A i \in 0..0 : i = 0 /\ z[i] = 0
    OBVIOUS
  <2> HIDE DEF z
  <2>2. Upto(z, 0)
    BY <2>1 DEF Upto
  <2> QED
    BY <2>1, <2>2
<1>2. ASSUME NEW n \in Nat, n \in T PROVE n + 1 \in T
  <2> SUFFICES ASSUME n + 1 <= Len(s)
               PROVE  \E h \in [0..n + 1 -> Nat] : Upto(h, n + 1)
    OBVIOUS
  <2>1. PICK g \in [0..n -> Nat] : Upto(g, n)
    BY <1>2
  <2> DEFINE h == [i \in 0..n + 1 |-> IF i <= n THEN g[i] ELSE g[n] + s[n + 1]]
  <2>2. h \in [0..n + 1 -> Nat]
    BY <2>1
  <2>3. ASSUME NEW i \in 0..n + 1
        PROVE  h[i] = IF i = 0 THEN 0 ELSE h[i - 1] + s[i]
    <3>1. CASE i = 0
      BY <3>1, <2>1 DEF Upto
    <3>2. CASE i # 0 /\ i <= n
      BY <3>2, <2>1 DEF Upto
    <3>3. CASE i = n + 1
      BY <3>3, <2>1
    <3> QED
      BY <3>1, <3>2, <3>3
  <2>4. Upto(h, n + 1)
    BY <2>2, <2>3 DEF Upto
  <2> QED
    BY <2>2, <2>4
<1> HIDE DEF T
<1>3. Nat \subseteq T
  BY <1>1, <1>2, Induction
<1>4. Len(s) \in T
  BY <1>3
<1> QED
  BY <1>4 DEF T, Upto, AreSums

(* Only one function has these sums. *)
LEMMA SumsUnique ==
  ASSUME NEW s \in Seq(Nat), NEW g, NEW h, AreSums(g, s), AreSums(h, s)
  PROVE  g = h
<1> DEFINE T == {n \in Nat : n <= Len(s) => g[n] = h[n]}
<1>1. /\ g = [i \in 0..Len(s) |-> IF i = 0 THEN 0 ELSE g[i - 1] + s[i]]
      /\ h = [i \in 0..Len(s) |-> IF i = 0 THEN 0 ELSE h[i - 1] + s[i]]
  BY DEF AreSums
<1>2. 0 \in T
  BY <1>1
<1>3. ASSUME NEW n \in Nat, n \in T PROVE n + 1 \in T
  BY <1>1, <1>3
<1> HIDE DEF T
<1>4. Nat \subseteq T
  BY <1>2, <1>3, Induction
<1>5. \A n \in 0..Len(s) : g[n] = h[n]
  BY <1>4 DEF T
<1> QED
  BY <1>1, <1>5

LEMMA SumIs ==
  ASSUME NEW s \in Seq(Nat), NEW g, AreSums(g, s)
  PROVE  Sum(s) = g[Len(s)]
<1>1. Sum(s) = (CHOOSE f : AreSums(f, s))[Len(s)]
  BY DEF Sum, AreSums
<1>2. AreSums(CHOOSE f : AreSums(f, s), s)
  OBVIOUS
<1>3. (CHOOSE f : AreSums(f, s)) = g
  BY <1>2, SumsUnique
<1> QED
  BY <1>1, <1>3

LEMMA SumOfNone == Sum(<<>>) = 0
<1>0. <<>> \in Seq(Nat) /\ Len(<<>>) = 0
  OBVIOUS
<1>1. PICK g \in [0..Len(<<>>) -> Nat] : AreSums(g, <<>>)
  BY <1>0, SumsExist
<1>2. g[0] = 0
  BY <1>1 DEF AreSums
<1> QED
  BY <1>0, <1>1, <1>2, SumIs

(* One more number is added to the sum. *)
LEMMA SumOfAppend ==
  ASSUME NEW s \in Seq(Nat), NEW x \in Nat
  PROVE  Sum(s) \in Nat /\ Sum(Append(s, x)) = Sum(s) + x
<1>1. PICK g \in [0..Len(s) -> Nat] : AreSums(g, s)
  BY SumsExist
<1>2. PICK h \in [0..Len(s) + 1 -> Nat] : AreSums(h, Append(s, x))
  BY SumsExist
<1>3. h = [i \in 0..Len(s) + 1 |-> IF i = 0 THEN 0 ELSE h[i - 1] + Append(s, x)[i]]
  BY <1>2 DEF AreSums
<1> DEFINE k == [i \in 0..Len(s) |-> h[i]]
<1>4. AreSums(k, s)
  <2>1. ASSUME NEW i \in 0..Len(s) PROVE k[i] = IF i = 0 THEN 0 ELSE k[i - 1] + s[i]
    <3>1. i # 0 => Append(s, x)[i] = s[i]
      OBVIOUS
    <3>2. i \in 0..Len(s) + 1 /\ (i # 0 => i - 1 \in 0..Len(s))
      OBVIOUS
    <3>3. h[i] = IF i = 0 THEN 0 ELSE h[i - 1] + s[i]
      BY <1>3, <3>1, <3>2
    <3> QED
      BY <3>2, <3>3
  <2>2. k \in [0..Len(s) -> Nat]
    BY <1>2
  <2> HIDE DEF k
  <2>3. k = [i \in 0..Len(s) |-> IF i = 0 THEN 0 ELSE k[i - 1] + s[i]]
    BY <2>1, <2>2
  <2> QED
    BY <2>3 DEF AreSums
<1>5. Sum(s) = h[Len(s)]
  BY <1>4, SumIs
<1>6. Sum(Append(s, x)) = h[Len(s) + 1]
  BY <1>2, SumIs
<1>7. h[Len(s) + 1] = h[Len(s)] + x
  BY <1>3
<1> QED
  BY <1>2, <1>5, <1>6, <1>7

(* The joins of the first sequences of a sequence of these. *)
AreJoins(g, s) == g = [i \in 1..Len(s) |-> IF i = 1 THEN s[i] ELSE g[i - 1] \o s[i]]

(* There is a sequence of these joins. *)
LEMMA JoinsExist ==
  ASSUME NEW V, NEW s \in Seq(Seq(V))
  PROVE  \E g \in [1..Len(s) -> Seq(V)] : AreJoins(g, s)
<1> DEFINE Upto(g, n) == g = [i \in 1..n |-> IF i = 1 THEN s[i] ELSE g[i - 1] \o s[i]]
           T == {n \in Nat : n <= Len(s) => \E g \in [1..n -> Seq(V)] : Upto(g, n)}
<1> HIDE DEF Upto
<1>1. 0 \in T
  <2> DEFINE z == [i \in 1..0 |-> <<>>]
  <2>1. z \in [1..0 -> Seq(V)] /\ \A i \in 1..0 : FALSE
    OBVIOUS
  <2> HIDE DEF z
  <2>2. Upto(z, 0)
    BY <2>1 DEF Upto
  <2> QED
    BY <2>1, <2>2
<1>2. ASSUME NEW n \in Nat, n \in T PROVE n + 1 \in T
  <2> SUFFICES ASSUME n + 1 <= Len(s)
               PROVE  \E h \in [1..n + 1 -> Seq(V)] : Upto(h, n + 1)
    OBVIOUS
  <2>1. PICK g \in [1..n -> Seq(V)] : Upto(g, n)
    BY <1>2
  <2> DEFINE last == IF n = 0 THEN s[1] ELSE g[n] \o s[n + 1]
             h == [i \in 1..n + 1 |-> IF i <= n THEN g[i] ELSE last]
  <2>a. last \in Seq(V)
    <3>1. s[n + 1] \in Seq(V) /\ (n # 0 => g[n] \in Seq(V))
      BY <2>1
    <3> QED
      BY <3>1, ConcatProperties
  <2>b. last = IF n = 0 THEN s[1] ELSE g[n] \o s[n + 1]
    OBVIOUS
  <2> HIDE DEF last
  <2>2. h \in [1..n + 1 -> Seq(V)]
    BY <2>1, <2>a
  <2>3. ASSUME NEW i \in 1..n + 1
        PROVE  h[i] = IF i = 1 THEN s[i] ELSE h[i - 1] \o s[i]
    <3>1. CASE i <= n
      <4>a. i \in 1..n
        BY <3>1
      <4>0. g = [j \in 1..n |-> IF j = 1 THEN s[j] ELSE g[j - 1] \o s[j]]
        BY <2>1 DEF Upto
      <4>1. g[i] = IF i = 1 THEN s[i] ELSE g[i - 1] \o s[i]
        BY <4>a, <4>0
      <4>2. h[i] = g[i] /\ (i # 1 => h[i - 1] = g[i - 1])
        BY <3>1
      <4> QED
        BY <4>1, <4>2
    <3>2. CASE i = n + 1
      <4>1. h[i] = last /\ (i # 1 => h[i - 1] = g[i - 1] /\ i - 1 = n)
        BY <3>2
      <4> QED
        BY <4>1, <2>b, <3>2
    <3> QED
      BY <3>1, <3>2
  <2> HIDE DEF h
  <2>4. Upto(h, n + 1)
    BY <2>2, <2>3 DEF Upto
  <2> QED
    BY <2>2, <2>4
<1> HIDE DEF T
<1>3. Nat \subseteq T
  BY <1>1, <1>2, Induction
<1>4. Len(s) \in T
  BY <1>3
<1>5. PICK g \in [1..Len(s) -> Seq(V)] : Upto(g, Len(s))
  BY <1>4 DEF T
<1>6. AreJoins(g, s)
  BY <1>5 DEF Upto, AreJoins
<1> QED
  BY <1>5, <1>6

LEMMA JoinsUnique ==
  ASSUME NEW V, NEW s \in Seq(Seq(V)), NEW g, NEW h, AreJoins(g, s), AreJoins(h, s)
  PROVE  g = h
<1> DEFINE T == {n \in Nat : n \in 1..Len(s) => g[n] = h[n]}
<1>1. /\ g = [i \in 1..Len(s) |-> IF i = 1 THEN s[i] ELSE g[i - 1] \o s[i]]
      /\ h = [i \in 1..Len(s) |-> IF i = 1 THEN s[i] ELSE h[i - 1] \o s[i]]
  BY DEF AreJoins
<1>2. 0 \in T
  OBVIOUS
<1>3. ASSUME NEW n \in Nat, n \in T PROVE n + 1 \in T
  <2> SUFFICES ASSUME n + 1 \in 1..Len(s) PROVE g[n + 1] = h[n + 1]
    OBVIOUS
  <2>1. (n + 1) - 1 = n
    OBVIOUS
  <2>2. /\ g[n + 1] = IF n + 1 = 1 THEN s[n + 1] ELSE g[n] \o s[n + 1]
        /\ h[n + 1] = IF n + 1 = 1 THEN s[n + 1] ELSE h[n] \o s[n + 1]
    BY <1>1, <2>1
  <2>3. n + 1 = 1 \/ g[n] = h[n]
    BY <1>3
  <2> QED
    BY <2>2, <2>3
<1> HIDE DEF T
<1>4. Nat \subseteq T
  BY <1>2, <1>3, Induction
<1>5. \A n \in 1..Len(s) : g[n] = h[n]
  BY <1>4 DEF T
<1> QED
  BY <1>1, <1>5

LEMMA FlattenSeqIs ==
  ASSUME NEW V, NEW s \in Seq(Seq(V)), s # <<>>, NEW g, AreJoins(g, s)
  PROVE  FlattenSeq(s) = g[Len(s)]
<1>1. FlattenSeq(s) = (CHOOSE f : AreJoins(f, s))[Len(s)]
  BY DEF FlattenSeq, AreJoins
<1>2. AreJoins(CHOOSE f : AreJoins(f, s), s)
  OBVIOUS
<1>3. (CHOOSE f : AreJoins(f, s)) = g
  BY <1>2, JoinsUnique
<1> QED
  BY <1>1, <1>3

LEMMA FlattenSeqOfNone == FlattenSeq(<<>>) = <<>>
<1> QED
  BY DEF FlattenSeq

(* One more sequence is joined at the end. *)
LEMMA FlattenSeqOfAppend ==
  ASSUME NEW V, NEW s \in Seq(Seq(V)), NEW x \in Seq(V)
  PROVE  FlattenSeq(s) \in Seq(V) /\ FlattenSeq(Append(s, x)) = FlattenSeq(s) \o x
<1>0. /\ Append(s, x) \in Seq(Seq(V)) /\ Len(Append(s, x)) = Len(s) + 1
      /\ Append(s, x)[Len(s) + 1] = x /\ Append(s, x) # <<>>
      /\ \A i \in 1..Len(s) : Append(s, x)[i] = s[i]
  <2> DEFINE S == Seq(V)
  <2>1. s \in Seq(S) /\ x \in S
    OBVIOUS
  <2> HIDE DEF S
  <2>2. /\ Append(s, x) \in Seq(S) /\ Len(Append(s, x)) = Len(s) + 1
        /\ Append(s, x)[Len(s) + 1] = x /\ Len(s) \in Nat
        /\ \A i \in 1..Len(s) : Append(s, x)[i] = s[i]
    BY <2>1
  <2>3. Append(s, x) # <<>>
    BY <2>2
  <2> QED
    BY <2>2, <2>3 DEF S
<1>1. PICK g \in [1..Len(s) -> Seq(V)] : AreJoins(g, s)
  BY JoinsExist
<1>2. PICK h \in [1..Len(Append(s, x)) -> Seq(V)] : AreJoins(h, Append(s, x))
  BY <1>0, JoinsExist
<1>3. \A i \in 1..Len(s) + 1 : h[i] = IF i = 1 THEN Append(s, x)[i] ELSE h[i - 1] \o Append(s, x)[i]
  BY <1>0, <1>2 DEF AreJoins
<1>4. FlattenSeq(Append(s, x)) = h[Len(s) + 1]
  BY <1>0, <1>2, FlattenSeqIs
<1>5. CASE s = <<>>
  <2>1. FlattenSeq(s) = <<>>
    BY <1>5, FlattenSeqOfNone
  <2>2. Len(s) = 0
    BY <1>5
  <2>3. h[1] = x
    BY <1>3, <1>0, <2>2
  <2>4. <<>> \o x = x
    OBVIOUS
  <2> QED
    BY <1>4, <2>1, <2>2, <2>3, <2>4
<1>6. CASE s # <<>>
  <2> DEFINE k == [i \in 1..Len(s) |-> h[i]]
  <2>0. Len(s) \in Nat \ {0}
    BY <1>6
  <2>1. k \in [1..Len(s) -> Seq(V)]
    BY <1>0, <1>2
  <2>2. ASSUME NEW i \in 1..Len(s) PROVE k[i] = IF i = 1 THEN s[i] ELSE k[i - 1] \o s[i]
    <3>1. i \in 1..Len(s) + 1 /\ (i # 1 => i - 1 \in 1..Len(s))
      OBVIOUS
    <3>2. h[i] = IF i = 1 THEN s[i] ELSE h[i - 1] \o s[i]
      BY <3>1, <1>0, <1>3
    <3>3. k[i] = h[i] /\ (i # 1 => k[i - 1] = h[i - 1])
      BY <3>1
    <3> QED
      BY <3>2, <3>3
  <2>3. k[Len(s)] = h[Len(s)]
    BY <2>0
  <2> HIDE DEF k
  <2>4. AreJoins(k, s)
    BY <2>1, <2>2 DEF AreJoins
  <2>5. FlattenSeq(s) = h[Len(s)]
    BY <1>6, <2>3, <2>4, FlattenSeqIs
  <2>6. h[Len(s)] \in Seq(V)
    BY <2>0, <1>0, <1>2
  <2>7. h[Len(s) + 1] = h[Len(s)] \o x
    <3>1. Len(s) + 1 \in 1..Len(s) + 1 /\ Len(s) + 1 # 1 /\ (Len(s) + 1) - 1 = Len(s)
      BY <2>0
    <3> QED
      BY <3>1, <1>0, <1>3
  <2> QED
    BY <1>4, <2>5, <2>6, <2>7
<1> QED
  BY <1>5, <1>6
(* The values of previous and current in the turns of mathFib's loop. *)
AreTurns(g, n) ==
  g = [i \in 1..n |-> IF i = 1 THEN <<0, 1>>
                      ELSE <<g[i - 1][2], g[i - 1][2] + g[i - 1][1]>>]

(* There is a function with the values of the turns, by induction over the  *)
(* turns.                                                                   *)
LEMMA TurnsExist ==
  ASSUME NEW m \in Nat
  PROVE  \E g \in [1..m -> Nat \X Nat] : AreTurns(g, m)
<1> DEFINE T == {n \in Nat : \E g \in [1..n -> Nat \X Nat] : AreTurns(g, n)}
<1>1. 0 \in T
  <2> DEFINE z == [i \in 1..0 |-> <<0, 1>>]
  <2>1. z \in [1..0 -> Nat \X Nat] /\ \A i \in 1..0 : FALSE
    OBVIOUS
  <2> HIDE DEF z
  <2>2. AreTurns(z, 0)
    BY <2>1 DEF AreTurns
  <2> QED
    BY <2>1, <2>2
<1>2. ASSUME NEW n \in Nat, n \in T PROVE n + 1 \in T
  <2>1. PICK g \in [1..n -> Nat \X Nat] : AreTurns(g, n)
    BY <1>2
  <2> DEFINE last == IF n = 0 THEN <<0, 1>> ELSE <<g[n][2], g[n][2] + g[n][1]>>
             h == [i \in 1..n + 1 |-> IF i <= n THEN g[i] ELSE last]
  <2>a. last \in Nat \X Nat
    <3>1. n # 0 => g[n] \in Nat \X Nat
      BY <2>1
    <3> QED
      BY <3>1
  <2>b. last = IF n = 0 THEN <<0, 1>> ELSE <<g[n][2], g[n][2] + g[n][1]>>
    OBVIOUS
  <2> HIDE DEF last
  <2>2. h \in [1..n + 1 -> Nat \X Nat]
    BY <2>1, <2>a
  <2>3. ASSUME NEW i \in 1..n + 1
        PROVE  h[i] = IF i = 1 THEN <<0, 1>> ELSE <<h[i - 1][2], h[i - 1][2] + h[i - 1][1]>>
    <3>1. CASE i <= n
      <4>1. g[i] = IF i = 1 THEN <<0, 1>> ELSE <<g[i - 1][2], g[i - 1][2] + g[i - 1][1]>>
        BY <3>1, <2>1 DEF AreTurns
      <4>2. h[i] = g[i] /\ (i # 1 => h[i - 1] = g[i - 1])
        BY <3>1
      <4> QED
        BY <4>1, <4>2
    <3>2. CASE i = n + 1
      <4>1. h[i] = last /\ (i # 1 => h[i - 1] = g[i - 1] /\ i - 1 = n)
        BY <3>2
      <4>2. CASE n = 0
        BY <4>1, <4>2, <2>b, <3>2
      <4>3. CASE n # 0
        <5>1. i # 1 /\ i - 1 = n /\ h[i - 1] = g[n] /\ h[i] = last
          BY <4>1, <4>3, <3>2
        <5>2. last = <<g[n][2], g[n][2] + g[n][1]>>
          BY <4>3, <2>b
        <5> HIDE DEF h
        <5> QED
          BY <5>1, <5>2
      <4> QED
        BY <4>2, <4>3
    <3> QED
      BY <3>1, <3>2
  <2> HIDE DEF h
  <2>4. AreTurns(h, n + 1)
    BY <2>2, <2>3 DEF AreTurns
  <2> QED
    BY <2>2, <2>4
<1> HIDE DEF T
<1>3. Nat \subseteq T
  BY <1>1, <1>2, Induction
<1> QED
  BY <1>3 DEF T

(* These values are natural numbers. *)
LEMMA TurnsTyped ==
  ASSUME NEW m \in Nat, NEW g, AreTurns(g, m)
  PROVE  g \in [1..m -> Nat \X Nat]
<1> DEFINE T == {n \in Nat : n \in 1..m => g[n] \in Nat \X Nat}
<1>1. g = [i \in 1..m |-> IF i = 1 THEN <<0, 1>>
                          ELSE <<g[i - 1][2], g[i - 1][2] + g[i - 1][1]>>]
  BY DEF AreTurns
<1>2. 0 \in T
  OBVIOUS
<1>3. ASSUME NEW n \in Nat, n \in T PROVE n + 1 \in T
  <2> SUFFICES ASSUME n + 1 \in 1..m PROVE g[n + 1] \in Nat \X Nat
    OBVIOUS
  <2>1. (n + 1) - 1 = n
    OBVIOUS
  <2>2. g[n + 1] = IF n + 1 = 1 THEN <<0, 1>> ELSE <<g[n][2], g[n][2] + g[n][1]>>
    BY <1>1, <2>1
  <2>3. n + 1 = 1 \/ g[n] \in Nat \X Nat
    BY <1>3
  <2> QED
    BY <2>2, <2>3
<1> HIDE DEF T
<1>4. Nat \subseteq T
  BY <1>2, <1>3, Induction
<1>5. \A n \in 1..m : g[n] \in Nat \X Nat
  BY <1>4 DEF T
<1> QED
  BY <1>1, <1>5

(* The Fibonacci numbers, as Owed has them. *)
AreNumbers(f, n) == f = [i \in 1..n |-> IF i <= 2 THEN 1 ELSE f[i - 2] + f[i - 1]]

(* What mathFib's loop writes satisfies the recursion of the Fibonacci      *)
(* numbers.                                                                 *)
LEMMA FibonacciIs ==
  ASSUME NEW m \in Nat
  PROVE  /\ Fibonacci(m) \in Seq(Nat) /\ Len(Fibonacci(m)) = m
         /\ AreNumbers(Fibonacci(m), m)
<1> DEFINE g == CHOOSE f : AreTurns(f, m)
           F == [i \in 1..m |-> g[i][2]]
<1>1. Fibonacci(m) = F
  BY DEF Fibonacci, AreTurns
<1>2. AreTurns(g, m)
  BY TurnsExist
<1> HIDE DEF g
<1>3. g \in [1..m -> Nat \X Nat]
  BY <1>2, TurnsTyped
<1>4. \A i \in 1..m : g[i] = IF i = 1 THEN <<0, 1>>
                             ELSE <<g[i - 1][2], g[i - 1][2] + g[i - 1][1]>>
  BY <1>2 DEF AreTurns
<1>5. F \in [1..m -> Nat]
  BY <1>3
<1>6. ASSUME NEW i \in 1..m PROVE F[i] = IF i <= 2 THEN 1 ELSE F[i - 2] + F[i - 1]
  <2>1. CASE i = 1
    <3>1. g[i] = <<0, 1>>
      BY <1>4, <2>1
    <3>2. g[i][2] = 1
      BY <3>1
    <3> QED
      BY <3>2, <2>1
  <2>2. CASE i = 2
    <3>1. 1 \in 1..m /\ i # 1 /\ i - 1 = 1
      BY <2>2
    <3>2. g[1] = <<0, 1>> /\ g[i] = <<g[1][2], g[1][2] + g[1][1]>>
      BY <1>4, <3>1
    <3>3. g[i][2] = 1
      BY <3>2
    <3> QED
      BY <3>3, <2>2
  <2>3. CASE i > 2
    <3>1. /\ i - 1 \in 1..m /\ i - 2 \in 1..m /\ (i - 1) - 1 = i - 2
          /\ i # 1 /\ i - 1 # 1
      BY <2>3
    <3>2. /\ g[i] = <<g[i - 1][2], g[i - 1][2] + g[i - 1][1]>>
          /\ g[i - 1] = <<g[i - 2][2], g[i - 2][2] + g[i - 2][1]>>
      BY <1>4, <3>1
    <3>3. F[i] = g[i][2] /\ F[i - 1] = g[i - 1][2] /\ F[i - 2] = g[i - 2][2]
      BY <3>1
    <3>4. F[i] \in Nat /\ F[i - 1] \in Nat /\ F[i - 2] \in Nat
      BY <1>5, <3>1
    <3>5. F[i] = F[i - 1] + F[i - 2]
      BY <3>2, <3>3
    <3> QED
      BY <3>4, <3>5, <2>3
  <2> QED
    BY <2>1, <2>2, <2>3
<1> HIDE DEF F
<1>7. AreNumbers(F, m)
  BY <1>5, <1>6 DEF AreNumbers
<1>8. F \in Seq(Nat) /\ Len(F) = m
  BY <1>5
<1> QED
  BY <1>1, <1>7, <1>8

(* Only one function satisfies that recursion. *)
LEMMA NumbersUnique ==
  ASSUME NEW m \in Nat, NEW g, NEW h, AreNumbers(g, m), AreNumbers(h, m)
  PROVE  g = h
<1> DEFINE T == {n \in Nat : \A i \in 1..m : i <= n => g[i] = h[i]}
<1>1. /\ g = [i \in 1..m |-> IF i <= 2 THEN 1 ELSE g[i - 2] + g[i - 1]]
      /\ h = [i \in 1..m |-> IF i <= 2 THEN 1 ELSE h[i - 2] + h[i - 1]]
  BY DEF AreNumbers
<1>2. 0 \in T
  OBVIOUS
<1>3. ASSUME NEW n \in Nat, n \in T PROVE n + 1 \in T
  <2> SUFFICES ASSUME NEW i \in 1..m, i <= n + 1 PROVE g[i] = h[i]
    OBVIOUS
  <2>1. CASE i <= 2
    BY <1>1, <2>1
  <2>2. CASE i > 2
    <3>1. i - 1 \in 1..m /\ i - 2 \in 1..m /\ i - 1 <= n /\ i - 2 <= n
      BY <2>2
    <3>2. g[i - 1] = h[i - 1] /\ g[i - 2] = h[i - 2]
      BY <3>1, <1>3
    <3> QED
      BY <1>1, <2>2, <3>2
  <2> QED
    BY <2>1, <2>2
<1> HIDE DEF T
<1>4. Nat \subseteq T
  BY <1>2, <1>3, Induction
<1>5. \A i \in 1..m : g[i] = h[i]
  BY <1>4 DEF T
<1> QED
  BY <1>1, <1>5

-----------------------------------------------------------------------------
(* What the handlers do, and what they owe for it *)

Dividers == {"Div", "DivMany"}
Streamers == {"StreamingOutputCall", "FullDuplexCall"}

(* What the handler of each method does, one method at a time. *)
LEMMA MethodCases ==
  /\ Methods = Dividers \cup Summing \cup AnswersFirst \cup Streamers
  /\ \A m \in Dividers : m \notin Summing /\ m \notin AnswersFirst /\ m \notin Streamers
  /\ \A m \in Summing : m \notin Dividers /\ m \notin AnswersFirst /\ m \notin Streamers
  /\ \A m \in AnswersFirst : m \notin Dividers /\ m \notin Summing /\ m \notin Streamers
  /\ \A m \in Streamers : m \notin Dividers /\ m \notin Summing /\ m \notin AnswersFirst
<1> QED
  BY DEF Methods, Dividers, Summing, AnswersFirst, Streamers

(* mathDiv answers with a quotient, or ends with INVALID_ARGUMENT. *)
LEMMA DividerFacts ==
  ASSUME NEW m \in Dividers, NEW x \in Message(m)
  PROVE  /\ Message(m) = [dividend : Nat, divisor : Nat]
         /\ Reply(m) = [quotient : Nat, remainder : Nat]
         /\ OnData(m, x) = mathDiv(x)
         /\ x.dividend \in Nat /\ x.divisor \in Nat
         /\ x.divisor # 0 =>
              /\ mathDiv(x).writes = <<Quotient(x.dividend \div x.divisor, x.dividend % x.divisor)>>
              /\ Quotient(x.dividend \div x.divisor, x.dividend % x.divisor) \in Reply(m)
              /\ mathDiv(x).ends = FALSE /\ mathDiv(x).code = None
         /\ x.divisor = 0 =>
              mathDiv(x).writes = <<>> /\ mathDiv(x).ends = TRUE
              /\ mathDiv(x).code = INVALID_ARGUMENT
<1>1. /\ Message(m) = [dividend : Nat, divisor : Nat]
      /\ Reply(m) = [quotient : Nat, remainder : Nat]
      /\ OnData(m, x) = mathDiv(x)
  BY DEF Dividers, Message, Reply, OnData
<1>2. x.dividend \in Nat /\ x.divisor \in Nat
  BY <1>1
<1>3. ASSUME x.divisor # 0
      PROVE x.dividend \div x.divisor \in Nat /\ x.dividend % x.divisor \in Nat
  BY <1>2, <1>3
<1>4. x.divisor # 0 => Quotient(x.dividend \div x.divisor, x.dividend % x.divisor) \in Reply(m)
  BY <1>1, <1>3 DEF Quotient
<1>5. x.divisor # 0 =>
        /\ mathDiv(x).writes = <<Quotient(x.dividend \div x.divisor, x.dividend % x.divisor)>>
        /\ mathDiv(x).ends = FALSE /\ mathDiv(x).code = None
  BY DEF mathDiv, Reaction, Quotient
<1>6. x.divisor = 0 => mathDiv(x).writes = <<>> /\ mathDiv(x).ends = TRUE
                       /\ mathDiv(x).code = INVALID_ARGUMENT
  BY DEF mathDiv, Reaction
<1> QED
  BY <1>1, <1>2, <1>4, <1>5, <1>6

(* The handlers of unary calls, and mathFib, end with their only answer. *)
LEMMA AnswersFirstFacts ==
  ASSUME NEW m \in AnswersFirst, NEW x \in Message(m)
  PROVE  /\ OnData(m, x).writes = Owed(m, <<x>>, FALSE)
         /\ OnData(m, x).writes \in Seq(Reply(m))
         /\ OnData(m, x).ends = TRUE /\ OnData(m, x).code = None
<1>0. <<x>> # <<>> /\ <<x>>[1] = x
  OBVIOUS
<1>1. CASE m = "Fib"
  <2>1. x \in Nat /\ Reply(m) = Nat
    BY <1>1 DEF Message, Reply
  <2>2. OnData(m, x) = mathFib(x)
    BY <1>1 DEF OnData
  <2>3. mathFib(x).writes = Fibonacci(x) /\ mathFib(x).ends = TRUE /\ mathFib(x).code = None
    BY DEF mathFib, Reaction
  <2>4. Owed(m, <<x>>, FALSE) = CHOOSE f : AreNumbers(f, x)
    BY <1>1, <1>0 DEF Owed, Summing, AreNumbers
  <2>5. AreNumbers(Fibonacci(x), x) /\ Fibonacci(x) \in Seq(Nat)
    BY <2>1, FibonacciIs
  <2>6. (CHOOSE f : AreNumbers(f, x)) = Fibonacci(x)
    BY <2>1, <2>5, NumbersUnique
  <2> QED
    BY <2>1, <2>2, <2>3, <2>4, <2>5, <2>6
<1>2. CASE m = "EmptyCall"
  <2>1. Reply(m) = {"{}"}
    BY <1>2 DEF Reply
  <2>2. OnData(m, x) = emptyCall(x)
    BY <1>2 DEF OnData
  <2>3. emptyCall(x).writes = <<"{}">> /\ emptyCall(x).ends = TRUE /\ emptyCall(x).code = None
    BY DEF emptyCall, Reaction
  <2>4. Owed(m, <<x>>, FALSE) = <<"{}">>
    BY <1>2, <1>0 DEF Owed, Summing
  <2>5. <<"{}">> \in Seq(Reply(m))
    <3>1. "{}" \in Reply(m)
      BY <2>1
    <3> QED
      BY <3>1, SingletonType
  <2>6. OnData(m, x).writes = Owed(m, <<x>>, FALSE)
    BY <2>2, <2>3, <2>4
  <2>7. OnData(m, x).writes \in Seq(Reply(m))
    BY <2>2, <2>3, <2>5
  <2>8. OnData(m, x).ends = TRUE /\ OnData(m, x).code = None
    BY <2>2, <2>3
  <2> QED
    BY <2>6, <2>7, <2>8
<1>3. CASE m = "UnaryCall"
  <2>1. Reply(m) = Nat /\ x \in [response_size : Nat]
    BY <1>3 DEF Reply, Message
  <2>2. OnData(m, x) = unaryCall(x)
    BY <1>3 DEF OnData
  <2>3. /\ unaryCall(x).writes = <<x.response_size>> /\ unaryCall(x).ends = TRUE
        /\ unaryCall(x).code = None
    BY DEF unaryCall, Reaction
  <2>4. Owed(m, <<x>>, FALSE) = <<x.response_size>>
    BY <1>3, <1>0 DEF Owed, Summing
  <2>5. <<x.response_size>> \in Seq(Reply(m))
    BY <2>1
  <2>6. OnData(m, x).writes = Owed(m, <<x>>, FALSE)
    BY <2>2, <2>3, <2>4
  <2>7. OnData(m, x).writes \in Seq(Reply(m))
    BY <2>2, <2>3, <2>5
  <2>8. OnData(m, x).ends = TRUE /\ OnData(m, x).code = None
    BY <2>2, <2>3
  <2> QED
    BY <2>6, <2>7, <2>8
<1> QED
  BY <1>1, <1>2, <1>3 DEF AnswersFirst

(* streamingOutputCall goes on after its answers. *)
LEMMA StreamerFacts ==
  ASSUME NEW m \in Streamers, NEW x \in Message(m)
  PROVE  /\ Message(m) = [response_parameters : Seq(Nat)] /\ Reply(m) = Nat
         /\ OnData(m, x).writes = x.response_parameters
         /\ x.response_parameters \in Seq(Nat)
         /\ OnData(m, x).ends = FALSE /\ OnData(m, x).code = None
<1>1. /\ Message(m) = [response_parameters : Seq(Nat)] /\ Reply(m) = Nat
      /\ OnData(m, x) = streamingOutputCall(x)
  BY DEF Streamers, Message, Reply, OnData
<1>2. x.response_parameters \in Seq(Nat)
  BY <1>1
<1>3. /\ streamingOutputCall(x).writes = x.response_parameters
      /\ streamingOutputCall(x).ends = FALSE /\ streamingOutputCall(x).code = None
  BY DEF streamingOutputCall, Reaction
<1> QED
  BY <1>1, <1>2, <1>3

(* What is added up is not answered before the end. *)
LEMMA SummerFacts ==
  ASSUME NEW m \in Summing, NEW x \in Message(m)
  PROVE  /\ Message(m) = Nat /\ Reply(m) = Nat
         /\ OnData(m, x).writes = <<>>
         /\ OnData(m, x).ends = FALSE /\ OnData(m, x).code = None
<1>1. Message(m) = Nat /\ Reply(m) = Nat /\ OnData(m, x) = Nothing
  BY DEF Summing, Message, Reply, OnData
<1> QED
  BY <1>1 DEF Nothing, Reaction

LEMMA OnDataType ==
  ASSUME NEW m \in Methods, NEW x \in Message(m)
  PROVE  /\ OnData(m, x).writes \in Seq(Reply(m)) /\ OnData(m, x).ends \in BOOLEAN
         /\ OnData(m, x).code \in {None, INVALID_ARGUMENT}
<1>1. CASE m \in Dividers
  <2>1. OnData(m, x) = mathDiv(x)
    BY <1>1, DividerFacts
  <2>2. CASE x.divisor = 0
    <3>1. mathDiv(x).writes = <<>> /\ mathDiv(x).ends = TRUE /\ mathDiv(x).code = INVALID_ARGUMENT
      BY <1>1, <2>2, DividerFacts
    <3>2. <<>> \in Seq(Reply(m))
      OBVIOUS
    <3> QED
      BY <2>1, <3>1, <3>2
  <2>3. CASE x.divisor # 0
    <3> DEFINE q == Quotient(x.dividend \div x.divisor, x.dividend % x.divisor)
    <3>1. mathDiv(x).writes = <<q>> /\ mathDiv(x).ends = FALSE /\ mathDiv(x).code = None
      BY <1>1, <2>3, DividerFacts
    <3>2. q \in Reply(m)
      BY <1>1, <2>3, DividerFacts
    <3> HIDE DEF q
    <3>3. <<q>> \in Seq(Reply(m))
      BY <3>2
    <3> QED
      BY <2>1, <3>1, <3>3
  <2> QED
    BY <2>2, <2>3
<1>2. CASE m \in AnswersFirst
  BY <1>2, AnswersFirstFacts
<1>3. CASE m \in Streamers
  BY <1>3, StreamerFacts
<1>4. CASE m \in Summing
  <2>1. <<>> \in Seq(Reply(m))
    OBVIOUS
  <2> QED
    BY <1>4, <2>1, SummerFacts
<1> QED
  BY <1>1, <1>2, <1>3, <1>4, MethodCases

(* A handler writes a total at the end of the request, or nothing, and ends. *)
LEMMA OnEndFacts ==
  ASSUME NEW m \in Methods, NEW n \in Nat
  PROVE  /\ OnEnd(m, n).writes = IF m \in Summing THEN <<n>> ELSE <<>>
         /\ OnEnd(m, n).writes \in Seq(Reply(m))
         /\ OnEnd(m, n).ends \in BOOLEAN /\ (OnEnd(m, n).ends <=> m \notin AnswersFirst)
         /\ OnEnd(m, n).code = None
<1>0. <<>> \in Seq(Reply(m)) /\ <<n>> \in Seq(Nat)
  OBVIOUS
<1>1. CASE m \in Summing
  <2>1. Reply(m) = Nat /\ m \notin AnswersFirst
    BY <1>1 DEF Summing, Reply, AnswersFirst
  <2>2. OnEnd(m, n) = [writes |-> <<n>>, ends |-> TRUE, code |-> None]
    BY <1>1, <2>1 DEF OnEnd, AnswerTotal, Reaction
  <2>3. OnEnd(m, n).writes = <<n>> /\ OnEnd(m, n).ends = TRUE /\ OnEnd(m, n).code = None
    BY <2>2
  <2> QED
    BY <1>0, <1>1, <2>1, <2>3
<1>2. CASE m \in AnswersFirst
  <2>1. m \notin Summing
    BY <1>2, MethodCases
  <2>2. OnEnd(m, n) = [writes |-> <<>>, ends |-> FALSE, code |-> None]
    BY <1>2, <2>1 DEF OnEnd, Nothing, Reaction
  <2>3. OnEnd(m, n).writes = <<>> /\ OnEnd(m, n).ends = FALSE /\ OnEnd(m, n).code = None
    BY <2>2
  <2> QED
    BY <1>0, <1>2, <2>1, <2>3
<1>3. CASE m \notin Summing /\ m \notin AnswersFirst
  <2>2. OnEnd(m, n) = [writes |-> <<>>, ends |-> TRUE, code |-> None]
    BY <1>3 DEF OnEnd, Reaction
  <2>3. OnEnd(m, n).writes = <<>> /\ OnEnd(m, n).ends = TRUE /\ OnEnd(m, n).code = None
    BY <2>2
  <2> QED
    BY <1>0, <1>3, <2>3
<1> QED
  BY <1>1, <1>2, <1>3

(* The requests that a division answers: those before the first zero. *)
Served(s) == {j \in DOMAIN s : Zeros(s) \cap 1..j = {}}
QuotientOf(x) == Quotient(x.dividend \div x.divisor, x.dividend % x.divisor)

LEMMA DividerOwed ==
  ASSUME NEW m \in Dividers, NEW s \in Seq(Message(m)), NEW w
  PROVE  Owed(m, s, w) = [i \in Served(s) |-> QuotientOf(s[i])]
<1>1. CASE s = <<>>
  <2>1. Served(s) = {}
    BY <1>1 DEF Served
  <2>2. [i \in Served(s) |-> QuotientOf(s[i])] = <<>>
    BY <2>1
  <2> QED
    BY <1>1, <2>2 DEF Owed, Dividers, Summing
<1>2. CASE s # <<>>
  BY <1>2 DEF Owed, Dividers, Summing, Served, QuotientOf
<1> QED
  BY <1>1, <1>2

(* One more request: a zero of its own, or none. *)
LEMMA ZerosOfAppend ==
  ASSUME NEW m \in Dividers, NEW s \in Seq(Message(m)), NEW x \in Message(m)
  PROVE  Zeros(Append(s, x)) = Zeros(s) \cup (IF x.divisor = 0 THEN {Len(s) + 1} ELSE {})
<1> DEFINE t == Append(s, x)
<1>1. /\ Len(s) \in Nat /\ DOMAIN s = 1..Len(s) /\ DOMAIN t = 1..Len(s) + 1
      /\ t[Len(s) + 1] = x /\ \A i \in 1..Len(s) : t[i] = s[i]
  BY AppendFacts
<1> HIDE DEF t
<1>2. Zeros(t) = Zeros(s) \cup (IF x.divisor = 0 THEN {Len(s) + 1} ELSE {})
  BY <1>1 DEF Zeros
<1> QED
  BY <1>2 DEF t

(* A division more: the answers go on until the first zero. *)
LEMMA DividerStep ==
  ASSUME NEW m \in Dividers, NEW s \in Seq(Message(m)), NEW x \in Message(m),
         Owed(m, s, FALSE) \in Seq(Reply(m))
  PROVE  Owed(m, Append(s, x), FALSE) =
           IF Zeros(s) # {} THEN Owed(m, s, FALSE) ELSE Owed(m, s, FALSE) \o OnData(m, x).writes
<1> DEFINE t == Append(s, x)
<1>1. /\ Len(s) \in Nat /\ DOMAIN s = 1..Len(s) /\ DOMAIN t = 1..Len(s) + 1
      /\ t[Len(s) + 1] = x /\ \A i \in 1..Len(s) : t[i] = s[i]
  BY AppendFacts
<1>2. Zeros(t) = Zeros(s) \cup (IF x.divisor = 0 THEN {Len(s) + 1} ELSE {})
  BY ZerosOfAppend
<1>3. Zeros(s) \subseteq 1..Len(s)
  BY <1>1 DEF Zeros
<1>4. /\ Owed(m, s, FALSE) = [i \in Served(s) |-> QuotientOf(s[i])]
      /\ Owed(m, t, FALSE) = [i \in Served(t) |-> QuotientOf(t[i])]
  <2>1. t \in Seq(Message(m))
    OBVIOUS
  <2> QED
    BY <2>1, DividerOwed
<1> HIDE DEF t
<1>5. ASSUME Served(t) = Served(s) PROVE Owed(m, t, FALSE) = Owed(m, s, FALSE)
  <2>1. \A i \in Served(s) : t[i] = s[i]
    BY <1>1 DEF Served
  <2> QED
    BY <1>4, <1>5, <2>1
<1>6. CASE Zeros(s) # {}
  <2>1. \A j \in 1..Len(s) : Zeros(t) \cap 1..j = Zeros(s) \cap 1..j
    BY <1>1, <1>2
  <2>2. Zeros(t) \cap 1..(Len(s) + 1) # {}
    BY <1>1, <1>2, <1>3, <1>6
  <2>3. Served(t) = Served(s)
    BY <1>1, <2>1, <2>2 DEF Served
  <2> QED
    BY <1>5, <1>6, <2>3 DEF t
<1>7. CASE Zeros(s) = {} /\ x.divisor = 0
  <2>1. Served(s) = 1..Len(s)
    BY <1>1, <1>7 DEF Served
  <2>2. Zeros(t) = {Len(s) + 1}
    BY <1>2, <1>7
  <2>3. Served(t) = 1..Len(s)
    BY <1>1, <2>2 DEF Served
  <2>4. OnData(m, x).writes = <<>>
    BY <1>7, DividerFacts
  <2>5. Owed(m, s, FALSE) \o <<>> = Owed(m, s, FALSE)
    BY ConcatEmptySeq
  <2> QED
    BY <1>5, <1>7, <2>1, <2>3, <2>4, <2>5 DEF t
<1>8. CASE Zeros(s) = {} /\ x.divisor # 0
  <2>1. Zeros(t) = {}
    BY <1>2, <1>8
  <2>2. Served(s) = 1..Len(s) /\ Served(t) = 1..Len(s) + 1
    BY <1>1, <1>8, <2>1 DEF Served
  <2>3. /\ Owed(m, s, FALSE) = [i \in 1..Len(s) |-> QuotientOf(s[i])]
        /\ Owed(m, t, FALSE) = [i \in 1..Len(s) + 1 |-> QuotientOf(t[i])]
    BY <1>4, <2>2
  <2>4. OnData(m, x).writes = <<QuotientOf(x)>>
    BY <1>8, DividerFacts DEF QuotientOf
  <2> DEFINE o == Owed(m, s, FALSE)
             q == QuotientOf(x)
             joined == o \o <<q>>
  <2>5. q \in Reply(m)
    BY <1>8, DividerFacts DEF QuotientOf
  <2>6. o \in Seq(Reply(m)) /\ Len(o) = Len(s) /\ \A i \in 1..Len(s) : o[i] = QuotientOf(s[i])
    <3>1. DOMAIN o = 1..Len(s) /\ \A i \in 1..Len(s) : o[i] = QuotientOf(s[i])
      BY <2>3
    <3>2. o \in Seq(Reply(m))
      OBVIOUS
    <3> HIDE DEF o
    <3>3. Len(o) = Len(s)
      BY <3>1, <3>2, <1>1
    <3> QED
      BY <3>1, <3>2, <3>3
  <2> HIDE DEF o, q
  <2>7. /\ joined \in Seq(Reply(m)) /\ Len(joined) = Len(s) + 1
        /\ \A i \in 1..Len(s) : joined[i] = o[i]
        /\ joined[Len(s) + 1] = q
    BY <2>5, <2>6
  <2> HIDE DEF joined
  <2>8. joined = [i \in 1..Len(s) + 1 |-> joined[i]]
    BY <2>7
  <2>9. \A i \in 1..Len(s) + 1 : joined[i] = QuotientOf(t[i])
    <3> SUFFICES ASSUME NEW i \in 1..Len(s) + 1 PROVE joined[i] = QuotientOf(t[i])
      OBVIOUS
    <3>1. CASE i \in 1..Len(s)
      BY <3>1, <2>7, <2>6, <1>1
    <3>2. CASE i = Len(s) + 1
      BY <3>2, <2>7, <1>1 DEF q
    <3> QED
      BY <3>1, <3>2, <1>1
  <2>10. joined = Owed(m, t, FALSE)
    BY <2>3, <2>8, <2>9
  <2> QED
    BY <1>8, <2>4, <2>10 DEF t, joined, o, q
<1> QED
  BY <1>6, <1>7, <1>8

(* Nothing is owed for a message after the first. *)
LEMMA AnswersFirstStep ==
  ASSUME NEW m \in AnswersFirst, NEW s \in Seq(Message(m)), NEW x \in Message(m)
  PROVE  /\ s = <<>> => Owed(m, Append(s, x), FALSE) = OnData(m, x).writes
         /\ s # <<>> => Owed(m, Append(s, x), FALSE) = Owed(m, s, FALSE)
<1>1. ASSUME s = <<>> PROVE Owed(m, Append(s, x), FALSE) = OnData(m, x).writes
  <2>1. Append(<<>>, x) = <<x>>
    OBVIOUS
  <2> QED
    BY <1>1, <2>1, AnswersFirstFacts
<1>2. ASSUME s # <<>> PROVE Owed(m, Append(s, x), FALSE) = Owed(m, s, FALSE)
  <2> DEFINE t == Append(s, x)
  <2>1. Len(s) # 0 /\ Len(s) \in Nat
    BY <1>2, EmptySeq
  <2>2. t # <<>> /\ t[1] = s[1]
    BY <2>1, AppendFacts
  <2> HIDE DEF t
  <2>3. Owed(m, t, FALSE) = Owed(m, s, FALSE)
    <3>1. CASE m = "Fib"
      BY <3>1, <1>2, <2>2 DEF Owed, Summing
    <3>2. CASE m = "EmptyCall"
      BY <3>2, <1>2, <2>2 DEF Owed, Summing
    <3>3. CASE m = "UnaryCall"
      BY <3>3, <1>2, <2>2 DEF Owed, Summing
    <3> QED
      BY <3>1, <3>2, <3>3 DEF AnswersFirst
  <2> QED
    BY <2>3 DEF t
<1> QED
  BY <1>1, <1>2

Parameters(s) == [i \in DOMAIN s |-> s[i].response_parameters]

LEMMA StreamerOwed ==
  ASSUME NEW m \in Streamers, NEW s \in Seq(Message(m)), NEW w
  PROVE  Owed(m, s, w) = FlattenSeq(Parameters(s)) /\ Parameters(s) \in Seq(Seq(Nat))
<1>1. Parameters(s) \in Seq(Seq(Nat))
  <2>1. \A i \in 1..Len(s) : s[i] \in Message(m)
    OBVIOUS
  <2>2. \A i \in 1..Len(s) : s[i].response_parameters \in Seq(Nat)
    BY <2>1, StreamerFacts
  <2>3. Parameters(s) \in [1..Len(s) -> Seq(Nat)]
    BY <2>2 DEF Parameters
  <2> QED
    BY <2>3
<1>2. CASE s = <<>>
  <2>1. DOMAIN s = {}
    BY <1>2
  <2>2. Parameters(s) = <<>>
    BY <1>1, <2>1 DEF Parameters
  <2>3. Owed(m, s, w) = <<>>
    BY <1>2 DEF Owed, Streamers, Summing
  <2> QED
    BY <1>1, <2>2, <2>3, FlattenSeqOfNone
<1>3. CASE s # <<>>
  BY <1>1, <1>3 DEF Owed, Parameters, Streamers, Summing
<1> QED
  BY <1>2, <1>3

(* What a message of a streaming method asks for is added to what is owed. *)
LEMMA StreamerStep ==
  ASSUME NEW m \in Streamers, NEW s \in Seq(Message(m)), NEW x \in Message(m)
  PROVE  Owed(m, Append(s, x), FALSE) = Owed(m, s, FALSE) \o OnData(m, x).writes
<1> DEFINE t == Append(s, x)
           y == x.response_parameters
           ps == Append(Parameters(s), y)
<1>1. /\ t \in Seq(Message(m)) /\ Len(s) \in Nat /\ DOMAIN s = 1..Len(s)
      /\ DOMAIN t = 1..Len(s) + 1
      /\ t[Len(s) + 1] = x /\ \A i \in 1..Len(s) : t[i] = s[i]
  BY AppendFacts
<1>2. y \in Seq(Nat) /\ OnData(m, x).writes = y
  BY StreamerFacts
<1>3. /\ Owed(m, s, FALSE) = FlattenSeq(Parameters(s)) /\ Parameters(s) \in Seq(Seq(Nat))
      /\ Owed(m, t, FALSE) = FlattenSeq(Parameters(t)) /\ Parameters(t) \in Seq(Seq(Nat))
  BY <1>1, StreamerOwed
<1>4. DOMAIN Parameters(s) = 1..Len(s) /\ \A i \in 1..Len(s) : Parameters(s)[i] = s[i].response_parameters
  BY <1>1 DEF Parameters
<1>5. /\ ps \in Seq(Seq(Nat)) /\ DOMAIN ps = 1..Len(s) + 1
      /\ ps[Len(s) + 1] = y /\ \A i \in 1..Len(s) : ps[i] = s[i].response_parameters
  <2>1. Len(Parameters(s)) = Len(s)
    BY <1>1, <1>3, <1>4
  <2> QED
    BY <1>2, <1>3, <1>4, <2>1, AppendFacts
<1> HIDE DEF ps
<1>6. ps = Parameters(t)
  <2>1. \A i \in 1..Len(s) + 1 : ps[i] = t[i].response_parameters
    BY <1>1, <1>5
  <2>2. ps = [i \in 1..Len(s) + 1 |-> ps[i]]
    BY <1>5
  <2> QED
    BY <1>1, <2>1, <2>2 DEF Parameters
<1>7. FlattenSeq(ps) = FlattenSeq(Parameters(s)) \o y
  BY <1>2, <1>3, FlattenSeqOfAppend DEF ps
<1> QED
  BY <1>2, <1>3, <1>6, <1>7

(* What a message changes in what is owed. *)
LEMMA OwedStep ==
  ASSUME NEW m \in Methods, NEW s \in Seq(Message(m)), NEW x \in Message(m),
         Owed(m, s, FALSE) \in Seq(Reply(m))
  PROVE  Owed(m, Append(s, x), FALSE) =
           IF OwesNoMore(m, s, FALSE) THEN Owed(m, s, FALSE)
           ELSE Owed(m, s, FALSE) \o OnData(m, x).writes
<1>1. CASE m \in Dividers
  <2>1. OwesNoMore(m, s, FALSE) <=> Zeros(s) # {}
    BY <1>1, MethodCases DEF OwesNoMore, Dividers
  <2> QED
    BY <1>1, <2>1, DividerStep
<1>2. CASE m \in AnswersFirst
  <2>1. OwesNoMore(m, s, FALSE) <=> s # <<>>
    BY <1>2, MethodCases DEF OwesNoMore, Dividers
  <2>2. s = <<>> => Owed(m, s, FALSE) = <<>>
    BY <1>2, MethodCases DEF Owed
  <2>3. OnData(m, x).writes \in Seq(Reply(m))
    BY OnDataType
  <2>4. <<>> \o OnData(m, x).writes = OnData(m, x).writes
    BY <2>3, ConcatEmptySeq
  <2> QED
    BY <1>2, <2>1, <2>2, <2>4, AnswersFirstStep
<1>3. CASE m \in Streamers
  <2>1. ~OwesNoMore(m, s, FALSE)
    BY <1>3, MethodCases DEF OwesNoMore, Dividers
  <2> QED
    BY <1>3, <2>1, StreamerStep
<1>4. CASE m \in Summing
  <2>1. Owed(m, s, FALSE) = <<>> /\ Owed(m, Append(s, x), FALSE) = <<>>
    BY <1>4 DEF Owed
  <2>2. OnData(m, x).writes = <<>>
    BY <1>4, SummerFacts
  <2> QED
    BY <2>1, <2>2, ConcatEmptySeq
<1> QED
  BY <1>1, <1>2, <1>3, <1>4, MethodCases

LEMMA OwedOfNone ==
  ASSUME NEW m \in Methods
  PROVE  /\ Owed(m, <<>>, FALSE) = <<>>
         /\ ~OwesNoMore(m, <<>>, FALSE)
         /\ ProperStatus(m, <<>>) = OK
<1>1. Zeros(<<>>) = {}
  BY DEF Zeros
<1> QED
  BY <1>1 DEF Owed, OwesNoMore, ProperStatus

(* When the handler is through, and with what. *)
LEMMA EndStep ==
  ASSUME NEW m \in Methods, NEW s \in Seq(Message(m)), NEW x \in Message(m)
  PROVE  /\ OwesNoMore(m, s, FALSE) =>
              /\ OwesNoMore(m, Append(s, x), FALSE)
              /\ ProperStatus(m, Append(s, x)) = ProperStatus(m, s)
              /\ OnData(m, x).writes # <<>> => Overrun(m, Append(s, x))
         /\ ~OwesNoMore(m, s, FALSE) =>
              /\ OwesNoMore(m, Append(s, x), FALSE) <=> OnData(m, x).ends
              /\ ProperStatus(m, Append(s, x)) =
                   IF OnData(m, x).code = None THEN OK ELSE OnData(m, x).code
         /\ OnData(m, x).code # None =>
              /\ OwesNoMore(m, Append(s, x), FALSE)
              /\ ProperStatus(m, Append(s, x)) = OnData(m, x).code
         /\ Overrun(m, s) => Overrun(m, Append(s, x))
<1> DEFINE t == Append(s, x)
<1>1. /\ t \in Seq(Message(m)) /\ t # <<>> /\ Len(s) \in Nat /\ DOMAIN s = 1..Len(s)
      /\ DOMAIN t = 1..Len(s) + 1
      /\ t[Len(s) + 1] = x /\ \A i \in 1..Len(s) : t[i] = s[i]
  BY AppendFacts
<1>2. CASE m \in Dividers
  <2>1. Zeros(t) = Zeros(s) \cup (IF x.divisor = 0 THEN {Len(s) + 1} ELSE {})
    BY <1>2, ZerosOfAppend
  <2>2. /\ OwesNoMore(m, s, FALSE) <=> Zeros(s) # {}
        /\ OwesNoMore(m, t, FALSE) <=> Zeros(t) # {}
        /\ ProperStatus(m, s) = IF Zeros(s) # {} THEN INVALID_ARGUMENT ELSE OK
        /\ ProperStatus(m, t) = IF Zeros(t) # {} THEN INVALID_ARGUMENT ELSE OK
    BY <1>2, MethodCases DEF OwesNoMore, ProperStatus, Dividers
  <2>3. /\ Overrun(m, s) <=> \E i \in Zeros(s) : \E j \in DOMAIN s : j > i /\ OnData(m, s[j]).writes # <<>>
        /\ Overrun(m, t) <=> \E i \in Zeros(t) : \E j \in DOMAIN t : j > i /\ OnData(m, t[j]).writes # <<>>
    BY <1>2, MethodCases DEF Overrun, Dividers
  <2>4. Zeros(s) \subseteq 1..Len(s) /\ Zeros(s) \subseteq Zeros(t)
    BY <1>1, <2>1 DEF Zeros
  <2>5. /\ OnData(m, x).ends <=> x.divisor = 0
        /\ OnData(m, x).code = IF x.divisor = 0 THEN INVALID_ARGUMENT ELSE None
    BY <1>2, DividerFacts
  <2>6. INVALID_ARGUMENT # None
    BY DEF INVALID_ARGUMENT, None
  <2> HIDE DEF t
  <2>7. Overrun(m, s) => Overrun(m, t)
    <3> SUFFICES ASSUME NEW i \in Zeros(s), NEW j \in DOMAIN s, j > i, OnData(m, s[j]).writes # <<>>
                 PROVE  Overrun(m, t)
      BY <2>3
    <3>1. j \in DOMAIN t /\ t[j] = s[j] /\ i \in Zeros(t)
      BY <1>1, <2>4
    <3> QED
      BY <2>3, <3>1
  <2>8. Zeros(s) # {} /\ OnData(m, x).writes # <<>> => Overrun(m, t)
    <3> SUFFICES ASSUME NEW i \in Zeros(s), OnData(m, x).writes # <<>> PROVE Overrun(m, t)
      OBVIOUS
    <3>1. Len(s) + 1 \in DOMAIN t /\ t[Len(s) + 1] = x /\ i \in Zeros(t) /\ Len(s) + 1 > i
      BY <1>1, <2>4
    <3> QED
      BY <2>3, <3>1
  <2>9. /\ Zeros(t) # {} <=> (Zeros(s) # {} \/ x.divisor = 0)
    BY <2>1
  <2> QED
    BY <2>2, <2>5, <2>6, <2>7, <2>8, <2>9 DEF t
<1>3. CASE m \in AnswersFirst
  <2>1. /\ OwesNoMore(m, s, FALSE) <=> s # <<>>
        /\ OwesNoMore(m, t, FALSE)
        /\ ProperStatus(m, s) = OK /\ ProperStatus(m, t) = OK
    BY <1>1, <1>3, MethodCases DEF OwesNoMore, ProperStatus, Dividers
  <2>2. /\ Overrun(m, s) <=> \E i \in DOMAIN s \cap {1} : \E j \in DOMAIN s : j > i /\ OnData(m, s[j]).writes # <<>>
        /\ Overrun(m, t) <=> \E i \in DOMAIN t \cap {1} : \E j \in DOMAIN t : j > i /\ OnData(m, t[j]).writes # <<>>
    BY <1>3, MethodCases DEF Overrun, Dividers
  <2>3. OnData(m, x).ends = TRUE /\ OnData(m, x).code = None
    BY <1>3, AnswersFirstFacts
  <2> HIDE DEF t
  <2>4. Overrun(m, s) => Overrun(m, t)
    <3> SUFFICES ASSUME NEW i \in DOMAIN s \cap {1}, NEW j \in DOMAIN s, j > i, OnData(m, s[j]).writes # <<>>
                 PROVE  Overrun(m, t)
      BY <2>2
    <3>1. j \in DOMAIN t /\ t[j] = s[j] /\ i \in DOMAIN t \cap {1}
      BY <1>1
    <3> QED
      BY <2>2, <3>1
  <2>5. s # <<>> /\ OnData(m, x).writes # <<>> => Overrun(m, t)
    <3> SUFFICES ASSUME s # <<>>, OnData(m, x).writes # <<>> PROVE Overrun(m, t)
      OBVIOUS
    <3>1. Len(s) # 0
      BY EmptySeq
    <3>2. Len(s) + 1 \in DOMAIN t /\ t[Len(s) + 1] = x /\ 1 \in DOMAIN t \cap {1} /\ Len(s) + 1 > 1
      BY <1>1, <3>1
    <3> QED
      BY <2>2, <3>2
  <2> QED
    BY <2>1, <2>3, <2>4, <2>5 DEF t
<1>4. CASE m \in Streamers \cup Summing
  <2>1. /\ ~OwesNoMore(m, s, FALSE) /\ ~OwesNoMore(m, t, FALSE)
        /\ ProperStatus(m, s) = OK /\ ProperStatus(m, t) = OK
        /\ ~Overrun(m, s)
    BY <1>4, MethodCases DEF OwesNoMore, ProperStatus, Overrun, Dividers
  <2>2. OnData(m, x).ends = FALSE /\ OnData(m, x).code = None
    BY <1>4, StreamerFacts, SummerFacts
  <2> QED
    BY <2>1, <2>2
<1> QED
  BY <1>2, <1>3, <1>4, MethodCases

LEMMA OwedWhole ==
  ASSUME NEW m, NEW s, m \notin Summing
  PROVE  Owed(m, s, TRUE) = Owed(m, s, FALSE)
<1> QED
  BY DEF Owed

(* What the end of a request adds to what is owed. *)
LEMMA OwedAtEnd ==
  ASSUME NEW m \in Methods, NEW s \in Seq(Message(m)), Owed(m, s, FALSE) \in Seq(Reply(m))
  PROVE  /\ OwesNoMore(m, s, TRUE)
         /\ Owed(m, s, TRUE) =
              IF m \in Summing THEN Owed(m, s, FALSE) \o <<Sum(s)>> ELSE Owed(m, s, FALSE)
<1>1. CASE m \in Summing
  <2>1. Owed(m, s, FALSE) = <<>> /\ Owed(m, s, TRUE) = <<Sum(s)>>
    BY <1>1 DEF Owed
  <2>2. <<>> \o <<Sum(s)>> = <<Sum(s)>>
    OBVIOUS
  <2> QED
    BY <1>1, <2>1, <2>2 DEF OwesNoMore
<1>2. CASE m \notin Summing
  <2>1. Owed(m, s, TRUE) = Owed(m, s, FALSE)
    BY <1>2, OwedWhole
  <2> QED
    BY <1>2, <2>1 DEF OwesNoMore
<1> QED
  BY <1>1, <1>2

LEMMA OwedNoMore ==
  ASSUME NEW m \in Methods, NEW s, OwesNoMore(m, s, FALSE)
  PROVE  Owed(m, s, TRUE) = Owed(m, s, FALSE) /\ m \notin Summing
<1>1. m \notin Summing
  BY MethodCases DEF OwesNoMore, Dividers
<1> QED
  BY <1>1, OwedWhole

LEMMA StatusFacts ==
  ASSUME NEW m \in Methods, NEW s
  PROVE  /\ ProperStatus(m, s) \in {OK, INVALID_ARGUMENT}
         /\ ~OwesNoMore(m, s, FALSE) => ProperStatus(m, s) = OK
<1> QED
  BY DEF ProperStatus, OwesNoMore

(* What is owed is a sequence of replies of the method. *)
LEMMA OwedType ==
  ASSUME NEW m \in Methods, NEW s \in Seq(Message(m)), NEW p \in 0..Len(s)
  PROVE  Owed(m, SubSeq(s, 1, p), FALSE) \in Seq(Reply(m))
<1> DEFINE Holds(n) == Owed(m, SubSeq(s, 1, n), FALSE) \in Seq(Reply(m))
           T == {n \in Nat : n <= Len(s) => Holds(n)}
<1> HIDE DEF Holds
<1>1. 0 \in T
  <2>1. <<>> \in Seq(Reply(m))
    OBVIOUS
  <2>2. Owed(m, SubSeq(s, 1, 0), FALSE) \in Seq(Reply(m))
    BY <2>1, PrefixFacts, OwedOfNone
  <2> QED
    BY <2>2 DEF Holds
<1>2. ASSUME NEW n \in Nat, n \in T PROVE n + 1 \in T
  <2> SUFFICES ASSUME n + 1 <= Len(s)
               PROVE  Holds(n + 1)
    OBVIOUS
  <2>0. n \in 0..Len(s)
    OBVIOUS
  <2> DEFINE a == SubSeq(s, 1, n)
             x == s[n + 1]
  <2>1. a \in Seq(Message(m)) /\ x \in Message(m) /\ SubSeq(s, 1, n + 1) = Append(a, x)
    BY <2>0, PrefixFacts
  <2>2. Owed(m, a, FALSE) \in Seq(Reply(m))
    <3>1. Holds(n)
      BY <1>2, <2>0
    <3> QED
      BY <3>1 DEF Holds
  <2> HIDE DEF a, x
  <2>3. OnData(m, x).writes \in Seq(Reply(m))
    BY <2>1, OnDataType
  <2>4. Owed(m, a, FALSE) \o OnData(m, x).writes \in Seq(Reply(m))
    BY <2>2, <2>3, ConcatProperties
  <2>5. Owed(m, Append(a, x), FALSE) \in Seq(Reply(m))
    BY <2>1, <2>2, <2>4, OwedStep
  <2> QED
    BY <2>1, <2>5 DEF Holds
<1> HIDE DEF T
<1>3. Nat \subseteq T
  BY <1>1, <1>2, Induction
<1>4. p \in T /\ p <= Len(s)
  BY <1>3
<1> QED
  BY <1>4 DEF T, Holds

(* The total is a natural number. *)
LEMMA SumType ==
  ASSUME NEW m \in Summing, NEW s \in Seq(Message(m)), NEW p \in 0..Len(s)
  PROVE  Sum(SubSeq(s, 1, p)) \in Nat
<1>1. Message(m) = Nat
  BY DEF Message, Summing
<1>2. SubSeq(s, 1, p) \in Seq(Nat)
  BY <1>1, PrefixFacts
<1> QED
  BY <1>2, SumOfAppend

LEMMA OwedWholeType ==
  ASSUME NEW m \in Methods, NEW s \in Seq(Message(m)), NEW p \in 0..Len(s), NEW e \in BOOLEAN
  PROVE  Owed(m, SubSeq(s, 1, p), e) \in Seq(Reply(m))
<1> DEFINE a == SubSeq(s, 1, p)
<1>1. Owed(m, a, FALSE) \in Seq(Reply(m)) /\ a \in Seq(Message(m))
  BY OwedType, PrefixFacts
<1>2. m \in Summing => <<Sum(a)>> \in Seq(Reply(m))
  <2> SUFFICES ASSUME m \in Summing PROVE <<Sum(a)>> \in Seq(Reply(m))
    OBVIOUS
  <2>1. Sum(a) \in Nat
    BY SumType
  <2>2. Reply(m) = Nat
    BY DEF Reply, Summing
  <2> QED
    BY <2>1, <2>2, SingletonType
<1> HIDE DEF a
<1>3. Owed(m, a, TRUE) \in Seq(Reply(m))
  BY <1>1, <1>2, OwedAtEnd, ConcatProperties
<1>4. e = TRUE \/ e = FALSE
  OBVIOUS
<1> QED
  BY <1>1, <1>3, <1>4 DEF a

(* a begins b. *)
Begins(a, b) == Len(a) <= Len(b) /\ \A i \in 1..Len(a) : b[i] = a[i]

(* Every sequence begins itself. *)
LEMMA BeginsItself ==
  ASSUME NEW S, NEW a \in Seq(S)
  PROVE  Begins(a, a)
<1> QED
  BY DEF Begins

LEMMA BeginsConcat ==
  ASSUME NEW S, NEW a \in Seq(S), NEW b \in Seq(S)
  PROVE  Begins(a, a \o b)
<1> QED
  BY ConcatProperties DEF Begins

LEMMA BeginsTransitive ==
  ASSUME NEW S, NEW a \in Seq(S), NEW b \in Seq(S), NEW c \in Seq(S), Begins(a, b), Begins(b, c)
  PROVE  Begins(a, c)
<1> QED
  BY DEF Begins

(* Of two of the first messages of a test, what holds of the fewer. *)
LEMMA Ahead ==
  ASSUME NEW m \in Methods, NEW s \in Seq(Message(m)), NEW p \in 0..Len(s), NEW q \in p..Len(s)
  PROVE  /\ Begins(Owed(m, SubSeq(s, 1, p), FALSE), Owed(m, SubSeq(s, 1, q), FALSE))
         /\ OwesNoMore(m, SubSeq(s, 1, p), FALSE) =>
              /\ OwesNoMore(m, SubSeq(s, 1, q), FALSE)
              /\ Owed(m, SubSeq(s, 1, q), FALSE) = Owed(m, SubSeq(s, 1, p), FALSE)
              /\ ProperStatus(m, SubSeq(s, 1, q)) = ProperStatus(m, SubSeq(s, 1, p))
         /\ Overrun(m, SubSeq(s, 1, p)) => Overrun(m, SubSeq(s, 1, q))
<1> DEFINE Holds(i) ==
      /\ Begins(Owed(m, SubSeq(s, 1, p), FALSE), Owed(m, SubSeq(s, 1, i), FALSE))
      /\ OwesNoMore(m, SubSeq(s, 1, p), FALSE) =>
           /\ OwesNoMore(m, SubSeq(s, 1, i), FALSE)
           /\ Owed(m, SubSeq(s, 1, i), FALSE) = Owed(m, SubSeq(s, 1, p), FALSE)
           /\ ProperStatus(m, SubSeq(s, 1, i)) = ProperStatus(m, SubSeq(s, 1, p))
      /\ Overrun(m, SubSeq(s, 1, p)) => Overrun(m, SubSeq(s, 1, i))
           T == {n \in Nat : p + n <= Len(s) => Holds(p + n)}
<1> HIDE DEF Holds
<1>1. 0 \in T
  <2>1. Owed(m, SubSeq(s, 1, p), FALSE) \in Seq(Reply(m))
    BY OwedType
  <2>2. Begins(Owed(m, SubSeq(s, 1, p), FALSE), Owed(m, SubSeq(s, 1, p), FALSE))
    BY <2>1, BeginsItself
  <2>3. Holds(p)
    BY <2>2 DEF Holds
  <2>4. p + 0 = p
    OBVIOUS
  <2> QED
    BY <2>3, <2>4
<1>2. ASSUME NEW n \in Nat, n \in T PROVE n + 1 \in T
  <2> SUFFICES ASSUME p + (n + 1) <= Len(s)
               PROVE  Holds(p + (n + 1))
    OBVIOUS
  <2> DEFINE i == p + n
             a == SubSeq(s, 1, i)
             x == s[i + 1]
             b == SubSeq(s, 1, p)
  <2>0. i \in 0..Len(s) /\ i + 1 <= Len(s) /\ i + 1 = p + (n + 1) /\ p + n <= Len(s)
    OBVIOUS
  <2>1. a \in Seq(Message(m)) /\ x \in Message(m) /\ SubSeq(s, 1, i + 1) = Append(a, x)
    BY <2>0, PrefixFacts
  <2>2. Holds(i)
    BY <1>2, <2>0
  <2>3. /\ Owed(m, b, FALSE) \in Seq(Reply(m))
        /\ Owed(m, a, FALSE) \in Seq(Reply(m))
        /\ Owed(m, SubSeq(s, 1, i + 1), FALSE) \in Seq(Reply(m))
    <3>1. i \in 0..Len(s) /\ i + 1 \in 0..Len(s)
      BY <2>0
    <3> HIDE DEF i
    <3> QED
      BY <3>1, OwedType
  <2>4. OnData(m, x).writes \in Seq(Reply(m))
    BY <2>1, OnDataType
  <2>5. /\ Begins(Owed(m, b, FALSE), Owed(m, a, FALSE))
        /\ OwesNoMore(m, b, FALSE) =>
             /\ OwesNoMore(m, a, FALSE)
             /\ Owed(m, a, FALSE) = Owed(m, b, FALSE)
             /\ ProperStatus(m, a) = ProperStatus(m, b)
        /\ Overrun(m, b) => Overrun(m, a)
    BY <2>2 DEF Holds
  <2> HIDE DEF a, x, b, i
  <2>6. Begins(Owed(m, a, FALSE), Owed(m, Append(a, x), FALSE))
    <3>1. CASE OwesNoMore(m, a, FALSE)
      <4>1. Owed(m, Append(a, x), FALSE) = Owed(m, a, FALSE)
        BY <2>1, <2>3, <3>1, OwedStep
      <4> QED
        BY <2>3, <4>1, BeginsItself
    <3>2. CASE ~OwesNoMore(m, a, FALSE)
      BY <2>1, <2>3, <2>4, <3>2, OwedStep, BeginsConcat
    <3> QED
      BY <3>1, <3>2
  <2>7. Begins(Owed(m, b, FALSE), Owed(m, Append(a, x), FALSE))
    BY <2>1, <2>3, <2>5, <2>6, BeginsTransitive
  <2>8. OwesNoMore(m, b, FALSE) =>
          /\ OwesNoMore(m, Append(a, x), FALSE)
          /\ Owed(m, Append(a, x), FALSE) = Owed(m, b, FALSE)
          /\ ProperStatus(m, Append(a, x)) = ProperStatus(m, b)
    BY <2>1, <2>3, <2>5, OwedStep, EndStep
  <2>9. Overrun(m, b) => Overrun(m, Append(a, x))
    BY <2>1, <2>5, EndStep
  <2>10. Holds(i + 1)
    BY <2>1, <2>7, <2>8, <2>9 DEF Holds, b
  <2> QED
    BY <2>0, <2>10
<1> HIDE DEF T
<1>3. Nat \subseteq T
  BY <1>1, <1>2, Induction
<1>4. q - p \in T /\ p + (q - p) = q /\ q <= Len(s)
  BY <1>3
<1>5. Holds(q)
  BY <1>4 DEF T
<1> QED
  BY <1>5 DEF Holds

(* The same, when the request may have ended. *)
LEMMA AheadWhole ==
  ASSUME NEW m \in Methods, NEW s \in Seq(Message(m)), NEW p \in 0..Len(s), NEW q \in p..Len(s),
         NEW e \in BOOLEAN, NEW w \in BOOLEAN, e => w /\ p = q
  PROVE  /\ Begins(Owed(m, SubSeq(s, 1, p), e), Owed(m, SubSeq(s, 1, q), w))
         /\ OwesNoMore(m, SubSeq(s, 1, p), e) =>
              /\ OwesNoMore(m, SubSeq(s, 1, q), w)
              /\ Owed(m, SubSeq(s, 1, q), w) = Owed(m, SubSeq(s, 1, p), e)
              /\ ProperStatus(m, SubSeq(s, 1, q)) = ProperStatus(m, SubSeq(s, 1, p))
         /\ Overrun(m, SubSeq(s, 1, p)) => Overrun(m, SubSeq(s, 1, q))
<1> DEFINE a == SubSeq(s, 1, p)
           b == SubSeq(s, 1, q)
<1>0. /\ Owed(m, a, e) \in Seq(Reply(m)) /\ Owed(m, b, FALSE) \in Seq(Reply(m))
      /\ Owed(m, b, TRUE) \in Seq(Reply(m)) /\ Owed(m, a, FALSE) \in Seq(Reply(m))
      /\ a \in Seq(Message(m)) /\ b \in Seq(Message(m))
  <2>1. q \in 0..Len(s) /\ TRUE \in BOOLEAN /\ FALSE \in BOOLEAN
    OBVIOUS
  <2>2. Owed(m, a, e) \in Seq(Reply(m)) /\ Owed(m, a, FALSE) \in Seq(Reply(m))
    BY <2>1, OwedWholeType
  <2>3. Owed(m, b, FALSE) \in Seq(Reply(m)) /\ Owed(m, b, TRUE) \in Seq(Reply(m))
    BY <2>1, OwedWholeType
  <2>4. a \in Seq(Message(m)) /\ b \in Seq(Message(m))
    BY <2>1, PrefixFacts
  <2> QED
    BY <2>2, <2>3, <2>4
<1>1. /\ Begins(Owed(m, a, FALSE), Owed(m, b, FALSE))
      /\ OwesNoMore(m, a, FALSE) =>
           /\ OwesNoMore(m, b, FALSE)
           /\ Owed(m, b, FALSE) = Owed(m, a, FALSE)
           /\ ProperStatus(m, b) = ProperStatus(m, a)
      /\ Overrun(m, a) => Overrun(m, b)
  BY Ahead
<1>2. e => w /\ a = b
  OBVIOUS
<1>3. m \in Summing => <<Sum(b)>> \in Seq(Reply(m))
  <2> SUFFICES ASSUME m \in Summing PROVE <<Sum(b)>> \in Seq(Reply(m))
    OBVIOUS
  <2>1. Sum(b) \in Nat
    BY SumType
  <2>2. Reply(m) = Nat
    BY DEF Reply, Summing
  <2> QED
    BY <2>1, <2>2, SingletonType
<1> HIDE DEF a, b
<1>4. Begins(Owed(m, b, FALSE), Owed(m, b, TRUE))
  <2>1. CASE m \in Summing
    BY <2>1, <1>0, <1>3, OwedAtEnd, BeginsConcat
  <2>2. CASE m \notin Summing
    <3>1. Owed(m, b, TRUE) = Owed(m, b, FALSE)
      BY <2>2, OwedWhole
    <3> QED
      BY <1>0, <3>1, BeginsItself
  <2> QED
    BY <2>1, <2>2
<1>5. CASE e = TRUE
  <2>1. Begins(Owed(m, a, e), Owed(m, a, e))
    BY <1>0, BeginsItself
  <2> QED
    BY <1>0, <1>1, <1>2, <1>5, <2>1, OwedAtEnd DEF a, b
<1>6. CASE e = FALSE /\ w = FALSE
  BY <1>1, <1>6 DEF a, b
<1>7. CASE e = FALSE /\ w = TRUE
  <2>1. Begins(Owed(m, a, FALSE), Owed(m, b, TRUE))
    BY <1>0, <1>1, <1>4, BeginsTransitive
  <2>2. OwesNoMore(m, b, TRUE)
    BY <1>0, OwedAtEnd
  <2>3. OwesNoMore(m, a, FALSE) => Owed(m, b, TRUE) = Owed(m, a, FALSE)
    BY <1>1, OwedNoMore
  <2> QED
    BY <1>1, <1>7, <2>1, <2>2, <2>3 DEF a, b
<1> QED
  BY <1>5, <1>6, <1>7

-----------------------------------------------------------------------------
(* Types *)

LEMMA TestFacts ==
  ASSUME Typed
  PROVE  /\ test \in Tests /\ test.method \in Methods
         /\ test.sends \in Seq(Message(test.method)) /\ Len(test.sends) \in Nat
         /\ test.timed \in BOOLEAN /\ test.checks \in BOOLEAN /\ test.pings \in BOOLEAN
         /\ test.cancel \in {"never", "begin", "first"}
         /\ test.doneOn \in {"end", "status", "cancel"}
<1>1. test \in Tests
  BY DEF Typed
<1>2. test.method \in Methods /\ test.sends \in Seq(Message(test.method))
  BY <1>1, TestsAssumption
<1>3. /\ test.timed \in BOOLEAN /\ test.checks \in BOOLEAN /\ test.pings \in BOOLEAN
      /\ test.cancel \in {"never", "begin", "first"}
      /\ test.doneOn \in {"end", "status", "cancel"}
  BY <1>1, TestsAssumption
<1> QED
  BY <1>1, <1>2, <1>3, LenProperties

LEMMA FrameTypes ==
  /\ \A v \in Message(test.method) : Frame("DATA", v) \in UpFrame
  /\ \A v \in Reply(test.method) : Frame("DATA", v) \in DownFrame
  /\ \A c \in Codes : Frame("TRAILERS", c) \in DownFrame
  /\ Frame("HEADERS", None) \in UpFrame /\ Frame("END", None) \in UpFrame
  /\ Frame("RST", None) \in UpFrame
  /\ Frame("HEADERS", None) \in DownFrame /\ Frame("END", None) \in DownFrame
<1> QED
  BY DEF Frame, UpFrame, DownFrame

LEMMA FrameParts ==
  /\ \A f \in UpFrame : /\ f.type \in {"HEADERS", "DATA", "END", "RST"}
                        /\ f.type = "DATA" => f.body \in Message(test.method)
  /\ \A f \in DownFrame : /\ f.type \in {"HEADERS", "DATA", "TRAILERS", "END"}
                          /\ f.type = "DATA" => f.body \in Reply(test.method)
                          /\ f.type = "TRAILERS" => f.body \in Codes
<1> QED
  BY DEF UpFrame, DownFrame

LEMMA CodeFacts ==
  /\ None \notin Codes
  /\ {OK, CANCELLED, INVALID_ARGUMENT, DEADLINE_EXCEEDED, INTERNAL} \subseteq Codes
<1> QED
  BY DEF Codes, None, OK, CANCELLED, INVALID_ARGUMENT, DEADLINE_EXCEEDED, INTERNAL

LEMMA TrailersType ==
  ASSUME NEW c \in Codes \cup {None}
  PROVE  Trailers(c) \in Seq(DownFrame)
<1>1. (IF c = None THEN OK ELSE c) \in Codes
  BY CodeFacts
<1> DEFINE f == Frame("TRAILERS", IF c = None THEN OK ELSE c)
           g == Frame("END", None)
<1>2. f \in DownFrame /\ g \in DownFrame
  BY <1>1, FrameTypes
<1> HIDE DEF f, g
<1>3. <<f, g>> \in Seq(DownFrame)
  BY <1>2
<1> QED
  BY <1>3 DEF Trailers, f, g

LEMMA HeadersType == Headers \in Seq(DownFrame)
<1>1. <<>> \in Seq(DownFrame)
  OBVIOUS
<1>2. <<Frame("HEADERS", None)>> \in Seq(DownFrame)
  BY FrameTypes, SingletonType
<1> QED
  BY <1>1, <1>2 DEF Headers

(* A reaction of a handler leaves the response well typed. *)
LEMMA ReactType ==
  ASSUME Typed, NEW r, r.writes \in Seq(Reply(test.method)), r.ends \in BOOLEAN,
         r.code \in {None, INVALID_ARGUMENT}, React(r)
  PROVE  /\ rpcCode' \in Codes \cup {None} /\ down' \in Seq(DownFrame)
         /\ encoded' \in Seq(Reply(test.method))
         /\ finished' \in BOOLEAN /\ headersSent' \in BOOLEAN /\ endCalled' \in BOOLEAN
<1>0. /\ down \in Seq(DownFrame) /\ encoded \in Seq(Reply(test.method))
      /\ rpcCode \in Codes \cup {None}
      /\ finished \in BOOLEAN /\ headersSent \in BOOLEAN /\ endCalled \in BOOLEAN
  BY DEF Typed, ServerTyped
<1>1. /\ down \o Trailers(INTERNAL) \in Seq(DownFrame) /\ down \o Headers \in Seq(DownFrame)
      /\ encoded \o r.writes \in Seq(Reply(test.method))
  <2>1. Trailers(INTERNAL) \in Seq(DownFrame)
    BY TrailersType, CodeFacts
  <2> QED
    BY <1>0, <2>1, HeadersType, ConcatProperties
<1>2. CASE endCalled /\ r.writes # <<>>
  <2>1. /\ rpcCode' = INTERNAL /\ finished' = TRUE /\ encoded' = <<>>
        /\ down' = IF finished THEN down ELSE down \o Trailers(INTERNAL)
        /\ headersSent' = headersSent /\ endCalled' = endCalled
    BY <1>2 DEF React
  <2>2. <<>> \in Seq(Reply(test.method))
    OBVIOUS
  <2> QED
    BY <1>0, <1>1, <2>1, <2>2, CodeFacts
<1>3. CASE ~(endCalled /\ r.writes # <<>>)
  <2>1. /\ rpcCode' = IF r.code = None THEN rpcCode ELSE r.code
        /\ headersSent' = (headersSent \/ r.writes # <<>> \/ r.ends)
        /\ down' = IF headersSent' THEN down \o Headers ELSE down
        /\ encoded' = encoded \o r.writes
        /\ endCalled' = (endCalled \/ r.ends)
        /\ finished' = finished
    BY <1>3 DEF React
  <2>2. headersSent' \in BOOLEAN /\ endCalled' \in BOOLEAN
    BY <2>1
  <2>3. rpcCode' \in Codes \cup {None}
    BY <1>0, <2>1, CodeFacts
  <2>4. down' \in Seq(DownFrame) /\ encoded' \in Seq(Reply(test.method))
    BY <1>0, <1>1, <2>1
  <2> QED
    BY <1>0, <2>1, <2>2, <2>3, <2>4
<1> QED
  BY <1>2, <1>3

(* Types hold at the start, and then one lemma for each action. *)
LEMMA TypedInit ==
  ASSUME Init
  PROVE  Typed
<1>1. /\ test \in Tests
      /\ stream = "none" /\ written = 0 /\ ended = FALSE /\ timer = "off"
      /\ arrived = <<>> /\ eof = FALSE /\ cut = FALSE /\ seen = 0 /\ respEnded = FALSE
      /\ status = None /\ cancelHeard = FALSE /\ done = FALSE /\ failure = "none"
      /\ up = <<>> /\ down = <<>>
      /\ handling = FALSE /\ total = 0 /\ serverTimer = "off"
      /\ headersSent = FALSE /\ endCalled = FALSE /\ encoded = <<>> /\ rpcCode = None
      /\ finished = FALSE /\ closed = FALSE
  BY DEF Init
<1>2. test.sends \in Seq(Message(test.method))
  BY <1>1, TestsAssumption
<1>3. written \in 0..Len(test.sends) /\ seen \in 0..Len(arrived)
  BY <1>1, <1>2
<1>4. arrived \in Seq(Reply(test.method)) /\ encoded \in Seq(Reply(test.method))
      /\ up \in Seq(UpFrame) /\ down \in Seq(DownFrame)
  BY <1>1
<1> QED
  BY <1>1, <1>3, <1>4 DEF Typed, ClientTyped, ClientFlags, ClientData, ServerTyped

LEMMA SameFrames ==
  ASSUME test' = test
  PROVE  UpFrame' = UpFrame /\ DownFrame' = DownFrame
<1> QED
  BY DEF UpFrame, DownFrame

LEMMA ClientTypedFrame ==
  ASSUME ClientTyped, test' = test, UNCHANGED clientVars
  PROVE  ClientTyped'
<1>1. ClientFlags'
  BY ZenonT(40) DEF ClientTyped, ClientFlags, clientVars
<1>2. ClientData'
  BY DEF ClientTyped, ClientData, clientVars
<1> QED
  BY <1>1, <1>2 DEF ClientTyped

LEMMA ServerTypedFrame ==
  ASSUME ServerTyped, test' = test, UNCHANGED serverVars
  PROVE  ServerTyped'
<1> QED
  BY DEF ServerTyped, serverVars

LEMMA CancelEventType ==
  ASSUME ClientTyped, NEW c, CancelEvent(c)
  PROVE  /\ cancelHeard' = TRUE /\ done' \in BOOLEAN
         /\ failure' \in {"none", "assertion", "unheard error"}
<1>1. cancelHeard' = TRUE
  BY DEF CancelEvent
<1>2. \/ done' = (done \/ test.doneOn = "status") /\ failure' = failure
      \/ done' = TRUE /\ failure' = failure
      \/ failure' = "assertion" /\ done' = done
  BY DEF CancelEvent
<1> QED
  BY <1>1, <1>2 DEF ClientTyped, ClientFlags, ClientData

LEMMA AbortType ==
  ASSUME Typed, NEW c \in Codes, Abort(c)
  PROVE  /\ stream' = "null" /\ status' \in Codes /\ cut' = TRUE
         /\ up' \in Seq(UpFrame)
         /\ cancelHeard' = TRUE /\ done' \in BOOLEAN
         /\ failure' \in {"none", "assertion", "unheard error"}
<1>1. /\ stream' = "null" /\ status' = c /\ cut' = TRUE
      /\ up' = Append(up, Frame("RST", None)) /\ CancelEvent(c)
  BY DEF Abort
<1>2. up' \in Seq(UpFrame)
  BY <1>1, FrameTypes, AppendProperties DEF Typed
<1> QED
  BY <1>1, <1>2, CancelEventType DEF Typed

LEMMA TypedStart ==
  ASSUME Typed, Start
  PROVE  Typed'
<1>1. /\ test' = test /\ written' = written /\ ended' = ended /\ arrived' = arrived /\ eof' = eof
      /\ seen' = seen /\ respEnded' = respEnded /\ down' = down /\ UNCHANGED serverVars
      /\ timer' \in {"off", "armed", "fired"}
  BY DEF Start
<1>2. ServerTyped' /\ UpFrame' = UpFrame /\ DownFrame' = DownFrame
  BY <1>1, ServerTypedFrame, SameFrames DEF Typed
<1>3. CASE test.cancel = "begin"
  <2>1. /\ stream' = "null" /\ up' = <<Frame("HEADERS", None), Frame("RST", None)>>
        /\ (status' = CANCELLED /\ cut' = TRUE) \/ (status' = status /\ cut' = cut)
        /\ CancelEvent(CANCELLED)
    BY <1>3 DEF Start
  <2>2. up' \in Seq(UpFrame)
    <3>1. Frame("HEADERS", None) \in UpFrame /\ Frame("RST", None) \in UpFrame
      BY FrameTypes
    <3> QED
      BY <2>1, <3>1
  <2>3. status' \in Codes \cup {None} /\ cut' \in BOOLEAN
    BY <2>1, CodeFacts DEF Typed, ClientTyped, ClientFlags, ClientData
  <2>4. /\ cancelHeard' = TRUE /\ done' \in BOOLEAN
        /\ failure' \in {"none", "assertion", "unheard error"}
    BY <2>1, CancelEventType DEF Typed
  <2>5. ClientTyped'
    <3>1. ClientFlags'
      BY <1>1, <2>1, <2>3, <2>4 DEF Typed, ClientTyped, ClientFlags
    <3>2. ClientData'
      BY <1>1, <2>1, <2>3, <2>4 DEF Typed, ClientTyped, ClientData
    <3> QED
      BY <3>1, <3>2 DEF ClientTyped
  <2> QED
    BY <1>1, <1>2, <2>2, <2>5 DEF Typed
<1>4. CASE test.cancel # "begin"
  <2>1. /\ stream' = "live" /\ up' = <<Frame("HEADERS", None)>>
        /\ status' = status /\ cut' = cut /\ cancelHeard' = cancelHeard /\ done' = done
        /\ failure' = failure
    BY <1>4 DEF Start
  <2>2. up' \in Seq(UpFrame)
    BY <2>1, FrameTypes, SingletonType
  <2>3. ClientTyped'
    <3>1. ClientFlags'
      BY <1>1, <2>1, ZenonT(40) DEF Typed, ClientTyped, ClientFlags
    <3>2. ClientData'
      BY <1>1, <2>1 DEF Typed, ClientTyped, ClientData
    <3> QED
      BY <3>1, <3>2 DEF ClientTyped
  <2> QED
    BY <1>1, <1>2, <2>2, <2>3 DEF Typed
<1> QED
  BY <1>3, <1>4

LEMMA TypedWriteNext ==
  ASSUME Typed, WriteNext
  PROVE  Typed'
<1>1. /\ test' = test /\ down' = down /\ UNCHANGED serverVars
      /\ written < Released /\ written' = written + 1
      /\ up' = Append(up, Frame("DATA", test.sends[written + 1]))
      /\ UNCHANGED <<stream, ended, timer, arrived, eof, cut, seen, respEnded, status,
                     cancelHeard, done, failure>>
  BY DEF WriteNext
<1>2. ServerTyped' /\ UpFrame' = UpFrame /\ DownFrame' = DownFrame
  BY <1>1, ServerTypedFrame, SameFrames DEF Typed
<1>3. written + 1 \in 1..Len(test.sends)
  <2>1. written \in 0..Len(test.sends) /\ seen \in 0..Len(arrived)
    BY DEF Typed, ClientTyped, ClientFlags, ClientData
  <2>2. Len(arrived) \in Nat /\ Len(test.sends) \in Nat
    BY TestFacts, LenProperties DEF Typed, ClientTyped, ClientFlags, ClientData
  <2>3. Released <= Len(test.sends) /\ Released \in Nat
    BY <2>1, <2>2 DEF Released
  <2> QED
    BY <1>1, <2>1, <2>2, <2>3
<1>4. test.sends[written + 1] \in Message(test.method)
  BY <1>3, TestFacts
<1>5. up' \in Seq(UpFrame)
  BY <1>1, <1>4, FrameTypes, AppendProperties DEF Typed
<1>6. ClientTyped'
  <2>1. written' \in 0..Len(test.sends)
    BY <1>1, <1>3
  <2>2. ClientFlags'
    BY <1>1, ZenonT(40) DEF Typed, ClientTyped, ClientFlags
  <2>3. ClientData'
    BY <1>1, <2>1 DEF Typed, ClientTyped, ClientData
  <2> QED
    BY <2>2, <2>3 DEF ClientTyped
<1> QED
  BY <1>1, <1>2, <1>5, <1>6 DEF Typed

LEMMA TypedEndRequest ==
  ASSUME Typed, EndRequest
  PROVE  Typed'
<1>1. /\ test' = test /\ down' = down /\ UNCHANGED serverVars
      /\ ended' = TRUE /\ up' = Append(up, Frame("END", None))
      /\ UNCHANGED <<stream, written, timer, arrived, eof, cut, seen, respEnded, status,
                     cancelHeard, done, failure>>
  BY DEF EndRequest
<1>2. ServerTyped' /\ UpFrame' = UpFrame /\ DownFrame' = DownFrame
  BY <1>1, ServerTypedFrame, SameFrames DEF Typed
<1>3. up' \in Seq(UpFrame)
  BY <1>1, FrameTypes, AppendProperties DEF Typed
<1>4. ClientTyped'
  <2>1. ClientFlags'
    BY <1>1, ZenonT(40) DEF Typed, ClientTyped, ClientFlags
  <2>2. ClientData'
    BY <1>1 DEF Typed, ClientTyped, ClientData
  <2> QED
    BY <2>1, <2>2 DEF ClientTyped
<1> QED
  BY <1>1, <1>2, <1>3, <1>4 DEF Typed

LEMMA TypedTimerFires ==
  ASSUME Typed, TimerFires
  PROVE  Typed'
<1>1. /\ test' = test /\ down' = down /\ UNCHANGED serverVars /\ timer' = "fired"
      /\ UNCHANGED <<written, ended, arrived, eof, seen, respEnded>>
      /\ \/ Abort(DEADLINE_EXCEEDED)
         \/ UNCHANGED <<stream, status, cut, up, cancelHeard, done, failure>>
  BY DEF TimerFires
<1>2. ServerTyped' /\ UpFrame' = UpFrame /\ DownFrame' = DownFrame
  BY <1>1, ServerTypedFrame, SameFrames DEF Typed
<1>3. CASE Abort(DEADLINE_EXCEEDED)
  <2>1. /\ stream' = "null" /\ status' \in Codes /\ cut' = TRUE
        /\ up' \in Seq(UpFrame)
        /\ cancelHeard' = TRUE /\ done' \in BOOLEAN
        /\ failure' \in {"none", "assertion", "unheard error"}
    BY <1>3, AbortType, CodeFacts
  <2>2. ClientTyped'
    <3>1. ClientFlags'
      BY <1>1, <2>1, ZenonT(40) DEF Typed, ClientTyped, ClientFlags
    <3>2. ClientData'
      BY <1>1, <2>1 DEF Typed, ClientTyped, ClientData
    <3> QED
      BY <3>1, <3>2 DEF ClientTyped
  <2> QED
    BY <1>1, <1>2, <2>1, <2>2 DEF Typed
<1>4. CASE UNCHANGED <<stream, status, cut, up, cancelHeard, done, failure>>
  <2>1. ClientTyped'
    <3>1. ClientFlags'
      BY <1>1, <1>4 DEF Typed, ClientTyped, ClientFlags
    <3>2. ClientData'
      BY <1>1, <1>4 DEF Typed, ClientTyped, ClientData
    <3> QED
      BY <3>1, <3>2 DEF ClientTyped
  <2> QED
    BY <1>1, <1>2, <1>4, <2>1 DEF Typed
<1> QED
  BY <1>1, <1>3, <1>4

LEMMA TypedReceive ==
  ASSUME Typed, Receive
  PROVE  Typed'
<1>1. /\ test' = test /\ up' = up /\ UNCHANGED serverVars /\ down # <<>> /\ down' = Tail(down)
      /\ UNCHANGED <<stream, written, ended, timer, cut, seen, respEnded, cancelHeard>>
  BY DEF Receive
<1>2. ServerTyped' /\ UpFrame' = UpFrame /\ DownFrame' = DownFrame
  BY <1>1, ServerTypedFrame, SameFrames DEF Typed
<1>3. down' \in Seq(DownFrame) /\ Head(down) \in DownFrame
  BY <1>1, HeadTailProperties DEF Typed
<1>4. CASE stream = "null"
  <2>1. UNCHANGED <<arrived, eof, status, done, failure>>
    BY <1>4 DEF Receive
  <2>2. ClientTyped'
    <3>1. ClientFlags'
      BY <1>1, <2>1, ZenonT(40) DEF Typed, ClientTyped, ClientFlags
    <3>2. ClientData'
      BY <1>1, <2>1 DEF Typed, ClientTyped, ClientData
    <3> QED
      BY <3>1, <3>2 DEF ClientTyped
  <2> QED
    BY <1>1, <1>2, <1>3, <2>2 DEF Typed
<1>5. CASE stream # "null"
  <2> DEFINE f == Head(down)
  <2>1. /\ arrived' = IF f.type = "DATA" THEN Append(arrived, f.body) ELSE arrived
        /\ eof' = (eof \/ f.type = "END")
        /\ \/ f.type = "TRAILERS" /\ StatusEvent(f.body)
           \/ UNCHANGED <<status, done, failure>>
    BY <1>5 DEF Receive
  <2>2. f \in DownFrame
    BY <1>3
  <2> HIDE DEF f
  <2>3. arrived \in Seq(Reply(test.method)) /\ seen \in 0..Len(arrived) /\ eof \in BOOLEAN
    BY DEF Typed, ClientTyped, ClientFlags, ClientData
  <2>4. arrived' \in Seq(Reply(test.method)) /\ Len(arrived') >= Len(arrived)
    <3>1. CASE f.type = "DATA"
      <4>1. f.body \in Reply(test.method)
        BY <2>2, <3>1, FrameParts
      <4>2. arrived' = Append(arrived, f.body)
        BY <2>1, <3>1
      <4>3. Append(arrived, f.body) \in Seq(Reply(test.method))
            /\ Len(Append(arrived, f.body)) = Len(arrived) + 1 /\ Len(arrived) \in Nat
        BY <2>3, <4>1, AppendProperties, LenProperties
      <4> QED
        BY <4>2, <4>3
    <3>2. CASE f.type # "DATA"
      <4>1. arrived' = arrived
        BY <2>1, <3>2
      <4>2. Len(arrived) \in Nat
        BY <2>3, LenProperties
      <4> QED
        BY <2>3, <4>1, <4>2
    <3> QED
      BY <3>1, <3>2
  <2>5. seen \in 0..Len(arrived') /\ eof' \in BOOLEAN
    BY <2>1, <2>3, <2>4
  <2>6. /\ status' \in Codes \cup {None} /\ done' \in BOOLEAN
        /\ failure' \in {"none", "assertion", "unheard error"}
    <3>1. CASE f.type = "TRAILERS" /\ StatusEvent(f.body)
      <4>1. f.body \in Codes
        BY <2>2, <3>1, FrameParts
      <4>2. /\ status' = f.body /\ done' = (done \/ test.doneOn = "status")
            /\ failure' \in {failure, "unheard error", "assertion"}
        BY <3>1 DEF StatusEvent
      <4> QED
        BY <4>1, <4>2 DEF Typed, ClientTyped, ClientFlags, ClientData
    <3>2. CASE UNCHANGED <<status, done, failure>>
      BY <3>2 DEF Typed, ClientTyped, ClientFlags, ClientData
    <3> QED
      BY <2>1, <3>1, <3>2
  <2>7. ClientTyped'
    <3>1. ClientFlags'
      BY <1>1, <2>4, <2>5, <2>6 DEF Typed, ClientTyped, ClientFlags
    <3>2. ClientData'
      BY <1>1, <2>4, <2>5, <2>6 DEF Typed, ClientTyped, ClientData
    <3> QED
      BY <3>1, <3>2 DEF ClientTyped
  <2> QED
    BY <1>1, <1>2, <1>3, <2>7 DEF Typed
<1> QED
  BY <1>4, <1>5

LEMMA TypedDataEvent ==
  ASSUME Typed, DataEvent
  PROVE  Typed'
<1>1. /\ test' = test /\ down' = down /\ UNCHANGED serverVars /\ seen' = seen + 1
      /\ seen < Len(arrived)
      /\ UNCHANGED <<written, ended, timer, arrived, eof, respEnded>>
      /\ \/ Abort(CANCELLED)
         \/ /\ failure' \in {failure, "assertion"}
            /\ UNCHANGED <<stream, status, cut, up, cancelHeard, done>>
  BY DEF DataEvent
<1>2. ServerTyped' /\ UpFrame' = UpFrame /\ DownFrame' = DownFrame
  BY <1>1, ServerTypedFrame, SameFrames DEF Typed
<1>3. seen + 1 \in 0..Len(arrived)
  <2>1. seen \in 0..Len(arrived) /\ Len(arrived) \in Nat
    BY LenProperties DEF Typed, ClientTyped, ClientFlags, ClientData
  <2> QED
    BY <1>1, <2>1
<1>4. CASE Abort(CANCELLED)
  <2>1. /\ stream' = "null" /\ status' \in Codes /\ cut' = TRUE
        /\ up' \in Seq(UpFrame)
        /\ cancelHeard' = TRUE /\ done' \in BOOLEAN
        /\ failure' \in {"none", "assertion", "unheard error"}
    BY <1>4, AbortType, CodeFacts
  <2>2. ClientTyped'
    <3>1. ClientFlags'
      BY <1>1, <1>3, <2>1 DEF Typed, ClientTyped, ClientFlags
    <3>2. ClientData'
      BY <1>1, <1>3, <2>1 DEF Typed, ClientTyped, ClientData
    <3> QED
      BY <3>1, <3>2 DEF ClientTyped
  <2> QED
    BY <1>1, <1>2, <2>1, <2>2 DEF Typed
<1>5. CASE /\ failure' \in {failure, "assertion"}
           /\ UNCHANGED <<stream, status, cut, up, cancelHeard, done>>
  <2>1. ClientTyped'
    <3>1. ClientFlags'
      <4>1. failure' \in {"none", "assertion", "unheard error"}
        BY <1>5 DEF Typed, ClientTyped, ClientFlags
      <4> QED
        BY <1>1, <1>5, <4>1 DEF Typed, ClientTyped, ClientFlags
    <3>2. ClientData'
      BY <1>1, <1>3, <1>5 DEF Typed, ClientTyped, ClientData
    <3> QED
      BY <3>1, <3>2 DEF ClientTyped
  <2> QED
    BY <1>1, <1>2, <1>5, <2>1 DEF Typed
<1> QED
  BY <1>1, <1>4, <1>5

LEMMA TypedEndEvent ==
  ASSUME Typed, EndEvent
  PROVE  Typed'
<1>1. /\ test' = test /\ up' = up /\ down' = down /\ UNCHANGED serverVars
      /\ respEnded' = TRUE /\ done' \in {done, TRUE} /\ failure' \in {failure, "assertion"}
      /\ UNCHANGED <<stream, written, ended, timer, arrived, eof, cut, seen, status, cancelHeard>>
  BY DEF EndEvent
<1>2. ServerTyped' /\ UpFrame' = UpFrame /\ DownFrame' = DownFrame
  BY <1>1, ServerTypedFrame, SameFrames DEF Typed
<1>3. ClientTyped'
  <2>1. ClientFlags'
    BY <1>1, ZenonT(40) DEF Typed, ClientTyped, ClientFlags
  <2>2. ClientData'
    BY <1>1 DEF Typed, ClientTyped, ClientData
  <2> QED
    BY <2>1, <2>2 DEF ClientTyped
<1> QED
  BY <1>1, <1>2, <1>3 DEF Typed

LEMMA TypedServerHeaders ==
  ASSUME Typed, ServerHeaders
  PROVE  Typed'
<1>1. /\ test' = test /\ UNCHANGED clientVars /\ down' = down
      /\ up # <<>> /\ up' = Tail(up)
      /\ handling' = TRUE /\ serverTimer' \in {"off", "armed", "fired"}
      /\ UNCHANGED <<total, headersSent, endCalled, encoded, rpcCode, finished, closed>>
  BY DEF ServerHeaders
<1>2. ClientTyped' /\ UpFrame' = UpFrame /\ DownFrame' = DownFrame
  BY <1>1, ClientTypedFrame, SameFrames DEF Typed
<1>3. up' \in Seq(UpFrame)
  BY <1>1, HeadTailProperties DEF Typed
<1>4. ServerTyped'
  BY <1>1 DEF Typed, ServerTyped
<1> QED
  BY <1>1, <1>2, <1>3, <1>4 DEF Typed

LEMMA TypedServerData ==
  ASSUME Typed, ServerData
  PROVE  Typed'
<1> DEFINE x == Head(up).body
           r == OnData(test.method, x)
<1>1. /\ test' = test /\ UNCHANGED clientVars
      /\ up # <<>> /\ up' = Tail(up) /\ Head(up).type = "DATA" /\ React(r)
      /\ total' = IF test.method \in Summing THEN total + x ELSE total
      /\ UNCHANGED <<handling, serverTimer, closed>>
  BY DEF ServerData
<1>2. ClientTyped' /\ UpFrame' = UpFrame /\ DownFrame' = DownFrame
  BY <1>1, ClientTypedFrame, SameFrames DEF Typed
<1>3. up' \in Seq(UpFrame) /\ Head(up) \in UpFrame
  BY <1>1, HeadTailProperties DEF Typed
<1>4. x \in Message(test.method)
  BY <1>1, <1>3, FrameParts
<1> HIDE DEF x
<1>5. /\ r.writes \in Seq(Reply(test.method)) /\ r.ends \in BOOLEAN
      /\ r.code \in {None, INVALID_ARGUMENT}
  BY <1>4, TestFacts, OnDataType
<1>6. test.method \in Summing => x \in Nat
  BY <1>4, SummerFacts
<1>7. total' \in Nat
  BY <1>1, <1>6 DEF Typed, ServerTyped
<1> HIDE DEF r
<1>8. /\ rpcCode' \in Codes \cup {None} /\ down' \in Seq(DownFrame)
      /\ encoded' \in Seq(Reply(test.method))
      /\ finished' \in BOOLEAN /\ headersSent' \in BOOLEAN /\ endCalled' \in BOOLEAN
  BY <1>1, <1>5, ReactType
<1>9. ServerTyped'
  BY <1>1, <1>7, <1>8 DEF Typed, ServerTyped
<1> QED
  BY <1>1, <1>2, <1>3, <1>8, <1>9 DEF Typed

LEMMA TypedServerEnd ==
  ASSUME Typed, ServerEnd
  PROVE  Typed'
<1> DEFINE r == OnEnd(test.method, total)
<1>1. /\ test' = test /\ UNCHANGED clientVars
      /\ up # <<>> /\ up' = Tail(up) /\ React(r)
      /\ UNCHANGED <<total, handling, serverTimer, closed>>
  BY DEF ServerEnd
<1>2. ClientTyped' /\ UpFrame' = UpFrame /\ DownFrame' = DownFrame
  BY <1>1, ClientTypedFrame, SameFrames DEF Typed
<1>3. up' \in Seq(UpFrame)
  BY <1>1, HeadTailProperties DEF Typed
<1>4. total \in Nat
  BY DEF Typed, ServerTyped
<1>5. /\ r.writes \in Seq(Reply(test.method)) /\ r.ends \in BOOLEAN
      /\ r.code \in {None, INVALID_ARGUMENT}
  BY <1>4, TestFacts, OnEndFacts
<1> HIDE DEF r
<1>8. /\ rpcCode' \in Codes \cup {None} /\ down' \in Seq(DownFrame)
      /\ encoded' \in Seq(Reply(test.method))
      /\ finished' \in BOOLEAN /\ headersSent' \in BOOLEAN /\ endCalled' \in BOOLEAN
  BY <1>1, <1>5, ReactType
<1>9. ServerTyped'
  BY <1>1, <1>8 DEF Typed, ServerTyped
<1> QED
  BY <1>1, <1>2, <1>3, <1>8, <1>9 DEF Typed

LEMMA TypedServerReset ==
  ASSUME Typed, ServerReset
  PROVE  Typed'
<1>1. /\ test' = test /\ UNCHANGED clientVars /\ down' = down /\ up' = <<>> /\ closed' = TRUE
      /\ UNCHANGED <<handling, total, serverTimer, headersSent, endCalled, encoded, rpcCode, finished>>
  BY DEF ServerReset
<1>2. ClientTyped' /\ UpFrame' = UpFrame /\ DownFrame' = DownFrame
  BY <1>1, ClientTypedFrame, SameFrames DEF Typed
<1>3. up' \in Seq(UpFrame)
  BY <1>1
<1>4. ServerTyped'
  BY <1>1 DEF Typed, ServerTyped
<1> QED
  BY <1>1, <1>2, <1>3, <1>4 DEF Typed

LEMMA TypedPipeEncoded ==
  ASSUME Typed, PipeEncoded
  PROVE  Typed'
<1>1. /\ test' = test /\ UNCHANGED clientVars /\ up' = up
      /\ encoded # <<>> /\ encoded' = Tail(encoded)
      /\ down' = Append(down, Frame("DATA", Head(encoded)))
      /\ UNCHANGED <<handling, total, serverTimer, headersSent, endCalled, rpcCode, finished, closed>>
  BY DEF PipeEncoded
<1>2. ClientTyped' /\ UpFrame' = UpFrame /\ DownFrame' = DownFrame
  BY <1>1, ClientTypedFrame, SameFrames DEF Typed
<1>3. encoded' \in Seq(Reply(test.method)) /\ Head(encoded) \in Reply(test.method)
  BY <1>1, HeadTailProperties DEF Typed, ServerTyped
<1>4. down' \in Seq(DownFrame)
  BY <1>1, <1>3, FrameTypes, AppendProperties DEF Typed
<1>5. ServerTyped'
  BY <1>1, <1>3 DEF Typed, ServerTyped
<1> QED
  BY <1>1, <1>2, <1>4, <1>5 DEF Typed

LEMMA TypedServerFinish ==
  ASSUME Typed, ServerFinish
  PROVE  Typed'
<1>1. /\ test' = test /\ UNCHANGED clientVars /\ up' = up
      /\ finished' = TRUE /\ encoded' = <<>> /\ down' = down \o Trailers(rpcCode)
      /\ UNCHANGED <<handling, total, serverTimer, headersSent, endCalled, rpcCode, closed>>
  BY DEF ServerFinish
<1>2. ClientTyped' /\ UpFrame' = UpFrame /\ DownFrame' = DownFrame
  BY <1>1, ClientTypedFrame, SameFrames DEF Typed
<1>3. rpcCode \in Codes \cup {None}
  BY DEF Typed, ServerTyped
<1>4. down' \in Seq(DownFrame)
  BY <1>1, <1>3, TrailersType, ConcatProperties DEF Typed
<1>5. ServerTyped'
  BY <1>1 DEF Typed, ServerTyped
<1> QED
  BY <1>1, <1>2, <1>4, <1>5 DEF Typed

LEMMA TypedServerTimerFires ==
  ASSUME Typed, ServerTimerFires
  PROVE  Typed'
<1>1. /\ test' = test /\ UNCHANGED clientVars /\ up' = up
      /\ serverTimer' = "fired" /\ rpcCode' = DEADLINE_EXCEEDED
      /\ headersSent' \in {headersSent, TRUE} /\ endCalled' \in {endCalled, TRUE}
      /\ down' \in {down, down \o Headers}
      /\ UNCHANGED <<handling, total, encoded, finished, closed>>
  BY DEF ServerTimerFires
<1>2. ClientTyped' /\ UpFrame' = UpFrame /\ DownFrame' = DownFrame
  BY <1>1, ClientTypedFrame, SameFrames DEF Typed
<1>3. down' \in Seq(DownFrame)
  BY <1>1, HeadersType, ConcatProperties DEF Typed
<1>4. ServerTyped'
  BY <1>1, CodeFacts DEF Typed, ServerTyped
<1> QED
  BY <1>1, <1>2, <1>3, <1>4 DEF Typed

(* Every step keeps the types. *)
LEMMA TypedStep ==
  ASSUME Typed, [Next]_vars
  PROVE  Typed'
<1>1. CASE ClientStep
  BY <1>1, TypedStart, TypedWriteNext, TypedEndRequest, TypedTimerFires, TypedReceive,
     TypedDataEvent, TypedEndEvent DEF ClientStep
<1>2. CASE ServerStep
  BY <1>2, TypedServerHeaders, TypedServerData, TypedServerEnd, TypedServerReset,
     TypedPipeEncoded, TypedServerFinish, TypedServerTimerFires DEF ServerStep
<1>3. CASE UNCHANGED vars
  <2>1. /\ test' = test /\ up' = up /\ down' = down /\ UNCHANGED clientVars
        /\ UNCHANGED serverVars
    BY <1>3 DEF vars
  <2>2. ClientTyped' /\ ServerTyped' /\ UpFrame' = UpFrame /\ DownFrame' = DownFrame
    BY <2>1, ClientTypedFrame, ServerTypedFrame, SameFrames DEF Typed
  <2> QED
    BY <2>1, <2>2 DEF Typed
<1> QED
  BY <1>1, <1>2, <1>3 DEF Next

(* No step changes which test runs, or whether the streams may push back. *)
LEMMA SameCall ==
  ASSUME [Next]_vars
  PROVE  test' = test /\ congested' = congested
<1> QED
  BY DEF Next, ClientStep, ServerStep, vars, Start, WriteNext, EndRequest, TimerFires, Receive,
         DataEvent, EndEvent, ServerHeaders, ServerData, ServerEnd, ServerReset, PipeEncoded,
         ServerFinish, ServerTimerFires

(* TypeOK, as TLC checks it, follows. *)
LEMMA TypedIsTypeOK ==
  ASSUME Typed, congested \in BOOLEAN
  PROVE  TypeOK
<1>1. \A i \in DOMAIN up : FrameOK(up[i], {"HEADERS", "DATA", "END", "RST"})
  <2>1. \A i \in DOMAIN up : up[i] \in UpFrame
    BY DEF Typed
  <2>2. \A i \in DOMAIN up : up[i].type \in {"HEADERS", "DATA", "END", "RST"}
    BY <2>1, FrameParts
  <2> QED
    BY <2>2 DEF FrameOK
<1>2. \A i \in DOMAIN down : FrameOK(down[i], {"HEADERS", "DATA", "TRAILERS", "END"})
  <2>1. \A i \in DOMAIN down : down[i] \in DownFrame
    BY DEF Typed
  <2> QED
    BY <2>1, FrameParts DEF FrameOK
<1> QED
  <2>1. /\ {timer, serverTimer} \subseteq {"off", "armed", "fired"}
        /\ {status, rpcCode} \subseteq Codes \cup {None}
    BY DEF Typed, ClientTyped, ClientFlags, ClientData, ServerTyped
  <2>3. {ended, eof, cut, respEnded, cancelHeard, done} \subseteq BOOLEAN
    <3>1. /\ ended \in BOOLEAN /\ eof \in BOOLEAN /\ cut \in BOOLEAN /\ respEnded \in BOOLEAN
          /\ cancelHeard \in BOOLEAN /\ done \in BOOLEAN
      BY DEF Typed, ClientTyped, ClientFlags, ClientData
    <3> QED
      BY <3>1, Zenon
  <2>4. {handling, headersSent, endCalled, finished, closed} \subseteq BOOLEAN
    <3>1. /\ handling \in BOOLEAN /\ headersSent \in BOOLEAN /\ endCalled \in BOOLEAN
          /\ finished \in BOOLEAN /\ closed \in BOOLEAN
      BY DEF Typed, ServerTyped
    <3> QED
      BY <3>1, Zenon
  <2>2. /\ test \in Tests /\ stream \in {"none", "live", "null"}
        /\ written \in 0..Len(test.sends) /\ seen \in 0..Len(arrived)
        /\ failure \in {"none", "assertion", "unheard error"} /\ total \in Nat
    BY DEF Typed, ClientTyped, ClientFlags, ClientData, ServerTyped
  <2> QED
    BY <1>1, <1>2, <2>1, <2>2, <2>3, <2>4 DEF TypeOK

(* The types of TypeOK hold whatever the tests: both sides only ever send     *)
(* frames of their kind (BufferEncoder and trailers, codec.js and server.js), *)
(* with the status codes that the handlers, the deadlines and abort set, and  *)
(* no test is given more responses than arrived.                              *)
THEOREM TypeCorrect == Spec => []TypeOK
<1>1. Init => Typed /\ congested \in BOOLEAN
  BY TypedInit DEF Init
<1>2. Typed /\ congested \in BOOLEAN /\ [Next]_vars => (Typed /\ congested \in BOOLEAN)'
  BY TypedStep, SameCall
<1>3. Typed /\ congested \in BOOLEAN => TypeOK
  BY TypedIsTypeOK
<1> QED
  BY <1>1, <1>2, <1>3, PTL DEF Spec

-----------------------------------------------------------------------------
(* The stream and its end *)

(* A stream is dropped only by a cancellation or a deadline: at the start,  *)
(* by the client's steps, and by the server's.                              *)
LEMMA DroppingInit ==
  ASSUME Init
  PROVE  Dropping
<1> QED
  BY DEF Init, Dropping, Dropped, Fresh

LEMMA DroppingClient ==
  ASSUME Typed, Dropping, ClientStep
  PROVE  Dropping' /\ stream' # "none" /\ (stream = "none" => Start)
<1> USE DEF Dropped
<1>0. Dropped /\ (stream = "none" => Fresh)
  BY DEF Dropping
<1>1. CASE Start
  <2>1. /\ stream = "none" /\ test' = test /\ UNCHANGED <<arrived, eof, seen, serverTimer>>
        /\ timer' = IF test.timed THEN "armed" ELSE "off"
        /\ \/ test.cancel = "begin" /\ stream' = "null" /\ CancelEvent(CANCELLED)
           \/ test.cancel # "begin" /\ stream' = "live" /\ cut' = cut
    BY <1>1 DEF Start, serverVars
  <2>2. CancelEvent(CANCELLED) => cancelHeard' = TRUE
    BY DEF CancelEvent
  <2>3. ~cut /\ arrived = <<>> /\ ~eof /\ seen = 0 /\ serverTimer = "off"
    BY <1>0, <2>1 DEF Fresh
  <2>4. Dropped' /\ stream' # "none"
    BY <2>1, <2>2, <2>3
  <2> QED
    BY <1>1, <2>4 DEF Dropping
<1>2. CASE WriteNext \/ EndRequest
  <2>1. /\ stream = "live" /\ test' = test
        /\ UNCHANGED <<stream, timer, arrived, eof, cut, seen, cancelHeard, serverTimer>>
    BY <1>2 DEF WriteNext, EndRequest, serverVars
  <2>2. Dropped'
    BY <1>0, <2>1
  <2> QED
    BY <2>1, <2>2 DEF Dropping
<1>3. CASE TimerFires
  <2>1. /\ timer = "armed" /\ timer' = "fired" /\ test' = test
        /\ UNCHANGED <<arrived, eof, seen, serverTimer>>
        /\ \/ stream' = "null" /\ cut' = TRUE /\ cancelHeard' = TRUE
           \/ stream # "live" /\ UNCHANGED <<stream, cut, cancelHeard>>
    BY <1>3 DEF TimerFires, Abort, CancelEvent, serverVars
  <2>2. stream # "none"
    BY <1>0, <2>1 DEF Fresh
  <2>3. Dropped' /\ stream' # "none"
    BY <1>0, <2>1, <2>2
  <2> QED
    BY <2>2, <2>3 DEF Dropping
<1>4. CASE Receive
  <2>1. /\ down # <<>> /\ test' = test
        /\ UNCHANGED <<stream, timer, cut, seen, cancelHeard, serverTimer>>
        /\ stream = "null" => UNCHANGED <<arrived, eof>>
    BY <1>4 DEF Receive, serverVars
  <2>2. stream # "none"
    BY <1>0, <2>1 DEF Fresh
  <2>3. Dropped'
    <3>1. stream \in {"none", "live", "null"}
      BY DEF Typed, ClientTyped, ClientFlags, ClientData
    <3>2. test.cancel = "begin" => stream = "null"
      BY <1>0, <2>2, <3>1
    <3>3. test.cancel = "begin" => arrived' = <<>> /\ ~eof'
      BY <1>0, <2>1, <3>2
    <3> QED
      BY <1>0, <2>1, <3>3
  <2> QED
    BY <2>1, <2>2, <2>3 DEF Dropping
<1>5. CASE DataEvent
  <2>1. /\ ~cut /\ seen < Len(arrived) /\ test' = test
        /\ UNCHANGED <<timer, arrived, eof, serverTimer>>
        /\ \/ test.cancel = "first" /\ stream' = "null" /\ cut' = TRUE /\ cancelHeard' = TRUE
           \/ test.cancel # "first" /\ UNCHANGED <<stream, cut, cancelHeard>>
    BY <1>5 DEF DataEvent, Abort, CancelEvent, serverVars
  <2>2. arrived # <<>>
    <3>1. seen \in 0..Len(arrived) /\ arrived \in Seq(Reply(test.method))
      BY DEF Typed, ClientTyped, ClientFlags, ClientData
    <3>2. arrived = <<>> => Len(arrived) = 0
      OBVIOUS
    <3> QED
      BY <2>1, <3>1, <3>2
  <2>3. stream # "none" /\ test.cancel # "begin"
    BY <1>0, <2>2 DEF Fresh
  <2>4. Dropped' /\ stream' # "none"
    BY <1>0, <2>1, <2>3
  <2> QED
    BY <2>3, <2>4 DEF Dropping
<1>6. CASE EndEvent
  <2>1. /\ cut \/ eof
        /\ test' = test
        /\ UNCHANGED <<stream, timer, arrived, eof, cut, seen, cancelHeard, serverTimer>>
    BY <1>6 DEF EndEvent, serverVars
  <2>2. stream # "none"
    BY <1>0, <1>6 DEF EndEvent, Fresh
  <2>3. test' = test
    BY <1>6 DEF EndEvent
  <2>4. Dropped'
    BY <1>0, <2>1, <2>3
  <2> QED
    BY <2>1, <2>2, <2>4 DEF Dropping
<1> QED
  BY <1>1, <1>2, <1>3, <1>4, <1>5, <1>6 DEF ClientStep

LEMMA DroppingServer ==
  ASSUME Typed, Dropping, ServerStep
  PROVE  Dropping' /\ stream # "none" /\ UNCHANGED <<test, congested, clientVars>>
<1> USE DEF Dropped
<1>0. Dropped /\ (stream = "none" => Fresh)
  BY DEF Dropping
<1>1. UNCHANGED <<test, congested, clientVars>> /\ (serverTimer' # "off" => serverTimer # "off" \/ test.timed)
  BY DEF ServerStep, ServerHeaders, ServerData, ServerEnd, ServerReset, PipeEncoded,
         ServerFinish, ServerTimerFires
<1>2. stream # "none"
  <2>1. \/ up # <<>> \/ encoded # <<>> \/ endCalled \/ serverTimer # "off" \/ handling
    BY DEF ServerStep, ServerHeaders, ServerData, ServerEnd, ServerReset, PipeEncoded,
           ServerFinish, ServerTimerFires, FinishReady
  <2> QED
    BY <1>0, <2>1 DEF Fresh
<1>3. Dropped'
  BY <1>0, <1>1 DEF clientVars
<1> QED
  BY <1>1, <1>2, <1>3 DEF Dropping, clientVars

LEMMA DroppingStep ==
  ASSUME Typed, Dropping, [Next]_vars
  PROVE  Dropping'
<1>1. CASE UNCHANGED vars
  BY <1>1 DEF vars, clientVars, serverVars, Dropping, Dropped, Fresh
<1> QED
  BY <1>1, DroppingClient, DroppingServer DEF Next

-----------------------------------------------------------------------------
(* The frames to the server, and the handler *)

(* The first messages of the test, as the lemmas about methods need them. *)
LEMMA FirstFacts ==
  ASSUME Typed
  PROVE  /\ First(0) = <<>> /\ First(Len(test.sends)) = test.sends
         /\ \A p \in 0..Len(test.sends) :
              /\ First(p) \in Seq(Message(test.method))
              /\ \A e \in BOOLEAN : OwedFor(p, e) \in Seq(Reply(test.method))
         /\ \A p \in 0..Len(test.sends) : p + 1 <= Len(test.sends) =>
              /\ First(p + 1) = Append(First(p), test.sends[p + 1])
              /\ test.sends[p + 1] \in Message(test.method)
<1>1. test.sends \in Seq(Message(test.method)) /\ test.method \in Methods
  BY TestFacts
<1> QED
  BY <1>1, PrefixFacts, OwedWholeType DEF First, OwedFor

(* The variables that Upward, Handler and Downward depend on. *)
LEMMA UpwardFrame ==
  ASSUME NEW p, NEW e, Upward(p, e), UNCHANGED <<test, congested, written, ended, handling, up>>
  PROVE  Upward(p, e)'
<1> QED
  BY DEF Upward

LEMMA HandlerFrame ==
  ASSUME NEW p, NEW e, Handler(p, e), UNCHANGED <<test, congested, handling, total, endCalled, rpcCode, closed>>
  PROVE  Handler(p, e)'
<1> QED
  BY DEF Handler, First, NoMoreFor, StatusFor, OverrunBy

LEMMA DownwardFrame ==
  ASSUME NEW p, NEW e, NEW k, NEW n, NEW m, Downward(p, e, k, n, m),
         UNCHANGED <<test, congested, arrived, eof, status, down, headersSent, endCalled, encoded, finished>>
  PROVE  Downward(p, e, k, n, m)'
<1> QED
  BY DEF Downward, Justified, First, OwedFor, NoMoreFor, StatusFor, OverrunBy

(* The frames to the server after each action of the client that adds to    *)
(* them.                                                                    *)
LEMMA UpwardStart ==
  ASSUME Typed, Fresh, Start, test.cancel # "begin"
  PROVE  Upward(0, FALSE)'
<1>1. /\ test' = test /\ congested' = congested /\ written' = 0 /\ ended' = FALSE /\ handling' = FALSE
      /\ up' = <<Frame("HEADERS", None)>>
  BY DEF Start, Fresh, serverVars, Typed, ClientTyped, ClientFlags, ClientData, ServerTyped
<1>2. Len(up') = 1 /\ DOMAIN up' = 1..1 /\ up'[1] = Frame("HEADERS", None)
  BY <1>1
<1> QED
  BY <1>1, <1>2 DEF Upward

LEMMA UpwardWriteNext ==
  ASSUME Typed, WriteNext, NEW p, NEW e, Upward(p, e)
  PROVE  Upward(p, e)'
<1> DEFINE f == Frame("DATA", test.sends[written + 1])
           h == IF handling THEN 0 ELSE 1
<1>1. /\ test' = test /\ congested' = congested /\ ended' = ended /\ handling' = handling
      /\ written < Released /\ written' = written + 1
      /\ up' = Append(up, f)
  BY DEF WriteNext, serverVars
<1>2. /\ written \in 0..Len(test.sends) /\ seen \in 0..Len(arrived) /\ up \in Seq(UpFrame)
      /\ Len(test.sends) \in Nat /\ Len(arrived) \in Nat
  BY TestFacts, LenProperties DEF Typed, ClientTyped, ClientFlags, ClientData
<1>3. written < Len(test.sends)
  BY <1>1, <1>2 DEF Released
<1>4. ~ended /\ ~e /\ p \in 0..written /\ e \in BOOLEAN
  BY DEF Upward, WriteNext
<1>5. /\ Len(up) = h + (written - p)
      /\ \A i \in DOMAIN up :
           up[i] = IF i <= h THEN Frame("HEADERS", None)
                   ELSE IF i <= h + (written - p) THEN Frame("DATA", test.sends[p + (i - h)])
                   ELSE Frame("END", None)
  <2>1. Len(up) = h + (written - p) + 0
    BY <1>4 DEF Upward
  <2>2. Len(up) = h + (written - p)
    BY <2>1, <1>2, <1>4
  <2> QED
    BY <2>2 DEF Upward
<1>13. Len(up) = h + (written - p)
  BY <1>5
<1>6. h \in 0..1
  OBVIOUS
<1>7. f \in UpFrame
  BY <1>2, <1>3, TestFacts, FrameTypes
<1> HIDE DEF f
<1>8. /\ Len(up') = Len(up) + 1 /\ DOMAIN up' = 1..Len(up) + 1 /\ DOMAIN up = 1..Len(up)
      /\ up'[Len(up) + 1] = f /\ \A i \in 1..Len(up) : up'[i] = up[i]
  BY <1>1, <1>2, <1>7, AppendFacts
<1>9. (IF handling THEN 0 ELSE 1)' = h
  BY <1>1
<1> HIDE DEF h
<1>10. Len(up') = h + (written' - p)
  BY <1>1, <1>2, <1>4, <1>5, <1>6, <1>8
<1>11. ASSUME NEW i \in DOMAIN up'
       PROVE  up'[i] = IF i <= h THEN Frame("HEADERS", None)
                       ELSE IF i <= h + (written' - p) THEN Frame("DATA", test.sends[p + (i - h)])
                       ELSE Frame("END", None)
  <2>1. CASE i \in 1..Len(up)
    <3>1. up'[i] = up[i] /\ i \in DOMAIN up
      BY <2>1, <1>8
    <3>2. i <= h + (written - p) /\ i <= h + (written' - p)
      BY <2>1, <1>1, <1>2, <1>4, <1>13, <1>6
    <3> QED
      BY <3>1, <3>2, <1>5
  <2>2. CASE i = Len(up) + 1
    <3>1. p + (i - h) = written + 1 /\ ~(i <= h) /\ i <= h + (written' - p)
      BY <2>2, <1>1, <1>2, <1>4, <1>13, <1>6
    <3> QED
      BY <3>1, <2>2, <1>8 DEF f
  <2> QED
    BY <2>1, <2>2, <1>2, <1>8
<1>12. p \in 0..written' /\ ~ended'
  BY <1>1, <1>2, <1>4
<1> QED
  BY <1>1, <1>4, <1>9, <1>10, <1>11, <1>12 DEF Upward

LEMMA UpwardEndRequest ==
  ASSUME Typed, EndRequest, NEW p, NEW e, Upward(p, e)
  PROVE  Upward(p, e)'
<1> DEFINE f == Frame("END", None)
           h == IF handling THEN 0 ELSE 1
<1>1. /\ test' = test /\ congested' = congested /\ ~ended /\ ended' = TRUE /\ handling' = handling
      /\ congested \/ written = Len(test.sends)
      /\ written' = written /\ up' = Append(up, f)
  BY DEF EndRequest, serverVars
<1>2. written \in Nat /\ up \in Seq(UpFrame)
  <2>1. written \in 0..Len(test.sends) /\ up \in Seq(UpFrame)
    BY DEF Typed, ClientTyped, ClientFlags, ClientData
  <2> QED
    BY <2>1
<1>4. ~e /\ p \in 0..written /\ e \in BOOLEAN
  BY <1>1 DEF Upward
<1>5. /\ Len(up) = h + (written - p)
      /\ \A i \in DOMAIN up :
           up[i] = IF i <= h THEN Frame("HEADERS", None)
                   ELSE IF i <= h + (written - p) THEN Frame("DATA", test.sends[p + (i - h)])
                   ELSE Frame("END", None)
  <2>1. Len(up) = h + (written - p) + 0
    BY <1>1, <1>4 DEF Upward
  <2>2. Len(up) = h + (written - p)
    BY <2>1, <1>2, <1>4
  <2> QED
    BY <2>2 DEF Upward
<1>13. Len(up) = h + (written - p)
  BY <1>5
<1>6. h \in 0..1
  OBVIOUS
<1>7. f \in UpFrame
  BY FrameTypes
<1> HIDE DEF f
<1>8. /\ Len(up') = Len(up) + 1 /\ DOMAIN up' = 1..Len(up) + 1 /\ DOMAIN up = 1..Len(up)
      /\ up'[Len(up) + 1] = f /\ \A i \in 1..Len(up) : up'[i] = up[i]
  BY <1>1, <1>2, <1>7, AppendFacts
<1>9. (IF handling THEN 0 ELSE 1)' = h
  BY <1>1
<1> HIDE DEF h
<1>10. Len(up') = h + (written' - p) + 1
  BY <1>1, <1>2, <1>4, <1>5, <1>6, <1>8
<1>11. ASSUME NEW i \in DOMAIN up'
       PROVE  up'[i] = IF i <= h THEN Frame("HEADERS", None)
                       ELSE IF i <= h + (written' - p) THEN Frame("DATA", test.sends[p + (i - h)])
                       ELSE Frame("END", None)
  <2>1. CASE i \in 1..Len(up)
    <3>1. up'[i] = up[i] /\ i \in DOMAIN up
      BY <2>1, <1>8
    <3>2. i <= h + (written - p) /\ i <= h + (written' - p)
      BY <2>1, <1>1, <1>2, <1>4, <1>13, <1>6
    <3> QED
      BY <3>1, <3>2, <1>5
  <2>2. CASE i = Len(up) + 1
    <3>1. ~(i <= h) /\ ~(i <= h + (written' - p))
      BY <2>2, <1>1, <1>2, <1>4, <1>13, <1>6
    <3> QED
      BY <3>1, <2>2, <1>8 DEF f
  <2> QED
    BY <2>1, <2>2, <1>2, <1>8
<1> QED
  BY <1>1, <1>4, <1>9, <1>10, <1>11 DEF Upward

(* The frames to the server after each action of the server that takes one. *)
LEMMA UpwardServerHeaders ==
  ASSUME Typed, ServerHeaders, NEW p, NEW e, Upward(p, e), Handler(p, e)
  PROVE  Upward(p, e)' /\ Handler(p, e)'
<1>1. /\ test' = test /\ congested' = congested /\ ended' = ended /\ written' = written /\ ~handling /\ handling' = TRUE
      /\ up # <<>> /\ up' = Tail(up)
      /\ UNCHANGED <<total, endCalled, rpcCode, closed>>
  BY DEF ServerHeaders, clientVars
<1>2. /\ Len(up) \in Nat \ {0} /\ DOMAIN up' = 1..Len(up) - 1 /\ Len(up') = Len(up) - 1
      /\ DOMAIN up = 1..Len(up)
      /\ \A i \in 1..Len(up) - 1 : up'[i] = up[i + 1]
  BY <1>1, TailFacts DEF Typed
<1>3. p = 0 /\ ~e /\ written \in Nat
  <2>1. p = 0 /\ ~e
    BY <1>1 DEF Handler
  <2>2. written \in 0..Len(test.sends) /\ Len(test.sends) \in Nat
    BY TestFacts DEF Typed, ClientTyped, ClientFlags, ClientData
  <2> QED
    BY <2>1, <2>2
<1>4. /\ ended => congested \/ written = Len(test.sends)
      /\ e \in BOOLEAN /\ p \in 0..written
      /\ Len(up) = 1 + (written - p) + (IF ended /\ ~e THEN 1 ELSE 0)
      /\ \A i \in DOMAIN up :
           up[i] = IF i <= 1 THEN Frame("HEADERS", None)
                   ELSE IF i <= 1 + (written - p) THEN Frame("DATA", test.sends[p + (i - 1)])
                   ELSE Frame("END", None)
  BY <1>1 DEF Upward
<1>5. Len(up') = 0 + (written - p) + (IF ended /\ ~e THEN 1 ELSE 0)
  BY <1>2, <1>3, <1>4
<1>6. ASSUME NEW i \in DOMAIN up'
      PROVE  up'[i] = IF i <= 0 THEN Frame("HEADERS", None)
                      ELSE IF i <= 0 + (written - p) THEN Frame("DATA", test.sends[p + (i - 0)])
                      ELSE Frame("END", None)
  <2>1. /\ i \in 1..Len(up) - 1 /\ i + 1 \in DOMAIN up /\ ~(i + 1 <= 1) /\ ~(i <= 0)
        /\ (i + 1 <= 1 + (written - p) <=> i <= 0 + (written - p))
    BY <1>2, <1>3
  <2>2. p + ((i + 1) - 1) = p + (i - 0)
    BY <2>1, <1>2, <1>3
  <2>3. up'[i] = up[i + 1]
    BY <2>1, <1>2
  <2> QED
    BY <2>1, <2>2, <2>3, <1>4
<1>7. Upward(p, e)'
  BY <1>1, <1>3, <1>4, <1>5, <1>6 DEF Upward
<1>8. Handler(p, e)'
  BY <1>1 DEF Handler, First, NoMoreFor, StatusFor, OverrunBy
<1> QED
  BY <1>7, <1>8

(* The next frame is the message after those handled. *)
LEMMA UpwardServerData ==
  ASSUME Typed, ServerData, NEW p, NEW e, Upward(p, e)
  PROVE  /\ p \in 0..Len(test.sends) /\ p + 1 <= written /\ p + 1 <= Len(test.sends) /\ e = FALSE
         /\ Head(up).body = test.sends[p + 1] /\ Upward(p + 1, FALSE)'
<1>1. /\ test' = test /\ congested' = congested /\ ended' = ended /\ written' = written /\ handling /\ handling' = handling
      /\ up # <<>> /\ up' = Tail(up) /\ Head(up).type = "DATA"
  BY DEF ServerData, clientVars
<1>2. /\ Len(up) \in Nat \ {0} /\ DOMAIN up' = 1..Len(up) - 1 /\ Len(up') = Len(up) - 1
      /\ DOMAIN up = 1..Len(up) /\ Head(up) = up[1]
      /\ \A i \in 1..Len(up) - 1 : up'[i] = up[i + 1]
  BY <1>1, TailFacts DEF Typed
<1>3. written \in 0..Len(test.sends) /\ Len(test.sends) \in Nat
  BY TestFacts DEF Typed, ClientTyped, ClientFlags, ClientData
<1>4. /\ ended => congested \/ written = Len(test.sends)
      /\ e => ended /\ p = written
      /\ e \in BOOLEAN /\ p \in 0..written
      /\ Len(up) = 0 + (written - p) + (IF ended /\ ~e THEN 1 ELSE 0)
      /\ \A i \in DOMAIN up :
           up[i] = IF i <= 0 THEN Frame("HEADERS", None)
                   ELSE IF i <= 0 + (written - p) THEN Frame("DATA", test.sends[p + (i - 0)])
                   ELSE Frame("END", None)
  BY <1>1 DEF Upward
<1>5. 1 <= written - p /\ Head(up) = Frame("DATA", test.sends[p + 1])
  <2>1. /\ ~(1 <= 0) /\ 1 \in DOMAIN up /\ (1 <= 0 + (written - p) <=> 1 <= written - p)
        /\ p + (1 - 0) = p + 1
    BY <1>2, <1>3, <1>4
  <2>2. Head(up) = IF 1 <= written - p THEN Frame("DATA", test.sends[p + 1]) ELSE Frame("END", None)
    BY <1>2, <1>4, <2>1
  <2>3. Frame("END", None).type # "DATA"
    BY DEF Frame
  <2> QED
    BY <1>1, <2>2, <2>3
<1>6. Head(up).body = test.sends[p + 1]
  BY <1>5 DEF Frame
<1>7. ~e /\ p + 1 \in 0..written
  BY <1>3, <1>4, <1>5
<1>8. Len(up') = 0 + (written - (p + 1)) + (IF ended /\ ~FALSE THEN 1 ELSE 0)
  BY <1>2, <1>3, <1>4, <1>7
<1>9. ASSUME NEW i \in DOMAIN up'
      PROVE  up'[i] = IF i <= 0 THEN Frame("HEADERS", None)
                      ELSE IF i <= 0 + (written - (p + 1)) THEN Frame("DATA", test.sends[(p + 1) + (i - 0)])
                      ELSE Frame("END", None)
  <2>1. /\ i \in 1..Len(up) - 1 /\ i + 1 \in DOMAIN up /\ ~(i + 1 <= 0) /\ ~(i <= 0)
        /\ (i + 1 <= 0 + (written - p) <=> i <= 0 + (written - (p + 1)))
    BY <1>2, <1>3, <1>4
  <2>2. p + ((i + 1) - 0) = (p + 1) + (i - 0)
    BY <2>1, <1>2, <1>3, <1>4
  <2>3. up'[i] = up[i + 1]
    BY <2>1, <1>2
  <2> QED
    BY <2>1, <2>2, <2>3, <1>4
<1>10. Upward(p + 1, FALSE)'
  BY <1>1, <1>4, <1>7, <1>8, <1>9 DEF Upward
<1> QED
  <2>1. p \in 0..Len(test.sends) /\ p + 1 <= written /\ p + 1 <= Len(test.sends)
    BY <1>3, <1>4, <1>5
  <2>2. e = FALSE
    BY <1>4, <1>7
  <2> QED
    BY <2>1, <2>2, <1>6, <1>10

LEMMA UpwardServerEnd ==
  ASSUME Typed, ServerEnd, NEW p, NEW e, Upward(p, e)
  PROVE  /\ p = written /\ e = FALSE /\ p \in 0..Len(test.sends) /\ Upward(p, TRUE)'
<1>1. /\ test' = test /\ congested' = congested /\ ended' = ended /\ written' = written /\ handling /\ handling' = handling
      /\ up # <<>> /\ up' = Tail(up) /\ Head(up).type = "END"
  BY DEF ServerEnd, clientVars
<1>2. /\ Len(up) \in Nat \ {0} /\ DOMAIN up' = 1..Len(up) - 1 /\ Len(up') = Len(up) - 1
      /\ DOMAIN up = 1..Len(up) /\ Head(up) = up[1]
      /\ \A i \in 1..Len(up) - 1 : up'[i] = up[i + 1]
  BY <1>1, TailFacts DEF Typed
<1>3. written \in 0..Len(test.sends) /\ Len(test.sends) \in Nat
  BY TestFacts DEF Typed, ClientTyped, ClientFlags, ClientData
<1>4. /\ ended => congested \/ written = Len(test.sends)
      /\ e \in BOOLEAN /\ p \in 0..written
      /\ Len(up) = 0 + (written - p) + (IF ended /\ ~e THEN 1 ELSE 0)
      /\ \A i \in DOMAIN up :
           up[i] = IF i <= 0 THEN Frame("HEADERS", None)
                   ELSE IF i <= 0 + (written - p) THEN Frame("DATA", test.sends[p + (i - 0)])
                   ELSE Frame("END", None)
  BY <1>1 DEF Upward
<1>5. ~(1 <= written - p)
  <2>1. /\ ~(1 <= 0) /\ 1 \in DOMAIN up /\ (1 <= 0 + (written - p) <=> 1 <= written - p)
        /\ p + (1 - 0) = p + 1
    BY <1>2, <1>3, <1>4
  <2>2. Head(up) = IF 1 <= written - p THEN Frame("DATA", test.sends[p + 1]) ELSE Frame("END", None)
    BY <1>2, <1>4, <2>1
  <2>3. Frame("DATA", test.sends[p + 1]).type # "END"
    BY DEF Frame
  <2> QED
    BY <1>1, <2>2, <2>3
<1>6. p = written /\ ended /\ ~e
  BY <1>2, <1>3, <1>4, <1>5
<1>7. Len(up') = 0 + (written - p) + (IF ended /\ ~TRUE THEN 1 ELSE 0) /\ DOMAIN up' = {}
  BY <1>2, <1>3, <1>4, <1>6
<1>8. Upward(p, TRUE)'
  BY <1>1, <1>4, <1>6, <1>7 DEF Upward
<1> QED
  BY <1>3, <1>4, <1>6, <1>8

(* While the stream is live no reset is under way. *)
LEMMA NoReset ==
  ASSUME Typed, NEW p, NEW e, Upward(p, e)
  PROVE  \A i \in DOMAIN up : up[i].type # "RST"
<1> SUFFICES ASSUME NEW i \in DOMAIN up PROVE up[i].type # "RST"
  OBVIOUS
<1>1. \/ up[i] = Frame("HEADERS", None)
      \/ \E v : up[i] = Frame("DATA", v)
      \/ up[i] = Frame("END", None)
  BY DEF Upward
<1> QED
  BY <1>1 DEF Frame

-----------------------------------------------------------------------------
(* React, with its two ways. *)
Late(r) == endCalled /\ r.writes # <<>>

LEMMA ReactLate ==
  ASSUME NEW r, React(r), Late(r)
  PROVE  /\ rpcCode' = INTERNAL /\ finished' = TRUE /\ encoded' = <<>>
         /\ down' = IF finished THEN down ELSE down \o Trailers(INTERNAL)
         /\ headersSent' = headersSent /\ endCalled' = endCalled
<1> QED
  BY DEF React, Late

LEMMA ReactInTime ==
  ASSUME NEW r, React(r), ~Late(r)
  PROVE  /\ rpcCode' = IF r.code = None THEN rpcCode ELSE r.code
         /\ headersSent' = (headersSent \/ r.writes # <<>> \/ r.ends)
         /\ down' = IF headersSent' THEN down \o Headers ELSE down
         /\ encoded' = encoded \o r.writes
         /\ endCalled' = (endCalled \/ r.ends)
         /\ finished' = finished
<1> QED
  BY DEF React, Late

(* The handler after each of its actions. *)
LEMMA HandlerServerData ==
  ASSUME Typed, ServerData, NEW p \in 0..Len(test.sends), p + 1 <= Len(test.sends),
         Head(up).body = test.sends[p + 1], Handler(p, FALSE)
  PROVE  Handler(p + 1, FALSE)'
<1> DEFINE x == Head(up).body
           r == OnData(test.method, x)
           mm == test.method
           a == First(p)
           b == First(p + 1)
<1>1. /\ test' = test /\ congested' = congested /\ handling /\ handling' = handling /\ closed' = closed /\ React(r)
      /\ total' = IF mm \in Summing THEN total + x ELSE total
  BY DEF ServerData, clientVars
<1>2. mm \in Methods /\ a \in Seq(Message(mm)) /\ x \in Message(mm) /\ b = Append(a, x)
  BY TestFacts, FirstFacts
<1>3. /\ ~closed /\ (mm \in Summing => total = Sum(a))
      /\ IF endCalled
         THEN \/ OwesNoMore(mm, a, FALSE) /\ (IF rpcCode = None THEN OK ELSE rpcCode) = ProperStatus(mm, a)
              \/ rpcCode \in Failures /\ (test.timed \/ (rpcCode = INTERNAL /\ Overrun(mm, a)))
         ELSE rpcCode = None /\ ~OwesNoMore(mm, a, FALSE)
  BY DEF Handler, NoMoreFor, StatusFor, OverrunBy
<1>4. First(p + 1)' = b
  BY <1>1 DEF First
<1> HIDE DEF a, b, mm, x
<1>5. mm \in Summing => total' = Sum(b)
  <2> SUFFICES ASSUME mm \in Summing PROVE total' = Sum(b)
    OBVIOUS
  <2>1. Message(mm) = Nat
    BY <1>2, SummerFacts
  <2> QED
    BY <1>1, <1>2, <1>3, <2>1, SumOfAppend
<1>6. /\ OwesNoMore(mm, a, FALSE) =>
           /\ OwesNoMore(mm, b, FALSE) /\ ProperStatus(mm, b) = ProperStatus(mm, a)
           /\ r.writes # <<>> => Overrun(mm, b)
      /\ ~OwesNoMore(mm, a, FALSE) =>
           /\ OwesNoMore(mm, b, FALSE) <=> r.ends
           /\ ProperStatus(mm, b) = IF r.code = None THEN OK ELSE r.code
      /\ r.code # None => OwesNoMore(mm, b, FALSE) /\ ProperStatus(mm, b) = r.code
      /\ Overrun(mm, a) => Overrun(mm, b)
  BY <1>2, EndStep DEF mm
<1>7. r.ends \in BOOLEAN
  BY <1>2, OnDataType DEF mm
<1> HIDE DEF r
<1>8. IF endCalled'
      THEN \/ OwesNoMore(mm, b, FALSE) /\ (IF rpcCode' = None THEN OK ELSE rpcCode') = ProperStatus(mm, b)
           \/ rpcCode' \in Failures /\ (test.timed \/ (rpcCode' = INTERNAL /\ Overrun(mm, b)))
      ELSE rpcCode' = None /\ ~OwesNoMore(mm, b, FALSE)
  <2>1. CASE Late(r)
    <3>1. rpcCode' = INTERNAL /\ endCalled' = endCalled /\ endCalled /\ r.writes # <<>>
      BY <1>1, <2>1, ReactLate DEF Late
    <3>2. INTERNAL \in Failures
      BY DEF Failures
    <3> QED
      BY <3>1, <3>2, <1>3, <1>6
  <2>2. CASE ~Late(r) /\ endCalled
    <3>1. rpcCode' = IF r.code = None THEN rpcCode ELSE r.code
      BY <1>1, <2>2, ReactInTime
    <3>2. endCalled'
      BY <1>1, <2>2, ReactInTime
    <3>3. CASE r.code = None
      BY <1>3, <1>6, <2>2, <3>1, <3>2, <3>3
    <3>4. CASE r.code # None
      BY <1>6, <3>1, <3>2, <3>4
    <3> QED
      BY <3>3, <3>4
  <2>3. CASE ~Late(r) /\ ~endCalled
    <3>1. rpcCode' = IF r.code = None THEN rpcCode ELSE r.code
      BY <1>1, <2>3, ReactInTime
    <3>2. endCalled' <=> r.ends
      BY <1>1, <2>3, ReactInTime
    <3>3. rpcCode = None /\ ~OwesNoMore(mm, a, FALSE)
      BY <1>3, <2>3
    <3> QED
      BY <1>6, <3>1, <3>2, <3>3
  <2> QED
    BY <2>1, <2>2, <2>3
<1>9. test.method' = mm
  BY <1>1 DEF mm
<1> QED
  BY <1>1, <1>3, <1>4, <1>5, <1>8, <1>9 DEF Handler, NoMoreFor, StatusFor, OverrunBy, mm

LEMMA HandlerServerEnd ==
  ASSUME Typed, ServerEnd, NEW p \in 0..Len(test.sends), Handler(p, FALSE)
  PROVE  Handler(p, TRUE)'
<1> DEFINE r == OnEnd(test.method, total)
           mm == test.method
           a == First(p)
<1>1. /\ test' = test /\ congested' = congested /\ handling /\ handling' = handling /\ closed' = closed /\ React(r)
      /\ total' = total
  BY DEF ServerEnd, clientVars
<1>2. mm \in Methods /\ a \in Seq(Message(mm)) /\ total \in Nat
  BY TestFacts, FirstFacts DEF Typed, ServerTyped
<1>3. /\ ~closed /\ (mm \in Summing => total = Sum(a))
      /\ IF endCalled
         THEN \/ OwesNoMore(mm, a, FALSE) /\ (IF rpcCode = None THEN OK ELSE rpcCode) = ProperStatus(mm, a)
              \/ rpcCode \in Failures /\ (test.timed \/ (rpcCode = INTERNAL /\ Overrun(mm, a)))
         ELSE rpcCode = None /\ ~OwesNoMore(mm, a, FALSE)
  BY DEF Handler, NoMoreFor, StatusFor, OverrunBy
<1>4. First(p)' = a /\ test.method' = mm
  BY <1>1 DEF First
<1>5. OwesNoMore(mm, a, TRUE)
  BY DEF OwesNoMore
<1>6. /\ r.writes = IF mm \in Summing THEN <<total>> ELSE <<>>
      /\ r.ends <=> mm \notin AnswersFirst
      /\ r.code = None
  BY <1>2, OnEndFacts
<1>7. mm \in Summing => ~OwesNoMore(mm, a, FALSE)
  BY <1>2, OwedNoMore
<1>8. ~OwesNoMore(mm, a, FALSE) => ProperStatus(mm, a) = OK
  BY <1>2, StatusFacts
<1> HIDE DEF r, a, mm
<1>9. IF endCalled'
      THEN \/ OwesNoMore(mm, a, TRUE) /\ (IF rpcCode' = None THEN OK ELSE rpcCode') = ProperStatus(mm, a)
           \/ rpcCode' \in Failures /\ (test.timed \/ (rpcCode' = INTERNAL /\ Overrun(mm, a)))
      ELSE rpcCode' = None /\ ~OwesNoMore(mm, a, FALSE) /\ mm \in AnswersFirst
  <2>1. CASE Late(r)
    <3>1. rpcCode' = INTERNAL /\ endCalled' = endCalled /\ endCalled /\ mm \in Summing
      BY <1>1, <1>6, <2>1, ReactLate DEF Late
    <3>2. INTERNAL \in Failures
      BY DEF Failures
    <3> QED
      BY <3>1, <3>2, <1>3, <1>7
  <2>2. CASE ~Late(r) /\ endCalled
    <3>1. rpcCode' = rpcCode /\ endCalled'
      BY <1>1, <1>6, <2>2, ReactInTime
    <3> QED
      BY <1>3, <1>5, <2>2, <3>1
  <2>3. CASE ~Late(r) /\ ~endCalled
    <3>1. rpcCode' = None /\ (endCalled' <=> mm \notin AnswersFirst)
      BY <1>1, <1>3, <1>6, <2>3, ReactInTime
    <3> QED
      BY <1>3, <1>5, <1>8, <2>3, <3>1
  <2> QED
    BY <2>1, <2>2, <2>3
<1> QED
  BY <1>1, <1>3, <1>4, <1>9 DEF Handler, NoMoreFor, StatusFor, OverrunBy, mm

LEMMA HandlerServerTimerFires ==
  ASSUME Typed, Dropping, ServerTimerFires, NEW p, NEW e, Handler(p, e)
  PROVE  Handler(p, e)'
<1>1. /\ test' = test /\ congested' = congested /\ UNCHANGED <<handling, total, closed>> /\ rpcCode' = DEADLINE_EXCEEDED
      /\ serverTimer = "armed"
  BY DEF ServerTimerFires, clientVars
<1>2. ~closed /\ endCalled'
  BY DEF Handler, ServerTimerFires
<1>3. test.timed /\ rpcCode' \in Failures
  BY <1>1 DEF Dropping, Dropped, Failures
<1>4. ~closed' /\ (~handling' => p = 0 /\ ~e) /\ (test.method \in Summing => total' = Sum(First(p)))
  BY <1>1 DEF Handler
<1> QED
  BY <1>1, <1>2, <1>3, <1>4 DEF Handler, First

-----------------------------------------------------------------------------
(* The frames to the client *)

(* A failure that had its reason keeps it. *)
LEMMA JustifiedStable ==
  ASSUME Typed, NEW p \in 0..Len(test.sends), NEW q \in p..Len(test.sends),
         NEW e \in BOOLEAN, NEW w \in BOOLEAN, e => w /\ p = q,
         NEW c, NEW n, Justified(c, n, p, e)
  PROVE  Justified(c, n, q, w)
<1>1. test.method \in Methods /\ test.sends \in Seq(Message(test.method))
  BY TestFacts
<1>2. /\ NoMoreFor(p, e) => /\ NoMoreFor(q, w) /\ OwedFor(q, w) = OwedFor(p, e)
                            /\ StatusFor(q) = StatusFor(p)
      /\ OverrunBy(p) => OverrunBy(q)
  BY <1>1, AheadWhole DEF NoMoreFor, OwedFor, StatusFor, OverrunBy, First
<1> QED
  BY <1>2 DEF Justified

(* What is on the wire stays right when more is owed. *)
LEMMA OnWireGrows ==
  ASSUME NEW S, NEW T, NEW a \in Seq(S), NEW d \in Seq(T), NEW u \in Seq(S), NEW v \in Seq(S),
         Begins(u, v), NEW k \in 0..1, NEW n \in Nat, NEW m \in 0..2, OnWire(a, d, u, k, n, m)
  PROVE  OnWire(a, d, v, k, n, m)
<1>1. /\ Len(a) \in Nat /\ Len(u) \in Nat /\ Len(v) \in Nat /\ Len(a) + n <= Len(u)
      /\ Len(u) <= Len(v) /\ DOMAIN a = 1..Len(a)
      /\ \A i \in 1..Len(u) : v[i] = u[i]
  BY LenProperties DEF Begins, OnWire
<1>2. ASSUME NEW i \in DOMAIN a
      PROVE  a[i] = v[i]
  <2>1. i \in 1..Len(u) /\ a[i] = u[i]
    BY <1>1 DEF OnWire
  <2> QED
    BY <2>1, <1>1
<1>3. ASSUME NEW i \in 1..(k + n)
      PROVE  d[i] = IF i <= k THEN Frame("HEADERS", None)
                    ELSE Frame("DATA", v[Len(a) + (i - k)])
  <2>1. ~(i <= k) => Len(a) + (i - k) \in 1..Len(u)
    BY <1>1
  <2>2. ~(i <= k) => v[Len(a) + (i - k)] = u[Len(a) + (i - k)]
    BY <2>1, <1>1
  <2> QED
    BY <2>2 DEF OnWire
<1> QED
  BY <1>1, <1>2, <1>3 DEF OnWire

(* Frames that end a response, or its first headers, leave the others alone. *)
LEMMA OnWireConcat ==
  ASSUME NEW S, NEW T, NEW a \in Seq(S), NEW d \in Seq(T), NEW u \in Seq(S), NEW x \in Seq(T),
         NEW j \in 0..2, Len(x) = j, NEW k \in 0..1, NEW n \in Nat, OnWire(a, d, u, k, n, 0)
  PROVE  /\ OnWire(a, d \o x, u, k, n, j)
         /\ \A i \in 1..j : (d \o x)[k + n + i] = x[i]
<1>1. k + n \in Nat /\ Len(d) = k + n
  BY LenProperties DEF OnWire
<1>2. /\ Len(d \o x) = k + n + j
      /\ \A i \in 1..(k + n) : (d \o x)[i] = d[i]
      /\ \A i \in 1..j : (d \o x)[k + n + i] = x[i]
  <2>1. /\ Len(d \o x) = Len(d) + Len(x)
        /\ \A i \in 1..Len(d) : (d \o x)[i] = d[i]
        /\ \A i \in 1..Len(x) : (d \o x)[Len(d) + i] = x[i]
    BY ConcatEnd
  <2> QED
    BY <1>1, <2>1
<1> QED
  BY <1>2 DEF OnWire

(* The rest of a sequence goes on when the sequence does. *)
LEMMA RestConcat ==
  ASSUME NEW S, NEW s \in Seq(S), NEW u \in Seq(S), NEW r \in Seq(S), NEW x \in 0..Len(u),
         Rest(s, u, x)
  PROVE  Rest(s \o r, u \o r, x)
<1>0. /\ Len(s) \in Nat /\ Len(u) \in Nat /\ Len(r) \in Nat /\ Len(s) = Len(u) - x
      /\ DOMAIN s = 1..Len(s) /\ s \o r \in Seq(S)
  BY LenProperties, ConcatProperties DEF Rest
<1>1. /\ Len(s) \in Nat /\ Len(u) \in Nat /\ Len(r) \in Nat /\ Len(s) = Len(u) - x
      /\ Len(s \o r) = Len(s) + Len(r) /\ Len(u \o r) = Len(u) + Len(r)
      /\ DOMAIN s = 1..Len(s) /\ DOMAIN (s \o r) = 1..Len(s) + Len(r)
      /\ \A j \in 1..Len(s) + Len(r) : (s \o r)[j] = IF j <= Len(s) THEN s[j] ELSE r[j - Len(s)]
      /\ \A j \in 1..Len(u) + Len(r) : (u \o r)[j] = IF j <= Len(u) THEN u[j] ELSE r[j - Len(u)]
  BY <1>0, LenProperties, ConcatProperties
<1>2. ASSUME NEW j \in DOMAIN (s \o r)
      PROVE  (s \o r)[j] = (u \o r)[x + j]
  <2>1. j \in 1..Len(s) + Len(r) /\ x + j \in 1..Len(u) + Len(r)
    BY <1>1
  <2>2. CASE j <= Len(s)
    <3>1. s[j] = u[x + j] /\ x + j <= Len(u)
      BY <2>1, <2>2, <1>1 DEF Rest
    <3>2. (s \o r)[j] = s[j]
      BY <2>1, <2>2, <1>1
    <3>3. (u \o r)[x + j] = u[x + j]
      <4>1. \A i \in 1..Len(u) + Len(r) : (u \o r)[i] = IF i <= Len(u) THEN u[i] ELSE r[i - Len(u)]
        BY <1>1
      <4> QED
        BY <2>1, <3>1, <4>1
    <3> QED
      BY <3>1, <3>2, <3>3
  <2>3. CASE ~(j <= Len(s))
    <3>1. x + j - Len(u) = j - Len(s) /\ ~(x + j <= Len(u))
      BY <2>1, <2>3, <1>1
    <3>2. (s \o r)[j] = r[j - Len(s)]
      BY <2>1, <2>3, <1>1
    <3>3. (u \o r)[x + j] = r[x + j - Len(u)]
      <4>1. \A i \in 1..Len(u) + Len(r) : (u \o r)[i] = IF i <= Len(u) THEN u[i] ELSE r[i - Len(u)]
        BY <1>1
      <4> QED
        BY <2>1, <3>1, <4>1
    <3> QED
      BY <3>1, <3>2, <3>3
  <2> QED
    BY <2>2, <2>3
<1>3. Len(s \o r) = Len(u \o r) - x
  BY <1>1
<1> QED
  BY <1>2, <1>3 DEF Rest

(* The two frames that end a response. *)
LEMMA TrailersFacts ==
  ASSUME NEW c \in Codes \cup {None}
  PROVE  /\ Trailers(c) \in Seq(DownFrame) /\ Len(Trailers(c)) = 2
         /\ Trailers(c)[1].type = "TRAILERS" /\ Trailers(c)[1].body = IF c = None THEN OK ELSE c
         /\ Trailers(c)[2] = Frame("END", None)
<1>1. Trailers(c) \in Seq(DownFrame)
  BY TrailersType
<1>2. /\ Len(Trailers(c)) = 2 /\ Trailers(c)[2] = Frame("END", None)
      /\ Trailers(c)[1] = Frame("TRAILERS", IF c = None THEN OK ELSE c)
  BY DEF Trailers
<1>3. /\ Frame("TRAILERS", IF c = None THEN OK ELSE c).type = "TRAILERS"
      /\ Frame("TRAILERS", IF c = None THEN OK ELSE c).body = IF c = None THEN OK ELSE c
  BY DEF Frame
<1> QED
  BY <1>1, <1>2, <1>3

LEMMA HeadersOnWire ==
  ASSUME NEW S, NEW u \in Seq(S)
  PROVE  OnWire(<<>>, <<Frame("HEADERS", None)>>, u, 1, 0, 0)
<1> DEFINE d == <<Frame("HEADERS", None)>>
<1>1. Len(d) = 1 /\ d[1] = Frame("HEADERS", None) /\ Len(u) \in Nat
  OBVIOUS
<1>2. \A i \in 1..(1 + 0) : i = 1
  OBVIOUS
<1> HIDE DEF d
<1> QED
  BY <1>1, <1>2 DEF OnWire, d

(* The parts of Downward that the actions of the server change. *)
LEMMA DownwardParts ==
  ASSUME Typed, NEW p \in 0..Len(test.sends), NEW e \in BOOLEAN, NEW k, NEW n, NEW m,
         Downward(p, e, k, n, m)
  PROVE  /\ arrived \in Seq(Reply(test.method)) /\ encoded \in Seq(Reply(test.method))
         /\ down \in Seq(DownFrame) /\ OwedFor(p, e) \in Seq(Reply(test.method))
         /\ Len(arrived) \in Nat /\ Len(arrived) + n \in 0..Len(OwedFor(p, e))
         /\ k \in 0..1 /\ n \in Nat /\ m \in 0..2 /\ Len(down) = k + n + m
<1>1. /\ arrived \in Seq(Reply(test.method)) /\ encoded \in Seq(Reply(test.method))
      /\ down \in Seq(DownFrame) /\ OwedFor(p, e) \in Seq(Reply(test.method))
  BY FirstFacts DEF Typed, ClientTyped, ClientFlags, ClientData, ServerTyped
<1>2. k \in 0..1 /\ n \in Nat /\ m \in 0..2 /\ Len(down) = k + n + m
  BY DEF Downward, OnWire
<1>3. Len(arrived) \in Nat /\ Len(OwedFor(p, e)) \in Nat /\ Len(arrived) + n <= Len(OwedFor(p, e))
  BY <1>1, LenProperties DEF Downward, OnWire
<1>4. Len(arrived) + n \in 0..Len(OwedFor(p, e))
  BY <1>2, <1>3
<1> QED
  BY <1>1, <1>2, <1>3, <1>4

(* The frames to the client after a reaction of the handler. *)
LEMMA DownwardReact ==
  ASSUME Typed, NEW r, r.writes \in Seq(Reply(test.method)), React(r),
         NEW p \in 0..Len(test.sends), NEW q \in p..Len(test.sends),
         NEW e \in BOOLEAN, NEW w \in BOOLEAN, e => w /\ p = q,
         UNCHANGED <<test, congested, arrived, status, eof>>,
         ~Late(r) => OwedFor(q, w) = OwedFor(p, e) \o r.writes,
         Late(r) => test.timed \/ OverrunBy(q),
         NEW k, NEW n, NEW m, Downward(p, e, k, n, m)
  PROVE  \E k2 \in 0..1, m2 \in 0..2 : Downward(q, w, k2, n, m2)'
<1> DEFINE u == OwedFor(p, e)
           v == OwedFor(q, w)
           V == Reply(test.method)
<1>0. q \in 0..Len(test.sends)
  BY TestFacts
<1>1. /\ arrived \in Seq(V) /\ encoded \in Seq(V) /\ down \in Seq(DownFrame)
      /\ u \in Seq(V) /\ v \in Seq(V)
      /\ Len(arrived) \in Nat /\ Len(arrived) + n \in 0..Len(u)
      /\ k \in 0..1 /\ n \in Nat /\ m \in 0..2 /\ Len(down) = k + n + m
  <2>1. /\ arrived \in Seq(V) /\ encoded \in Seq(V) /\ down \in Seq(DownFrame) /\ u \in Seq(V)
        /\ Len(arrived) \in Nat /\ Len(arrived) + n \in 0..Len(u)
        /\ k \in 0..1 /\ n \in Nat /\ m \in 0..2 /\ Len(down) = k + n + m
    BY DownwardParts
  <2>2. v \in Seq(V)
    BY <1>0, FirstFacts
  <2> QED
    BY <2>1, <2>2
<1>2. Begins(u, v)
  BY TestFacts, AheadWhole DEF OwedFor, First
<1>3. \A c : Justified(c, Len(arrived) + n, p, e) => Justified(c, Len(arrived) + n, q, w)
  BY JustifiedStable
<1>4. \A c : Justified(c, Len(arrived), p, e) => Justified(c, Len(arrived), q, w)
  BY JustifiedStable
<1>5. OwedFor(q, w)' = v
  BY DEF OwedFor, First
<1>6. \A c, x : Justified(c, x, q, w)' <=> Justified(c, x, q, w)
  BY DEF Justified, NoMoreFor, OwedFor, StatusFor, OverrunBy, First
<1>7. /\ OnWire(arrived, down, u, k, n, m)
      /\ m = 2 => down[k + n + 1].type = "TRAILERS"
      /\ m > 0 => down[k + n + m] = Frame("END", None)
      /\ ~headersSent => ~endCalled /\ down = <<>> /\ arrived = <<>> /\ encoded = <<>>
      /\ finished => /\ endCalled /\ encoded = <<>>
                     /\ m = 2 => status = None /\ Justified(down[k + n + 1].body, Len(arrived) + n, p, e)
                     /\ m < 2 => k + n = 0 /\ Justified(status, Len(arrived), p, e)
      /\ ~finished => m = 0 /\ status = None /\ Rest(encoded, u, Len(arrived) + n)
      /\ eof => finished /\ m = 0
  BY DEF Downward
<1>8. OnWire(arrived, down, v, k, n, m)
  BY <1>1, <1>2, <1>7, OnWireGrows
<1>9. ~Late(r) => v = u \o r.writes
  OBVIOUS
<1>10. Late(r) => \A x : Justified(INTERNAL, x, q, w)
  BY DEF Justified, Failures
<1> HIDE DEF u, v, V
<1>20. CASE Late(r) /\ finished
  <2>1. /\ finished' /\ finished' = TRUE /\ encoded' = <<>> /\ down' = down
        /\ headersSent' = headersSent /\ endCalled' = endCalled /\ headersSent
    BY <1>7, <1>20, ReactLate DEF Late
  <2>2. Downward(q, w, k, n, m)'
    BY <1>1, <1>3, <1>4, <1>5, <1>6, <1>7, <1>8, <1>20, <2>1 DEF Downward
  <2> QED
    BY <2>2, <1>1
<1>21. CASE Late(r) /\ ~finished
  <2> DEFINE x == Trailers(INTERNAL)
  <2>1. /\ finished' = TRUE /\ encoded' = <<>> /\ down' = down \o x
        /\ headersSent' = headersSent /\ endCalled' = endCalled /\ headersSent /\ endCalled
    BY <1>7, <1>21, ReactLate DEF Late
  <2>2. m = 0 /\ status = None /\ ~eof
    BY <1>7, <1>21
  <2>9. x \in Seq(DownFrame) /\ down \in Seq(DownFrame)
    BY <1>1, TrailersFacts, CodeFacts
  <2>3. x \in Seq(DownFrame) /\ Len(x) = 2 /\ x[1].type = "TRAILERS" /\ x[1].body = INTERNAL
        /\ x[2] = Frame("END", None)
    <3>1. INTERNAL \in Codes \cup {None} /\ INTERNAL # None
      BY CodeFacts
    <3> QED
      BY <3>1, TrailersFacts
  <2> HIDE DEF x
  <2>4. OnWire(arrived, down, v, k, n, 0)
    BY <1>8, <2>2
  <2>5. OnWire(arrived, down', v, k, n, 2) /\ \A i \in 1..2 : down'[k + n + i] = x[i]
    <3>1. /\ arrived \in Seq(V) /\ down \in Seq(DownFrame) /\ v \in Seq(V) /\ x \in Seq(DownFrame)
          /\ Len(x) = 2 /\ k \in 0..1 /\ n \in Nat
      BY <1>1, <2>3
    <3>2. OnWire(arrived, down \o x, v, k, n, 2)
      BY <3>1, <2>4, OnWireConcat
    <3>3. \A i \in 1..2 : (down \o x)[k + n + i] = x[i]
      <4>1. k + n \in Nat /\ Len(down) = k + n
        BY <1>1, <2>2
      <4>2. \A i \in 1..Len(x) : (down \o x)[Len(down) + i] = x[i]
        BY <2>9, ConcatEnd
      <4> QED
        BY <3>1, <4>1, <4>2
    <3> QED
      BY <3>2, <3>3, <2>1
  <2>6. /\ down'[k + n + 1].type = "TRAILERS" /\ down'[k + n + 1].body = INTERNAL
        /\ down'[k + n + 2] = Frame("END", None)
    BY <2>3, <2>5
  <2>7. Downward(q, w, k, n, 2)'
    BY <1>1, <1>5, <1>6, <1>10, <1>21, <2>1, <2>2, <2>5, <2>6 DEF Downward
  <2> QED
    BY <2>7, <1>1
<1>22. CASE ~Late(r) /\ ~headersSent /\ headersSent'
  <2>1. /\ down' = down \o Headers /\ encoded' = encoded \o r.writes /\ finished' = finished
    BY <1>22, ReactInTime
  <2>2. /\ down = <<>> /\ arrived = <<>> /\ encoded = <<>> /\ ~finished /\ m = 0 /\ n = 0 /\ k = 0
        /\ status = None /\ ~eof
    <3>1. /\ down = <<>> /\ arrived = <<>> /\ encoded = <<>> /\ ~finished
      BY <1>7, <1>22
    <3>2. Len(down) = 0
      BY <3>1
    <3>3. m = 0 /\ n = 0 /\ k = 0
      <4>1. k \in 0..1 /\ n \in Nat /\ m \in 0..2 /\ k + n + m = 0
        BY <3>2, <1>1
      <4> QED
        BY <4>1
    <3> QED
      BY <3>1, <3>3, <1>7
  <2>3. down' = <<Frame("HEADERS", None)>> /\ arrived' = <<>>
    BY <1>22, <2>1, <2>2 DEF Headers
  <2>4. OnWire(<<>>, <<Frame("HEADERS", None)>>, v, 1, 0, 0)
    BY <1>1, HeadersOnWire
  <2>5. OnWire(arrived', down', v, 1, n, 0)
    BY <2>2, <2>3, <2>4
  <2>6. Rest(encoded', v, Len(arrived) + n)
    BY <1>1, <1>7, <1>9, <1>22, <2>1, <2>2, RestConcat DEF V
  <2>7. Downward(q, w, 1, n, 0)'
    BY <1>1, <1>5, <1>22, <2>1, <2>2, <2>5, <2>6 DEF Downward
  <2> QED
    BY <2>7
<1>23. CASE ~Late(r) /\ (headersSent \/ ~headersSent')
  <2>1. /\ encoded' = encoded \o r.writes /\ finished' = finished
        /\ headersSent' = (headersSent \/ r.writes # <<>> \/ r.ends)
        /\ endCalled' = (endCalled \/ r.ends)
        /\ down' = IF headersSent' THEN down \o Headers ELSE down
    BY <1>23, ReactInTime
  <2>2. down' = down
    <3>1. headersSent => Headers = <<>>
      BY DEF Headers
    <3>2. down \o <<>> = down
      BY <1>1
    <3> QED
      BY <1>23, <2>1, <3>1, <3>2
  <2>3. ~headersSent' => ~endCalled' /\ down' = <<>> /\ arrived' = <<>> /\ encoded' = <<>>
    <3>1. <<>> \o <<>> = <<>>
      OBVIOUS
    <3> QED
      BY <1>7, <2>1, <2>2, <3>1
  <2>4. CASE finished
    <3>1. endCalled /\ r.writes = <<>> /\ endCalled'
      BY <1>7, <1>23, <2>1, <2>4 DEF Late
    <3>2. encoded' = <<>>
      <4>1. <<>> \o <<>> = <<>>
        OBVIOUS
      <4> QED
        BY <1>7, <2>1, <2>4, <3>1, <4>1
    <3>3. Downward(q, w, k, n, m)'
      BY <1>1, <1>3, <1>4, <1>5, <1>6, <1>7, <1>8, <2>1, <2>2, <2>3, <2>4, <3>1, <3>2 DEF Downward
    <3> QED
      BY <3>3, <1>1
  <2>5. CASE ~finished
    <3>1. Rest(encoded', v, Len(arrived) + n)
      BY <1>1, <1>7, <1>9, <1>23, <2>1, <2>5, RestConcat DEF V
    <3>2. Downward(q, w, k, n, m)'
      BY <1>1, <1>5, <1>7, <1>8, <2>1, <2>2, <2>3, <2>5, <3>1 DEF Downward
    <3> QED
      BY <3>2, <1>1
  <2> QED
    BY <2>4, <2>5
<1> QED
  BY <1>20, <1>21, <1>22, <1>23

LEMMA DownwardServerData ==
  ASSUME Typed, ServerData, NEW p \in 0..Len(test.sends), p + 1 <= Len(test.sends),
         Head(up).body = test.sends[p + 1], Handler(p, FALSE),
         NEW k, NEW n, NEW m, Downward(p, FALSE, k, n, m)
  PROVE  \E k2 \in 0..1, m2 \in 0..2 : Downward(p + 1, FALSE, k2, n, m2)'
<1> DEFINE x == Head(up).body
           r == OnData(test.method, x)
           mm == test.method
           a == First(p)
           b == First(p + 1)
<1>1. React(r) /\ UNCHANGED <<test, congested, arrived, status, eof>>
  BY DEF ServerData, clientVars
<1>2. /\ mm \in Methods /\ a \in Seq(Message(mm)) /\ x \in Message(mm) /\ b = Append(a, x)
      /\ Owed(mm, a, FALSE) \in Seq(Reply(mm))
  BY TestFacts, FirstFacts DEF OwedFor
<1>3. r.writes \in Seq(Reply(mm))
  BY <1>2, OnDataType
<1>4. IF endCalled
      THEN \/ OwesNoMore(mm, a, FALSE)
           \/ test.timed \/ Overrun(mm, a)
      ELSE ~OwesNoMore(mm, a, FALSE)
  BY DEF Handler, NoMoreFor, StatusFor, OverrunBy
<1>5. Owed(mm, b, FALSE) = IF OwesNoMore(mm, a, FALSE) THEN Owed(mm, a, FALSE)
                           ELSE Owed(mm, a, FALSE) \o r.writes
  BY <1>2, OwedStep
<1>6. /\ OwesNoMore(mm, a, FALSE) => (r.writes # <<>> => Overrun(mm, b))
      /\ Overrun(mm, a) => Overrun(mm, b)
  <2> HIDE DEF a, b, x, mm
  <2> QED
    BY <1>2, EndStep DEF mm
<1>7. ASSUME ~Late(r)
      PROVE  Owed(mm, b, FALSE) = Owed(mm, a, FALSE) \o r.writes
  <2>1. CASE endCalled
    <3>1. r.writes = <<>>
      BY <1>7, <2>1 DEF Late
    <3>2. Owed(mm, a, FALSE) \o <<>> = Owed(mm, a, FALSE)
      BY <1>2
    <3> QED
      BY <1>5, <3>1, <3>2
  <2>2. CASE ~endCalled
    BY <1>4, <1>5, <2>2
  <2> QED
    BY <2>1, <2>2
<1>8. ASSUME Late(r)
      PROVE  test.timed \/ Overrun(mm, b)
  BY <1>4, <1>6, <1>8 DEF Late
<1>9. p + 1 \in p..Len(test.sends)
  BY TestFacts
<1>10. ~Late(r) => OwedFor(p + 1, FALSE) = OwedFor(p, FALSE) \o r.writes
  BY <1>7 DEF OwedFor
<1>11. Late(r) => test.timed \/ OverrunBy(p + 1)
  BY <1>8 DEF OverrunBy
<1> HIDE DEF r
<1> QED
  BY <1>1, <1>3, <1>9, <1>10, <1>11, DownwardReact

LEMMA DownwardServerEnd ==
  ASSUME Typed, ServerEnd, NEW p \in 0..Len(test.sends), Handler(p, FALSE),
         NEW k, NEW n, NEW m, Downward(p, FALSE, k, n, m)
  PROVE  \E k2 \in 0..1, m2 \in 0..2 : Downward(p, TRUE, k2, n, m2)'
<1> DEFINE r == OnEnd(test.method, total)
           mm == test.method
           a == First(p)
<1>1. React(r) /\ UNCHANGED <<test, congested, arrived, status, eof>>
  BY DEF ServerEnd, clientVars
<1>2. /\ mm \in Methods /\ a \in Seq(Message(mm)) /\ total \in Nat
      /\ Owed(mm, a, FALSE) \in Seq(Reply(mm))
  BY TestFacts, FirstFacts DEF OwedFor, Typed, ServerTyped
<1>3. r.writes \in Seq(Reply(mm)) /\ r.writes = IF mm \in Summing THEN <<total>> ELSE <<>>
  BY <1>2, OnEndFacts
<1>4. /\ mm \in Summing => total = Sum(a)
      /\ endCalled => OwesNoMore(mm, a, FALSE) \/ test.timed \/ Overrun(mm, a)
  BY DEF Handler, NoMoreFor, StatusFor, OverrunBy
<1>5. Owed(mm, a, TRUE) = IF mm \in Summing THEN Owed(mm, a, FALSE) \o <<Sum(a)>> ELSE Owed(mm, a, FALSE)
  BY <1>2, OwedAtEnd
<1>6. OwesNoMore(mm, a, FALSE) => mm \notin Summing
  BY <1>2, OwedNoMore
<1>7. Owed(mm, a, TRUE) = Owed(mm, a, FALSE) \o r.writes
  <2>1. Owed(mm, a, FALSE) \o <<>> = Owed(mm, a, FALSE)
    BY <1>2
  <2> QED
    BY <1>3, <1>4, <1>5, <2>1
<1>8. Late(r) => test.timed \/ Overrun(mm, a)
  BY <1>3, <1>4, <1>6 DEF Late
<1>9. p \in p..Len(test.sends)
  BY TestFacts
<1>10. ~Late(r) => OwedFor(p, TRUE) = OwedFor(p, FALSE) \o r.writes
  BY <1>7 DEF OwedFor
<1>11. Late(r) => test.timed \/ OverrunBy(p)
  BY <1>8 DEF OverrunBy
<1> HIDE DEF r
<1> QED
  BY <1>1, <1>3, <1>9, <1>10, <1>11, DownwardReact

LEMMA DownwardStart ==
  ASSUME Typed, Fresh, Start, test.cancel # "begin"
  PROVE  Downward(0, FALSE, 0, 0, 0)'
<1>1. /\ UNCHANGED <<test, congested, arrived, status, eof, down, headersSent, endCalled, encoded, finished>>
      /\ arrived = <<>> /\ ~eof /\ down = <<>> /\ ~headersSent /\ ~endCalled /\ encoded = <<>>
      /\ ~finished /\ status = None
  BY DEF Start, Fresh, serverVars
<1>2. OwedFor(0, FALSE)' = <<>>
  <2>1. OwedFor(0, FALSE) = <<>>
    BY TestFacts, FirstFacts, OwedOfNone DEF OwedFor
  <2> QED
    BY <1>1, <2>1 DEF OwedFor, First
<1>3. OnWire(<<>>, <<>>, <<>>, 0, 0, 0) /\ Rest(<<>>, <<>>, 0) /\ Len(<<>>) + 0 = 0
  BY DEF OnWire, Rest
<1>4. OnWire(arrived', down', OwedFor(0, FALSE)', 0, 0, 0) /\ Rest(encoded', OwedFor(0, FALSE)', Len(arrived') + 0)
  BY <1>1, <1>2, <1>3
<1>5. 0 \in 0..1 /\ 0 \in Nat /\ 0 \in 0..2 /\ ~(0 = 2) /\ ~(0 > 0)
  OBVIOUS
<1>6. /\ ~headersSent' /\ ~endCalled' /\ ~finished' /\ ~eof'
      /\ down' = <<>> /\ arrived' = <<>> /\ encoded' = <<>> /\ status' = None
  BY <1>1
<1> QED
  BY <1>4, <1>5, <1>6 DEF Downward

(* The parts of Downward again, after a step that leaves the test alone. *)
LEMMA OwedSame ==
  ASSUME UNCHANGED <<test, congested>>, NEW p, NEW e
  PROVE  /\ OwedFor(p, e)' = OwedFor(p, e)
         /\ \A c, x : Justified(c, x, p, e)' <=> Justified(c, x, p, e)
<1> QED
  BY DEF Justified, NoMoreFor, OwedFor, StatusFor, OverrunBy, First

(* A message moves from the encoder to the wire, in order. *)
LEMMA DownwardPipeEncoded ==
  ASSUME Typed, PipeEncoded, NEW p \in 0..Len(test.sends), NEW e \in BOOLEAN,
         NEW k, NEW n, NEW m, Downward(p, e, k, n, m)
  PROVE  Downward(p, e, k, n + 1, 0)'
<1> DEFINE u == OwedFor(p, e)
           V == Reply(test.method)
           f == Frame("DATA", Head(encoded))
<1>1. /\ encoded # <<>> /\ down' = Append(down, f) /\ encoded' = Tail(encoded)
      /\ UNCHANGED <<test, congested, arrived, status, eof, headersSent, endCalled, finished>>
  BY DEF PipeEncoded, clientVars
<1>2. /\ arrived \in Seq(V) /\ encoded \in Seq(V) /\ down \in Seq(DownFrame) /\ u \in Seq(V)
      /\ Len(arrived) \in Nat /\ Len(arrived) + n \in 0..Len(u)
      /\ k \in 0..1 /\ n \in Nat /\ m \in 0..2 /\ Len(down) = k + n + m
  BY DownwardParts
<1>3. OwedFor(p, e)' = u
  BY <1>1, OwedSame
<1>4. /\ headersSent /\ ~finished /\ m = 0 /\ status = None /\ ~eof
      /\ OnWire(arrived, down, u, k, n, 0) /\ Rest(encoded, u, Len(arrived) + n)
  BY <1>1 DEF Downward
<1> HIDE DEF u, V
<1>5. /\ Len(encoded) \in Nat \ {0} /\ Head(encoded) = encoded[1] /\ Head(encoded) \in V
      /\ DOMAIN encoded = 1..Len(encoded)
      /\ Len(Tail(encoded)) = Len(encoded) - 1 /\ DOMAIN Tail(encoded) = 1..Len(encoded) - 1
      /\ \A i \in 1..Len(encoded) - 1 : Tail(encoded)[i] = encoded[i + 1]
  BY <1>1, <1>2, TailFacts
<1>6. f \in DownFrame
  BY <1>5, FrameTypes DEF V
<1>7. /\ Len(encoded) = Len(u) - (Len(arrived) + n) /\ Len(u) \in Nat
      /\ \A j \in 1..Len(encoded) : encoded[j] = u[Len(arrived) + n + j]
  BY <1>2, <1>4, <1>5, LenProperties DEF Rest
<1>8. f = Frame("DATA", u[Len(arrived) + n + 1])
  <2>1. encoded[1] = u[Len(arrived) + n + 1]
    BY <1>5, <1>7
  <2> QED
    BY <1>5, <2>1
<1> HIDE DEF f
<1>9. /\ Len(down') = Len(down) + 1 /\ Len(down) \in Nat
      /\ down'[Len(down) + 1] = f /\ \A i \in 1..Len(down) : down'[i] = down[i]
  <2>1. down \in Seq(DownFrame)
    BY <1>2
  <2> QED
    BY <1>1, <1>6, <2>1, AppendFacts
<1>10. Len(down) = k + n
  BY <1>2, <1>4
<1>11. OnWire(arrived, down', u, k, n + 1, 0)
  <2>1. Len(arrived) + (n + 1) <= Len(u) /\ Len(down') = k + (n + 1) + 0
    <3>1. Len(encoded) > 0 /\ Len(encoded) = Len(u) - (Len(arrived) + n) /\ Len(u) \in Nat
      BY <1>5, <1>7
    <3>2. Len(down') = (k + n) + 1
      BY <1>9, <1>10
    <3> QED
      BY <1>2, <3>1, <3>2
  <2>2. \A i \in DOMAIN arrived : arrived[i] = u[i]
    BY <1>4 DEF OnWire
  <2>3. ASSUME NEW i \in 1..(k + (n + 1))
        PROVE  down'[i] = IF i <= k THEN Frame("HEADERS", None)
                          ELSE Frame("DATA", u[Len(arrived) + (i - k)])
    <3>1. CASE i \in 1..(k + n)
      <4>1. down'[i] = down[i]
        BY <1>9, <1>10, <3>1
      <4> QED
        BY <1>4, <3>1, <4>1 DEF OnWire
    <3>2. CASE i = k + n + 1
      <4>1. ~(i <= k) /\ Len(arrived) + (i - k) = Len(arrived) + n + 1
        BY <1>2, <3>2
      <4>2. down'[i] = f
        BY <1>9, <1>10, <3>2
      <4> QED
        BY <1>8, <4>1, <4>2
    <3> QED
      BY <1>2, <3>1, <3>2
  <2> QED
    BY <2>1, <2>2, <2>3 DEF OnWire
<1>12. Rest(encoded', u, Len(arrived) + (n + 1))
  <2>1. Len(encoded') = Len(u) - (Len(arrived) + (n + 1))
    BY <1>1, <1>2, <1>5, <1>7
  <2>2. ASSUME NEW j \in DOMAIN encoded'
        PROVE  encoded'[j] = u[Len(arrived) + (n + 1) + j]
    <3>1. j \in 1..Len(encoded) - 1 /\ j + 1 \in 1..Len(encoded) /\ encoded'[j] = encoded[j + 1]
      BY <1>1, <1>5
    <3>2. Len(arrived) + n + (j + 1) = Len(arrived) + (n + 1) + j
      <4>1. Len(arrived) \in Nat /\ n \in Nat /\ j \in Nat
        BY <1>2, <3>1
      <4> QED
        BY <4>1
    <3>3. encoded[j + 1] = u[Len(arrived) + n + (j + 1)]
      BY <1>7, <3>1
    <3> QED
      BY <3>1, <3>2, <3>3
  <2> QED
    BY <2>1, <2>2 DEF Rest
<1>13. OnWire(arrived', down', OwedFor(p, e)', k, n + 1, 0) /\ Rest(encoded', OwedFor(p, e)', Len(arrived') + (n + 1))
  BY <1>1, <1>3, <1>11, <1>12
<1>14. k \in 0..1 /\ n + 1 \in Nat /\ 0 \in 0..2 /\ ~(0 = 2) /\ ~(0 > 0)
  BY <1>2
<1>15. headersSent' /\ ~finished' /\ status' = None /\ ~eof'
  BY <1>1, <1>4
<1> QED
  BY <1>13, <1>14, <1>15 DEF Downward

(* The trailers go on the wire when nothing is left to pipe, or the streams *)
(* push back, or the rpc has failed.                                        *)
LEMMA DownwardServerFinish ==
  ASSUME Typed, ServerFinish, NEW p \in 0..Len(test.sends), NEW e \in BOOLEAN, Handler(p, e),
         NEW k, NEW n, NEW m, Downward(p, e, k, n, m)
  PROVE  Downward(p, e, k, n, 2)'
<1> DEFINE u == OwedFor(p, e)
           V == Reply(test.method)
           x == Trailers(rpcCode)
           code == IF rpcCode = None THEN OK ELSE rpcCode
<1>1. /\ endCalled /\ ~finished /\ (congested \/ encoded = <<>>) /\ finished' /\ down' = down \o x
      /\ encoded' = <<>>
      /\ UNCHANGED <<test, congested, arrived, status, eof, headersSent, endCalled>>
  BY DEF ServerFinish, FinishReady, clientVars
<1>2. /\ arrived \in Seq(V) /\ down \in Seq(DownFrame) /\ u \in Seq(V)
      /\ Len(arrived) \in Nat /\ Len(arrived) + n \in 0..Len(u)
      /\ k \in 0..1 /\ n \in Nat /\ m \in 0..2 /\ Len(down) = k + n + m
  BY DownwardParts
<1>3. OwedFor(p, e)' = u /\ \A c, y : Justified(c, y, p, e)' <=> Justified(c, y, p, e)
  BY <1>1, OwedSame
<1>4. /\ headersSent /\ m = 0 /\ status = None /\ ~eof
      /\ OnWire(arrived, down, u, k, n, 0) /\ Rest(encoded, u, Len(arrived) + n)
  BY <1>1 DEF Downward
<1>5. congested \/ Len(u) = Len(arrived) + n
  <2> SUFFICES ASSUME ~congested PROVE Len(u) = Len(arrived) + n
    OBVIOUS
  <2>1. Len(encoded) = 0 /\ Len(u) \in Nat
    BY <1>1, <1>2, LenProperties
  <2>2. Len(encoded) = Len(u) - (Len(arrived) + n)
    BY <1>4 DEF Rest
  <2> QED
    BY <1>2, <2>1, <2>2
<1>6. Justified(code, Len(arrived) + n, p, e)
  <2>1. \/ NoMoreFor(p, e) /\ code = StatusFor(p)
        \/ rpcCode \in Failures /\ (test.timed \/ (rpcCode = INTERNAL /\ OverrunBy(p)))
    BY <1>1 DEF Handler
  <2>2. None \notin Failures
    BY CodeFacts DEF Failures
  <2> QED
    BY <1>5, <2>1, <2>2 DEF Justified
<1>7. /\ x \in Seq(DownFrame) /\ Len(x) = 2 /\ x[1].type = "TRAILERS" /\ x[1].body = code
      /\ x[2] = Frame("END", None)
  <2>1. rpcCode \in Codes \cup {None}
    BY DEF Typed, ServerTyped
  <2> QED
    BY <2>1, TrailersFacts
<1> HIDE DEF u, V, x, code
<1>8. OnWire(arrived, down \o x, u, k, n, 2)
  <2>1. /\ arrived \in Seq(V) /\ down \in Seq(DownFrame) /\ u \in Seq(V) /\ x \in Seq(DownFrame)
        /\ Len(x) = 2 /\ k \in 0..1 /\ n \in Nat
    BY <1>2, <1>7
  <2> QED
    BY <1>4, <2>1, OnWireConcat
<1>9. down'[k + n + 1] = x[1] /\ down'[k + n + 2] = x[2]
  <2>1. x \in Seq(DownFrame) /\ down \in Seq(DownFrame)
    BY <1>2, <1>7
  <2>2. \A i \in 1..Len(x) : (down \o x)[Len(down) + i] = x[i]
    BY <2>1, ConcatEnd
  <2>3. Len(down) = k + n /\ 1 \in 1..2 /\ 2 \in 1..2
    BY <1>2, <1>4
  <2> QED
    BY <1>1, <1>7, <2>2, <2>3
<1>10. OnWire(arrived', down', OwedFor(p, e)', k, n, 2)
  BY <1>1, <1>3, <1>8
<1>11. /\ down'[k + n + 1].type = "TRAILERS" /\ down'[k + n + 1].body = code
       /\ down'[k + n + 2] = Frame("END", None)
  BY <1>7, <1>9
<1>14. k \in 0..1 /\ n \in Nat /\ 2 \in 0..2 /\ ~(2 < 2)
  BY <1>2
<1>15. headersSent' /\ finished' /\ endCalled' /\ encoded' = <<>> /\ status' = None /\ ~eof'
  BY <1>1, <1>4
<1> QED
  BY <1>1, <1>3, <1>6, <1>10, <1>11, <1>14, <1>15 DEF Downward

(* A deadline of the server, with its first headers if there were none. *)
LEMMA DownwardServerTimerFires ==
  ASSUME Typed, ServerTimerFires, NEW p \in 0..Len(test.sends), NEW e \in BOOLEAN,
         NEW k, NEW n, NEW m, Downward(p, e, k, n, m)
  PROVE  \E k2 \in 0..1, m2 \in 0..2 : Downward(p, e, k2, n, m2)'
<1> DEFINE u == OwedFor(p, e)
           V == Reply(test.method)
<1>1. /\ UNCHANGED <<test, congested, arrived, status, eof, encoded, finished>>
      /\ IF closed \/ endCalled THEN UNCHANGED <<headersSent, endCalled, down>>
         ELSE headersSent' = TRUE /\ endCalled' = TRUE /\ down' = down \o Headers
  BY DEF ServerTimerFires, clientVars
<1>2. /\ arrived \in Seq(V) /\ down \in Seq(DownFrame) /\ u \in Seq(V)
      /\ k \in 0..1 /\ n \in Nat /\ m \in 0..2 /\ Len(down) = k + n + m
  BY DownwardParts
<1>3. OwedFor(p, e)' = u
  BY <1>1, OwedSame
<1>4. CASE closed \/ endCalled
  <2>1. Downward(p, e, k, n, m)'
    BY <1>1, <1>4, DownwardFrame
  <2> QED
    BY <2>1, <1>2
<1>5. CASE ~(closed \/ endCalled)
  <2>1. /\ ~finished /\ m = 0 /\ status = None /\ ~eof
        /\ OnWire(arrived, down, u, k, n, 0) /\ Rest(encoded, u, Len(arrived) + n)
        /\ ~headersSent => down = <<>> /\ arrived = <<>> /\ encoded = <<>>
    BY <1>5 DEF Downward
  <2>2. /\ headersSent' /\ ~finished' /\ status' = None /\ ~eof'
        /\ Rest(encoded', OwedFor(p, e)', Len(arrived') + n)
    BY <1>1, <1>3, <1>5, <2>1
  <2>3. 0 \in 0..2 /\ ~(0 = 2) /\ ~(0 > 0)
    OBVIOUS
  <2>4. CASE headersSent
    <3>1. down' = down
      <4>1. down \o <<>> = down
        BY <1>2
      <4> QED
        BY <1>1, <1>5, <2>4, <4>1 DEF Headers
    <3>2. OnWire(arrived', down', OwedFor(p, e)', k, n, 0)
      BY <1>1, <1>3, <2>1, <3>1
    <3>3. Downward(p, e, k, n, 0)'
      BY <1>2, <2>2, <2>3, <3>2 DEF Downward
    <3> QED
      BY <3>3, <1>2
  <2>5. CASE ~headersSent
    <3>1. n = 0
      <4>1. Len(down) = 0
        BY <2>1, <2>5
      <4> QED
        BY <1>2, <4>1
    <3>2. down' = <<Frame("HEADERS", None)>> /\ arrived' = <<>>
      BY <1>1, <1>5, <2>1, <2>5 DEF Headers
    <3>3. OnWire(arrived', down', OwedFor(p, e)', 1, n, 0)
      BY <1>2, <1>3, <3>1, <3>2, HeadersOnWire
    <3>4. Downward(p, e, 1, n, 0)'
      BY <1>2, <2>2, <2>3, <3>3 DEF Downward
    <3> QED
      BY <3>4
  <2> QED
    BY <2>4, <2>5
<1> QED
  BY <1>4, <1>5

(* The first frame of those under way, with the rest still in place. *)
LEMMA NextOnWire ==
  ASSUME NEW S, NEW T, NEW a \in Seq(S), NEW d \in Seq(T), NEW u \in Seq(S), d # <<>>,
         NEW k \in 0..1, NEW n \in Nat, NEW m \in 0..2, OnWire(a, d, u, k, n, m)
  PROVE  /\ k = 1 => Head(d) = Frame("HEADERS", None) /\ OnWire(a, Tail(d), u, 0, n, m)
         /\ k = 0 /\ n > 0 =>
              /\ Len(a) + 1 \in 1..Len(u) /\ Head(d) = Frame("DATA", u[Len(a) + 1])
              /\ OnWire(Append(a, u[Len(a) + 1]), Tail(d), u, 0, n - 1, m)
         /\ k = 0 /\ n = 0 => m > 0 /\ OnWire(a, Tail(d), u, 0, 0, m - 1)
<1>1. /\ Len(d) \in Nat \ {0} /\ Head(d) = d[1] /\ Len(Tail(d)) = Len(d) - 1
      /\ \A i \in 1..Len(d) - 1 : Tail(d)[i] = d[i + 1]
  BY TailFacts
<1>2. Len(a) \in Nat /\ Len(u) \in Nat /\ DOMAIN a = 1..Len(a)
  BY LenProperties
<1>3. /\ Len(a) + n <= Len(u) /\ Len(d) = k + n + m
      /\ \A i \in DOMAIN a : a[i] = u[i]
      /\ \A i \in 1..(k + n) : d[i] = IF i <= k THEN Frame("HEADERS", None)
                                      ELSE Frame("DATA", u[Len(a) + (i - k)])
  BY DEF OnWire
<1>4. ASSUME k = 1
      PROVE  Head(d) = Frame("HEADERS", None) /\ OnWire(a, Tail(d), u, 0, n, m)
  <2>1. Head(d) = Frame("HEADERS", None)
    <3>1. 1 \in 1..(k + n) /\ 1 <= k
      BY <1>4
    <3> QED
      BY <1>1, <1>3, <3>1
  <2>2. ASSUME NEW i \in 1..(0 + n)
        PROVE  Tail(d)[i] = IF i <= 0 THEN Frame("HEADERS", None)
                            ELSE Frame("DATA", u[Len(a) + (i - 0)])
    <3>1. i + 1 \in 1..(k + n) /\ ~(i + 1 <= k) /\ ~(i <= 0) /\ (i + 1) - k = i - 0
          /\ i \in 1..Len(d) - 1
      BY <1>1, <1>3, <1>4, <2>2
    <3>2. d[i + 1] = Frame("DATA", u[Len(a) + ((i + 1) - k)])
      BY <1>3, <3>1
    <3> QED
      BY <1>1, <3>1, <3>2
  <2>3. Len(Tail(d)) = 0 + n + m
    BY <1>1, <1>3, <1>4
  <2> QED
    BY <1>3, <2>1, <2>2, <2>3 DEF OnWire
<1>5. ASSUME k = 0, n > 0
      PROVE  /\ Len(a) + 1 \in 1..Len(u) /\ Head(d) = Frame("DATA", u[Len(a) + 1])
             /\ OnWire(Append(a, u[Len(a) + 1]), Tail(d), u, 0, n - 1, m)
  <2> DEFINE x == u[Len(a) + 1]
             b == Append(a, x)
  <2>1. Len(a) + 1 \in 1..Len(u)
    BY <1>2, <1>3, <1>5
  <2>2. x \in S
    BY <2>1
  <2> HIDE DEF x
  <2>3. /\ Len(b) = Len(a) + 1 /\ DOMAIN b = 1..Len(a) + 1 /\ b[Len(a) + 1] = x
        /\ \A i \in 1..Len(a) : b[i] = a[i]
    BY <2>2, AppendFacts
  <2> HIDE DEF b
  <2>4. Head(d) = Frame("DATA", x)
    <3>1. 1 \in 1..(k + n) /\ ~(1 <= k) /\ Len(a) + (1 - k) = Len(a) + 1
      BY <1>2, <1>5
    <3>2. d[1] = Frame("DATA", u[Len(a) + (1 - k)])
      BY <1>3, <3>1
    <3> QED
      BY <1>1, <3>1, <3>2 DEF x
  <2>5. ASSUME NEW i \in DOMAIN b
        PROVE  b[i] = u[i]
    <3>1. CASE i \in 1..Len(a)
      BY <1>2, <1>3, <2>3, <3>1
    <3>2. CASE i = Len(a) + 1
      BY <2>3, <3>2 DEF x
    <3> QED
      BY <1>2, <2>3, <3>1, <3>2
  <2>6. ASSUME NEW i \in 1..(0 + (n - 1))
        PROVE  Tail(d)[i] = IF i <= 0 THEN Frame("HEADERS", None)
                            ELSE Frame("DATA", u[Len(b) + (i - 0)])
    <3>1. /\ i + 1 \in 1..(k + n) /\ ~(i + 1 <= k) /\ ~(i <= 0)
          /\ Len(a) + ((i + 1) - k) = Len(b) + (i - 0) /\ i \in 1..Len(d) - 1
      BY <1>1, <1>2, <1>3, <1>5, <2>3, <2>6
    <3>2. d[i + 1] = Frame("DATA", u[Len(a) + ((i + 1) - k)])
      BY <1>3, <3>1
    <3> QED
      BY <1>1, <3>1, <3>2
  <2>7. Len(Tail(d)) = 0 + (n - 1) + m /\ Len(b) + (n - 1) <= Len(u)
    BY <1>1, <1>2, <1>3, <1>5, <2>3
  <2>8. OnWire(b, Tail(d), u, 0, n - 1, m)
    BY <2>5, <2>6, <2>7 DEF OnWire
  <2> QED
    BY <2>1, <2>4, <2>8 DEF x, b
<1>6. ASSUME k = 0, n = 0
      PROVE  m > 0 /\ OnWire(a, Tail(d), u, 0, 0, m - 1)
  <2>1. m > 0 /\ Len(Tail(d)) = 0 + 0 + (m - 1) /\ Len(a) + 0 <= Len(u)
    BY <1>1, <1>2, <1>3, <1>6
  <2>2. \A i \in 1..(0 + 0) : FALSE
    OBVIOUS
  <2> QED
    BY <1>3, <2>1, <2>2 DEF OnWire
<1> QED
  BY <1>4, <1>5, <1>6

(* The client takes the first frame: what arrived goes on by just that      *)
(* message.                                                                 *)
LEMMA DownwardReceive ==
  ASSUME Typed, Receive, stream # "null", NEW p \in 0..Len(test.sends), NEW e \in BOOLEAN,
         NEW k, NEW n, NEW m, Downward(p, e, k, n, m)
  PROVE  \/ Head(down) = Frame("HEADERS", None) /\ Downward(p, e, 0, n, m)'
         \/ /\ Len(arrived) + 1 \in 1..Len(OwedFor(p, e)) /\ status = None
            /\ Head(down) = Frame("DATA", OwedFor(p, e)[Len(arrived) + 1])
            /\ n - 1 \in Nat /\ Downward(p, e, 0, n - 1, m)'
         \/ /\ Head(down).type = "TRAILERS" /\ status = None
            /\ Justified(Head(down).body, Len(arrived), p, e)
            /\ n = 0 /\ Downward(p, e, 0, 0, 1)'
         \/ Head(down) = Frame("END", None) /\ n = 0 /\ Downward(p, e, 0, 0, 0)'
<1> DEFINE u == OwedFor(p, e)
           V == Reply(test.method)
           f == Head(down)
<1>1. /\ down # <<>> /\ down' = Tail(down) /\ UNCHANGED <<test, congested, headersSent, endCalled, encoded, finished>>
      /\ arrived' = IF f.type = "DATA" THEN Append(arrived, f.body) ELSE arrived
      /\ eof' = (eof \/ f.type = "END")
      /\ IF f.type = "TRAILERS" /\ status = None THEN status' = f.body ELSE status' = status
  BY DEF Receive, StatusEvent, serverVars
<1>2. /\ arrived \in Seq(V) /\ down \in Seq(DownFrame) /\ u \in Seq(V)
      /\ Len(arrived) \in Nat
      /\ k \in 0..1 /\ n \in Nat /\ m \in 0..2 /\ Len(down) = k + n + m
  BY DownwardParts
<1>3. OwedFor(p, e)' = u /\ \A c, y : Justified(c, y, p, e)' <=> Justified(c, y, p, e)
  BY <1>1, OwedSame
<1>4. /\ OnWire(arrived, down, u, k, n, m)
      /\ m = 2 => down[k + n + 1].type = "TRAILERS"
      /\ m > 0 => down[k + n + m] = Frame("END", None)
      /\ headersSent
      /\ finished => /\ endCalled /\ encoded = <<>>
                     /\ m = 2 => status = None /\ Justified(down[k + n + 1].body, Len(arrived) + n, p, e)
                     /\ m < 2 => k + n = 0 /\ Justified(status, Len(arrived), p, e)
      /\ ~finished => m = 0 /\ status = None /\ Rest(encoded, u, Len(arrived) + n)
      /\ eof => finished /\ m = 0
  BY <1>1 DEF Downward
<1>5. /\ k = 1 => f = Frame("HEADERS", None) /\ OnWire(arrived, down', u, 0, n, m)
      /\ k = 0 /\ n > 0 =>
           /\ Len(arrived) + 1 \in 1..Len(u) /\ f = Frame("DATA", u[Len(arrived) + 1])
           /\ OnWire(Append(arrived, u[Len(arrived) + 1]), down', u, 0, n - 1, m)
      /\ k = 0 /\ n = 0 => m > 0 /\ OnWire(arrived, down', u, 0, 0, m - 1)
  <2>1. /\ arrived \in Seq(V) /\ down \in Seq(DownFrame) /\ u \in Seq(V)
        /\ k \in 0..1 /\ n \in Nat /\ m \in 0..2
    BY <1>2
  <2> QED
    BY <1>1, <1>4, <2>1, NextOnWire
<1>6. headersSent' /\ (finished' <=> finished)
  BY <1>1, <1>4
<1>7. /\ f = down[1] /\ \A i \in 1..Len(down) - 1 : down'[i] = down[i + 1]
  <2>1. down \in Seq(DownFrame) /\ down # <<>>
    BY <1>1, <1>2
  <2> QED
    BY <1>1, <2>1, TailFacts
(* What is to come of the two last frames stays the same. *)
<1>8. ASSUME k + n > 0
      PROVE  /\ ~eof
             /\ m = 2 => down'[(k + n - 1) + 1].type = "TRAILERS"
                         /\ down'[(k + n - 1) + 1].body = down[k + n + 1].body
             /\ m > 0 => down'[(k + n - 1) + m] = Frame("END", None)
             /\ finished => m = 2 /\ status = None
  <2>1. m = 2 => down'[(k + n - 1) + 1] = down[k + n + 1]
    <3>1. m = 2 => k + n \in 1..Len(down) - 1 /\ (k + n - 1) + 1 = k + n /\ (k + n) + 1 = k + n + 1
      BY <1>2, <1>8
    <3> QED
      BY <1>7, <3>1
  <2>2. m > 0 => down'[(k + n - 1) + m] = down[k + n + m]
    <3>1. m > 0 => k + n + m - 1 \in 1..Len(down) - 1 /\ (k + n - 1) + m = k + n + m - 1
                   /\ (k + n + m - 1) + 1 = k + n + m
      BY <1>2, <1>8
    <3> QED
      BY <1>7, <3>1
  <2>3. finished => m = 2 /\ status = None
    <3>1. m < 2 => k + n # 0
      BY <1>2, <1>8
    <3>2. m < 2 \/ m = 2
      BY <1>2
    <3> QED
      BY <1>4, <3>1, <3>2
  <2>4. ~eof
    <3>1. ~(2 = 0)
      OBVIOUS
    <3> QED
      BY <1>4, <2>3, <3>1
  <2> QED
    BY <1>4, <2>1, <2>2, <2>3, <2>4
<1> HIDE DEF u, V, f
<1>10. CASE k = 1
  <2>1. f = Frame("HEADERS", None) /\ f.type = "HEADERS"
    BY <1>5, <1>10 DEF Frame
  <2>2. arrived' = arrived /\ (eof' <=> eof) /\ status' = status
    BY <1>1, <2>1
  <2>3. k + n > 0 /\ k + n - 1 = n /\ 0 + n = n /\ 0 \in 0..1 /\ n \in Nat /\ m \in 0..2
    BY <1>2, <1>10
  <2>4. ~eof /\ (m = 2 => down'[0 + n + 1].type = "TRAILERS" /\ down'[0 + n + 1].body = down[k + n + 1].body)
        /\ (m > 0 => down'[0 + n + m] = Frame("END", None))
        /\ (finished => m = 2 /\ status = None)
    BY <1>8, <2>3
  <2>5. OnWire(arrived', down', OwedFor(p, e)', 0, n, m)
    BY <1>3, <1>5, <1>10, <2>2
  <2>6. ~finished' => m = 0 /\ status' = None /\ Rest(encoded', OwedFor(p, e)', Len(arrived') + n)
    BY <1>1, <1>3, <1>4, <1>6, <2>2
  <2>7. finished' => /\ endCalled' /\ encoded' = <<>> /\ m = 2 /\ ~(m < 2)
                     /\ status' = None /\ Justified(down'[0 + n + 1].body, Len(arrived') + n, p, e)
    <3>1. m = 2 => ~(m < 2)
      BY <2>3
    <3> QED
      BY <1>1, <1>4, <1>6, <2>2, <2>4, <3>1
  <2>8. Downward(p, e, 0, n, m)'
    BY <1>3, <1>6, <2>2, <2>3, <2>4, <2>5, <2>6, <2>7 DEF Downward
  <2> QED
    BY <2>1, <2>8 DEF f
<1>11. CASE k = 0 /\ n > 0
  <2>1. /\ Len(arrived) + 1 \in 1..Len(u) /\ f = Frame("DATA", u[Len(arrived) + 1])
        /\ f.type = "DATA" /\ f.body = u[Len(arrived) + 1]
    BY <1>5, <1>11 DEF Frame
  <2>2. arrived' = Append(arrived, u[Len(arrived) + 1]) /\ (eof' <=> eof) /\ status' = status
    BY <1>1, <2>1
  <2>3. k + n > 0 /\ k + n - 1 = n - 1 /\ 0 + (n - 1) = n - 1 /\ 0 \in 0..1 /\ n - 1 \in Nat /\ m \in 0..2
    BY <1>2, <1>11
  <2>4. ~eof /\ (m = 2 => down'[0 + (n - 1) + 1].type = "TRAILERS" /\ down'[0 + (n - 1) + 1].body = down[k + n + 1].body)
        /\ (m > 0 => down'[0 + (n - 1) + m] = Frame("END", None))
        /\ (finished => m = 2 /\ status = None)
    BY <1>8, <2>3
  <2>5. OnWire(arrived', down', OwedFor(p, e)', 0, n - 1, m)
    BY <1>3, <1>5, <1>11, <2>2
  <2>6. Len(arrived') + (n - 1) = Len(arrived) + n
    <3>1. u[Len(arrived) + 1] \in V
      BY <1>2, <2>1
    <3>2. arrived \in Seq(V)
      BY <1>2
    <3>3. Len(arrived') = Len(arrived) + 1
      BY <2>2, <3>1, <3>2, AppendFacts
    <3> QED
      BY <1>2, <3>3
  <2>7. ~finished' => m = 0 /\ status' = None /\ Rest(encoded', OwedFor(p, e)', Len(arrived') + (n - 1))
    BY <1>1, <1>3, <1>4, <1>6, <2>2, <2>6
  <2>8. finished' => /\ endCalled' /\ encoded' = <<>> /\ m = 2 /\ ~(m < 2)
                     /\ status' = None /\ Justified(down'[0 + (n - 1) + 1].body, Len(arrived') + (n - 1), p, e)
    <3>1. m = 2 => ~(m < 2)
      BY <2>3
    <3> QED
      BY <1>1, <1>4, <1>6, <2>2, <2>4, <2>6, <3>1
  <2>9. Downward(p, e, 0, n - 1, m)'
    BY <1>3, <1>6, <2>2, <2>3, <2>4, <2>5, <2>7, <2>8 DEF Downward
  <2>10. status = None
    BY <1>4, <2>4
  <2> QED
    BY <2>1, <2>3, <2>9, <2>10 DEF f, u
<1>12. CASE k = 0 /\ n = 0 /\ m = 2
  <2>1. OnWire(arrived, down', u, 0, 0, 1) /\ Len(arrived) + n = Len(arrived) /\ k + n + 1 = 1
    <3>1. m - 1 = 1 /\ Len(arrived) + n = Len(arrived) /\ k + n + 1 = 1
      BY <1>2, <1>12
    <3> QED
      BY <1>5, <1>12, <3>1
  <2>2. f.type = "TRAILERS" /\ finished /\ ~eof /\ status = None /\ Justified(f.body, Len(arrived), p, e)
    <3>1. ~(m = 0)
      BY <1>12
    <3> QED
      BY <1>4, <1>7, <1>12, <2>1, <3>1
  <2>3. down'[0 + 0 + 1] = Frame("END", None)
    <3>1. m > 0 /\ k + n + m = 2 /\ 0 + 0 + 1 = 1 /\ 1 \in 1..Len(down) - 1 /\ 1 + 1 = 2
      BY <1>2, <1>12
    <3> QED
      BY <1>4, <1>7, <3>1
  <2>4. arrived' = arrived /\ ~eof' /\ status' = f.body
    BY <1>1, <2>2
  <2>5. OnWire(arrived', down', OwedFor(p, e)', 0, 0, 1) /\ Justified(status', Len(arrived'), p, e)
    BY <1>3, <2>1, <2>2, <2>4
  <2>6. finished' /\ endCalled' /\ encoded' = <<>>
    BY <1>1, <1>4, <2>2
  <2>7. 0 \in 0..1 /\ 0 \in Nat /\ 1 \in 0..2 /\ ~(1 = 2) /\ 0 + 0 = 0
    OBVIOUS
  <2>8. Downward(p, e, 0, 0, 1)'
    BY <1>3, <1>6, <2>3, <2>4, <2>5, <2>6, <2>7 DEF Downward
  <2> QED
    BY <1>12, <2>2, <2>8 DEF f
<1>13. CASE k = 0 /\ n = 0 /\ m = 1
  <2>1. OnWire(arrived, down', u, 0, 0, 0) /\ k + n + m = 1
    <3>1. m - 1 = 0 /\ k + n + m = 1
      BY <1>2, <1>13
    <3> QED
      BY <1>5, <1>13, <3>1
  <2>2. f = Frame("END", None) /\ f.type = "END" /\ finished /\ Justified(status, Len(arrived), p, e)
    <3>1. ~(m = 0) /\ m > 0 /\ m < 2
      BY <1>13
    <3> QED
      BY <1>4, <1>7, <2>1, <3>1 DEF Frame
  <2>3. arrived' = arrived /\ status' = status
    BY <1>1, <2>2
  <2>4. OnWire(arrived', down', OwedFor(p, e)', 0, 0, 0) /\ Justified(status', Len(arrived'), p, e)
    BY <1>3, <2>1, <2>2, <2>3
  <2>5. finished' /\ endCalled' /\ encoded' = <<>>
    BY <1>1, <1>4, <2>2
  <2>6. 0 \in 0..1 /\ 0 \in Nat /\ 0 \in 0..2 /\ ~(0 = 2) /\ 0 + 0 = 0 /\ ~(0 > 0)
    OBVIOUS
  <2>7. Downward(p, e, 0, 0, 0)'
    BY <1>3, <1>6, <2>4, <2>5, <2>6 DEF Downward
  <2> QED
    BY <1>13, <2>2, <2>7 DEF f
<1> QED
  <2>1. k = 1 \/ (k = 0 /\ n > 0) \/ (k = 0 /\ n = 0)
    BY <1>2
  <2>2. k = 0 /\ n = 0 => m = 1 \/ m = 2
    BY <1>2, <1>5
  <2> QED
    BY <2>1, <2>2, <1>10, <1>11, <1>12, <1>13

-----------------------------------------------------------------------------
(* All of it, one step at a time *)

LEMMA UnderWayNext ==
  ASSUME NEW p, NEW e, NEW k, NEW n, NEW m,
         Upward(p, e)', Handler(p, e)', Downward(p, e, k, n, m)'
  PROVE  UnderWay'
<1>1. p \in 0..written' /\ e \in BOOLEAN
  BY DEF Upward
<1>2. k \in 0..1 /\ n \in Nat /\ m \in 0..2 /\ Len(down') = k + n + m
  BY DEF Downward, OnWire
<1>3. n \in 0..Len(down')
  BY <1>2
<1> QED
  BY <1>1, <1>2, <1>3 DEF UnderWay

(* Every step of either side keeps what is under way in order. *)
LEMMA UnderWayStep ==
  ASSUME Typed, Dropping, stream = "live" => UnderWay, [Next]_vars, stream' = "live"
  PROVE  UnderWay'
<1>1. CASE UNCHANGED vars
  <2>1. stream = "live"
    BY <1>1 DEF vars, clientVars
  <2>2. PICK p \in 0..written, e \in BOOLEAN, k \in 0..1, n \in 0..Len(down), m \in 0..2 :
               Upward(p, e) /\ Handler(p, e) /\ Downward(p, e, k, n, m)
    BY <2>1 DEF UnderWay
  <2> QED
    BY <1>1, <2>2, UpwardFrame, HandlerFrame, DownwardFrame, UnderWayNext
       DEF vars, clientVars, serverVars
<1>2. CASE Start
  <2>1. stream = "none" /\ test.cancel # "begin"
    BY <1>2 DEF Start
  <2>2. Fresh
    BY <2>1 DEF Dropping, Dropped
  <2>3. Upward(0, FALSE)' /\ Downward(0, FALSE, 0, 0, 0)'
    BY <1>2, <2>1, <2>2, UpwardStart, DownwardStart
  <2>4. Handler(0, FALSE)'
    <3>1. /\ UNCHANGED <<test, congested, handling, total, endCalled, rpcCode, closed>>
          /\ ~closed /\ ~handling /\ total = 0 /\ ~endCalled /\ rpcCode = None
      BY <1>2, <2>2 DEF Start, Fresh, serverVars
    <3>2. Sum(First(0)) = 0 /\ ~NoMoreFor(0, FALSE)
      BY FirstFacts, TestFacts, SumOfNone, OwedOfNone DEF NoMoreFor
    <3>3. Handler(0, FALSE)
      BY <3>1, <3>2 DEF Handler
    <3> QED
      BY <3>1, <3>3, HandlerFrame
  <2> QED
    BY <2>3, <2>4, UnderWayNext
<1>3. ASSUME stream = "live", Next
      PROVE  UnderWay'
  <2>1. PICK p \in 0..written, e \in BOOLEAN, k \in 0..1, n \in 0..Len(down), m \in 0..2 :
               Upward(p, e) /\ Handler(p, e) /\ Downward(p, e, k, n, m)
    BY <1>3 DEF UnderWay
  <2>2. p \in 0..Len(test.sends)
    <3>1. written \in 0..Len(test.sends) /\ Len(test.sends) \in Nat
      BY TestFacts DEF Typed, ClientTyped, ClientFlags, ClientData
    <3> QED
      BY <3>1
  <2>3. CASE WriteNext
    <3>1. Upward(p, e)'
      BY <2>1, <2>3, UpwardWriteNext
    <3>2. UNCHANGED <<test, congested, arrived, eof, status, down, serverVars>>
      BY <2>3 DEF WriteNext
    <3>3. Handler(p, e)' /\ Downward(p, e, k, n, m)'
      BY <2>1, <3>2, HandlerFrame, DownwardFrame DEF serverVars
    <3> QED
      BY <3>1, <3>3, UnderWayNext
  <2>4. CASE EndRequest
    <3>1. Upward(p, e)'
      BY <2>1, <2>4, UpwardEndRequest
    <3>2. UNCHANGED <<test, congested, arrived, eof, status, down, serverVars>>
      BY <2>4 DEF EndRequest
    <3>3. Handler(p, e)' /\ Downward(p, e, k, n, m)'
      BY <2>1, <3>2, HandlerFrame, DownwardFrame DEF serverVars
    <3> QED
      BY <3>1, <3>3, UnderWayNext
  <2>5. CASE TimerFires
    BY <1>3, <2>5 DEF TimerFires, Abort
  <2>6. CASE Receive
    <3>1. UNCHANGED <<test, congested, written, ended, up, serverVars>>
      BY <2>6 DEF Receive
    <3>2. Upward(p, e)' /\ Handler(p, e)'
      BY <2>1, <3>1, UpwardFrame, HandlerFrame DEF serverVars
    <3>3. \E k2, n2, m2 : Downward(p, e, k2, n2, m2)'
      BY <1>3, <2>1, <2>2, <2>6, DownwardReceive
    <3> QED
      BY <3>2, <3>3, UnderWayNext
  <2>7. CASE DataEvent
    <3>1. UNCHANGED <<stream, status, up>>
      BY <1>3, <2>7 DEF DataEvent, Abort
    <3>2. UNCHANGED <<test, congested, written, ended, arrived, eof, down, serverVars>>
      BY <2>7 DEF DataEvent
    <3>3. Upward(p, e)' /\ Handler(p, e)' /\ Downward(p, e, k, n, m)'
      BY <2>1, <3>1, <3>2, UpwardFrame, HandlerFrame, DownwardFrame DEF serverVars
    <3> QED
      BY <3>3, UnderWayNext
  <2>8. CASE EndEvent
    <3>1. UNCHANGED <<test, congested, written, ended, arrived, eof, status, up, down, serverVars>>
      BY <2>8 DEF EndEvent
    <3>2. Upward(p, e)' /\ Handler(p, e)' /\ Downward(p, e, k, n, m)'
      BY <2>1, <3>1, UpwardFrame, HandlerFrame, DownwardFrame DEF serverVars
    <3> QED
      BY <3>2, UnderWayNext
  <2>9. CASE ServerHeaders
    <3>1. Upward(p, e)' /\ Handler(p, e)'
      BY <2>1, <2>9, UpwardServerHeaders
    <3>2. UNCHANGED <<test, congested, arrived, eof, status, down, headersSent, endCalled, encoded, finished>>
      BY <2>9 DEF ServerHeaders, clientVars
    <3>3. Downward(p, e, k, n, m)'
      BY <2>1, <3>2, DownwardFrame
    <3> QED
      BY <3>1, <3>3, UnderWayNext
  <2>10. CASE ServerData
    <3>1. /\ p + 1 <= Len(test.sends) /\ e = FALSE /\ Head(up).body = test.sends[p + 1]
          /\ Upward(p + 1, FALSE)'
      BY <2>1, <2>10, UpwardServerData
    <3>2. Handler(p, FALSE) /\ Downward(p, FALSE, k, n, m)
      BY <2>1, <3>1
    <3>3. Handler(p + 1, FALSE)'
      BY <2>2, <2>10, <3>1, <3>2, HandlerServerData
    <3>4. \E k2, m2 : Downward(p + 1, FALSE, k2, n, m2)'
      BY <2>2, <2>10, <3>1, <3>2, DownwardServerData
    <3> QED
      BY <3>1, <3>3, <3>4, UnderWayNext
  <2>11. CASE ServerEnd
    <3>1. e = FALSE /\ Upward(p, TRUE)'
      BY <2>1, <2>11, UpwardServerEnd
    <3>2. Handler(p, FALSE) /\ Downward(p, FALSE, k, n, m)
      BY <2>1, <3>1
    <3>3. Handler(p, TRUE)'
      BY <2>2, <2>11, <3>2, HandlerServerEnd
    <3>4. \E k2, m2 : Downward(p, TRUE, k2, n, m2)'
      BY <2>2, <2>11, <3>2, DownwardServerEnd
    <3> QED
      BY <3>1, <3>3, <3>4, UnderWayNext
  <2>12. CASE ServerReset
    BY <2>1, <2>12, NoReset DEF ServerReset
  <2>13. CASE PipeEncoded
    <3>1. Downward(p, e, k, n + 1, 0)'
      BY <2>1, <2>2, <2>13, DownwardPipeEncoded
    <3>2. UNCHANGED <<test, congested, written, ended, up, handling, total, endCalled, rpcCode, closed>>
      BY <2>13 DEF PipeEncoded, clientVars
    <3>3. Upward(p, e)' /\ Handler(p, e)'
      BY <2>1, <3>2, UpwardFrame, HandlerFrame
    <3> QED
      BY <3>1, <3>3, UnderWayNext
  <2>14. CASE ServerFinish
    <3>1. Downward(p, e, k, n, 2)'
      BY <2>1, <2>2, <2>14, DownwardServerFinish
    <3>2. UNCHANGED <<test, congested, written, ended, up, handling, total, endCalled, rpcCode, closed>>
      BY <2>14 DEF ServerFinish, clientVars
    <3>3. Upward(p, e)' /\ Handler(p, e)'
      BY <2>1, <3>2, UpwardFrame, HandlerFrame
    <3> QED
      BY <3>1, <3>3, UnderWayNext
  <2>15. CASE ServerTimerFires
    <3>1. \E k2, m2 : Downward(p, e, k2, n, m2)'
      BY <2>1, <2>2, <2>15, DownwardServerTimerFires
    <3>2. UNCHANGED <<test, congested, written, ended, up, handling>>
      BY <2>15 DEF ServerTimerFires, clientVars
    <3>3. Upward(p, e)' /\ Handler(p, e)'
      BY <2>1, <2>15, <3>2, UpwardFrame, HandlerServerTimerFires
    <3> QED
      BY <3>1, <3>3, UnderWayNext
  <2>16. CASE Start
    BY <1>3, <2>16 DEF Start
  <2> QED
    BY <1>3, <2>3, <2>4, <2>5, <2>6, <2>7, <2>8, <2>9, <2>10, <2>11, <2>12, <2>13, <2>14, <2>15, <2>16
       DEF Next, ClientStep, ServerStep
<1>4. ASSUME Next, ~Start
      PROVE  stream = "live"
  <2>1. CASE ClientStep
    <3>1. stream # "none"
      BY <1>4, <2>1, DroppingClient
    <3>2. stream = "null" => stream' = "null"
      BY <1>4, <2>1 DEF ClientStep, WriteNext, EndRequest, TimerFires, Receive, DataEvent,
                        EndEvent, Abort
    <3> QED
      BY <3>1, <3>2 DEF Typed, ClientTyped, ClientFlags, ClientData
  <2>2. CASE ServerStep
    BY <2>2, DroppingServer DEF clientVars
  <2> QED
    BY <1>4, <2>1, <2>2 DEF Next
<1> QED
  BY <1>1, <1>2, <1>3, <1>4

-----------------------------------------------------------------------------
(* What the tests expect *)

(* What is assumed of a test without a deadline. *)
Answered == Owed(test.method, test.sends, TRUE)

LEMMA UntimedFacts ==
  ASSUME Typed, ~test.timed
  PROVE  /\ ProperStatus(test.method, test.sends) \in test.errors \cup {OK}
         /\ Overrun(test.method, test.sends) => INTERNAL \in test.errors
         /\ test.checks => test.wants = Answered
         /\ test.doneOn = "end" /\ test.checks =>
              ~Overrun(test.method, test.sends) /\ test.cancel # "begin"
         /\ test.doneOn = "end" /\ test.cancel = "first" =>
              ~Overrun(test.method, test.sends) /\ Answered # <<>>
         /\ test.doneOn = "cancel" => test.cancel = "begin" \/ test.sends # <<>>
<1>1. test \in Tests
  BY TestFacts
<1> QED
  BY <1>1, ExpectationsAssumption DEF Answered

(* What has come to the client, in view of all that the test asks. *)
LEMMA WholeFacts ==
  ASSUME Typed, NEW p \in 0..Len(test.sends), NEW e \in BOOLEAN, e => p = Len(test.sends)
  PROVE  /\ Answered \in Seq(Reply(test.method)) /\ Begins(OwedFor(p, e), Answered)
         /\ NoMoreFor(p, e) => Answered = OwedFor(p, e)
                               /\ StatusFor(p) = ProperStatus(test.method, test.sends)
         /\ OverrunBy(p) => Overrun(test.method, test.sends)
<1> DEFINE N == Len(test.sends)
<1>1. /\ test.method \in Methods /\ test.sends \in Seq(Message(test.method)) /\ N \in Nat
      /\ First(N) = test.sends
  BY TestFacts, FirstFacts
<1>2. N \in p..N /\ N \in 0..N /\ TRUE \in BOOLEAN
  BY <1>1
<1>3. Answered = OwedFor(N, TRUE)
  BY <1>1 DEF Answered, OwedFor
<1>4. Answered \in Seq(Reply(test.method))
  BY <1>2, <1>3, FirstFacts
<1>5. /\ Begins(Owed(test.method, SubSeq(test.sends, 1, p), e), Owed(test.method, SubSeq(test.sends, 1, N), TRUE))
      /\ OwesNoMore(test.method, SubSeq(test.sends, 1, p), e) =>
           /\ Owed(test.method, SubSeq(test.sends, 1, N), TRUE) = Owed(test.method, SubSeq(test.sends, 1, p), e)
           /\ ProperStatus(test.method, SubSeq(test.sends, 1, N)) = ProperStatus(test.method, SubSeq(test.sends, 1, p))
      /\ Overrun(test.method, SubSeq(test.sends, 1, p)) => Overrun(test.method, SubSeq(test.sends, 1, N))
  <2> DEFINE mm == test.method
             ss == test.sends
             w == TRUE
  <2>1. /\ mm \in Methods /\ ss \in Seq(Message(mm)) /\ p \in 0..Len(ss) /\ N \in p..Len(ss)
        /\ w \in BOOLEAN /\ (e => w /\ p = N)
    BY <1>1, <1>2
  <2> HIDE DEF mm, ss, w, N
  <2>2. /\ Begins(Owed(mm, SubSeq(ss, 1, p), e), Owed(mm, SubSeq(ss, 1, N), w))
        /\ OwesNoMore(mm, SubSeq(ss, 1, p), e) =>
             /\ Owed(mm, SubSeq(ss, 1, N), w) = Owed(mm, SubSeq(ss, 1, p), e)
             /\ ProperStatus(mm, SubSeq(ss, 1, N)) = ProperStatus(mm, SubSeq(ss, 1, p))
        /\ Overrun(mm, SubSeq(ss, 1, p)) => Overrun(mm, SubSeq(ss, 1, N))
    BY <2>1, AheadWhole
  <2> QED
    BY <2>2 DEF mm, ss, w
<1> QED
  BY <1>1, <1>3, <1>4, <1>5 DEF OwedFor, NoMoreFor, StatusFor, OverrunBy, First

(* Without a deadline or push-back, a failure has its reason in an overrun. *)
LEMMA JustifiedUntimed ==
  ASSUME Typed, ~test.timed, ~congested, NEW p \in 0..Len(test.sends), NEW e \in BOOLEAN,
         e => p = Len(test.sends), NEW c, NEW n, Justified(c, n, p, e)
  PROVE  /\ c = OK \/ c \in test.errors
         /\ ~Overrun(test.method, test.sends) => n = Len(Answered)
<1>1. CASE NoMoreFor(p, e) /\ c = StatusFor(p) /\ n = Len(OwedFor(p, e))
  <2>1. c = ProperStatus(test.method, test.sends) /\ n = Len(Answered)
    BY <1>1, WholeFacts
  <2> QED
    BY <2>1, UntimedFacts
<1>2. CASE c = INTERNAL /\ OverrunBy(p)
  BY <1>2, WholeFacts, UntimedFacts
<1> QED
  BY <1>1, <1>2 DEF Justified

LEMMA UpwardFacts ==
  ASSUME Typed, NEW p, NEW e, Upward(p, e)
  PROVE  p \in 0..Len(test.sends) /\ e \in BOOLEAN /\ (~congested /\ e => p = Len(test.sends))
<1>1. written \in 0..Len(test.sends) /\ Len(test.sends) \in Nat
  BY TestFacts DEF Typed, ClientTyped, ClientFlags, ClientData
<1> QED
  BY <1>1 DEF Upward

LEMMA LiveStream ==
  ASSUME Typed, Dropping
  PROVE  /\ arrived # <<>> \/ eof => stream = "live" \/ cut
         /\ down # <<>> => stream # "none"
         /\ cut => stream = "null"
<1>1. stream \in {"none", "live", "null"}
  BY DEF Typed, ClientTyped, ClientFlags, ClientData
<1> QED
  BY <1>1 DEF Dropping, Dropped, Fresh

(* No step makes a test fail, unless it has a deadline or streams push back. *)
LEMMA ExpectationsStep ==
  ASSUME Typed, Dropping, stream = "live" => UnderWay, ExpectationsHold, [Next]_vars
  PROVE  ExpectationsHold'
<1> SUFFICES ASSUME ~test'.timed, ~congested'
             PROVE  failure' = "none"
  BY DEF ExpectationsHold
<1>0. test' = test /\ congested' = congested /\ ~congested
  BY SameCall
<1>1. CASE UNCHANGED vars
  BY <1>0, <1>1 DEF vars, clientVars, ExpectationsHold
<1>2. ASSUME Next
      PROVE  test' = test /\ failure = "none" /\ ~test.timed
  <2>1. failure = "none"
    BY <1>2 DEF Next, ClientStep, ServerStep, Start, WriteNext, EndRequest, TimerFires, Receive,
       DataEvent, EndEvent, ServerHeaders, ServerData, ServerEnd, ServerReset, PipeEncoded,
       ServerFinish, ServerTimerFires, Running
  <2> QED
    BY <1>0, <2>1
<1>3. CASE Start
  <2>1. failure = "none"
    BY <1>3 DEF Start, Running
  <2>2. test.cancel = "begin" /\ CancelEvent(CANCELLED) => failure' = failure
    BY DEF CancelEvent
  <2>3. \/ test.cancel = "begin" /\ CancelEvent(CANCELLED)
        \/ failure' = failure
    BY <1>3 DEF Start
  <2> QED
    BY <2>1, <2>2, <2>3
<1>4. CASE WriteNext \/ EndRequest \/ ServerStep
  <2>1. failure' = failure
    BY <1>4, DroppingServer DEF WriteNext, EndRequest, clientVars
  <2> QED
    BY <1>2, <1>4, <2>1 DEF Next, ClientStep
<1>5. CASE TimerFires
  <2>1. test.timed
    BY <1>5 DEF TimerFires, Dropping, Dropped
  <2> QED
    BY <1>2, <1>5, <2>1 DEF Next, ClientStep
<1>6. CASE Receive
  <2>0. failure = "none" /\ ~test.timed /\ down # <<>>
    BY <1>2, <1>6 DEF Next, ClientStep, Receive
  <2>1. CASE stream = "null"
    BY <1>6, <2>0, <2>1 DEF Receive
  <2>2. CASE stream # "null"
    <3>1. stream = "live"
      BY <2>0, <2>2, LiveStream DEF Typed, ClientTyped, ClientFlags, ClientData
    <3>2. PICK p \in 0..written, e \in BOOLEAN, k \in 0..1, n \in 0..Len(down), m \in 0..2 :
                 Upward(p, e) /\ Downward(p, e, k, n, m)
      BY <3>1 DEF UnderWay
    <3>3. p \in 0..Len(test.sends) /\ (e => p = Len(test.sends))
      BY <1>0, <3>2, UpwardFacts
    <3>4. \/ Head(down).type # "TRAILERS"
          \/ Justified(Head(down).body, Len(arrived), p, e)
      BY <1>6, <2>2, <3>2, <3>3, DownwardReceive DEF Frame
    <3>5. CASE Head(down).type # "TRAILERS"
      BY <1>6, <2>0, <2>2, <3>5 DEF Receive
    <3>6. CASE Justified(Head(down).body, Len(arrived), p, e)
      <4>1. Head(down).body = OK \/ Head(down).body \in test.errors
        BY <1>0, <2>0, <3>3, <3>6, JustifiedUntimed
      <4>2. StatusEvent(Head(down).body) \/ failure' = failure
        BY <1>6, <2>2 DEF Receive
      <4> QED
        BY <2>0, <4>1, <4>2 DEF StatusEvent
    <3> QED
      BY <3>4, <3>5, <3>6
  <2> QED
    BY <2>1, <2>2
<1>7. CASE DataEvent
  <2>0. failure = "none" /\ ~test.timed
    BY <1>2, <1>7 DEF Next, ClientStep
  <2>1. /\ ~cut /\ seen < Len(arrived) /\ seen \in Nat /\ Len(arrived) \in Nat
        /\ arrived # <<>>
    <3>1. ~cut /\ seen < Len(arrived)
      BY <1>7 DEF DataEvent
    <3>2. arrived \in Seq(Reply(test.method)) /\ seen \in 0..Len(arrived)
      BY DEF Typed, ClientTyped, ClientFlags, ClientData
    <3>3. Len(arrived) \in Nat /\ (arrived = <<>> => Len(arrived) = 0)
      BY <3>2, LenProperties
    <3> QED
      BY <3>1, <3>2, <3>3
  <2>2. stream = "live"
    BY <2>1, LiveStream
  <2>3. CASE test.cancel = "first"
    <3>1. CancelEvent(CANCELLED)
      BY <1>7, <2>3 DEF DataEvent, Abort
    <3>2. seen = 0
      BY <2>1, <2>3 DEF Dropping, Dropped
    <3>3. test.doneOn = "cancel" => seen < Len(test.sends)
      <4>1. test.doneOn = "cancel" => test.sends # <<>>
        BY <2>0, <2>3, UntimedFacts
      <4>2. test.sends # <<>> => Len(test.sends) > 0
        BY TestFacts, EmptySeq
      <4> QED
        BY <3>2, <4>1, <4>2
    <3> QED
      BY <2>0, <2>3, <3>1, <3>3 DEF CancelEvent
  <2>4. CASE test.cancel # "first"
    <3>1. PICK p \in 0..written, e \in BOOLEAN, k \in 0..1, n \in 0..Len(down), m \in 0..2 :
                 Upward(p, e) /\ Downward(p, e, k, n, m)
      BY <2>2 DEF UnderWay
    <3>2. p \in 0..Len(test.sends) /\ (e => p = Len(test.sends))
      BY <1>0, <3>1, UpwardFacts
    <3>3. Begins(OwedFor(p, e), Answered) /\ Answered \in Seq(Reply(test.method))
          /\ OwedFor(p, e) \in Seq(Reply(test.method))
      BY <3>2, WholeFacts, FirstFacts
    <3>4. /\ Len(arrived) + n <= Len(OwedFor(p, e))
          /\ \A i \in DOMAIN arrived : arrived[i] = OwedFor(p, e)[i]
      BY <3>1 DEF Downward, OnWire
    <3>5. seen + 1 \in DOMAIN arrived
      <4>1. arrived \in Seq(Reply(test.method))
        BY DEF Typed, ClientTyped, ClientFlags, ClientData
      <4>2. DOMAIN arrived = 1..Len(arrived)
        BY <4>1, LenProperties
      <4> QED
        BY <2>1, <4>2
    <3>6. arrived[seen + 1] = Answered[seen + 1] /\ seen < Len(Answered)
      <4>1. Len(OwedFor(p, e)) \in Nat /\ Len(Answered) \in Nat
        BY <3>3, LenProperties
      <4>2. seen + 1 \in 1..Len(OwedFor(p, e))
        BY <2>1, <3>4, <4>1
      <4>3. arrived[seen + 1] = OwedFor(p, e)[seen + 1]
        BY <3>4, <3>5
      <4>4. Len(OwedFor(p, e)) <= Len(Answered) /\ OwedFor(p, e)[seen + 1] = Answered[seen + 1]
        BY <3>3, <4>2 DEF Begins
      <4> QED
        BY <2>1, <4>1, <4>2, <4>3, <4>4
    <3>7. Expected(arrived[seen + 1])
      BY <2>0, <3>6, UntimedFacts DEF Expected
    <3> QED
      BY <1>7, <2>0, <2>4, <3>7 DEF DataEvent
  <2> QED
    BY <2>3, <2>4
<1>8. CASE EndEvent
  <2>0. failure = "none" /\ ~test.timed
    BY <1>2, <1>8 DEF Next, ClientStep
  <2>1. CASE test.doneOn # "end"
    BY <1>8, <2>0, <2>1 DEF EndEvent
  <2>2. CASE test.doneOn = "end" /\ cut
    <3>1. stream = "null" /\ cancelHeard /\ test.cancel # "never"
      BY <2>0, <2>2, LiveStream DEF Dropping, Dropped
    <3>2. test.cancel # "first" => test.cancel = "begin"
      BY <3>1, TestFacts
    <3>3. ExpectedAtEnd
      BY <2>0, <2>2, <3>1, <3>2, UntimedFacts DEF ExpectedAtEnd
    <3> QED
      BY <1>8, <2>0, <3>3 DEF EndEvent
  <2>3. CASE test.doneOn = "end" /\ ~cut
    <3>1. eof /\ seen = Len(arrived)
      BY <1>8, <2>3 DEF EndEvent
    <3>2. stream = "live"
      BY <2>3, <3>1, LiveStream
    <3>3. PICK p \in 0..written, e \in BOOLEAN, k \in 0..1, n \in 0..Len(down), m \in 0..2 :
                 Upward(p, e) /\ Downward(p, e, k, n, m)
      BY <3>2 DEF UnderWay
    <3>4. p \in 0..Len(test.sends) /\ (e => p = Len(test.sends))
      BY <1>0, <3>3, UpwardFacts
    <3>5. Justified(status, Len(arrived), p, e)
      <4>1. 0 < 2
        OBVIOUS
      <4> QED
        BY <3>1, <3>3, <4>1 DEF Downward
    <3>6. ~Overrun(test.method, test.sends) => seen = Len(Answered)
      BY <1>0, <2>0, <3>1, <3>4, <3>5, JustifiedUntimed
    <3>7. test.cancel # "first"
      <4>1. ASSUME test.cancel = "first"
            PROVE  FALSE
        <5>1. seen = Len(Answered) /\ Answered # <<>>
          BY <2>0, <2>3, <3>6, <4>1, UntimedFacts
        <5>2. Answered \in Seq(Reply(test.method))
          BY <3>4, WholeFacts
        <5>3. seen > 0
          BY <5>1, <5>2
        <5> QED
          BY <2>3, <4>1, <5>3 DEF Dropping, Dropped
      <4> QED
        BY <4>1
    <3>8. ExpectedAtEnd
      BY <2>0, <2>3, <3>6, <3>7, UntimedFacts DEF ExpectedAtEnd
    <3> QED
      BY <1>8, <2>0, <3>8 DEF EndEvent
  <2> QED
    BY <2>1, <2>2, <2>3
<1> QED
  BY <1>1, <1>3, <1>4, <1>5, <1>6, <1>7, <1>8 DEF Next, ClientStep

-----------------------------------------------------------------------------
(* The invariant, and what follows from it *)

(* The invariant is inductive. *)
LEMMA InvInit ==
  ASSUME Init
  PROVE  Inv
<1> QED
  BY TypedInit, DroppingInit DEF Inv, Init, ExpectationsHold

LEMMA InvStep ==
  ASSUME Inv, [Next]_vars
  PROVE  Inv'
<1> QED
  BY TypedStep, DroppingStep, UnderWayStep, ExpectationsStep DEF Inv

(* It holds always. *)
LEMMA InvAlways == Spec => []Inv
<1> QED
  BY InvInit, InvStep, PTL DEF Spec

(* The tests of interop_client.js and math_client.js pass: in no interleaving *)
(* of client and server does a test without a deadline get a response, a      *)
(* status or an event that it does not expect, provided it expects what the   *)
(* handlers of interop_server.js and math_server.js owe, and the streams do   *)
(* not push back.                                                             *)
THEOREM ExpectationsMet == Spec => []ExpectationsHold
<1>1. Inv => ExpectationsHold
  BY DEF Inv
<1> QED
  BY InvAlways, <1>1, PTL

-----------------------------------------------------------------------------
(* The responses that the application is given *)

Verdicts == {OK, INVALID_ARGUMENT}

(* What the application of the client can rely on, unless streams push back:  *)
(* the responses it was given begin all that is owed for its request; a status *)
(* that a handler gives is the proper one, and with it, 'end' comes when they *)
(* are all there.                                                             *)
ResponseIsWhole ==
  ~congested =>
    /\ Begins(Given, Answered)
    /\ status \in Verdicts => status = ProperStatus(test.method, test.sends)
    /\ respEnded /\ status \in Verdicts => Given = Answered

(* The same of the messages that arrived, which are there before the status. *)
ArrivedWhole ==
  /\ Begins(arrived, Answered)
  /\ status \in Verdicts => arrived = Answered /\ status = ProperStatus(test.method, test.sends)

(* Once a stream is dropped nothing arrives, and no status but the client's own. *)
NothingMore ==
  stream # "live" =>
    /\ ~congested => Begins(arrived, Answered)
    /\ status \in {None, CANCELLED, DEADLINE_EXCEEDED}

(* Unless the response was cut, 'end' comes after its last message. *)
EndIsLast == respEnded /\ ~cut => eof /\ seen = Len(arrived)

(* While there is a stream, the frames under way say as much. *)
LEMMA LiveIsWhole ==
  ASSUME Inv, stream = "live", ~congested
  PROVE  ArrivedWhole
<1>1. Typed
  BY DEF Inv
<1>2. PICK p \in 0..written, e \in BOOLEAN, k \in 0..1, n \in 0..Len(down), m \in 0..2 :
        Upward(p, e) /\ Handler(p, e) /\ Downward(p, e, k, n, m)
  BY DEF Inv, UnderWay
<1> DEFINE o == OwedFor(p, e)
<1>3. p \in 0..Len(test.sends) /\ (e => p = Len(test.sends))
  BY <1>1, <1>2, UpwardFacts
<1>4. /\ Answered \in Seq(Reply(test.method)) /\ Begins(o, Answered)
      /\ NoMoreFor(p, e) => /\ Answered = o
                            /\ StatusFor(p) = ProperStatus(test.method, test.sends)
  BY <1>1, <1>3, WholeFacts
<1>5. arrived \in Seq(Reply(test.method)) /\ o \in Seq(Reply(test.method)) /\ Len(arrived) \in Nat
  BY <1>1, <1>2, <1>3, DownwardParts
<1>6. /\ Len(arrived) + n <= Len(o) /\ n \in Nat
      /\ \A i \in DOMAIN arrived : arrived[i] = o[i]
  BY <1>2 DEF Downward, OnWire
<1>7. Begins(arrived, Answered)
  <2>1. /\ Len(o) \in Nat /\ Len(Answered) \in Nat /\ DOMAIN arrived = 1..Len(arrived)
    BY <1>4, <1>5, LenProperties
  <2>2. Len(o) <= Len(Answered) /\ \A i \in 1..Len(o) : Answered[i] = o[i]
    BY <1>4 DEF Begins
  <2> HIDE DEF o
  <2>3. Len(arrived) <= Len(o)
    BY <1>5, <1>6, <2>1
  <2>4. Len(arrived) <= Len(Answered) /\ \A i \in 1..Len(arrived) : Answered[i] = arrived[i]
    <3>1. Len(arrived) <= Len(Answered)
      BY <1>5, <2>1, <2>2, <2>3
    <3> SUFFICES ASSUME NEW i \in 1..Len(arrived) PROVE Answered[i] = arrived[i]
      BY <3>1
    <3>2. i \in 1..Len(o) /\ i \in DOMAIN arrived
      BY <1>5, <2>1, <2>3
    <3> QED
      BY <1>6, <2>2, <3>2
  <2> QED
    BY <2>1, <2>4 DEF Begins
<1>8. ASSUME status \in Verdicts
      PROVE  arrived = Answered /\ status = ProperStatus(test.method, test.sends)
  <2>1. status # None /\ status \notin Failures
    BY <1>8 DEF Verdicts, Failures, OK, INVALID_ARGUMENT, DEADLINE_EXCEEDED, INTERNAL, None
  <2>2. Justified(status, Len(arrived), p, e)
    BY <1>2, <2>1 DEF Downward
  <2>3. NoMoreFor(p, e) /\ status = StatusFor(p) /\ Len(arrived) = Len(o)
    BY <2>1, <2>2 DEF Justified
  <2>4. arrived = o
    BY <1>5, <1>6, <2>3, SameElements
  <2> QED
    BY <1>4, <2>3, <2>4
<1> QED
  BY <1>7, <1>8 DEF ArrivedWhole

LEMMA NothingMoreInit == Init => NothingMore /\ EndIsLast
<1> SUFFICES ASSUME Init PROVE NothingMore /\ EndIsLast
  OBVIOUS
<1>1. arrived = <<>> /\ status = None
  BY DEF Init
<1>2. Begins(<<>>, Answered)
  <2>1. Typed
    BY TypedInit
  <2>2. Answered \in Seq(Reply(test.method))
    <3>1. Len(test.sends) \in 0..Len(test.sends) /\ (TRUE => Len(test.sends) = Len(test.sends))
      BY <2>1, TestFacts DEF Typed
    <3> QED
      BY <2>1, <3>1, WholeFacts
  <2>3. Len(Answered) \in Nat
    BY <2>2, LenProperties
  <2> QED
    BY <2>3 DEF Begins
<1>3. EndIsLast
  BY DEF Init, EndIsLast
<1> QED
  BY <1>1, <1>2, <1>3 DEF NothingMore

LEMMA NothingMoreStep == Inv /\ NothingMore /\ [Next]_vars => NothingMore'
<1> SUFFICES ASSUME Inv, NothingMore, [Next]_vars, stream' # "live"
             PROVE  /\ ~congested' => Begins(arrived, Answered)'
                    /\ status' \in {None, CANCELLED, DEADLINE_EXCEEDED}
  BY DEF NothingMore
<1>1. ~congested => Begins(arrived, Answered)
  BY LiveIsWhole DEF ArrivedWhole, NothingMore
<1>2. test' = test /\ congested' = congested
  BY SameCall
<1>3. arrived' = arrived /\ status' \in {None, CANCELLED, DEADLINE_EXCEEDED}
  <2>1. CASE Start
    BY <2>1 DEF Start, NothingMore
  <2>2. CASE TimerFires
    BY <2>2 DEF TimerFires, Abort, NothingMore
  <2>3. CASE Receive
    <3>1. stream' = stream /\ down # <<>>
      BY <2>3 DEF Receive
    <3>2. stream = "null"
      BY <3>1 DEF Inv, Typed, ClientTyped, ClientFlags, Dropping, Fresh
    <3> QED
      BY <2>3, <3>2 DEF Receive, NothingMore
  <2>4. CASE DataEvent
    BY <2>4 DEF DataEvent, Abort, NothingMore
  <2>5. CASE UNCHANGED <<stream, arrived, status>>
    BY <2>5 DEF NothingMore
  <2>6. CASE WriteNext \/ EndRequest \/ EndEvent
    BY <2>5, <2>6 DEF WriteNext, EndRequest, EndEvent
  <2>7. CASE ServerStep \/ UNCHANGED vars
    BY <2>5, <2>7 DEF ServerStep, clientVars, vars, ServerHeaders, ServerData, ServerEnd, ServerReset,
       PipeEncoded, ServerFinish, ServerTimerFires
  <2> QED
    BY <2>1, <2>2, <2>3, <2>4, <2>6, <2>7 DEF Next, ClientStep
<1>4. Answered' = Answered
  BY <1>2 DEF Answered
<1> QED
  BY <1>1, <1>2, <1>3, <1>4 DEF Begins

(* Nothing arrives after the end of a response. *)
LEMMA NothingAfterEnd ==
  ASSUME Inv, stream = "live", eof
  PROVE  down = <<>> /\ finished
<1>1. PICK p, e, k, n, m : Downward(p, e, k, n, m)
  BY DEF Inv, UnderWay
<1>2. finished /\ m = 0 /\ k + n = 0 /\ Len(down) = k + n + m
  <2>1. finished /\ m = 0 /\ Len(down) = k + n + m
    BY <1>1 DEF Downward, OnWire
  <2> QED
    BY <1>1, <2>1 DEF Downward
<1>3. Len(down) = 0 /\ down \in Seq(DownFrame)
  BY <1>2 DEF Inv, Typed
<1> QED
  BY <1>2, <1>3

LEMMA EndIsLastStep == Inv /\ EndIsLast /\ [Next]_vars => EndIsLast'
<1> SUFFICES ASSUME Inv, EndIsLast, [Next]_vars, respEnded', ~cut'
             PROVE  eof' /\ seen' = Len(arrived')
  BY DEF EndIsLast
<1>1. /\ stream \in {"none", "live", "null"} /\ eof \in BOOLEAN /\ seen \in Nat
      /\ Len(arrived) \in Nat /\ (stream = "null" /\ ~cut => ~eof)
  <2>1. /\ stream \in {"none", "live", "null"} /\ eof \in BOOLEAN
        /\ arrived \in Seq(Reply(test.method)) /\ seen \in 0..Len(arrived)
    BY DEF Inv, Typed, ClientTyped, ClientFlags, ClientData
  <2>2. Len(arrived) \in Nat
    BY <2>1, LenProperties
  <2> QED
    BY <2>1, <2>2 DEF Inv, Dropping, Dropped
<1>2. CASE UNCHANGED <<respEnded, cut, eof, seen, arrived>>
  BY <1>2 DEF EndIsLast
<1>3. CASE Start
  BY <1>3 DEF Start, EndIsLast, Inv, Dropping, Fresh
<1>4. CASE WriteNext \/ EndRequest \/ ServerStep \/ UNCHANGED vars
  <2>1. UNCHANGED <<respEnded, cut, eof, seen, arrived>>
    BY <1>4, DroppingServer DEF Inv, WriteNext, EndRequest, clientVars, vars
  <2> QED
    BY <1>2, <2>1
<1>5. CASE TimerFires
  BY <1>2, <1>5 DEF TimerFires, Abort
<1>6. CASE Receive
  <2>1. respEnded /\ ~cut /\ seen' = seen
    BY <1>6 DEF Receive
  <2>2. eof /\ seen = Len(arrived)
    BY <2>1 DEF EndIsLast
  <2>3. stream # "live"
    BY <1>6, <2>2, NothingAfterEnd DEF Receive
  <2>4. stream # "null" /\ stream # "none"
    BY <1>1, <2>1, <2>2 DEF Inv, Dropping, Fresh
  <2> QED
    BY <1>1, <2>3, <2>4
<1>7. CASE DataEvent
  <2>1. respEnded /\ ~cut /\ seen < Len(arrived)
    BY <1>7 DEF DataEvent
  <2> QED
    BY <1>1, <2>1 DEF EndIsLast
<1>8. CASE EndEvent
  BY <1>8 DEF EndEvent
<1> QED
  BY <1>3, <1>4, <1>5, <1>6, <1>7, <1>8 DEF Next, ClientStep

(* What the application was given is the start of what arrived. *)
LEMMA GivenFacts ==
  ASSUME Typed
  PROVE  /\ Given \in Seq(Reply(test.method)) /\ Len(Given) = seen
         /\ \A i \in 1..seen : Given[i] = arrived[i]
         /\ seen = Len(arrived) => Given = arrived
<1>1. arrived \in Seq(Reply(test.method)) /\ seen \in 0..Len(arrived) /\ Len(arrived) \in Nat
  BY LenProperties DEF Typed, ClientTyped, ClientData
<1>2. /\ Given \in Seq(Reply(test.method)) /\ Len(Given) = seen
      /\ \A i \in 1..seen : Given[i] = arrived[i]
  BY <1>1 DEF Given
<1>3. ASSUME seen = Len(arrived) PROVE Given = arrived
  <2>1. Len(Given) = Len(arrived) /\ \A i \in DOMAIN Given : Given[i] = arrived[i]
    BY <1>1, <1>2, <1>3
  <2> QED
    BY <1>1, <1>2, <2>1, SameElements
<1> QED
  BY <1>2, <1>3

(* Whatever the handler, the tests and the interleaving of both sides: the    *)
(* messages that the application of a client is given by 'data' events begin  *)
(* all that the handler owes for the whole request; a status that the handler *)
(* gives (mathDiv's INVALID_ARGUMENT, or OK of _updateTrailers) is the proper *)
(* one, and it was given all of them by the time of 'end'. When a stream      *)
(* pushes back, its end may overtake messages (server.js:99, client.js:409),  *)
(* and then nothing is said.                                                  *)
THEOREM ResponsesWhole == Spec => []ResponseIsWhole
<1>1. Spec => [](NothingMore /\ EndIsLast)
  BY InvAlways, NothingMoreInit, NothingMoreStep, EndIsLastStep, PTL DEF Spec
<1>2. Inv /\ NothingMore /\ EndIsLast => ResponseIsWhole
  <2> SUFFICES ASSUME Inv, NothingMore, EndIsLast, ~congested
               PROVE  /\ Begins(Given, Answered)
                      /\ status \in Verdicts => status = ProperStatus(test.method, test.sends)
                      /\ respEnded /\ status \in Verdicts => Given = Answered
    BY DEF ResponseIsWhole
  <2>1. Typed /\ (stream # "live" => status \notin Verdicts)
    BY DEF Inv, NothingMore, Verdicts, OK, CANCELLED, INVALID_ARGUMENT, DEADLINE_EXCEEDED, None
  <2>2. ArrivedWhole
    BY <2>1, LiveIsWhole DEF NothingMore, ArrivedWhole
  <2>3. Begins(Given, Answered)
    <3>1. arrived \in Seq(Reply(test.method)) /\ seen \in 0..Len(arrived) /\ Len(arrived) \in Nat
      BY <2>1, LenProperties DEF Typed, ClientTyped, ClientData
    <3>2. Len(Given) = seen /\ \A i \in 1..seen : Given[i] = arrived[i]
      BY <2>1, GivenFacts
    <3>3. Len(arrived) <= Len(Answered) /\ \A i \in 1..Len(arrived) : Answered[i] = arrived[i]
      BY <2>2 DEF ArrivedWhole, Begins
    <3>4. Len(Answered) \in Nat
      <4>1. Len(test.sends) \in 0..Len(test.sends) /\ (TRUE => Len(test.sends) = Len(test.sends))
        BY <2>1, TestFacts
      <4>2. Answered \in Seq(Reply(test.method))
        BY <2>1, <4>1, WholeFacts
      <4> QED
        BY <4>2, LenProperties
    <3> HIDE DEF Given
    <3>5. seen <= Len(Answered) /\ \A i \in 1..seen : Answered[i] = Given[i]
      BY <3>1, <3>2, <3>3, <3>4
    <3> QED
      BY <3>2, <3>5 DEF Begins
  <2>4. ASSUME respEnded, status \in Verdicts PROVE Given = Answered
    <3>1. ~cut
      BY <2>1, <2>4 DEF Inv, Dropping, Dropped, Typed, ClientTyped, ClientFlags, Fresh
    <3>2. seen = Len(arrived) /\ arrived = Answered
      BY <2>2, <2>4, <3>1 DEF EndIsLast, ArrivedWhole
    <3> QED
      BY <2>1, <3>2, GivenFacts
  <2> QED
    BY <2>2, <2>3, <2>4 DEF ArrivedWhole
<1> QED
  BY <1>1, <1>2, InvAlways, PTL

-----------------------------------------------------------------------------
(* The abstract rpc *)

Asked == SubSeq(test.sends, 1, written)

(* The initial states of an rpc are those of module Rpc; one lemma for each *)
(* action it maps to.                                                       *)
LEMMA RpcInit ==
  ASSUME Init
  PROVE  Promise!Init
<1>1. SubSeq(test.sends, 1, 0) = <<>>
  BY TestFacts, TypedInit, PrefixFacts
<1>2. Given = <<>>
  <2>1. arrived = <<>> /\ seen = 0
    BY DEF Init
  <2>2. Len(Given) = 0
    BY <2>1, TypedInit, GivenFacts
  <2>3. Given \in Seq(Reply(test.method))
    BY TypedInit, GivenFacts
  <2> QED
    BY <2>2, <2>3
<1> QED
  BY <1>1, <1>2 DEF Init, Promise!Init

(* What the server has handled is the start of what was asked. *)
LEMMA OwedAhead ==
  ASSUME Typed, NEW p, NEW e, Upward(p, e)
  PROVE  /\ Begins(OwedFor(p, e), Owed(test.method, Asked, ended))
         /\ Owed(test.method, Asked, ended) \in Seq(Reply(test.method))
         /\ OwedFor(p, e) \in Seq(Reply(test.method))
         /\ NoMoreFor(p, e) =>
              /\ OwesNoMore(test.method, Asked, ended)
              /\ Owed(test.method, Asked, ended) = OwedFor(p, e)
              /\ ProperStatus(test.method, Asked) = StatusFor(p)
         /\ OverrunBy(p) => Overrun(test.method, Asked)
<1> DEFINE mm == test.method
           ss == test.sends
<1>1. /\ written \in 0..Len(ss) /\ Len(ss) \in Nat /\ ended \in BOOLEAN
      /\ mm \in Methods /\ ss \in Seq(Message(mm))
  BY TestFacts DEF Typed, ClientTyped, ClientFlags, ClientData
<1>2. p \in 0..written /\ (e => ended /\ p = written) /\ e \in BOOLEAN
  BY DEF Upward
<1>3. written \in p..Len(ss) /\ p \in 0..Len(ss)
  BY <1>1, <1>2
<1>4. OwedFor(p, e) \in Seq(Reply(mm)) /\ Owed(mm, Asked, ended) \in Seq(Reply(mm))
  BY <1>1, <1>2, <1>3, FirstFacts DEF OwedFor, First, Asked
<1> HIDE DEF mm, ss
<1>5. /\ Begins(Owed(mm, SubSeq(ss, 1, p), e), Owed(mm, SubSeq(ss, 1, written), ended))
      /\ OwesNoMore(mm, SubSeq(ss, 1, p), e) =>
           /\ OwesNoMore(mm, SubSeq(ss, 1, written), ended)
           /\ Owed(mm, SubSeq(ss, 1, written), ended) = Owed(mm, SubSeq(ss, 1, p), e)
           /\ ProperStatus(mm, SubSeq(ss, 1, written)) = ProperStatus(mm, SubSeq(ss, 1, p))
      /\ Overrun(mm, SubSeq(ss, 1, p)) => Overrun(mm, SubSeq(ss, 1, written))
  BY <1>1, <1>2, <1>3, AheadWhole
<1> QED
  BY <1>4, <1>5 DEF mm, ss, Asked, OwedFor, NoMoreFor, StatusFor, OverrunBy, First

LEMMA RpcWriteNext ==
  ASSUME Typed, WriteNext
  PROVE  Promise!Ask
<1> DEFINE S == Message(test.method)
           a == SubSeq(test.sends, 1, written)
           b == SubSeq(test.sends, 1, written + 1)
<1>1. /\ UNCHANGED <<test, congested, ended, arrived, seen, respEnded, cut, status>>
      /\ ~ended /\ written < Released /\ written' = written + 1
  BY DEF WriteNext
<1>2. /\ written \in 0..Len(test.sends) /\ Len(test.sends) \in Nat /\ test.sends \in Seq(S)
      /\ seen \in 0..Len(arrived) /\ Len(arrived) \in Nat
  BY TestFacts, LenProperties DEF Typed, ClientTyped, ClientFlags, ClientData
<1>3. written + 1 <= Len(test.sends) /\ written + 1 \in 0..Len(test.sends)
  BY <1>1, <1>2 DEF Released
<1>4. /\ a \in Seq(S) /\ Len(a) = written /\ Len(b) = written + 1
      /\ b = Append(a, test.sends[written + 1]) /\ test.sends[written + 1] \in S
  BY <1>2, <1>3, PrefixFacts
<1>5. SubSeq(b, 1, Len(a)) = a
  BY <1>4, StartOfAppend
<1>6. Len(b) = Len(a) + 1
  BY <1>4
<1>7. SubSeq(test.sends, 1, written)' = b /\ Given' = Given
  BY <1>1 DEF Given
<1> HIDE DEF a, b, Given
<1> QED
  BY <1>1, <1>5, <1>6, <1>7 DEF Promise!Ask, Promise!call, a

(* A step that the client of Rpc does not see. *)
LEMMA RpcStutter ==
  ASSUME UNCHANGED <<test, congested, written, ended, arrived, seen, status>>,
         respEnded' \/ cut' <=> respEnded \/ cut
  PROVE  [Promise!Next]_(Promise!vars)
<1>1. Given' = Given /\ (respEnded \/ cut)' = (respEnded \/ cut)
  BY DEF Given
<1> QED
  BY <1>1 DEF Promise!vars, Promise!call

(* The frame with a status settles the rpc, or it failed. *)
LEMMA RpcStatus ==
  ASSUME Typed, Receive, stream # "null", status = None, Head(down).type = "TRAILERS",
         NEW p, NEW e, Upward(p, e), Justified(Head(down).body, Len(arrived), p, e)
  PROVE  [Promise!Next]_(Promise!vars)
<1> DEFINE mm == test.method
           f == Head(down)
<1>1. /\ UNCHANGED <<test, congested, written, ended, arrived, seen, respEnded, cut>>
      /\ status' = f.body
  BY DEF Receive, StatusEvent
<1>2. Given' = Given /\ Asked' = Asked
  BY <1>1 DEF Given, Asked
<1>3. CASE NoMoreFor(p, e) /\ f.body = StatusFor(p)
  <2>1. OwesNoMore(mm, Asked, ended) /\ status' = ProperStatus(mm, Asked)
    BY <1>1, <1>3, OwedAhead
  <2> HIDE DEF Given
  <2>2. Promise!Settle
    BY <1>1, <1>2, <2>1 DEF Promise!Settle, Promise!call, Asked
  <2> QED
    BY <2>2 DEF Promise!Next
<1>4. CASE f.body \in Failures /\ (test.timed \/ OverrunBy(p))
  <2>1. status' \in {DEADLINE_EXCEEDED, INTERNAL} /\ (test.timed \/ Overrun(mm, Asked))
    BY <1>1, <1>4, OwedAhead DEF Failures
  <2> HIDE DEF Given
  <2>2. Promise!Fail
    BY <1>1, <1>2, <2>1 DEF Promise!Fail, Promise!call, Asked
  <2> QED
    BY <2>2 DEF Promise!Next
<1> QED
  BY <1>3, <1>4 DEF Justified

LEMMA RpcReceive ==
  ASSUME Inv, EndIsLast, Receive
  PROVE  [Promise!Next]_(Promise!vars)
<1>0. Typed /\ Dropping
  BY DEF Inv
<1>1. CASE stream = "null"
  BY <1>1, RpcStutter DEF Receive
<1>2. CASE stream = "live"
  <2>1. PICK p \in 0..written, e \in BOOLEAN, k \in 0..1, n \in 0..Len(down), m \in 0..2 :
          Upward(p, e) /\ Downward(p, e, k, n, m)
    BY <1>2 DEF Inv, UnderWay
  <2>2. p \in 0..Len(test.sends)
    BY <1>0, <2>1, UpwardFacts
  <2>3. \/ Head(down).type # "TRAILERS"
        \/ /\ Head(down).type = "TRAILERS" /\ status = None
           /\ Justified(Head(down).body, Len(arrived), p, e)
    BY <1>0, <1>2, <2>1, <2>2, DownwardReceive DEF Frame
  <2>4. CASE Head(down).type = "TRAILERS" /\ status = None /\ Justified(Head(down).body, Len(arrived), p, e)
    BY <1>0, <1>2, <2>1, <2>4, RpcStatus
  <2>5. CASE Head(down).type # "TRAILERS"
    <3>1. /\ UNCHANGED <<test, congested, written, ended, seen, respEnded, cut, status>>
          /\ arrived' \in {arrived, Append(arrived, Head(down).body)}
      BY <2>5 DEF Receive
    <3>2. Given' = Given
      <4>1. /\ arrived \in Seq(Reply(test.method)) /\ seen \in 0..Len(arrived)
            /\ Len(arrived) \in Nat /\ down \in Seq(DownFrame)
        BY <1>0, LenProperties DEF Typed, ClientTyped, ClientData
      <4>2. arrived' \in Seq(Reply(test.method)) /\ seen <= Len(arrived')
        <5>1. Typed'
          BY <1>0, TypedReceive
        <5>2. arrived' \in Seq(Reply(test.method)) /\ seen' \in 0..Len(arrived')
          BY <3>1, <5>1 DEF Typed, ClientTyped, ClientData
        <5> QED
          BY <3>1, <5>2, LenProperties
      <4>3. \A i \in 1..seen : arrived'[i] = arrived[i]
        BY <3>1, <4>1
      <4>4. SubSeq(arrived', 1, seen) = SubSeq(arrived, 1, seen)
        BY <4>1, <4>2, <4>3, SameStart
      <4> QED
        BY <3>1, <4>4 DEF Given
    <3>3. (respEnded \/ cut)' = (respEnded \/ cut)
      BY <3>1
    <3> HIDE DEF Given
    <3> QED
      BY <3>1, <3>2, <3>3 DEF Promise!vars, Promise!call
  <2> QED
    BY <2>3, <2>4, <2>5
<1>3. stream = "null" \/ stream = "live"
  <2>1. stream # "none"
    BY <1>0, LiveStream DEF Receive
  <2> QED
    BY <1>0, <2>1 DEF Typed, ClientTyped, ClientFlags
<1> QED
  BY <1>1, <1>2, <1>3

(* The next message is one that is owed, and the application was not told of *)
(* an end.                                                                   *)
LEMMA RpcGives ==
  ASSUME Inv, EndIsLast, DataEvent
  PROVE  ~(respEnded \/ cut) /\ Promise!Owes /\ Promise!GivesNext
<1>0. Typed /\ Dropping
  BY DEF Inv
<1>1. /\ ~cut /\ seen < Len(arrived) /\ seen' = seen + 1 /\ arrived' = arrived
      /\ test' = test /\ seen \in Nat /\ Len(arrived) \in Nat
      /\ arrived \in Seq(Reply(test.method)) /\ DOMAIN arrived = 1..Len(arrived)
  <2>1. /\ ~cut /\ seen < Len(arrived) /\ seen' = seen + 1 /\ arrived' = arrived /\ test' = test
        /\ arrived \in Seq(Reply(test.method)) /\ seen \in 0..Len(arrived)
    BY <1>0 DEF DataEvent, Typed, ClientTyped, ClientData
  <2> QED
    BY <2>1, LenProperties
<1>2. ~respEnded
  <2>1. respEnded => seen = Len(arrived)
    BY <1>1 DEF EndIsLast
  <2>2. seen < Len(arrived) /\ seen \in Nat /\ Len(arrived) \in Nat
    BY <1>1
  <2>3. seen # Len(arrived)
    BY <2>2
  <2> QED
    BY <2>1, <2>3
<1>3. stream = "live"
  <2>1. arrived # <<>>
    BY <1>1
  <2> QED
    BY <1>0, <1>1, <2>1, LiveStream
<1>4. PICK p \in 0..written, e \in BOOLEAN, k \in 0..1, n \in 0..Len(down), m \in 0..2 :
        Upward(p, e) /\ Downward(p, e, k, n, m)
  BY <1>3 DEF Inv, UnderWay
<1> DEFINE u == OwedFor(p, e)
           owed == Owed(test.method, Asked, ended)
<1>5. Len(arrived) + n <= Len(u) /\ n \in Nat /\ \A i \in DOMAIN arrived : arrived[i] = u[i]
  BY <1>4 DEF Downward, OnWire
<1>6. /\ Len(u) <= Len(owed) /\ \A i \in 1..Len(u) : owed[i] = u[i]
      /\ Len(u) \in Nat /\ Len(owed) \in Nat
  BY <1>0, <1>4, OwedAhead, LenProperties DEF Begins
<1> HIDE DEF u, owed
<1>7. seen < Len(owed) /\ owed[seen + 1] = arrived[seen + 1]
  <2>1. seen + 1 \in 1..Len(arrived) /\ seen + 1 \in 1..Len(u) /\ seen < Len(owed)
    BY <1>1, <1>5, <1>6
  <2> QED
    BY <1>1, <1>5, <1>6, <2>1
<1>8. Len(Given) = seen
  BY <1>0, GivenFacts
<1>9. Given' = Append(Given, arrived[seen + 1])
  <2>1. SubSeq(arrived, 1, seen + 1) = Append(SubSeq(arrived, 1, seen), arrived[seen + 1])
    BY <1>1, PrefixFacts
  <2> QED
    BY <1>1, <2>1 DEF Given
<1> HIDE DEF Given
<1>10. Promise!Owes
  BY <1>7, <1>8 DEF Promise!Owes, owed, Asked
<1>11. Promise!GivesNext
  BY <1>7, <1>8, <1>9 DEF Promise!GivesNext, owed, Asked
<1> QED
  BY <1>1, <1>2, <1>10, <1>11

LEMMA RpcDataEvent ==
  ASSUME Inv, EndIsLast, DataEvent
  PROVE  Promise!Next
<1>1. /\ UNCHANGED <<test, congested, written, ended, respEnded>>
      /\ IF test.cancel = "first" THEN status' = CANCELLED /\ cut' = TRUE
         ELSE UNCHANGED <<status, cut>>
  BY DEF DataEvent, Abort
<1> HIDE DEF Given
<1>2. CASE test.cancel = "first"
  <2>1. Promise!Cancel
    BY <1>1, <1>2, RpcGives DEF Promise!Cancel, Promise!call
  <2> QED
    BY <2>1 DEF Promise!Next
<1>3. CASE test.cancel # "first"
  <2>1. (respEnded \/ cut)' = (respEnded \/ cut)
    BY <1>1, <1>3
  <2>2. Promise!Give
    BY <1>1, <1>3, <2>1, RpcGives DEF Promise!Give, Promise!call
  <2> QED
    BY <2>2 DEF Promise!Next
<1> QED
  BY <1>2, <1>3

LEMMA RpcEndEvent ==
  ASSUME Inv, EndEvent
  PROVE  [Promise!Next]_(Promise!vars)
<1>0. Typed /\ Dropping
  BY DEF Inv
<1>1. /\ UNCHANGED <<test, congested, written, ended, arrived, seen, cut, status>>
      /\ ~respEnded /\ respEnded' = TRUE /\ (cut \/ (eof /\ seen = Len(arrived)))
  BY DEF EndEvent
<1>2. CASE cut
  BY <1>1, <1>2, RpcStutter
<1>3. CASE ~cut
  <2>1. eof /\ seen = Len(arrived) /\ stream = "live"
    BY <1>0, <1>1, <1>3, LiveStream
  <2>2. PICK p \in 0..written, e \in BOOLEAN, k \in 0..1, n \in 0..Len(down), m \in 0..2 :
          Upward(p, e) /\ Downward(p, e, k, n, m)
    BY <2>1 DEF Inv, UnderWay
  <2>3. Justified(status, Len(arrived), p, e)
    <3>1. 0 < 2
      OBVIOUS
    <3> QED
      BY <2>1, <2>2, <3>1 DEF Downward
  <2>4. Given = arrived /\ Given' = Given /\ Asked' = Asked
    BY <1>0, <1>1, <2>1, GivenFacts DEF Given, Asked
  <2>5. status # None
    <3>1. test.method \in Methods /\ StatusFor(p) \in {OK, INVALID_ARGUMENT}
      BY <1>0, TestFacts, StatusFacts DEF StatusFor
    <3> QED
      BY <2>3, <3>1 DEF Justified, Failures, OK, INVALID_ARGUMENT, DEADLINE_EXCEEDED, INTERNAL, None
  <2>6. \/ status \in {DEADLINE_EXCEEDED, INTERNAL} \/ congested
        \/ /\ OwesNoMore(test.method, Asked, ended)
           /\ Given = Owed(test.method, Asked, ended)
    <3> SUFFICES ASSUME NoMoreFor(p, e), Len(arrived) = Len(OwedFor(p, e))
                 PROVE  /\ OwesNoMore(test.method, Asked, ended)
                        /\ Given = Owed(test.method, Asked, ended)
      BY <2>3 DEF Justified, Failures
    <3>1. arrived = OwedFor(p, e)
      <4>1. arrived \in Seq(Reply(test.method)) /\ OwedFor(p, e) \in Seq(Reply(test.method))
        BY <1>0, <2>2, OwedAhead DEF Typed, ClientTyped, ClientData
      <4>2. \A i \in DOMAIN arrived : arrived[i] = OwedFor(p, e)[i]
        BY <2>2 DEF Downward, OnWire
      <4> QED
        BY <4>1, <4>2, SameElements
    <3> QED
      BY <1>0, <2>2, <2>4, <3>1, OwedAhead
  <2> HIDE DEF Given
  <2>7. Promise!End
    BY <1>1, <1>3, <2>4, <2>5, <2>6 DEF Promise!End, Promise!call, Asked
  <2> QED
    BY <2>7 DEF Promise!Next
<1> QED
  BY <1>2, <1>3

LEMMA RpcCancel ==
  ASSUME UNCHANGED <<test, congested, written, ended, arrived, seen>>, cut' = TRUE,
         status' \in {CANCELLED, DEADLINE_EXCEEDED}
  PROVE  [Promise!Next]_(Promise!vars)
<1>1. Given' = Given
  BY DEF Given
<1> HIDE DEF Given
<1>2. Promise!Cancel
  BY <1>1 DEF Promise!Cancel, Promise!call
<1> QED
  BY <1>2 DEF Promise!Next

(* Each step of the program is a step of Rpc or none. *)
LEMMA RpcStep ==
  ASSUME Inv, EndIsLast, [Next]_vars
  PROVE  [Promise!Next]_(Promise!vars)
<1>1. CASE UNCHANGED vars
  BY <1>1, RpcStutter DEF vars, clientVars
<1>2. CASE Start
  <2>1. /\ UNCHANGED <<test, congested, written, ended, arrived, seen, respEnded>>
        /\ \/ status' = CANCELLED /\ cut' = TRUE
           \/ UNCHANGED <<status, cut>>
    BY <1>2 DEF Start
  <2>2. CASE UNCHANGED <<status, cut>>
    BY <2>1, <2>2, RpcStutter
  <2>3. CASE status' \in {CANCELLED, DEADLINE_EXCEEDED} /\ cut' = TRUE
    BY <2>1, <2>3, RpcCancel
  <2> QED
    BY <2>1, <2>2, <2>3
<1>3. CASE WriteNext
  BY <1>3, RpcWriteNext DEF Inv, Promise!Next
<1>4. CASE EndRequest
  <2>1. /\ UNCHANGED <<test, congested, written, arrived, seen, respEnded, cut, status>>
        /\ ~ended /\ ended' = TRUE
    BY <1>4 DEF EndRequest
  <2>2. Given' = Given /\ SubSeq(test.sends, 1, written)' = SubSeq(test.sends, 1, written)
    BY <2>1 DEF Given
  <2> HIDE DEF Given
  <2>3. Promise!Close
    BY <2>1, <2>2 DEF Promise!Close, Promise!call
  <2> QED
    BY <2>3 DEF Promise!Next
<1>5. CASE TimerFires
  <2>1. /\ UNCHANGED <<test, congested, written, ended, arrived, seen, respEnded>>
        /\ \/ status' = DEADLINE_EXCEEDED /\ cut' = TRUE
           \/ UNCHANGED <<status, cut>>
    BY <1>5 DEF TimerFires, Abort
  <2>2. CASE UNCHANGED <<status, cut>>
    BY <2>1, <2>2, RpcStutter
  <2>3. CASE status' \in {CANCELLED, DEADLINE_EXCEEDED} /\ cut' = TRUE
    BY <2>1, <2>3, RpcCancel
  <2> QED
    BY <2>1, <2>2, <2>3
<1>6. CASE Receive
  BY <1>6, RpcReceive
<1>7. CASE DataEvent
  BY <1>7, RpcDataEvent
<1>8. CASE EndEvent
  BY <1>8, RpcEndEvent
<1>9. CASE ServerStep
  <2>1. UNCHANGED <<test, congested>> /\ UNCHANGED clientVars
    BY <1>9, SameCall, DroppingServer DEF Inv, Next
  <2> QED
    BY <2>1, RpcStutter DEF clientVars
<1> QED
  BY <1>1, <1>2, <1>3, <1>4, <1>5, <1>6, <1>7, <1>8, <1>9 DEF Next, ClientStep

(* To its client the program is an rpc of module Rpc: the application is given *)
(* the messages owed for what it sent, in order, each once, by 'data' events;  *)
(* it is told of the right status once, and of an end only after all of them,  *)
(* unless a deadline, a cancellation or a write after the response's end made  *)
(* the rpc fail, or streams that push back have lost messages.                 *)
THEOREM RpcImplemented == Spec => RpcSpec
<1>1. Init => Promise!Init
  BY RpcInit
<1>2. Spec => []EndIsLast
  BY InvAlways, NothingMoreInit, EndIsLastStep, PTL DEF Spec
<1>3. Inv /\ EndIsLast /\ [Next]_vars => [Promise!Next]_(Promise!vars)
  BY RpcStep
<1> QED
  BY InvAlways, <1>1, <1>2, <1>3, PTL DEF Spec, RpcSpec, Promise!Spec

-----------------------------------------------------------------------------
(* No standstill *)

(* The test has called done, or failed. *)
Settled == done \/ failure # "none"

(* What can go on: the guards of the actions that fairness is about. *)
Going ==
  \/ stream = "none" \/ timer = "armed" \/ serverTimer = "armed"
  \/ stream = "live" /\ ~ended /\ written < Released
  \/ /\ stream = "live" /\ ~ended /\ (test.pings => seen = Len(test.sends))
     /\ congested \/ written = Len(test.sends)
  \/ down # <<>> \/ (~cut /\ seen < Len(arrived))
  \/ ~respEnded /\ (cut \/ (eof /\ seen = Len(arrived)))
  \/ /\ ~closed /\ up # <<>>
     /\ handling => \E i \in DOMAIN up :
                      up[i].type = "RST" \/ (i = 1 /\ up[i].type \in {"DATA", "END"})
  \/ ~closed /\ encoded # <<>>
  \/ FinishReady

(* Client and server never wait for each other, and nothing is lost that one  *)
(* of them waits for: until a test is done something can go on, unless its    *)
(* request ended without the message that its handler answers.                *)
NoStandstill ==
  Settled \/ (ended /\ written = 0 /\ test.method \in AnswersFirst) \/ Going

(* What was heard of has settled the test that waits for it; the timer of a   *)
(* stream with a deadline is set; and an end follows what a finished response *)
(* has sent.                                                                  *)
Heard ==
  /\ cancelHeard /\ test.doneOn # "end" => Settled
  /\ respEnded /\ test.doneOn = "end" => Settled
  /\ status # None /\ test.doneOn = "status" => Settled
  /\ stream = "live" /\ test.timed => timer = "armed"

EndFollows ==
  stream = "live" /\ finished /\ ~eof => down # <<>> /\ down[Len(down)] = Frame("END", None)

(* Every step that something is heard in, settles the test that waits for it. *)
LEMMA HeardStep == Inv /\ Heard /\ [Next]_vars => Heard'
<1> SUFFICES ASSUME Inv, Heard, [Next]_vars PROVE Heard'
  OBVIOUS
<1>1. /\ test \in Tests /\ test.timed \in BOOLEAN /\ test.doneOn \in {"end", "status", "cancel"}
      /\ test.cancel \in {"never", "begin", "first"}
  BY TestFacts DEF Inv, Typed
<1>2. CASE Start
  <2>1. stream = "none" /\ failure = "none" /\ test' = test
        /\ respEnded' = respEnded
        /\ timer' = IF test.timed THEN "armed" ELSE "off"
    BY <1>2 DEF Start, Running
  <2>2. status = None
    BY <2>1 DEF Inv, Dropping, Fresh
  <2>3. CASE test.cancel = "begin" /\ stream' = "null" /\ CancelEvent(CANCELLED)
    BY <1>1, <2>1, <2>2, <2>3 DEF CancelEvent, Heard, Settled
  <2>4. CASE stream' = "live" /\ UNCHANGED <<status, cancelHeard, done, failure>>
    BY <1>1, <2>1, <2>4 DEF Heard, Settled
  <2> QED
    BY <1>2, <2>3, <2>4 DEF Start
<1>3. CASE TimerFires
  BY <1>1, <1>3 DEF TimerFires, Abort, CancelEvent, Heard, Settled, Running
<1>4. CASE Receive
  BY <1>1, <1>4 DEF Receive, StatusEvent, Heard, Settled, Running
<1>5. CASE DataEvent
  BY <1>1, <1>5 DEF DataEvent, Abort, CancelEvent, Heard, Settled, Running
<1>6. CASE EndEvent
  BY <1>1, <1>6 DEF EndEvent, Heard, Settled, Running
<1>7. CASE UNCHANGED <<test, congested, cancelHeard, done, failure, respEnded, status, stream, timer>>
  BY <1>7 DEF Heard, Settled
<1>8. CASE WriteNext \/ EndRequest
  BY <1>7, <1>8 DEF WriteNext, EndRequest
<1>9. CASE ServerStep \/ UNCHANGED vars
  BY <1>7, <1>9 DEF ServerStep, clientVars, vars, ServerHeaders, ServerData, ServerEnd, ServerReset,
     PipeEncoded, ServerFinish, ServerTimerFires
<1> QED
  BY <1>2, <1>3, <1>4, <1>5, <1>6, <1>8, <1>9 DEF Next, ClientStep

(* Trailers come with an end, the last frame there is. *)
LEMMA TrailersEnd ==
  ASSUME NEW d \in Seq(DownFrame), NEW c \in Codes \cup {None}
  PROVE  d \o Trailers(c) # <<>> /\ (d \o Trailers(c))[Len(d \o Trailers(c))] = Frame("END", None)
<1> DEFINE x == Trailers(c)
<1>1. x \in Seq(DownFrame) /\ Len(x) = 2 /\ x[2] = Frame("END", None)
  BY TrailersFacts
<1> HIDE DEF x
<1>2. Len(x) # 0 /\ x[Len(x)] = Frame("END", None)
  BY <1>1
<1>3. d \o x # <<>> /\ (d \o x)[Len(d \o x)] = x[Len(x)]
  BY <1>1, <1>2, LastOfConcat
<1> QED
  BY <1>2, <1>3 DEF x

(* A finished response sends no more, and only its last frame is the end. *)
LEMMA EndFollowsStep == Inv /\ EndFollows /\ [Next]_vars => EndFollows'
<1> SUFFICES ASSUME Inv, EndFollows, [Next]_vars, stream' = "live", finished', ~eof'
             PROVE  down' # <<>> /\ down'[Len(down')] = Frame("END", None)
  BY DEF EndFollows
<1>1. /\ down \in Seq(DownFrame) /\ rpcCode \in Codes \cup {None} /\ headersSent \in BOOLEAN
      /\ finished \in BOOLEAN /\ eof \in BOOLEAN /\ endCalled \in BOOLEAN
      /\ encoded \in Seq(Reply(test.method)) /\ INTERNAL \in Codes
  BY DEF Inv, Typed, ServerTyped, ClientTyped, ClientFlags, Codes
<1>2. CASE UNCHANGED <<stream, finished, eof, down>>
  BY <1>2 DEF EndFollows
<1>3. ASSUME stream = "live", finished
      PROVE  endCalled /\ headersSent /\ encoded = <<>> /\ Headers = <<>>
  BY <1>3 DEF Inv, UnderWay, Downward, Headers
<1>4. CASE Start
  <2>1. ~finished
    BY <1>4 DEF Inv, Dropping, Fresh, Start
  <2> QED
    BY <1>4, <2>1 DEF Start, serverVars
<1>5. CASE WriteNext \/ EndRequest \/ EndEvent \/ UNCHANGED vars
  BY <1>2, <1>5 DEF WriteNext, EndRequest, EndEvent, vars, clientVars, serverVars
<1>6. CASE TimerFires
  BY <1>2, <1>6 DEF TimerFires, Abort, serverVars
<1>7. CASE DataEvent
  BY <1>2, <1>7 DEF DataEvent, Abort, serverVars
<1>8. CASE Receive
  <2>1. /\ stream = "live" /\ finished /\ down # <<>> /\ down' = Tail(down)
        /\ ~eof /\ Head(down).type # "END"
    BY <1>8 DEF Receive, serverVars
  <2>2. down[Len(down)] = Frame("END", None) /\ Frame("END", None).type = "END"
    BY <2>1 DEF EndFollows, Frame
  <2>3. /\ Len(down) \in Nat \ {0} /\ Head(down) = down[1] /\ Len(Tail(down)) = Len(down) - 1
        /\ \A i \in 1..Len(down) - 1 : Tail(down)[i] = down[i + 1]
    BY <1>1, <2>1, TailFacts
  <2>4. Len(down) # 1
    BY <2>1, <2>2, <2>3
  <2> DEFINE d == Tail(down)
             l == Len(down)
  <2>5. l \in Nat /\ l - 1 \in 1..(l - 1) /\ (l - 1) + 1 = l /\ Len(d) = l - 1
    BY <2>3, <2>4
  <2>6. d[l - 1] = down[l]
    BY <2>3, <2>5
  <2>7. d # <<>>
    <3>1. Len(d) # 0
      BY <2>5
    <3> QED
      BY <3>1, NotEmpty
  <2> QED
    BY <2>1, <2>2, <2>5, <2>6, <2>7
<1>9. ASSUME NEW r, React(r), UNCHANGED <<stream, eof>>
      PROVE  down' # <<>> /\ down'[Len(down')] = Frame("END", None)
  <2>1. CASE finished
    <3>1. down' = down \/ down' = down \o <<>>
      BY <1>3, <1>9, <2>1, ReactLate, ReactInTime
    <3>2. down \o <<>> = down
      BY <1>1
    <3> QED
      BY <1>9, <2>1, <3>1, <3>2 DEF EndFollows
  <2>2. CASE ~finished
    <3>1. Late(r) /\ down' = down \o Trailers(INTERNAL)
      BY <1>9, <2>2, ReactLate, ReactInTime
    <3> QED
      BY <1>1, <3>1, TrailersEnd
  <2> QED
    BY <2>1, <2>2
<1>10. CASE ServerData
  BY <1>9, <1>10 DEF ServerData, clientVars
<1>11. CASE ServerEnd
  BY <1>9, <1>11 DEF ServerEnd, clientVars
<1>12. CASE ServerHeaders \/ ServerReset
  BY <1>2, <1>12 DEF ServerHeaders, ServerReset, clientVars
<1>13. CASE PipeEncoded
  BY <1>3, <1>13 DEF PipeEncoded, clientVars
<1>14. CASE ServerFinish
  <2>1. down' = down \o Trailers(rpcCode)
    BY <1>14 DEF ServerFinish
  <2> QED
    BY <1>1, <2>1, TrailersEnd
<1>15. CASE ServerTimerFires
  BY <1>2, <1>3, <1>15 DEF ServerTimerFires, clientVars
<1> QED
  BY <1>4, <1>5, <1>6, <1>7, <1>8, <1>10, <1>11, <1>12, <1>13, <1>14, <1>15 DEF Next, ClientStep, ServerStep

(* Each message of a ping-pong asks for one response. *)
LEMMA PingsOwed ==
  ASSUME Typed, test.pings, NEW p \in 0..Len(test.sends), NEW e \in BOOLEAN
  PROVE  Len(OwedFor(p, e)) = p
<1> DEFINE s == test.sends
           m == test.method
           Holds(n) == Len(Owed(m, First(n), FALSE)) = n
           T == {n \in Nat : n <= Len(s) => Holds(n)}
<1> HIDE DEF Holds
<1>1. /\ m \in Streamers /\ m \in Methods /\ s \in Seq(Message(m)) /\ Len(s) \in Nat
      /\ \A i \in 1..Len(s) : Len(s[i].response_parameters) = 1
  <2>1. test \in Tests /\ test.pings
    BY TestFacts
  <2>2. m = "FullDuplexCall" /\ \A i \in DOMAIN s : Len(s[i].response_parameters) = 1
    BY <2>1, TestsAssumption, EventsAssumption
  <2>3. s \in Seq(Message(m)) /\ m \in Methods
    BY TestFacts
  <2>4. Len(s) \in Nat /\ DOMAIN s = 1..Len(s)
    BY <2>3
  <2> QED
    BY <2>2, <2>3, <2>4 DEF Streamers
<1>2. 0 \in T
  <2>1. First(0) = <<>>
    BY FirstFacts
  <2>2. Owed(m, <<>>, FALSE) = <<>> /\ Len(<<>>) = 0
    BY <1>1, OwedOfNone
  <2> QED
    BY <2>1, <2>2 DEF Holds
<1>3. ASSUME NEW n \in Nat, n \in T PROVE n + 1 \in T
  <2> SUFFICES ASSUME n + 1 <= Len(s) PROVE Holds(n + 1)
    OBVIOUS
  <2>1. n \in 0..Len(s) /\ n + 1 \in 1..Len(s) /\ FALSE \in BOOLEAN
    BY <1>1
  <2>2. /\ First(n) \in Seq(Message(m)) /\ First(n + 1) = Append(First(n), s[n + 1])
        /\ s[n + 1] \in Message(m) /\ Owed(m, First(n), FALSE) \in Seq(Reply(m))
    BY <2>1, FirstFacts DEF OwedFor
  <2>3. /\ Owed(m, First(n + 1), FALSE) = Owed(m, First(n), FALSE) \o OnData(m, s[n + 1]).writes
        /\ OnData(m, s[n + 1]).writes = s[n + 1].response_parameters
        /\ OnData(m, s[n + 1]).writes \in Seq(Reply(m))
    BY <1>1, <2>2, StreamerStep, StreamerFacts, OnDataType
  <2>4. Len(Owed(m, First(n), FALSE)) = n /\ Len(s[n + 1].response_parameters) = 1
    <3>1. Holds(n)
      BY <1>3, <2>1
    <3>2. Len(s[n + 1].response_parameters) = 1
      BY <1>1, <2>1
    <3> QED
      BY <3>1, <3>2 DEF Holds
  <2>5. PICK a \in Seq(Reply(m)), b \in Seq(Reply(m)) :
          a = Owed(m, First(n), FALSE) /\ b = OnData(m, s[n + 1]).writes
    BY <2>2, <2>3
  <2>6. Len(a \o b) = Len(a) + Len(b)
    BY ConcatEnd
  <2>7. Len(a) = n /\ Len(b) = 1 /\ Owed(m, First(n + 1), FALSE) = a \o b
    BY <2>3, <2>4, <2>5
  <2> QED
    BY <2>6, <2>7 DEF Holds
<1> HIDE DEF T
<1>4. Nat \subseteq T
  BY <1>2, <1>3, Induction
<1>5. p \in T /\ p <= Len(s)
  BY <1>1, <1>4
<1>6. Holds(p)
  BY <1>5 DEF T
<1>7. Owed(m, First(p), e) = Owed(m, First(p), FALSE)
  BY <1>1, FirstFacts, StreamerOwed
<1> QED
  BY <1>6, <1>7 DEF OwedFor, Holds

LEMMA HeardInit == Init => Heard /\ EndFollows
<1> QED
  BY CodeFacts DEF Init, Heard, EndFollows, Settled

(* A test whose stream was dropped has heard of it. *)
LEMMA DroppedGoesOn ==
  ASSUME Inv, Heard, stream = "null"
  PROVE  Settled \/ Going
<1>1. /\ test \in Tests /\ test.doneOn \in {"end", "status", "cancel"} /\ cancelHeard
      /\ cut \/ test.cancel = "begin"
      /\ respEnded \in BOOLEAN
  BY TestFacts DEF Inv, Typed, ClientTyped, ClientFlags, Dropping, Dropped
<1>2. CASE test.doneOn # "end"
  BY <1>1, <1>2 DEF Heard
<1>3. CASE test.doneOn = "end"
  <2>1. cut
    BY <1>1, <1>3, EventsAssumption
  <2> QED
    BY <1>1, <1>3, <2>1 DEF Heard, Going
<1> QED
  BY <1>2, <1>3

(* How far a call has come that has a stream and nothing left to do. *)
LEMMA AllHandled ==
  ASSUME Typed, Dropping, stream = "live", ~Going,
         NEW p, NEW e, NEW k, NEW n, NEW m,
         Upward(p, e), Handler(p, e), Downward(p, e, k, n, m)
  PROVE  /\ ~closed /\ ~cut /\ p = written /\ e = ended /\ encoded = <<>> /\ k = 0 /\ n = 0 /\ m = 0
         /\ down = <<>> /\ seen = Len(arrived)
<1>1. /\ ~closed /\ ~cut /\ handling \in BOOLEAN /\ ended \in BOOLEAN /\ written \in Nat
      /\ up \in Seq(UpFrame) /\ seen \in 0..Len(arrived) /\ Len(arrived) \in Nat
      /\ p \in 0..written /\ e \in BOOLEAN /\ (e => ended /\ p = written)
  <2>1. /\ handling \in BOOLEAN /\ ended \in BOOLEAN /\ written \in 0..Len(test.sends)
        /\ up \in Seq(UpFrame) /\ seen \in 0..Len(arrived) /\ arrived \in Seq(Reply(test.method))
    BY DEF Typed, ClientTyped, ClientFlags, ClientData, ServerTyped
  <2>2. Len(test.sends) \in Nat /\ Len(arrived) \in Nat
    BY <2>1, TestFacts, LenProperties
  <2>3. ~closed /\ ~cut /\ p \in 0..written /\ e \in BOOLEAN /\ (e => ended /\ p = written)
    BY DEF Handler, Dropping, Dropped, Upward
  <2> QED
    BY <2>1, <2>2, <2>3
<1>2. down = <<>> /\ encoded = <<>> /\ seen = Len(arrived)
  BY <1>1 DEF Going
<1>3. up = <<>>
  <2> SUFFICES ASSUME up # <<>> PROVE FALSE
    OBVIOUS
  <2>1. handling /\ 1 \in DOMAIN up /\ up[1].type \notin {"DATA", "END"}
    <3>1. handling /\ \A i \in DOMAIN up : i = 1 => up[i].type \notin {"DATA", "END"}
      BY <1>1 DEF Going
    <3>2. 1 \in DOMAIN up
      BY <1>1
    <3> QED
      BY <3>1, <3>2
  <2>2. up[1] = IF 1 <= written - p THEN Frame("DATA", test.sends[p + 1]) ELSE Frame("END", None)
    BY <1>1, <2>1 DEF Upward
  <2> QED
    BY <2>1, <2>2 DEF Frame
<1>4. Len(up) = 0 /\ Len(down) = 0
  BY <1>2, <1>3
<1>5. p = written /\ e = ended
  BY <1>1, <1>4 DEF Upward
<1>6. Len(down) = k + n + m /\ k \in 0..1 /\ n \in Nat /\ m \in 0..2
  BY DEF Downward, OnWire
<1> QED
  BY <1>1, <1>2, <1>4, <1>5, <1>6

(* If the response is finished, its end was heard. *)
LEMMA FinishedGoesOn ==
  ASSUME Inv, Heard, EndFollows, stream = "live", finished
  PROVE  Settled \/ Going
<1> SUFFICES ASSUME ~Settled, ~Going PROVE FALSE
  OBVIOUS
<1>1. Typed /\ Dropping
  BY DEF Inv
<1>2. PICK p \in 0..written, e \in BOOLEAN, k \in 0..1, n \in 0..Len(down), m \in 0..2 :
        Upward(p, e) /\ Handler(p, e) /\ Downward(p, e, k, n, m)
  BY DEF Inv, UnderWay
<1>3. /\ ~cut /\ k = 0 /\ n = 0 /\ m = 0 /\ down = <<>> /\ seen = Len(arrived)
  BY <1>1, <1>2, AllHandled
<1>4. eof /\ respEnded
  BY <1>1, <1>3 DEF EndFollows, Going, Typed, ClientTyped, ClientFlags
<1>5. /\ p \in 0..Len(test.sends) /\ test \in Tests
      /\ test.method \in Methods /\ test.doneOn \in {"end", "status", "cancel"}
  BY <1>1, <1>2, UpwardFacts, TestFacts
<1>6. Justified(status, Len(arrived), p, e)
  BY <1>2, <1>3 DEF Downward
<1>7. status # None
  <2>1. StatusFor(p) \in {OK, INVALID_ARGUMENT}
    BY <1>5, StatusFacts DEF StatusFor
  <2> QED
    BY <1>6, <2>1 DEF Justified, Failures, OK, INVALID_ARGUMENT, DEADLINE_EXCEEDED, INTERNAL, None
<1>8. ~test.timed
  BY DEF Heard, Going
<1>9. test.doneOn = "cancel"
  BY <1>4, <1>5, <1>7 DEF Heard
<1> QED
  BY <1>1, <1>5, <1>8, <1>9, EventsAssumption DEF Dropping, Dropped

(* If it is not, the handler waits for what the client is free to send. *)
LEMMA UnfinishedGoesOn ==
  ASSUME Inv, Heard, stream = "live", ~finished,
         ~(ended /\ written = 0 /\ test.method \in AnswersFirst)
  PROVE  Settled \/ Going
<1> SUFFICES ASSUME ~Settled, ~Going PROVE FALSE
  OBVIOUS
<1>1. Typed /\ Dropping
  BY DEF Inv
<1>2. PICK p \in 0..written, e \in BOOLEAN, k \in 0..1, n \in 0..Len(down), m \in 0..2 :
        Upward(p, e) /\ Handler(p, e) /\ Downward(p, e, k, n, m)
  BY DEF Inv, UnderWay
<1>3. /\ ~closed /\ p = written /\ e = ended /\ encoded = <<>> /\ n = 0 /\ seen = Len(arrived)
  BY <1>1, <1>2, AllHandled DEF Downward
<1>4. /\ p \in 0..Len(test.sends) /\ test.pings \in BOOLEAN
      /\ test.method \in Methods /\ Len(test.sends) \in Nat
      /\ endCalled \in BOOLEAN /\ ended \in BOOLEAN /\ Len(arrived) \in Nat
  <2>1. p \in 0..Len(test.sends)
    BY <1>1, <1>2, UpwardFacts
  <2>2. test.pings \in BOOLEAN /\ test.method \in Methods /\ Len(test.sends) \in Nat
    BY <1>1, TestFacts
  <2>3. endCalled \in BOOLEAN /\ ended \in BOOLEAN /\ arrived \in Seq(Reply(test.method))
    BY <1>1 DEF Typed, ServerTyped, ClientTyped, ClientFlags, ClientData
  <2> QED
    BY <2>1, <2>2, <2>3, LenProperties
<1>5. ~endCalled
  BY <1>3, <1>4 DEF Going, FinishReady
<1>6. ~NoMoreFor(p, FALSE) /\ (e => test.method \in AnswersFirst)
  BY <1>2, <1>5 DEF Handler
<1>7. CASE ended
  <2>1. test.method \in AnswersFirst /\ First(p) = <<>>
    BY <1>3, <1>6, <1>7 DEF NoMoreFor, OwesNoMore
  <2>2. Len(First(p)) = p
    BY <1>1, <1>4, TestFacts, PrefixFacts DEF First
  <2>3. written = 0
    BY <1>3, <2>1, <2>2
  <2> QED
    BY <1>7, <2>1, <2>3
<1>8. CASE ~ended
  <2>1. ~(written < Released) /\ ~(written = Len(test.sends) /\ (test.pings => seen = Len(test.sends)))
    BY <1>8 DEF Going
  <2>2. written \in 0..Len(test.sends)
    BY <1>3, <1>4
  <2>3. test.pings
    BY <1>4, <2>1, <2>2 DEF Released
  <2>4. Len(arrived) = written
    <3>1. Len(OwedFor(p, e)) = p
      BY <1>1, <1>4, <2>3, PingsOwed
    <3>2. Len(encoded) = Len(OwedFor(p, e)) - (Len(arrived) + n) /\ Len(encoded) = 0
      BY <1>2, <1>3 DEF Downward, Rest
    <3> QED
      BY <1>3, <1>4, <3>1, <3>2
  <2> QED
    BY <1>3, <1>4, <2>1, <2>2, <2>3, <2>4 DEF Released
<1> QED
  BY <1>4, <1>7, <1>8

(* Client and server never wait for each other: until a test of               *)
(* interop_client.js or math_client.js has called done or failed, one of the  *)
(* two sides, or a deadline, has a step to take, whether or not the streams   *)
(* push back. The one call that is left to wait is that of a handler which    *)
(* answers a message, when its request ended without any                      *)
(* (interop_server.js:94-117).                                                *)
THEOREM NeverStandsStill == Spec => []NoStandstill
<1> DEFINE J == Inv /\ Heard /\ EndFollows
<1>1. Init => J
  BY InvInit, HeardInit
<1>2. J /\ [Next]_vars => J'
  BY InvStep, HeardStep, EndFollowsStep
<1>3. J => NoStandstill
  <2> SUFFICES ASSUME J PROVE NoStandstill
    OBVIOUS
  <2>1. stream \in {"none", "live", "null"} /\ finished \in BOOLEAN
    BY DEF Inv, Typed, ClientTyped, ClientFlags, ServerTyped
  <2> QED
    BY <2>1, DroppedGoesOn, FinishedGoesOn, UnfinishedGoesOn DEF NoStandstill, Going
<1> HIDE DEF J
<1> QED
  BY <1>1, <1>2, <1>3, PTL DEF Spec
=============================================================================
