--------------------------- MODULE FramingProofs ---------------------------
(***************************************************************************)
(* Proofs about the framing of lib/codec.js, for any number of messages of *)
(* any sizes and any way of cutting their bytes into chunks.               *)
(***************************************************************************)
EXTENDS Framing, WellFoundedInduction, NaturalsInduction, TLAPS

(* The decoder stands at the first byte of the next message it will push.  *)
(* After an unmarshalling error it has stepped over the message it lost.   *)
Aligned == decoder # "failed" => base = Start[Len(out) + 1]

IInv == TypeOK /\ InOrderAndWhole /\ Aligned

-----------------------------------------------------------------------------
(* Induction over the natural numbers, for a set of them. *)
Less == {pair \in Nat \X Nat : pair[1] < pair[2]}

LEMMA LessWellFounded == IsWellFoundedOn(Less, Nat)
<1> QED
  BY NatLessThanWellFounded DEF OpToRel, Less

LEMMA Induction ==
  ASSUME NEW T, 0 \in T, \A n \in Nat : n \in T => n + 1 \in T
  PROVE  Nat \subseteq T
<1> SUFFICES ASSUME Nat \ T # {} PROVE FALSE
  OBVIOUS
<1>1. PICK x \in Nat \ T : \A y \in Nat \ T : <<y, x>> \notin Less
  BY LessWellFounded, WFMin, Nat \ T \subseteq Nat
<1>2. x # 0 /\ x - 1 \in Nat
  BY <1>1
<1>3. <<x - 1, x>> \in Less
  BY <1>2 DEF Less
<1>4. x - 1 \in T
  BY <1>1, <1>2, <1>3
<1>5. (x - 1) + 1 = x
  BY <1>2
<1> QED
  BY <1>4, <1>2, <1>5, <1>1

(* Each frame begins after those before it: by induction over the distance. *)
LEMMA StartsGrow ==
  ASSUME NEW i \in 1..(N + 1), NEW j \in 1..(N + 1), i < j
  PROVE  Start[i] < Start[j]
<1> DEFINE T == {n \in Nat : i + n + 1 <= N + 1 => Start[i] < Start[i + n + 1]}
<1>1. N \in Nat /\ HeaderLength = 5
  BY LayoutAssumption DEF HeaderLength
<1>2. ASSUME NEW k \in 1..N PROVE Start[k] \in Nat /\ Start[k + 1] \in Nat /\ Start[k] < Start[k + 1]
  <2>1. k \in 1..(N + 1) /\ k + 1 \in 1..(N + 1)
    BY <1>1
  <2>2. Start[k] \in Nat /\ Start[k + 1] \in Nat /\ Size[k] \in Nat
    BY <2>1, LayoutAssumption
  <2>3. Start[k + 1] = Start[k] + HeaderLength + Size[k]
    BY LayoutAssumption
  <2> QED
    BY <1>1, <2>2, <2>3
<1>3. 0 \in T
  <2>1. i + 0 + 1 = i + 1
    OBVIOUS
  <2>2. i + 1 <= N + 1 => i \in 1..N
    BY <1>1
  <2> QED
    BY <1>2, <2>1, <2>2
<1>4. ASSUME NEW n \in Nat, n \in T PROVE n + 1 \in T
  <2> SUFFICES ASSUME i + (n + 1) + 1 <= N + 1 PROVE Start[i] < Start[i + (n + 1) + 1]
    OBVIOUS
  <2> DEFINE k == i + n + 1
  <2>1. k \in 1..N /\ i \in 1..N /\ i + (n + 1) + 1 = k + 1 /\ k <= N + 1
    BY <1>1
  <2>2. Start[i] < Start[k]
    BY <1>4, <2>1
  <2>3. Start[i] \in Nat /\ Start[k] \in Nat /\ Start[k + 1] \in Nat /\ Start[k] < Start[k + 1]
    BY <1>2, <2>1
  <2> HIDE DEF k
  <2> QED
    BY <2>1, <2>2, <2>3
<1>5. Nat \subseteq T
  <2> HIDE DEF T
  <2> QED
    BY <1>3, <1>4, Induction
<1>6. j - i - 1 \in Nat /\ i + (j - i - 1) + 1 = j /\ j <= N + 1
  BY <1>1
<1>7. j - i - 1 \in T
  BY <1>5, <1>6
<1> QED
  BY <1>6, <1>7

(* Offsets order messages: a message that ends no later than another does  *)
(* not come after it.                                                      *)
LEMMA StartOrder ==
  ASSUME NEW i \in 1..(N + 1), NEW j \in 1..(N + 1), Start[i] <= Start[j]
  PROVE  i <= j
<1>1. SUFFICES ASSUME j < i PROVE FALSE
  BY LayoutAssumption
<1>2. Start[j] < Start[i]
  BY <1>1, StartsGrow
<1> QED
  BY <1>2, LayoutAssumption

LEMMA NIsNatural == N \in Nat
<1> QED
  BY LayoutAssumption

(* At the start of a message the decoder reads that message's length. *)
LEMMA LengthAtStart ==
  ASSUME NEW i \in 1..N
  PROVE  LengthAt(Start[i]) = {Size[i]}
<1>1. ASSUME NEW j \in 1..N, Start[j] = Start[i] PROVE j = i
  <2>1. i \in 1..(N + 1) /\ j \in 1..(N + 1)
    BY NIsNatural
  <2>2. Start[i] \in Nat
    BY <2>1, LayoutAssumption
  <2>3. i <= j /\ j <= i
    BY <1>1, <2>1, <2>2, StartOrder
  <2> QED
    BY <2>3
<1>2. { j \in 1..N : Start[j] = Start[i] } = {i}
  BY <1>1
<1> QED
  BY <1>2 DEF LengthAt

(* What a chunk that completes a message makes of a state of the invariant: *)
(* the range pushed is the next payload, and base moves to the next start.  *)
LEMMA WholeMessage ==
  ASSUME IInv, decoder = "open",
         NEW e \in (arrived + 1)..Emitted,
         NEW length \in LengthAt(base)
  PROVE  /\ Len(out) < encoded
         /\ length = Size[Len(out) + 1]
         /\ base + HeaderLength + length = Start[Len(out) + 2]
         /\ Start[Len(out) + 2] \in Nat
         /\ Size[Len(out) + 1] \in Nat
<1> DEFINE n == Len(out)
<1>1. n \in Nat /\ base = Start[n + 1] /\ n <= encoded /\ encoded \in 0..N
  BY DEF IInv, TypeOK, InOrderAndWhole, Aligned
<1>2. base < Emitted /\ Emitted \in Nat
  BY <1>1, LayoutAssumption DEF IInv, TypeOK, Emitted
<1>3. n # encoded
  BY <1>1, <1>2 DEF Emitted
<1>4. n < encoded /\ n + 1 \in 1..N /\ n + 2 \in 1..(N + 1)
  BY <1>1, <1>3, NIsNatural
<1>5. length = Size[n + 1]
  BY <1>1, <1>4, LengthAtStart
<1>6. Start[n + 2] = Start[n + 1] + HeaderLength + Size[n + 1]
  BY <1>4, LayoutAssumption, (n + 1) + 1 = n + 2
<1> QED
  BY <1>1, <1>4, <1>5, <1>6, LayoutAssumption

-----------------------------------------------------------------------------
(* Type correctness, and that the decoder never loses its place in the     *)
(* bytes: the invariant from which everything else follows.                *)
LEMMA InvariantInit == Init => IInv
<1> SUFFICES ASSUME Init PROVE IInv
  OBVIOUS
<1>1. Len(out) = 0 /\ Emitted = 0 /\ 1 \in 1..(N + 1)
  BY LayoutAssumption DEF Init, Emitted
<1>2. out \in Seq([from : Nat, to : Nat])
  BY DEF Init
<1>3. encoded \in 0..N /\ arrived \in 0..Emitted /\ base \in 0..arrived
  BY <1>1, NIsNatural DEF Init
<1>4. TypeOK
  BY <1>2, <1>3 DEF Init, TypeOK
<1> QED
  BY <1>1, <1>4, LayoutAssumption DEF IInv, Init, InOrderAndWhole, Aligned

LEMMA InvariantStep == IInv /\ [Next]_vars => IInv'
<1> SUFFICES ASSUME IInv, [Next]_vars PROVE IInv'
  OBVIOUS
<1> USE DEF IInv
<1>t. /\ encoded \in 0..N /\ arrived \in Nat /\ base \in Nat /\ Len(out) \in Nat
      /\ N \in Nat /\ Emitted \in Nat /\ base <= arrived /\ arrived <= Emitted
  BY LayoutAssumption DEF TypeOK, Emitted
<1>1. CASE Encode
  <2>1. encoded' \in 0..N /\ Start[encoded + 1] < Start[encoded' + 1]
    <3>1. /\ encoded' = encoded + 1 /\ encoded' \in 0..N
          /\ encoded + 1 \in 1..(N + 1) /\ encoded' + 1 \in 1..(N + 1)
          /\ encoded + 1 < encoded' + 1
      BY <1>1, <1>t DEF Encode
    <3> QED
      BY <3>1, StartsGrow
  <2>2. TypeOK'
    BY <1>1, <1>t, <2>1, LayoutAssumption DEF Encode, TypeOK, Emitted
  <2> QED
    BY <1>1, <1>t, <2>2 DEF Encode, InOrderAndWhole, Aligned, Payload
<1>2. CASE MarshalFails
  BY <1>2 DEF MarshalFails, TypeOK, InOrderAndWhole, Aligned, Payload, Emitted
<1>3. CASE EndEncoder
  BY <1>3 DEF EndEncoder, TypeOK, InOrderAndWhole, Aligned, Payload, Emitted
<1>4. CASE Transform
  <2>1. PICK e \in ChunkEnds, length \in LengthAt(base) :
          /\ arrived' = e
          /\ \/ /\ ~Complete(e, length)
                /\ UNCHANGED <<base, out, decoder>>
             \/ /\ Complete(e, length)
                /\ PushDecoded([from |-> base + HeaderLength,
                                to   |-> base + HeaderLength + length])
                /\ base' = KeptFrom(e, length)
    BY <1>4 DEF Transform
  <2>2. e \in (arrived + 1)..Emitted /\ decoder = "open"
    BY <1>4 DEF Transform, ChunkEnds
  <2>3. UNCHANGED <<joins, encoded, encoder, cut>> /\ Emitted' = Emitted
    BY <1>4 DEF Transform, Emitted
  <2>4. CASE UNCHANGED <<base, out, decoder>>
    BY <1>t, <2>1, <2>2, <2>3, <2>4
    DEF TypeOK, InOrderAndWhole, Aligned, Payload
  <2>5. CASE /\ Complete(e, length)
             /\ PushDecoded([from |-> base + HeaderLength,
                             to   |-> base + HeaderLength + length])
             /\ base' = KeptFrom(e, length)
    <3> DEFINE n == Len(out)
               p == [from |-> base + HeaderLength,
                     to   |-> base + HeaderLength + length]
    <3>1. /\ n < encoded
          /\ base' = Start[n + 2]
          /\ base + HeaderLength + length = Start[n + 2]
          /\ length \in Nat /\ Start[n + 2] \in Nat
          /\ base = Start[n + 1]
      BY <2>2, <2>5, WholeMessage DEF Aligned, KeptFrom
    <3>2. p = Payload(n + 1) /\ p \in [from : Nat, to : Nat]
      BY <1>t, <3>1, (n + 1) + 1 = n + 2 DEF Payload, HeaderLength
    <3>3. base' \in 0..arrived'
      <4>1. e - base >= HeaderLength + length /\ base' = base + HeaderLength + length
        BY <2>5 DEF Complete, KeptFrom
      <4>2. arrived' = e /\ e \in Nat /\ base \in Nat
        BY <1>t, <2>1, <2>2
      <4>3. base' \in Nat
        BY <3>1
      <4>4. HeaderLength \in Nat /\ length \in Nat
        BY <3>1 DEF HeaderLength
      <4>5. e - base >= HeaderLength + length => base + HeaderLength + length <= e
        BY <4>2, <4>4
      <4> QED
        BY <4>1, <4>2, <4>3, <4>5
    <3>4. arrived' \in 0..Emitted'
      BY <1>t, <2>1, <2>2, <2>3
    <3>5. CASE out' = Append(out, p) /\ UNCHANGED decoder
      <4>1. out' \in Seq([from : Nat, to : Nat]) /\ Len(out') = n + 1
        BY <3>2, <3>5 DEF TypeOK
      <4>2. TypeOK'
        BY <2>2, <2>3, <3>3, <3>4, <3>5, <4>1 DEF TypeOK
      <4>3. \A k \in 1..Len(out') : out'[k] = Payload(k)
        BY <3>2, <3>5, <4>1, <1>t DEF TypeOK, InOrderAndWhole
      <4>4. InOrderAndWhole'
        BY <2>3, <3>1, <4>1, <4>3, <1>t DEF InOrderAndWhole, Payload
      <4>5. Aligned'
        BY <3>1, <4>1, <1>t DEF Aligned
      <4> QED
        BY <4>2, <4>4, <4>5
    <3>6. CASE decoder' = "failed" /\ UNCHANGED out
      BY <2>3, <3>3, <3>4, <3>6 DEF TypeOK, InOrderAndWhole, Aligned, Payload
    <3> QED
      BY <2>5, <3>5, <3>6 DEF PushDecoded
  <2> QED
    BY <2>1, <2>4, <2>5
<1>5. CASE Flush
  BY <1>5 DEF Flush, FlushOutcome, TypeOK, InOrderAndWhole, Aligned, Payload, Emitted
<1>6. CASE FlushOnReset
  BY <1>6 DEF FlushOnReset, FlushOutcome, TypeOK, InOrderAndWhole, Aligned, Payload, Emitted
<1>7. CASE UNCHANGED vars
  BY <1>7 DEF vars, TypeOK, InOrderAndWhole, Aligned, Payload, Emitted
<1> QED
  BY <1>1, <1>2, <1>3, <1>4, <1>5, <1>6, <1>7 DEF Next

(* The invariant holds throughout. *)
THEOREM Invariance == Spec => []IInv
<1> QED
  BY InvariantInit, InvariantStep, PTL DEF Spec

(* However the bytes are chunked, joined or split, DecodingStream pushes   *)
(* the payloads that were encoded, whole, in order, once each              *)
(* (codec.js:225-257).                                                     *)
THEOREM DecodesInOrder == Spec => []InOrderAndWhole
<1>1. IInv => InOrderAndWhole
  BY DEF IInv
<1> QED
  BY <1>1, Invariance, PTL

-----------------------------------------------------------------------------
(* With chunks that keep to one message, nothing is ever held back.        *)
LEMMA PromptStep == IInv /\ IInv' /\ NoneHeldBack /\ [Next]_vars => NoneHeldBack'
<1> SUFFICES ASSUME IInv, IInv', NoneHeldBack, [Next]_vars PROVE NoneHeldBack'
  OBVIOUS
<1>j. joins' = joins
  BY DEF Next, vars, Encode, MarshalFails, EndEncoder, Transform, Flush, FlushOnReset
<1> SUFFICES ASSUME ~joins PROVE NoneHeldBack'
  BY <1>j DEF NoneHeldBack
<1>t. /\ encoded \in 0..N /\ arrived \in Nat /\ base \in Nat /\ Len(out) \in Nat
      /\ N \in Nat /\ Emitted \in Nat /\ base <= arrived /\ arrived <= Emitted
  BY LayoutAssumption DEF IInv, TypeOK, Emitted
<1>s. \A k \in 1..(N + 1) : Start[k] \in Nat
  BY LayoutAssumption
<1>1. CASE Encode
  <2>1. ASSUME NEW k \in 1..encoded', Start[k + 1] <= arrived', decoder' = "open"
        PROVE  k <= Len(out')
    <3>1. k + 1 \in 1..(N + 1) /\ encoded + 1 \in 1..(N + 1)
      BY <1>1, <1>t DEF Encode
    <3>2. Start[k + 1] <= Start[encoded + 1]
      BY <1>1, <1>t, <1>s, <2>1, <3>1 DEF Encode, Emitted
    <3>3. k <= encoded
      BY <1>t, <3>1, <3>2, StartOrder
    <3> QED
      BY <1>1, <1>t, <2>1, <3>3 DEF Encode, NoneHeldBack
  <2> QED
    BY <2>1 DEF NoneHeldBack
<1>2. CASE MarshalFails \/ EndEncoder \/ UNCHANGED vars
  BY <1>2 DEF MarshalFails, EndEncoder, vars, NoneHeldBack
<1>3. CASE Flush \/ FlushOnReset
  BY <1>3 DEF Flush, FlushOnReset, FlushOutcome, NoneHeldBack
<1>4. CASE Transform
  <2> DEFINE n == Len(out)
  <2> SUFFICES ASSUME decoder' = "open",
                      NEW k \in 1..encoded, Start[k + 1] <= arrived'
               PROVE  k <= Len(out')
    BY <1>4 DEF Transform, NoneHeldBack
  <2>1. PICK e \in ChunkEnds, length \in LengthAt(base) :
          /\ arrived' = e
          /\ \/ /\ ~Complete(e, length)
                /\ UNCHANGED <<base, out, decoder>>
             \/ /\ Complete(e, length)
                /\ PushDecoded([from |-> base + HeaderLength,
                                to   |-> base + HeaderLength + length])
                /\ base' = KeptFrom(e, length)
    BY <1>4 DEF Transform
  <2>2. decoder = "open" /\ e \in (arrived + 1)..Emitted
    BY <1>4 DEF Transform, ChunkEnds
  <2>3. PICK i \in 1..encoded : Start[i] <= arrived /\ e <= Start[i + 1]
    BY <2>1 DEF ChunkEnds
  <2>4. i <= n + 1
    <3>1. CASE i = 1
      BY <1>t, <3>1
    <3>2. CASE i > 1
      <4>1. i - 1 \in 1..encoded /\ (i - 1) + 1 = i
        BY <1>t, <3>2
      <4>2. i - 1 <= n
        BY <2>2, <2>3, <4>1 DEF NoneHeldBack
      <4> QED
        BY <1>t, <4>2
    <3> QED
      BY <1>t, <3>1, <3>2
  <2>5. k + 1 \in 1..(N + 1) /\ i + 1 \in 1..(N + 1) /\ i \in 1..N
    BY <1>t
  <2>6. Start[k + 1] <= Start[i + 1]
    BY <1>s, <1>t, <2>1, <2>2, <2>3, <2>5
  <2>7. k <= n + 1
    BY <1>t, <2>4, <2>5, <2>6, StartOrder
  <2>8. /\ n < encoded
        /\ length = Size[n + 1]
        /\ base + HeaderLength + length = Start[n + 2]
        /\ Start[n + 2] \in Nat /\ length \in Nat
    BY <2>2, WholeMessage
  <2>9. CASE UNCHANGED <<base, out, decoder>> /\ e < Start[n + 2]
    <3>1. k = n + 1 => Start[k + 1] = Start[n + 2]
      BY <1>t, (n + 1) + 1 = n + 2
    <3> QED
      BY <1>t, <2>1, <2>2, <2>7, <2>8, <2>9, <3>1
  <2>10. CASE PushDecoded([from |-> base + HeaderLength,
                           to   |-> base + HeaderLength + length])
    <3>1. Len(out') = n + 1
      BY <2>2, <2>10 DEF PushDecoded, IInv, TypeOK
    <3> QED
      BY <2>7, <3>1
  <2>11. e < Start[n + 2] \/ e >= Start[n + 2]
    BY <1>t, <2>2, <2>8
  <2>12. ~Complete(e, length) => e < Start[n + 2]
    <3>1. e \in Nat /\ base \in Nat /\ length \in Nat /\ HeaderLength \in Nat
      BY <1>t, <2>2, <2>8 DEF HeaderLength
    <3>2. base + HeaderLength + length <= e =>
            e - base >= HeaderLength /\ e - base >= HeaderLength + length
      BY <3>1
    <3>3. Start[n + 2] <= e => Complete(e, length)
      BY <2>8, <3>2 DEF Complete
    <3> QED
      BY <2>8, <3>1, <3>3
  <2> QED
    BY <2>1, <2>9, <2>10, <2>12
<1> QED
  BY <1>1, <1>2, <1>3, <1>4 DEF Next

(* Where no chunk joins messages, a message is pushed with the chunk that    *)
(* completes it.                                                             *)
THEOREM DecodesPromptly == Spec => []NoneHeldBack
<1>1. Init => NoneHeldBack
  BY DEF Init, NoneHeldBack
<1>2. IInv /\ IInv' /\ NoneHeldBack /\ [Next]_vars => NoneHeldBack'
  BY PromptStep
<1> QED
  BY <1>1, <1>2, Invariance, PTL DEF Spec

-----------------------------------------------------------------------------
(* A reset ends the decoder, and a clean end comes after the encoder's. *)
Ending ==
  /\ cut => decoder # "open"
  /\ decoder \in {"done", "threw"} /\ ~cut => encoder # "open"

LEMMA EndingInvariant == Spec => []Ending
<1>1. Init => Ending
  BY DEF Init, Ending
<1>2. Ending /\ [Next]_vars => Ending'
  <2> SUFFICES ASSUME Ending, [Next]_vars PROVE Ending'
    OBVIOUS
  <2>1. CASE Encode \/ MarshalFails \/ EndEncoder \/ UNCHANGED vars
    BY <2>1 DEF Ending, Encode, MarshalFails, EndEncoder, vars
  <2>2. CASE Transform
    <3>1. decoder = "open" /\ decoder' \in {"open", "failed"} /\ cut' = cut
      BY <2>2 DEF Transform, PushDecoded
    <3> QED
      BY <3>1 DEF Ending
  <2>3. CASE Flush
    BY <2>3 DEF Ending, Flush, FlushOutcome
  <2>4. CASE FlushOnReset
    BY <2>4 DEF Ending, FlushOnReset, FlushOutcome
  <2> QED
    BY <2>1, <2>2, <2>3, <2>4 DEF Next
<1> QED
  BY <1>1, <1>2, PTL DEF Spec

(* A decoder that has cut up all that was emitted has pushed all of it. *)
LEMMA NothingLeft ==
  ASSUME IInv, decoder # "failed", base = Emitted
  PROVE  Len(out) = encoded
<1>1. Len(out) \in Nat /\ encoded \in 0..N /\ Len(out) <= encoded
  BY DEF IInv, TypeOK, InOrderAndWhole
<1>2. Len(out) + 1 \in 1..(N + 1) /\ encoded + 1 \in 1..(N + 1)
  BY <1>1, NIsNatural
<1>3. Start[encoded + 1] <= Start[Len(out) + 1]
  BY <1>2, LayoutAssumption DEF IInv, Aligned, Emitted
<1>4. encoded + 1 <= Len(out) + 1
  BY <1>2, <1>3, StartOrder
<1> QED
  BY <1>1, <1>4

(* Where no chunk joins messages, a stream that ends after the last byte   *)
(* has given every message to the receiver, and _flush finds nothing left. *)
THEOREM AllDecodedAtEnd == Spec => []EndsComplete
<1>1. Init => EndsComplete
  BY DEF Init, EndsComplete, OutstandingDataIsDecoded
<1>2. ASSUME IInv, NoneHeldBack, Ending, EndsComplete, [Next]_vars
      PROVE  EndsComplete'
  <2>t. encoded \in 0..N /\ N \in Nat /\ Len(out) \in Nat /\ Len(out) <= encoded
    BY <1>2, NIsNatural DEF IInv, TypeOK, InOrderAndWhole
  <2>1. CASE Flush
    <3> SUFFICES ASSUME ~joins PROVE OutstandingDataIsDecoded'
      BY <2>1 DEF Flush, EndsComplete
    <3>1. Len(out) = encoded
      <4>1. CASE encoded = 0
        BY <2>t, <4>1
      <4>2. CASE encoded \in 1..encoded
        <5>1. Start[encoded + 1] <= arrived
          BY <2>1, <1>2 DEF Flush, Emitted, IInv, TypeOK
        <5> QED
          BY <1>2, <2>t, <2>1, <4>2, <5>1 DEF Flush, NoneHeldBack
      <4> QED
        BY <2>t, <4>1, <4>2
    <3>2. arrived = base
      BY <1>2, <2>1, <3>1 DEF Flush, IInv, Aligned, Emitted
    <3> QED
      BY <2>1, <3>1, <3>2 DEF Flush, FlushOutcome, OutstandingDataIsDecoded
  <2>2. CASE ~Flush
    BY <1>2, <2>2 DEF Next, vars, Encode, MarshalFails, EndEncoder, Transform,
       PushDecoded, FlushOnReset, EndsComplete, OutstandingDataIsDecoded, Ending
  <2> QED
    BY <2>1, <2>2
<1> QED
  BY <1>1, <1>2, Invariance, DecodesPromptly, EndingInvariant, PTL DEF Spec

-----------------------------------------------------------------------------
(* Framing implements MessagePipe, with chunks of any kind. *)
LEMMA PipeStep ==
  ASSUME IInv, Ending, [Next]_vars
  PROVE  [Pipe!Next]_(Pipe!vars)
<1> DEFINE messages == [i \in 1..N |-> Payload(i)]
<1>t. encoded \in 0..N /\ N \in Nat /\ Len(out) \in Nat /\ Len(out) <= encoded
  BY NIsNatural DEF IInv, TypeOK, InOrderAndWhole
<1>m. Len(messages) = N
  BY <1>t
<1>o. decoder \in {"open", "failed", "done", "threw"}
  BY DEF IInv, TypeOK
<1>1. CASE Encode
  <2>1. Pipe!Submit
    BY <1>1, <1>t, <1>m, <1>o DEF Encode, Pipe!Submit, Ending
  <2> QED
    BY <2>1 DEF Pipe!Next
<1>2. CASE MarshalFails \/ EndEncoder \/ UNCHANGED vars
  BY <1>2 DEF MarshalFails, EndEncoder, vars, Pipe!vars
<1>3. CASE Transform
  <2>1. PICK e \in ChunkEnds, length \in LengthAt(base) :
          /\ arrived' = e
          /\ \/ /\ ~Complete(e, length)
                /\ UNCHANGED <<base, out, decoder>>
             \/ /\ Complete(e, length)
                /\ PushDecoded([from |-> base + HeaderLength,
                                to   |-> base + HeaderLength + length])
                /\ base' = KeptFrom(e, length)
    BY <1>3 DEF Transform
  <2>2. decoder = "open" /\ e \in (arrived + 1)..Emitted /\ UNCHANGED <<encoded, cut>>
    BY <1>3 DEF Transform, ChunkEnds
  <2>3. CASE UNCHANGED <<base, out, decoder>>
    BY <2>2, <2>3 DEF Pipe!vars
  <2>4. CASE PushDecoded([from |-> base + HeaderLength,
                          to   |-> base + HeaderLength + length])
    <3>1. /\ Len(out) < encoded
          /\ base + HeaderLength + length = Start[Len(out) + 2]
          /\ base = Start[Len(out) + 1]
      BY <2>2, WholeMessage DEF IInv, Aligned
    <3>2. Payload(Len(out) + 1) = [from |-> base + HeaderLength,
                                   to   |-> base + HeaderLength + length]
      BY <1>t, <3>1, (Len(out) + 1) + 1 = Len(out) + 2 DEF Payload
    <3>3. messages[Len(out) + 1] = Payload(Len(out) + 1)
      BY <1>t, <3>1
    <3>4. CASE out' = Append(out, Payload(Len(out) + 1)) /\ UNCHANGED decoder
      BY <2>2, <3>1, <3>3, <3>4 DEF Pipe!Deliver, Pipe!Next
    <3>5. CASE decoder' = "failed" /\ UNCHANGED out
      BY <2>2, <3>5 DEF Pipe!Break, Pipe!Next
    <3> QED
      BY <2>4, <3>2, <3>4, <3>5 DEF PushDecoded
  <2> QED
    BY <2>1, <2>3, <2>4
<1>4. CASE Flush
  <2>1. ~cut /\ decoder = "open" /\ UNCHANGED <<encoded, out, cut>>
    BY <1>4 DEF Flush, Ending
  <2>2. CASE decoder' = "done"
    <3>1. Len(out) = encoded
      BY <1>4, <2>2, NothingLeft DEF Flush, FlushOutcome
    <3> QED
      BY <2>1, <2>2, <3>1 DEF Pipe!EndCleanly, Pipe!Next
  <2>3. CASE decoder' = "threw"
    BY <2>1, <2>3 DEF Pipe!Break, Pipe!Next
  <2> QED
    BY <1>4, <2>2, <2>3 DEF Flush, FlushOutcome
<1>5. CASE FlushOnReset
  <2>1. decoder = "open" /\ decoder' \in {"done", "threw"} /\ cut'
        /\ UNCHANGED <<encoded, out>>
    BY <1>5 DEF FlushOnReset, FlushOutcome
  <2> QED
    BY <2>1 DEF Pipe!Break, Pipe!Next
<1> QED
  BY <1>1, <1>2, <1>3, <1>4, <1>5 DEF Next

(* What the codec promises the two ends of an rpc: nothing reaches the      *)
(* receiver but a prefix of what was sent, and a clean end only after all.  *)
THEOREM ImplementsPipe == Spec => PipeSpec
<1>1. Init => Pipe!Init
  BY DEF Init, Pipe!Init
<1>2. IInv /\ Ending /\ [Next]_vars => [Pipe!Next]_(Pipe!vars)
  BY PipeStep
<1> QED
  BY <1>1, <1>2, Invariance, EndingInvariant, PTL DEF Spec, PipeSpec, Pipe!Spec

(* The variables of the codec stay in their types. *)
THEOREM TypeCorrect == Spec => []TypeOK
<1>1. IInv => TypeOK
  BY DEF IInv
<1> QED
  BY <1>1, Invariance, PTL
=============================================================================
