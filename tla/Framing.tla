------------------------------ MODULE Framing ------------------------------
(***************************************************************************)
(* The message framing of lib/codec.js: an EncodingStream prefixes each    *)
(* message with one compression byte and its length, four bytes; the bytes *)
(* cross an HTTP/2 stream in chunks; a DecodingStream cuts them back into  *)
(* messages.                                                               *)
(*                                                                         *)
(* A message is known by its place in the order it is written, and the     *)
(* bytes by their offset in everything the encoder ever emits: message i   *)
(* occupies offsets Start[i] up to Start[i+1].  The decoder's _buffer is   *)
(* then always the range of offsets from base up to arrived (null and the  *)
(* empty buffer behave alike), and what it pushes is a range of offsets.   *)
(* The model does not tell it where messages begin: when base is not the   *)
(* start of a message, the length it reads there is any number.            *)
(***************************************************************************)
EXTENDS Integers, Sequences

CONSTANTS
  N,         \* how many messages are written
  Size,      \* Size[i]: bytes of message i once marshalled
  Start      \* Start[i]: offset of the first byte of message i's frame

(* codec.js:136, MINIMUM_ENCODED_LENGTH: the compression byte and the length. *)
HeaderLength == 5

(* Frames follow one another without gaps. *)
ASSUME LayoutAssumption ==
  /\ N \in Nat
  /\ Size \in [1..N -> Nat]
  /\ Start \in [1..(N + 1) -> Nat]
  /\ Start[1] = 0
  /\ \A i \in 1..N : Start[i + 1] = Start[i] + HeaderLength + Size[i]

VARIABLES
  joins,     \* does the peer, or a proxy, join messages in one DATA frame?
  encoded,   \* messages the encoder has emitted
  encoder,   \* "open"; "ended" by end(); "failed" when marshal threw
  arrived,   \* bytes the decoder has been given
  base,      \* offset of the first byte still in _buffer
  out,       \* the ranges the decoder has pushed, first to last
  decoder,   \* "open"; "failed" (unmarshal threw); "done" or "threw" (_flush)
  cut        \* did the HTTP/2 stream end before all bytes were through?

vars == <<joins, encoded, encoder, arrived, base, out, decoder, cut>>

Init ==
  /\ joins \in BOOLEAN
  /\ encoded = 0
  /\ encoder = "open"
  /\ arrived = 0
  /\ base = 0
  /\ out = <<>>
  /\ decoder = "open"
  /\ cut = FALSE

-----------------------------------------------------------------------------
(* The encoder *)

(* Every byte the encoder has emitted so far lies below this offset. *)
Emitted == Start[encoded + 1]

(* EncodingStream._transform for the next message: marshal it, collect it in *)
(* a MsgHeaderStream, push header and payload as one buffer, ask for more.   *)
Encode ==
  /\ encoder = "open"
  /\ encoded < N
  /\ encoded' = encoded + 1
  /\ UNCHANGED <<joins, encoder, arrived, base, out, decoder, cut>>

(* The same when marshal throws: the encoder ends its readable side and never *)
(* calls next, so it takes no further message.                                *)
MarshalFails ==
  /\ encoder = "open"
  /\ encoded < N
  /\ encoder' = "failed"
  /\ UNCHANGED <<joins, encoded, arrived, base, out, decoder, cut>>

(* end() on the encoder, once the messages before it are out. *)
EndEncoder ==
  /\ encoder = "open"
  /\ encoder' = "ended"
  /\ UNCHANGED <<joins, encoded, arrived, base, out, decoder, cut>>

-----------------------------------------------------------------------------
(* The decoder *)

(* Chunks the HTTP/2 stream may hand over next, by where they end: any bytes *)
(* in order, within one message unless messages are joined.  An EncodingStream *)
(* pushes one buffer per message, which HTTP/2 may split; other gRPC peers join *)
(* messages.                                                                  *)
ChunkEnds ==
  { e \in (arrived + 1)..Emitted :
      \/ joins
      \/ \E i \in 1..encoded : Start[i] <= arrived /\ e <= Start[i + 1] }

(* readUInt32BE(LENGTH_INDEX) on a buffer that begins at offset p. *)
LengthAt(p) ==
  IF \E i \in 1..N : Start[i] = p
  THEN { Size[i] : i \in { j \in 1..N : Start[j] = p } }
  ELSE 0..Start[N + 1]

(* _pushDecoded on a payload: push it, or emit 'error' when unmarshal throws *)
(* (the source is then unpiped: the decoder gets no more chunks).            *)
PushDecoded(payload) ==
  \/ /\ out' = Append(out, payload)
     /\ UNCHANGED decoder
  \/ /\ decoder' = "failed"
     /\ UNCHANGED out

(* Faulty: `>` for `>=`. *)
CompleteLate(e, length) ==
  /\ e - base >= HeaderLength
  /\ e - base > HeaderLength + length

(* Does _buffer, up to offset e, hold a whole message? *)
Complete(e, length) ==
  /\ e - base >= HeaderLength
  /\ e - base >= HeaderLength + length

(* Faulty: _buffer sliced at the payload's length, one byte too far, and *)
(* dropped whole.                                                         *)
KeptAfterPayloadLength(e, length) == base + length
KeptOneTooFar(e, length) == base + HeaderLength + length + 1
KeptNothing(e, length) == e

(* Offset from which _buffer is kept once its first message is pushed. *)
KeptFrom(e, length) == base + HeaderLength + length

(* DecodingStream._transform: extend _buffer; if it now holds one whole *)
(* message, push that one and keep the rest.                            *)
Transform ==
  /\ decoder = "open"
  /\ \E e \in ChunkEnds, length \in LengthAt(base) :
       /\ arrived' = e
       /\ \/ /\ ~Complete(e, length)
             /\ UNCHANGED <<base, out, decoder>>
          \/ /\ Complete(e, length)
             /\ PushDecoded([from |-> base + HeaderLength,
                             to   |-> base + HeaderLength + length])
             /\ base' = KeptFrom(e, length)
  /\ UNCHANGED <<joins, encoded, encoder, cut>>

(* Faulty: done is not called for an empty _buffer; or always called. *)
FlushOutcomeNotDone == IF arrived = base THEN "open" ELSE "threw"
FlushOutcomeAlwaysDone == "done"

(* _flush when nothing is left over calls done; otherwise it hands _buffer  *)
(* to decodeMessage with _pushDecoded unbound as the callback, and whatever *)
(* decodeMessage finds, the callback fails on its missing `this`: nothing   *)
(* is pushed, done is not called and the TypeError leaves _flush.           *)
FlushOutcome ==
  IF arrived = base THEN "done" ELSE "threw"

(* The stream ends after the encoder's last byte. *)
Flush ==
  /\ decoder = "open"
  /\ encoder # "open"
  /\ arrived = Emitted
  /\ decoder' = FlushOutcome
  /\ UNCHANGED <<joins, encoded, encoder, arrived, base, out, cut>>

(* The stream ends early: an RST_STREAM ends the readable side too. *)
FlushOnReset ==
  /\ decoder = "open"
  /\ decoder' = FlushOutcome
  /\ cut' = TRUE
  /\ UNCHANGED <<joins, encoded, encoder, arrived, base, out>>

Next ==
  \/ Encode
  \/ MarshalFails
  \/ EndEncoder
  \/ Transform
  \/ Flush
  \/ FlushOnReset

Spec == Init /\ [][Next]_vars

(* Streams that are piped keep moving, and end once they have nothing left. *)
(* No message has to be written, marshalled badly or cut off.               *)
Fairness == WF_vars(Transform) /\ WF_vars(Flush)

FairSpec == Spec /\ Fairness

-----------------------------------------------------------------------------
(* Properties *)

TypeOK ==
  /\ joins \in BOOLEAN
  /\ encoded \in 0..N
  /\ encoder \in {"open", "ended", "failed"}
  /\ arrived \in 0..Emitted
  /\ base \in 0..arrived
  /\ out \in Seq([from : Nat, to : Nat])
  /\ decoder \in {"open", "failed", "done", "threw"}
  /\ cut \in BOOLEAN

(* Payload of message i, as the decoder should push it. *)
Payload(i) == [from |-> Start[i] + HeaderLength, to |-> Start[i + 1]]

(* However the bytes are chunked, the decoder pushes the payloads of the   *)
(* first messages, whole, in order and once each: it never loses its place *)
(* in the bytes (codec.js:225-257).                                        *)
InOrderAndWhole ==
  /\ Len(out) <= encoded
  /\ \A n \in 1..Len(out) : out[n] = Payload(n)

(* A message is never held back: once its last byte is in, it has been    *)
(* pushed.  _transform emits at most one message per chunk, so this needs *)
(* chunks that do not join messages.                                      *)
NoneHeldBack ==
  ~joins /\ decoder = "open" =>
    \A n \in 1..encoded : Start[n + 1] <= arrived => n <= Len(out)

(* codec.js:292, "to ensure any outstanding data is decoded": when the stream *)
(* ends after the last byte, every message the encoder emitted has come out   *)
(* of the decoder and the decoder ends.                                       *)
OutstandingDataIsDecoded ==
  decoder \in {"done", "threw"} /\ ~cut =>
    decoder = "done" /\ Len(out) = encoded

(* The part of it that holds: with chunks that keep to one message, _flush *)
(* never has anything to decode.                                           *)
EndsComplete == ~joins => OutstandingDataIsDecoded

(* When the sender is through, the receiver is not left waiting: the decoder *)
(* reaches a clean end, an unmarshalling error or the reset, or its _flush   *)
(* throws, which ends the process (codec.js:296-302).                        *)
EndIsReached == encoder # "open" ~> decoder # "open"

(* Framing implements MessagePipe.  A _flush that throws, an unmarshalling *)
(* error and a reset all count as broken, for the receiver is not told of  *)
(* a clean end; "ended" is a done() that no reset caused.                  *)
Pipe == INSTANCE MessagePipe WITH
  Message   <- [i \in 1..N |-> Payload(i)],
  submitted <- encoded,
  delivered <- out,
  outcome   <- CASE decoder = "open"        -> "open"
                 [] decoder = "done" /\ ~cut -> "ended"
                 [] OTHER                    -> "broken"

PipeSpec == Pipe!Spec
=============================================================================
