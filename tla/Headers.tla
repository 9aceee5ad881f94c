------------------------------ MODULE Headers ------------------------------
(***************************************************************************)
(* The headers of one rpc, from what its client and its handler set to what *)
(* the other side is given as metadata and as timeout (lib/client.js,       *)
(* lib/server.js, lib/codec.js, lib/dorusu.js).                             *)
(*                                                                          *)
(* A name is a base and the number of '-bin' at its end; names are in lower *)
(* case, as OutgoingMessage puts them, but for one case: what is spelled    *)
(* 'Grpc-Timeout' escapes the tests of setHeader, not the timer of _start.  *)
(* A value is one or several parts of which the kind is kept. The timeout   *)
(* is kept apart from the other headers, as the code treats it apart.       *)
(*                                                                          *)
(* An application has a request in its hands before it is started, and may  *)
(* set headers on it beside those of its options: until _start takes the    *)
(* request for a secure one, and while updateHeaders is awaited.            *)
(***************************************************************************)
EXTENDS Intervals, Sequences

CONSTANTS
  Reserved,     \* bases of reservedHeaders
  Secure,       \* bases of knownSecureHeaders
  Bases,        \* all bases
  Asked,        \* bound: what the options of requests may ask them to send
  Presets,      \* bound: the headers an application sets itself, each once
  PresetTimeouts, \* bound: the timeouts it sets itself, under the name in lower case
  Replies,      \* bound: the headers and trailers handlers may set, in their order
  Grain,        \* 125: microseconds in an eighth of a millisecond
  LongestDelay, \* 2^31 - 1: the milliseconds a timer of Node can be set to
  None

FAIL == 1
DROP == 2
WARN == 3
Policies == {FAIL, DROP, WARN}

Name == [base : Bases, bins : Nat]
Kind == {"ascii", "utf8", "buffer", "empty"}
Value == [array : BOOLEAN, parts : Seq(Kind)]
Header == [name : Name, value : Value]

(* The value of grpc-timeout: a Date, so many milliseconds from now, an      *)
(* interval, or what is neither; and whether its name is in lower case.      *)
Timeout ==
  [kind : {"date"}, gap : Int, lower : BOOLEAN]
    \cup [kind : {"interval"}, interval : Interval, lower : BOOLEAN]
    \cup [kind : {"bad"}, lower : BOOLEAN]

HeaderList == {hs \in Seq(Header) : \A i, j \in DOMAIN hs : hs[i].name = hs[j].name => i = j}

(* The headers in the options of a request, in the order they are set, its   *)
(* timeout, and the milliseconds that are left to its parent when it starts, *)
(* None if it has no deadline.                                               *)
Ask == [headers : HeaderList, timeout : Timeout \cup {None}, left : Int \cup {None}]

ASSUME HeadersAssumption ==
  /\ Reserved \subseteq Bases /\ Secure \subseteq Bases
  /\ None \notin Asked /\ \A a \in Asked : a \in Ask
  /\ Presets \subseteq Header /\ PresetTimeouts \subseteq {t \in Timeout : t.lower}
  /\ \A hs \in Replies : hs \in HeaderList
  /\ Grain \in Nat \ {0} /\ Thousand % Grain = 0 /\ LongestDelay \in Nat \ {0}

VARIABLES
  policy,        \* dorusu.secureHeaderPolicy
  phase,         \* how far the rpc is
  plain,         \* options.plain
  secure,        \* EncodedOutgoingRequest.secure
  preset,        \* the headers the application set, in their order
  presetTimeout, \* the timeout it set, None if it did not
  asked,         \* what the options ask for, None if that is left to updateHeaders
  wire,          \* the headers sent
  wireTimeout,   \* grpc-timeout as sent, None if not
  timer,         \* milliseconds after which the server's timer is due, None if not set
  metadata,      \* DecodedIncomingRequest.metadata, a set of named values
  answered,      \* the headers set by the handler
  trailing,      \* the trailers set by the handler
  resMetadata    \* DecodedIncomingResponse.metadata

request == <<plain, secure, preset, presetTimeout, asked, wire, wireTimeout>>
response == <<answered, trailing, resMetadata>>
vars == <<policy, phase, request, timer, metadata, response>>

Init ==
  /\ policy = FAIL
  /\ phase = "new"
  /\ plain = FALSE /\ secure = TRUE
  /\ preset = <<>> /\ presetTimeout = None
  /\ asked = None
  /\ wire = <<>> /\ wireTimeout = None
  /\ timer = None /\ metadata = {}
  /\ answered = <<>> /\ trailing = <<>> /\ resMetadata = {}

-----------------------------------------------------------------------------
(* Values and their encoding *)

(* isReservedHeader, isKnownSecureHeader *)
isReserved(name) == name.base \in Reserved /\ name.bins = 0
isKnownSecure(name) == name.base \in Secure /\ name.bins = 0

(* A string is ascii only if it has a character at all. *)
NeedsBase64(value) == \E i \in DOMAIN value.parts : value.parts[i] # "ascii"

Bin(name) == [name EXCEPT !.bins = @ + 1]

removeBinValues(h) ==
  IF NeedsBase64(h.value)
  THEN [name |-> Bin(h.name), value |-> h.value, base64 |-> TRUE]
  ELSE [name |-> h.name, value |-> h.value, base64 |-> FALSE]

(* What one side sets reaches the HTTP/2 stream: of the headers that have one *)
(* name in the end, the last, in the place of the first.                      *)
Encoded(hs) ==
  LET noBins == [i \in DOMAIN hs |-> removeBinValues(hs[i])]
      same(i) == {j \in DOMAIN hs : noBins[j].name = noBins[i].name}
      first == {i \in DOMAIN hs : \A j \in same(i) : i <= j}
  IN [i \in first |-> noBins[Max(same(i))]]

(* _addMetadata: the value under a '-bin' name is decoded, even if nobody    *)
(* encoded it.                                                               *)
Received(w) ==
  IF w.name.bins = 0
  THEN [name |-> w.name, parts |-> w.value.parts, as |-> "string"]
  ELSE [name |-> [w.name EXCEPT !.bins = @ - 1], parts |-> w.value.parts,
        as |-> IF w.base64 THEN "bytes" ELSE "garbled"]

(* Faulty: metadata under the name of trailers that follow is not replaced. *)
UpdatedKeeping(old, sent) ==
  old \cup {Received(sent[i]) : i \in {k \in DOMAIN sent : ~isReserved(sent[k].name)}}

(* _updateMetadata: the headers in order, the last of one name stays. *)
Updated(old, sent) ==
  LET own == {i \in DOMAIN sent : ~isReserved(sent[i].name)}
      named(i) == Received(sent[i]).name
      last == {i \in own : \A j \in own : j > i => named(j) # named(i)}
  IN {e \in old : \A i \in own : named(i) # e.name} \cup {Received(sent[i]) : i \in last}

-----------------------------------------------------------------------------
(* The timeout of a request *)

(* Faulty: a deadline in the past is left there. *)
GapAsIs(micros) == micros

(* What is left of a gap of so many microseconds; dates in the past are now. *)
Gap(micros) == IF micros > 0 THEN micros ELSE 0

(* Microseconds from now to the deadline a request asks for. *)
Own(t) == IF t.kind = "date" THEN t.gap * Thousand ELSE intervalToMicros(t.interval)

(* Math.min of the parent's deadline and the request's own, from now. *)
resultDeadline(micros, left) == IF left * Thousand <= micros THEN left * Thousand ELSE micros

(* 1000 times a gap in milliseconds is a whole number only if the gap is so  *)
(* many eighths of a millisecond: a date keeps 1/4096 of one.                *)
EncodedGap(micros) ==
  IF micros % Grain = 0 THEN microsToInterval(micros) ELSE RangeError

(* The interval sent for a good timeout: it is encoded anew if there is a    *)
(* parent to bound it or if it is a Date; otherwise it is sent as it is.     *)
ToSend(t, left) ==
  IF left # None /\ t.lower THEN EncodedGap(Gap(resultDeadline(Own(t), left)))
  ELSE IF t.kind = "date" THEN EncodedGap(Gap(Own(t)))
  ELSE t.interval

IsGood(t) == t # None /\ t.kind # "bad"

(* Does the value of grpc-timeout make _start throw? A name in other letters *)
(* takes the value past setHeader to intervalToMicros, which wants a string. *)
TimeoutThrows(t, left) ==
  \/ IsGood(t) /\ ToSend(t, left) = RangeError
  \/ t # None /\ ~t.lower /\ t.kind # "interval"

-----------------------------------------------------------------------------
(* The request *)

Blocked(sec, name) == ~sec /\ isKnownSecure(name)

(* The headers that _start finds set, and those it sets. *)
Listed(a) == preset \o a.headers

(* Faulty: a header that is to be dropped is logged, and sent. *)
AllowedAll(sec, a) == Listed(a)

(* The headers left when the policy drops some of those that _start sets. *)
Allowed(sec, a) ==
  LET hs == Listed(a)
      kept == {i \in DOMAIN hs :
                 i > Len(preset) => ~(Blocked(sec, hs[i].name) /\ policy = DROP)}
  IN [i \in kept |-> hs[i]]

(* blockSecureHeader throws. *)
PolicyThrows(sec, hs) == policy = FAIL /\ \E i \in DOMAIN hs : Blocked(sec, hs[i].name)

Throws(sec, a) == PolicyThrows(sec, a.headers) \/ TimeoutThrows(a.timeout, a.left)

(* The timeout a request is to have: that of its options goes over the one   *)
(* the application set.                                                      *)
Wanted(a) == IF IsGood(a.timeout) THEN a.timeout ELSE presetTimeout

(* _start, without updateHeaders: the headers are sent... *)
Send(sec, a) ==
  /\ ~Throws(sec, a)
  /\ phase' = "sent"
  /\ wire' = Encoded(Allowed(sec, a))
  /\ wireTimeout' = IF Wanted(a) = None THEN None
                    ELSE ToSend(Wanted(a), IF IsGood(a.timeout) THEN a.left ELSE None)

(* ...unless setting one throws. A bad timeout is an 'error' event, which    *)
(* throws if nobody listens for it.                                          *)
Throw(sec, a) ==
  /\ Throws(sec, a) \/ (a.timeout # None /\ ~IsGood(a.timeout))
  /\ phase' = "thrown"
  /\ UNCHANGED <<wire, wireTimeout>>

StartWith(sec, a) ==
  /\ asked' = a /\ secure' = sec
  /\ Send(sec, a) \/ Throw(sec, a)
  /\ UNCHANGED <<policy, plain, preset, presetTimeout, timer, metadata, response>>

(* dorusu.configure *)
Configure(p) ==
  /\ policy' = p
  /\ UNCHANGED <<phase, request, timer, metadata, response>>

(* A request is made, with headers in its options or with updateHeaders. It  *)
(* is started later if it is plain or its connection is not there yet.       *)
Request(p, a) ==
  /\ phase = "new"
  /\ phase' = "made" /\ plain' = p /\ asked' = a
  /\ UNCHANGED <<policy, secure, preset, presetTimeout, wire, wireTimeout, timer, metadata, response>>

(* The application sets a header. A request not started counts as secure;    *)
(* afterwards what the policy is against is not set, or setHeader throws.    *)
SetHeader(h) ==
  /\ phase \in {"made", "updating"}
  /\ \A i \in DOMAIN preset : preset[i] # h
  /\ Blocked(secure, h.name) => policy = WARN
  /\ preset' = Append(preset, h)
  /\ UNCHANGED <<policy, phase, plain, secure, presetTimeout, asked, wire, wireTimeout,
                 timer, metadata, response>>

(* It sets a timeout; one that is bad or cannot be encoded changes nothing. *)
SetTimeout(t) ==
  /\ phase \in {"made", "updating"}
  /\ IsGood(t) /\ ToSend(t, None) # RangeError
  /\ presetTimeout' = t
  /\ UNCHANGED <<policy, phase, plain, secure, preset, asked, wire, wireTimeout,
                 timer, metadata, response>>

(* The request is started. *)
Start ==
  /\ phase = "made" /\ asked # None
  /\ StartWith(~plain, asked)

(* It is started with updateHeaders, which is called later. *)
StartUpdate ==
  /\ phase = "made" /\ asked = None
  /\ phase' = "updating" /\ secure' = ~plain
  /\ UNCHANGED <<policy, plain, preset, presetTimeout, asked, wire, wireTimeout,
                 timer, metadata, response>>

HeadersUpdated(a) ==
  /\ phase = "updating"
  /\ StartWith(secure, a)

(* updateHeaders failed: the rpc is cancelled, with nothing sent. *)
UpdateFailed ==
  /\ phase = "updating"
  /\ phase' = "cancelled"
  /\ UNCHANGED <<policy, request, timer, metadata, response>>

(* A timer that would be set to more is due after a millisecond. *)
setTimeout(ms) == IF ms > LongestDelay THEN 1 ELSE ms

(* DecodedIncomingRequest._onHeaders: metadata and the timer of the deadline. *)
ReceiveRequest ==
  /\ phase = "sent"
  /\ phase' = "received"
  /\ metadata' = Updated({}, wire)
  /\ timer' = IF wireTimeout = None THEN None ELSE setTimeout(intervalToMicros(wireTimeout) \div Thousand)
  /\ UNCHANGED <<policy, request, response>>

(* The handler's headers, and what _onHeaders of the response makes of them. *)
Respond(hs) ==
  /\ phase = "received"
  /\ phase' = "answered"
  /\ answered' = hs
  /\ resMetadata' = Updated({}, Encoded(hs))
  /\ UNCHANGED <<policy, request, timer, metadata, trailing>>

(* _updateTrailers, and the listener of 'headers' of the response. *)
Finish(hs) ==
  /\ phase = "answered"
  /\ phase' = "finished"
  /\ trailing' = hs
  /\ resMetadata' = Updated(resMetadata, Encoded(hs))
  /\ UNCHANGED <<policy, request, timer, metadata, answered>>

Next ==
  \/ \E p \in Policies : Configure(p)
  \/ \E p \in BOOLEAN, a \in Asked \cup {None} : Request(p, a)
  \/ \E h \in Presets : SetHeader(h)
  \/ \E t \in PresetTimeouts : SetTimeout(t)
  \/ Start \/ StartUpdate
  \/ \E a \in Asked : HeadersUpdated(a)
  \/ UpdateFailed \/ ReceiveRequest
  \/ \E hs \in Replies : Respond(hs) \/ Finish(hs)

Spec == Init /\ [][Next]_vars

-----------------------------------------------------------------------------
(* Properties *)

TypeOK ==
  /\ policy \in Policies
  /\ phase \in {"new", "made", "updating", "sent", "thrown", "cancelled", "received", "answered", "finished"}
  /\ plain \in BOOLEAN /\ secure \in BOOLEAN
  /\ preset \in Seq(Presets) /\ presetTimeout \in PresetTimeouts \cup {None}
  /\ asked \in Asked \cup {None}
  /\ wireTimeout \in Interval \cup {None}
  /\ timer \in Nat \cup {None}
  /\ answered \in Replies \cup {<<>>} /\ trailing \in Replies \cup {<<>>}

(* A header that ought to be secure is sent in the clear only if the policy  *)
(* was to warn when it was set: for those of the options, or those that      *)
(* updateHeaders gave, when _start sends them, however late that is and      *)
(* whatever the policy was when the request was made; for those that the     *)
(* application sets while updateHeaders is awaited, when it sets them. What  *)
(* it sets before _start is excepted: nothing is checked then, as `secure`   *)
(* is true of a plain request too (client.js:406, 487), and the header goes  *)
(* out in the clear under any policy.                                        *)
SecretOnlyWithWarning ==
  [][/\ wire' # wire =>
          \A i \in DOMAIN wire' :
             Blocked(secure', wire'[i].name) =>
               policy = WARN \/ \E k \in DOMAIN preset : preset[k].name = wire'[i].name
     /\ preset' # preset /\ Blocked(secure, preset'[Len(preset')].name) => policy = WARN]_vars

(* The values of the headers hs that nothing stands in the way of: headers   *)
(* without another of the same base, that are not the protocol's own; a name *)
(* that ends in '-bin' carries binary values only.                           *)
Undisturbed(hs, others) ==
  {hs[i] : i \in {k \in DOMAIN hs :
     /\ hs[k].name.base \notin Reserved
     /\ hs[k].name.bins = 0 \/ NeedsBase64(hs[k].value)
     /\ \A j \in DOMAIN hs : hs[j].name.base = hs[k].name.base => j = k
     /\ \A j \in DOMAIN others : others[j].name.base # hs[k].name.base}}

(* What the other side is to be given of a header: strings as strings, and   *)
(* what is not ascii as bytes, all parts of a value alike.                   *)
Meant(h) ==
  [name |-> h.name, parts |-> h.value.parts,
   as |-> IF \A i \in DOMAIN h.value.parts : h.value.parts[i] = "ascii" THEN "string" ELSE "bytes"]

(* What client - by the options of its request or by setHeader - and handler *)
(* set arrives on the other side as metadata under its own name, text and    *)
(* binary, in headers and in trailers; a trailer takes the place of the      *)
(* header of its name.                                                       *)
MetadataArrives ==
  /\ phase \in {"received", "answered", "finished"} =>
       \A h \in Undisturbed(Listed(asked), <<>>) :
         Meant(h) \in metadata \/ Blocked(secure, h.name)
  /\ phase = "finished" =>
       /\ \A h \in Undisturbed(trailing, <<>>) :
            \A e \in resMetadata : e.name = h.name => e = Meant(h)
       /\ \A h \in Undisturbed(trailing, <<>>) \cup Undisturbed(answered, trailing) :
            Meant(h) \in resMetadata

(* The timeout a request sends is what it was asked to be, or what was left  *)
(* to its parent if that is less, as far as an interval can tell: never      *)
(* longer, exact if it can be, and short by less than the finest unit that   *)
(* fits. A parent bounds only the timeouts in the options of its children,   *)
(* under the name in lower case, not those their application sets itself.    *)
(* And no request is refused that has a good timeout in whole milliseconds,  *)
(* of no more hours than an interval can have, and no header the policy is   *)
(* against. The server gives up when the timeout that was sent says, to the  *)
(* millisecond, unless that is later than a timer can be                     *)
(* (client.js:642-658, codec.js:384-421, server.js:336-340).                 *)
TimeoutIsKept ==
  LET t == asked.timeout
      w == Wanted(asked)
      bounded == IsGood(t) /\ t.lower /\ asked.left # None /\ asked.left * Thousand < Own(t)
  IN
  /\ wireTimeout # None =>
       Keeps(wireTimeout, Gap(IF bounded THEN asked.left * Thousand ELSE Own(w)))
  /\ phase = "thrown" /\ IsGood(t) /\ t.lower =>
       \/ \E i \in DOMAIN asked.headers : Blocked(secure, asked.headers[i].name)
       \/ Own(t) % Thousand # 0
       \/ Own(t) \div microsBySuffix[H] > MaxInterval
  /\ timer # None =>
       LET meant == intervalToMicros(wireTimeout) IN
       meant - timer * Thousand \in 0..(Thousand - 1) \/ meant \div Thousand > LongestDelay
=============================================================================
