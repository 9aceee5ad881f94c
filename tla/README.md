# A TLA+ model of dorusu

dorusu is an implementation of the gRPC protocol for Node.js on top of the `http2` package. This
project models its library and the programs that come with it: messages cut into chunks, calls made
before there is a stream, cancellations along a chain of calls, deadlines, connections shared by
requests, headers, responses that end for several reasons, and whole rpcs between the repository's
own clients and servers. TLC checks each model on small instances, and TLAPS proves all of the
safety properties for every value of the constants. Paths below are relative to the repository;
`lib/` is its implementation.

## The system

| Component | State | Operations | Hard behaviour | What makes it correct |
| --- | --- | --- | --- | --- |
| Message framing, `lib/codec.js` 136-363 | `_buffer` of a `DecodingStream`; what an `EncodingStream` was given | `_transform`, `_pushDecoded`, `_flush`, `encodeMessage` | chunk boundaries anywhere; marshal and unmarshal throw; early end | messages come out whole, in order, once, promptly; a clean end means all came out |
| Client call, `lib/client.js` 403-863 | `stream`, `cancelled`, listeners of `'socket'`, `_data_sent`, `_rpcStatus`, the timer | `_start`, `write`, `end`, `abort`, `_finish`, `_onHeaders`, `_checkStatusHeaders`, `_cancel`, `_checkOnEnd` | calls before the stream; asynchronous `updateHeaders`; abort by application, parent and timer; late frames | one cancellation, which decides the status; one report of the peer's status; writes leave in order and before the end |
| Server call, `lib/server.js` 71-450 and the fallbacks of `lib/dorusu.js` | `rpcCode`, `_trailers`, the encoder, `closed`, `deadline`, two `once` listeners | `_onStream`, `_onHeaders`, `_checkTimeout`, `write`, `end`, `_finish`, `unimplemented`, `unknown` | many reasons to end a response; the status is read later; the stream may close under the handler | one set of trailers, after all messages, not OK after a failure; every ended or expired rpc is answered |
| Calls within calls, `server.js` 283-294, `client.js` 642-658 | `closed`, listeners of `'cancel'` and `'error'`, the parent's deadline | `addChild`, `_with_parent_timeout`, `abort` | cancellation of the parent races the making and the start of a child | a child never outlives its parent, nor is cancelled twice |
| Agent, `client.js` 65-378 | `endpoints` by key, listeners for a key, connections under negotiation | `request`, `rpc`, `negotiated` | concurrent negotiations for one key; failures; plain and TLS | one connection per key, each request started once on its own kind of connection |
| Application registry, `lib/app.js`, `makeDispatcher`, `_useApp` | services, required routes, codecs, handlers | `addService`, `register`, `isComplete`, `buildClient`, the dispatcher | failure half-way through `addService`; names that meet; registration while calls come in | a call is decoded and answered as its client means it, by the handler registered for it |
| Intervals and header values, `codec.js` 364-489 | none | `microsToInterval`, `intervalToMicros`, `removeBinValues` | rounding, limits, kinds of value | a timeout is never lengthened, and exact where it can be; metadata arrives as it was meant |
| Secure headers policy, `lib/dorusu.js` | `secureHeaderPolicy` | `configure`, `blockSecureHeader` | the policy changes between a request and its late headers | no secret in the clear unless the policy is to warn |
| Interop and example programs, `interop/`, `example/` | one rpc each | the tests of both clients, the handlers of both servers | both sides, the deadline and the cancellation interleave | what a test expects happens; every test ends |
| Google authentication, `lib/googleauth.js` | none | `addAuthFromADC` | | one call of a library: see *Not modelled* |
| Protobuf loading, `lib/protobuf.js` | none | `loadProto`, `serverSideMethod`, `clientSideMethod` | | names and codecs are in `Registry` |
| Tools and proto files, `tools/`, `pb/` | none | | | not modelled |

A client is built for a service by the registry. Its calls go through an agent, which finds or opens
a connection and starts the request on it; the request puts its headers and its timeout on the
stream and sends its messages through an encoder. At the server the stream gets a request and a
response object, joined by `once` listeners of `'cancel'` and `'error'`, and the request's `'ready'`
calls the dispatcher, which finds a handler in the registry. A handler may make client calls of its
own with the request as their parent. What is hard in each place is listed under "hazards" in
`PROJECT.json`, at its line, with the properties about it.

## Modules

The modules divide the system where the code does: by object. What two objects share is in one of
them only, so that `ChildCalls` leaves out messages, `ClientCall` headers, and so on; `Interop`
puts both sides together again, on top of what the other modules show of each side.

| Code | Model | Proofs | Instances |
| --- | --- | --- | --- |
| `codec.js`, streams | `Framing`, abstractly `MessagePipe` | `FramingProofs` | `MCFraming` |
| `client.js`, one request and its response | `ClientCall` | `ClientCallProofs` | `MCClientCall` |
| `server.js`, one request and its response; fallbacks of `dorusu.js` | `ServerCall` | `ServerCallProofs` | `MCServerCall` |
| `client.js`, `RpcClient` and `Agent` | `Agent` | `AgentProofs` | `MCAgent` |
| `client.js` and `server.js`, parents and children | `ChildCalls` | `ChildCallsProofs` | `MCChildCalls` |
| `codec.js`, `client.js`, `server.js`, `dorusu.js`, headers and timeouts | `Intervals`, `Headers` | `HeadersProofs` | `MCHeaders` |
| `protobuf.js`, `app.js`, dispatching in `dorusu.js` and `server.js` | `Registry` | `RegistryProofs` | `MCRegistry` |
| the clients and servers of `interop/` and `example/` | `Interop`, abstractly `Rpc` | `InteropProofs` | `MCInterop` |

**`MessagePipe`** is the abstract specification of one direction of an rpc: submitted messages are
delivered in order, and a clean end comes only after all of them.

**`Framing`** models `codec.js`. A message is its index, and bytes are offsets into everything the
encoder emits, so that `_buffer` is the pair `base`, `arrived`; the sizes of the messages are a
constant. `Transform` is one call of `_transform` with any chunk the stream may hand over
(`ChunkEnds`), `PushDecoded` is `_pushDecoded`, and `Flush`/`FlushOnReset` are `_flush` at a whole
and at an early end. The decoder is not told where messages begin: at an offset that is not the
start of one it reads any length. `joins` says whether chunks may span messages; an
`EncodingStream` pushes one buffer for each message, other peers need not.

**`ClientCall`** models one `EncodedOutgoingRequest` and its `DecodedIncomingResponse`. `onSocket`
is the list of calls that wait for `'socket'`; `StartStream` is the part of `_start` that runs with
final headers, which runs those calls up to a first abort. `encIn`, `encOut` and `sent` are what the
encoder has not worked off, what it has encoded, and the frames handed to the HTTP/2 stream; `End` is
`end`, with a message (`end(msg)`) or without. An exception that nobody catches ends the process
(`failure`): a marshaller's, a missing status, and an `'error'` of the response, such as a status other
than OK, that the application does not listen for (`EmitError`). `Abort`
is `abort`, shared by `AbortByHand` (application or parent) and `TimerFires`. The `Recv` actions are
frames of the peer, the `Flow` actions what its data does once it reaches the decoder.

**`ServerCall`** models one stream at the server. `RecvHeaders`, the handler's first calls and
`CheckTimeout` are the parts of one synchronous call of `_onHeaders`, so nothing else happens between
them (`Idle`), but that a response which the handler ends without a message is finished then and there
(`FinishesAtOnce`), before the headers are searched for a timeout. `EmitCancel` and `EmitError` are the two `once` listeners of `_onStream`, `EndResponse` is
`end`, `FinishWith` is `_finish` with `_updateTrailers`. `CloseStream` is the state `CLOSED`, where
`response.stream` is null before the request emits `'cancel'`, because the response's listener is
registered first. `Write` and `End` are the handler's calls, `Fallback` the answer of
`unimplemented` or `unknown`.

**`Agent`** models how requests get connections. A connection is named for the request that opened
it. `Request` is `RpcClient`'s choice of an agent with `Agent.rpc` and `Agent.request`: an endpoint
kept under the key is used (`UseEndpoint`), a plain request opens a connection of its own
(`OpenPlain`, whose start is queued, `StartPlain`), a request over TLS begins to negotiate and
waits for its key (`OpenTLS`). `NegotiatedFirst`, `NegotiatedSecond` and `NotNegotiated` are the
outcomes of `negotiated()`: a first connection is kept, a second is closed, and a socket on which HTTP/2
was not negotiated is left as it is (`idle`), whether it came first or second. A `RawClient` sets `plain` to false, but `Agent.request` computes
`plain` anew, so that nothing of that reaches a request.

**`ChildCalls`** models a tree of calls, `Parent`, each at its client and at its server. `Make` is the
constructor with `addChild`, `Start` the part of `_start` that bounds the timeout
(`WithParentTimeout`) and lets waiting aborts go ahead. `Arrive` calls the handler (`'ready'`) and
`CheckTimeout`, later in the same turn, sets the deadline; between them come only the calls that the
handler makes and starts at once, over a connection that is kept. Those take no account of the
deadline (`early`). What is left of timeouts and deadlines is counted down by `Tick`, so that time is
not bounded. `AlarmCalled`, `DecoderFails` and `Close` are the events of a parent that its children hear; a reset travels from a call to its server
(`ResetArrives`) and from there to the calls it made.

**`Intervals`** holds `microsToInterval` and `intervalToMicros`, with `Keeps`, what an encoding of an
interval is to keep of it. **`Headers`** follows the headers of one rpc. `Request` makes a request,
plain or over TLS, with what its options ask for (`Ask`: headers in their order, a timeout, what is left to
its parent) or with `updateHeaders`. The application has it in its hands from then on and may set headers
and a timeout itself (`SetHeader`, `SetTimeout`), before `Start` or `StartUpdate` runs `_start`, which
for a plain request is always in a later turn, and while `updateHeaders` is awaited. Then come `removeBinValues`, the
policy for secure headers, what goes on the wire, `_addMetadata` and the timer at the server, then the
headers and trailers of the handler on the way back. A name is a base and a number of `-bin` at its
end, a value one or several parts of which the kind is kept. The policy is one setting of the module
and may change at any time (`Configure`), also between a request and the answer of its
`updateHeaders`.

**`Registry`** goes from a proto file - a tree of nodes with labels, services with methods whose
names are words with a spelling - to the handler of a call. `addService` keeps the service and the
routes before the first that throws, as the code does; `register` keeps what it is given, be it
`Undefined`. `Call` is a method of a built client, `Serve` is `_useApp` and the dispatcher, which
read the registry when the call arrives.

**`Rpc`** is the abstract specification of a whole rpc: a client asks one thing after another, is
given what the handler owes it, in order, and told that there is no more once it has been given all of
it; the handler's verdict may come while messages are still to be given. Only a
deadline or more questions than the handler answers make it fail otherwise. When streams push back the
order of the messages is all that is promised. **`Interop`** is the
detailed one: a test of `interop_client.js` or `math_client.js` (`Tests`) against the handlers of
`interop_server.js` and `math_server.js` (`OnData`, `OnEnd`), with the client's stream of requests,
both halves of the call, both deadline timers and the frames under way in both directions
(`up`, `down`). It computes what the handlers compute; `Owed` and `ProperStatus` say the same in
terms of the requests only, and the refinement compares the two. What the application was `given` are
the responses of its `'data'` events (`seen`), not the frames that arrived. If the streams push
back (`congested`), `EndRequest` and `FinishReady` do not wait for what is still to be piped, and it
is lost, as an ended stream takes no more.

Outside the repository, and modelled from how it is used (marked external in `PROJECT.json`): the
HTTP/2 stream, which takes frames in order and ignores them once it is reset, Node's streams, pipes
and timers, and the connections. `congested` lets the HTTP/2 stream push back, so that a `'finish'` of
the encoder can precede data that is encoded and not yet piped. It is chosen once for each behaviour;
when it is FALSE the pipe keeps up.

## Runs

| Run | Shows |
| --- | --- |
| `framing` | three messages of 2, 0 and 1 bytes, cut anywhere, come out whole, in order, promptly; `MessagePipe` is implemented |
| `framing_flush` (violation) | joined messages are left in the buffer at the end and `_flush` throws |
| `client_call` | cancellation is single and decides the status, the peer's status is reported once, writes leave in order and before the end, an ended request gets to say so |
| `client_deadline` (violation) | the deadline's timer cancels an rpc that has already ended |
| `client_reset` (violation) | a reset before any status ends in an exception, not in a status |
| `server_call` | one set of trailers, after all messages, not OK after a failure; what ends or expires is answered |
| `server_fallback` (violation) | an empty request to `unimplemented` is never answered |
| `agent` | three requests that negotiate, fail and lose connections in any order: each is started once, on its own kind of connection; of the connections with HTTP/2 for a key one is kept and the others are closed, and nobody waits for a key that has one |
| `headers` | metadata arrives under its own name and kind, headers and trailers; timeouts are kept as well as an interval can; what the options, or the application after `_start`, set of secrets leaves in the clear only if the policy was to warn |
| `children` | each call of a chain is cancelled once, for the first reason; none goes on for a parent that is over, nor beyond its deadline if it was known; a cancellation reaches every server below |
| `registry` | a call reaches a handler that decodes and answers it as its client means it; a handler is never replaced |
| `interop` | the repository's own tests end and, if the streams keep up, find what they expect, whatever the interleaving; every rpc is one as `Rpc` has it |

A violation is a disagreement between the code and a doc of the repository, quoted under "findings".

### Bounds

- `framing`: an empty message, one of one byte and one of two give every position of a cut in
  the header and the payload, with messages before and after.
- `client_call`: two writes are enough for an order, one reply for data before and after the trailers
  or a cancellation, two aborts by hand with the timer for every pair and a triple of cancellations.
- `server_call`: two writes, two messages from the client (one is decoded, the next fails), and at
  most one write of a handler after its response was ended; a second would only repeat the frames of
  the first.
- `agent`: one host, as requests to two hosts have no key in common; three requests, for one whose
  connection is kept, one that comes second and one that finds the endpoint; a client of the global
  agent and one with a logger, hence with an agent of its own.
- `headers`: lists of at most two headers, in both orders, for each pair of a plain name, a name with
  `-bin`, a secure and a reserved one, with each kind of value; a third header could meet no other
  in a new way. Numbers are scaled: a unit is 4 of the one below it instead of 1000, up to
  seconds, then 3 instead of 60, an interval has amounts up to 4 instead of 10^8 - 1, `Grain` is 2 instead of 125,
  timers go up to 100 ms. Thus all five units are reached, with amounts that fit, are rounded down and do
  not fit in any unit (`RangeError`), and timeouts below, at and above what a timer takes. What the
  application sets itself is a secure header, one that is sent as binary, and a timeout, each at most
  once; the first two meet the headers of the options under the same names.
- `children`: a chain of three calls, as a parent hears its children no differently if it has
  several; a timeout of two milliseconds for the first, of one for the second, or none, for a child's own
  deadline, its parent's, and both due at once, and deadlines due before, while and after the child is
  made and started; the third inherits its deadlines only; the first call is
  the one that may be cancelled by hand and fail to decode (`Unruly`); the others are cancelled through
  it, by a timer or by the end of a parent.
- `registry`: a package with two services, one with the label of its package, the other with three
  methods of which two meet in a route and all in a client; two handlers and what is no handler; two
  calls, before and after a registration.
- `interop`: the fourteen tests with their own messages, but for the payloads, of which the sizes are
  kept, and eleven other calls of the same handlers, with messages after a division by zero, a second
  message for a handler that answers the first, deadlines and a cancellation, with streams that push back and that do not; 58,712 states.

The violation runs use smaller instances of the same modules. Deadlock is not checked: an rpc ends,
and then nothing more happens; requests, calls and additions to a registry run out.

### Fairness

Everything queued in Node's streams moves on (`Transform`, `Flush`, `EncodeNext`, `PipeEncoded`,
`Finish`, `SendEnd`, `FlowMessage`, `FlowEnd`): their callbacks are run by the event loop and none
waits for the application. A request is started, and `updateHeaders` calls back, which its contract
says (`client.js` 528-532). A synchronous call returns (`CheckTimeout`), and at the server a timer
that was set fires. Nothing is assumed of the application, the handler or the peer, except in
`server_fallback`, whose client ends its request.

In `Agent`, what was queued with `nextTick` is run, and a TLS handshake comes to an end, good or bad.
In `ChildCalls` time passes, a turn comes to an end (`CheckTimeout`), the timer of a request is called, and what a client sends, a request and
then perhaps its reset, arrives; that a handler makes calls or starts them is not assumed. In
`Interop` each side goes on while it has something to do and timers fire; the connection lasts, as
it does in those tests, and the test clients' streams are read. Each is weak fairness of one action: none
is disabled again and again by others.

### What the properties except, and why

The code does what a few natural statements forbid. Where no doc of the repository speaks of it,
the property excepts it by name:

- `TrailersOnce`, `WholeBeforeTrailers`: a handler that writes after its response was ended (`late`)
  fails the encoder, which finishes the response once more. `mathDiv` goes on after the division by
  zero that ends its response, so that a further message can replace INVALID_ARGUMENT by
  INTERNAL: `Overrun` in `RpcSpec`.
- `EndsAfterAll`, `WholeBeforeTrailers`: when the HTTP/2 stream pushes back (`congested`), the end can
  overtake encoded messages.
- `ExpectationsHold`, `RpcSpec`: for the same reason messages can be lost under push-back, requests and
  responses both (`server.js` 99, `client.js` 409), and a test then misses what it expects. A test of the
  repository has no message that fills the buffers.
- `EndsComplete`, `NoneHeldBack`: messages that a peer joins in one chunk (`joins`); `framing_flush` shows what
  becomes of them. `EndIsReached` has a `_flush` that throws as an end.
- `OneConnectionPerKey`: a socket without HTTP/2 stays open, also beside the kept one.
- `SecretOnlyWithWarning`: a request counts as secure until `_start` finds out (`client.js` 406, 524), so that
  `setHeader('authorization', ...)` on a plain request that has not been started is not checked (487), and the
  header goes out in the clear under any policy. The doc of the policy (`dorusu.js` 94) says that to send
  one throws, without saying when.
- `ChildWithinParent`: a child that its handler starts in the turn in which it is called (`early`) is
  not bounded by its parent's deadline, which is read from the headers after that.
- `NoOrphans`: a call made for a parent past its deadline, or broken, but not closed (`late`) goes on
  until the parent is closed.
- `MadeIsStarted`: a connection that fails ends the process, as its `'error'` has no listener.
- `ServedAsDeclared`: `addService` keeps the service and the routes before the first that throws, so
  that `isComplete` may be true of an app that lacks the rest (`broken`); its doc (`app.js` 175-176)
  does not speak of an exception. Two methods with one route are `Ambiguous`.
- `TimeoutIsKept`: an interval such as `1001u` under a parent with a deadline makes `_start` throw a
  RangeError, since 1000 times a gap of dates is not a whole number; a name spelled `Grpc-Timeout` escapes
  the parent's bound, which the doc (`client.js` 637-641) says there is; timers of more than
  2^31 - 1 ms are due at once.
- `ExpectationsHold`: only tests with a deadline can fail. In `timeoutOnSleeper` all four pings may be
  answered before the timer fires, or the server's status may come first, as an `'error'` that nobody
  hears.
- `TestEnds`: `EmptyCall`, `Fib` and `UnaryCall` without a message - one that was not sent, or was lost - are never answered. A test that is
  done at `'status'` (`doStreamDiv`, `doOkFib`) may be done before all replies were checked, `doOkFib`
  does not check their number, and the expectations about `body.lengh` check nothing; the model has
  the tests as they are.
- `RpcSpec`: a limit of zero makes `mathFib` end at once, as `Owed` has it too, where `math.proto` (69-71)
  lets it go on until the call is cancelled; the server in `example/` never does.

Each property is checked to be sensitive to the code: operators marked "Faulty" are forms
of a definition with a plausible bug, and each property is violated by one of them.

## Proofs

Eight modules prove, for every value of the constants and from the named assumptions of the modules
alone, all the invariants and action properties that the runs check, and both refinements. Each
invariant is strengthened to an inductive one, with one lemma for each action or kind of step.

- `FramingProofs`: `TypeOK`, `InOrderAndWhole`, `NoneHeldBack`, `EndsComplete`, and that `Spec` implements
  `MessagePipe`. The inductive invariant says that `base` is the start of the message after those
  pushed, so that the length the decoder reads is that message's; with it each step of `Transform`
  either lacks bytes or pushes exactly the next payload. `InOrderAndWhole` alone is not inductive: it does
  not say where the decoder stands. That each frame begins after those before it (`StartsGrow`) is by
  induction over their distance.
- `ClientCallProofs`: all its invariants. `Lifecycle` ties `phase`, `stream` and `cancelled` together:
  only a request with a live stream, or with none yet, can be cancelled, and it then has neither
  (`CancelledOnce`). `Told` adds that a response which was told of a cancellation is unpiped, so that no
  failing unmarshal can replace its status, and has a status, so that no header can
  (`CancelIsTheStatus`); `Reported` that nothing was reported before there is a stream
  (`ServerStatusReportedOnce`). `Flow` says that there are numbers n and m such that the first n messages
  were handed over, those up to m are encoded, the last of them waiting for the pipe, and the
  encoder has yet to work off exactly the rest of what was written, an end last; `Waits` says the same
  of the calls that wait for `'socket'`, and `EndShape` that an end leaves nothing behind
  (`SentInOrder`, `EndsAfterAll`); an end may bring the last message itself (`EndsAt`).
- `ServerCallProofs`: all its invariants and `FailureIsNotOK`. `FailureNoted` says that a cancel or error
  that was heard, and a failure to marshal, leave a code other than OK in `rpcCode`; every step that
  assigns it later assigns such a code. `FirstTrailers` reads the status back from the frames that
  `_finish` hands over. `EncShape` and `Settled` say that trailers go only when the encoder has failed
  or worked off its end, which it does once (`OnlyOne`, hence `TrailersOnce`); `Flow` is that of
  the client, for a response (`WholeBeforeTrailers`). All actions are first brought to nine kinds of step
  (`Quiet`, `Ends`, `Writes1`, `WritesLast`, `WritesLate`, `Encodes`, `Fails`, `Pipes`, `Finishes`), for which
  the invariants are proved.
- `AgentProofs`: all its invariants and `EndpointIsKept`. Who waits for a key has the target of the key
  and was not started (`WaitersWait`, `QueuedWait`), what is kept under a key goes to its target
  (`KeptForItsTarget`), and has HTTP/2 (`KeptIsNegotiated`).
- `HeadersProofs`: all its invariants and `SecretOnlyWithWarning`, for all lists of headers, all timeouts
  and every scale of units. The loop of `microsToInterval` divides again and again; since dividing twice is
  dividing by the product (`DivDiv`), its amounts are those of dividing at once (`AmountsAre`), and what an
  interval loses is a remainder (`MicrosToInterval`). `ToSendFacts` adds the parent and the gap, `InvT` that
  timeout and timer are not set before their time (`TimeoutIsKept`). Metadata needs to know what was sent,
  whatever the policy was by then: `Conveyed` says that it was all that was asked, by the options and the
  application, but for some headers that are blocked, and what both sides made of it (`MetadataArrives`). Encoding keeps the names of secure
  headers apart: a name is secure after it only if it was before (`SecretOnlyWithWarning`).
- `ChildCallsProofs`: all its invariants, for every tree of calls and all timeouts. `Shape` says that the
  first reason to cancel a call waits at the head until there is a stream, and afterwards that a call has a
  stream as long as it has no reason; `Bound` that a call that has none listens to a parent that goes on. `Earliness` says that a call whose
  parent's deadline is not yet set is `early` if it has a timer, so that `CheckTimeout` sets deadlines only
  above children that the property excepts (`ChildWithinParent`).
- `RegistryProofs`: all its invariants and `HandlerStays`, for every proto file. A required route has the
  codecs of a method it is the route of (`RoutesOK`), and a service added without an exception has all
  its routes (`AddedOK`).

- `InteropProofs`: `TypeOK`, `ExpectationsHold`, `RpcSpec` and `ResponseIsWhole`, for every set of tests, of any
  number of messages of any content, that send a method what it takes (`TestsAssumption`) and expect
  what it owes (`ExpectationsAssumption`). The properties speak of what has arrived, which says nothing of
  the next frame, so the invariant `Inv` says where everything is: there are numbers p, n and a truth value e
  such that the server has handled the first p messages, and the end if e; the frames to it are the
  messages written after these (`Upward`); the handler has added up these, and ended the
  response only because it owes no more, or has failed for a reason (`Handler`); and what arrived, the n
  messages on the wire and those still encoded are, in this order, what is owed for these p messages, with
  trailers that are justified by then (`Downward`). With `congested` a status no longer says that the messages
  owed came before it (`Justified`), as those still to be piped may have been lost. Once the client has dropped its stream nothing of this
  is left, and nothing of it matters: `Dropping` says why it was dropped, and that it has heard of it.
  A step of the server moves p, and `OwedStep` and `EndStep` say what that adds to what is owed, for each
  method; `Ahead` and `AheadWhole` compare what is owed for the messages handled with what is owed for
  those written, or all: the former begins the latter, and is all of it once nothing more is owed. Then
  each step of the client is a step of `Rpc` or none (`RpcStep`): the message of a `'data'` event is the next one
  owed for what was sent (`OwedAhead`), and `'end'` comes after the last that arrived (`EndIsLast`). Every
  response, status and event is what a test without a deadline expects, when the streams keep up
  (`ExpectationsStep`). `ResponseIsWhole`, which no run checks, is what the application can then rely on: the
  responses it has been given begin those owed for its whole request, OK or INVALID_ARGUMENT is
  reported only as the proper status, and when `'end'` follows such a status they are all of them. It is a
  theorem about what arrives (`LiveIsWhole`, and `NothingMore` once the stream is dropped) and about
  `EndIsLast`. The status itself may precede messages that wait for `'data'`, as it does in the code. `NoStandstill`, which no run checks either,
  is the half of `TestEnds` that is safety: until a test has called done or failed, one side or a timer has
  something to do (`Going` lists the guards). If nothing is left to do, everything written has been handled
  and everything sent has arrived (`AllHandled`); then the end of a finished response has come
  (`EndFollows`), every event was heard (`Heard`), and a handler that has not finished waits for a message
  or an end that the client is free to send (`UnfinishedGoesOn`).

`Sum`, `FlattenSeq`, the Fibonacci numbers and mathFib's loop are recursive functions. What they compute
is proved by induction over the naturals, taken as sets (`Induction`, from the existence of a
least element in `WellFoundedInduction`): the theorems of `NaturalsInduction` that take a predicate are
of no use to the provers here.

The assumptions about constants are those the code justifies: the layout of frames (`Framing`), that
trees are trees, that units and limits are positive and a millisecond is whole `Grain`s (1000 is 8 times
125, `Headers`), that requests and replies are lists of headers with one name each, as JavaScript objects
are; and for `Interop` that numbers sent are not negative - an int64 field cuts a quotient towards zero, which
is `\div` only then, and no test sends others - and that tests expect what is owed. TLC evaluates each of
them in the runs. That the event a test is done at can come (`EventsAssumption`), only `NoStandstill` needs.
`ExpectationsAssumption` is what a reader of a test would check by hand: the proof then says
that no interleaving makes a difference.

Model-checked only: the liveness properties (`EndIsReached`, `EndIsSent`, `EndIsAnswered`,
`MadeIsStarted`, `EndsEverywhere`, `TestEnds`), which are out of the prover's reach, as fairness and
`ENABLED` are. Of `TestEnds`, `NoStandstill` is proved; that what goes on comes to an end is not.

## Not modelled

- `lib/googleauth.js`: one call of a library and one header. What it can do to a request - answer
  later with new headers, or fail - is `RequestUpdate`, `HeadersUpdated` and `UpdateFailed` of `Headers`,
  and `HeadersUpdated`, `HeadersRefused` of `ClientCall`.
- `lib/protobuf.js` but for names, methods and their codecs: finding and parsing files, and messages and
  enums, are ProtoBuf.js's.
- TLS options and Server Name Indication of the agent; logging; `debug`.
- Of the interop programs: `go_interop_agent.js`, which installs and runs Go's programs; the tests with
  credentials, which need Google's services; `run_prod_interop.js` and the command lines. The series
  `allWithoutAuth` is not modelled as such: `TestEnds` gives that each test lets the next one start.
- `tools/`, a script that copies files, and `pb/`, the copied files.
- Of what is modelled: the status message; `setHeader` after the headers were sent,
  which the HTTP/2 library answers with an error; listeners that call back into `abort`; a handler that sets
  `rpcCode` other than just before `end`, or to OK; a listener the application attached before its handler
  threw.

## Plan

1. `Rpc`: what its implementation by `Interop` gives for other handlers than those of the repository; the
   lemmas about one message more (`OwedStep`, `EndStep`) are all that depends on them.
2. `ChildCalls`, `ServerCall`: as for `Interop`, the halves of the liveness arguments that are safety, as invariants: what is
   queued whenever something has still to happen.
3. Listeners that call `abort` again, in `ClientCall`: a second 'cancel' before the stream is dropped.
4. `Agent` joined with `ClientCall`: what a lost connection means to the rpcs that run on it.
