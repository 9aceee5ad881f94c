------------------------------- MODULE Agent -------------------------------
(***************************************************************************)
(* How requests get their connections (lib/client.js, RpcClient and Agent). *)
(*                                                                          *)
(* A plain request opens a connection of its own. A request over TLS uses   *)
(* the endpoint its agent keeps under the request's key, if there is one;   *)
(* otherwise it opens a connection to negotiate HTTP/2 on, and waits for    *)
(* the agent to emit the key. Several requests may negotiate for one key at *)
(* once: the first to finish emits the key and serves all of them.          *)
(*                                                                          *)
(* A connection, and the endpoint on it, is named for the request that      *)
(* opened it. External, modelled from how client.js uses them: https, net   *)
(* and the http2 Endpoint. Every request gets a new https.Agent             *)
(* (hasAgentOptions compares undefined with null), so no TLS socket is      *)
(* shared below this level, and each is new when it is handed over.         *)
(***************************************************************************)
EXTENDS FiniteSets

CONSTANTS
  Requests,     \* bound: the requests made
  Hosts,        \* pairs of a host and a port
  Clients,      \* RpcClients
  GlobalAgent,  \* exports.globalAgent
  AgentOption,  \* for each client: an agent it was given, "log" or "none"
  None

Agents == Clients \cup {GlobalAgent}

ASSUME AgentAssumption ==
  /\ GlobalAgent \notin Clients
  /\ AgentOption \in [Clients -> Agents \cup {"log", "none"}]
  /\ {"log", "none"} \cap Agents = {}

(* The agent of a client: the one given, its own if it has a logger, or the *)
(* global one.                                                              *)
AgentOf(c) ==
  IF AgentOption[c] \in Agents THEN AgentOption[c]
  ELSE IF AgentOption[c] = "log" THEN c ELSE GlobalAgent

(* Where a request wants to go, and through which agent. *)
Target == [agent : Agents, plain : BOOLEAN, host : Hosts]

ASSUME NoneAssumption == None \notin Requests \cup Target

(* Faulty: the key of a request leaves out whether it is plain. *)
KeyWithoutPlain(t) == [t EXCEPT !.plain = FALSE]

(* The name under which an agent keeps an endpoint for a target. *)
Key(t) == t

VARIABLES
  target,     \* of each request, None before it is made
  conn,       \* of the connection a request opened; "idle": over TLS, without HTTP/2
  endpoints,  \* this.endpoints: the connection kept under a key, or None
  listeners,  \* under a key: the requests that wait for it to be emitted
  queued,     \* plain requests whose _start is queued with nextTick
  runsOn,     \* the connections a request was started on
  failure     \* an exception nobody catches: "none", "negotiation", "connection"

vars == <<target, conn, endpoints, listeners, queued, runsOn, failure>>

TypeOK ==
  /\ target \in [Requests -> Target \cup {None}]
  /\ conn \in [Requests -> {"none", "connecting", "open", "idle", "closed", "lost"}]
  /\ endpoints \in [Target -> Requests \cup {None}]
  /\ listeners \in [Target -> SUBSET Requests]
  /\ queued \in SUBSET Requests
  /\ runsOn \in [Requests -> SUBSET Requests]
  /\ failure \in {"none", "negotiation", "connection"}

Init ==
  /\ target = [r \in Requests |-> None]
  /\ conn = [r \in Requests |-> "none"]
  /\ endpoints = [k \in Target |-> None]
  /\ listeners = [k \in Target |-> {}]
  /\ queued = {}
  /\ runsOn = [r \in Requests |-> {}]
  /\ failure = "none"

Running == failure = "none"
Made(r) == target[r] # None

-----------------------------------------------------------------------------
(* Agent.request *)

(* Requests rs are started on the endpoint of connection e. *)
StartOn(rs, e) == [r \in Requests |-> IF r \in rs THEN runsOn[r] \cup {e} ELSE runsOn[r]]

(* Faulty: a negotiation under way counts as an endpoint. *)
HasEndpointSoon(k) == endpoints[k] # None \/ listeners[k] # {}

(* `key in this.endpoints` *)
HasEndpoint(k) == endpoints[k] # None

(* There is an endpoint for the key: the request is started on it at once. *)
UseEndpoint(r, t) ==
  /\ HasEndpoint(Key(t))
  /\ runsOn' = StartOn({r}, endpoints[Key(t)])
  /\ UNCHANGED <<conn, endpoints, listeners, queued>>

(* Plain: a connection of its own, which is not kept. *)
OpenPlain(r, t) ==
  /\ ~HasEndpoint(Key(t)) /\ t.plain
  /\ conn' = [conn EXCEPT ![r] = "connecting"]
  /\ queued' = queued \cup {r}
  /\ UNCHANGED <<endpoints, listeners, runsOn>>

(* Faulty: only the last request to wait for a key is remembered. *)
ListenAlone(r, waiting) == {r}

(* this.once(key, ...) *)
Listen(r, waiting) == waiting \cup {r}

OpenTLS(r, t) ==
  /\ ~HasEndpoint(Key(t)) /\ ~t.plain
  /\ conn' = [conn EXCEPT ![r] = "connecting"]
  /\ listeners' = [listeners EXCEPT ![Key(t)] = Listen(r, @)]
  /\ UNCHANGED <<endpoints, queued, runsOn>>

(* What a client calls goes through its agent. The options of a call override *)
(* those of the client, so any target can be asked of any client.             *)
TargetOf(c, plain, host) == [agent |-> AgentOf(c), plain |-> plain, host |-> host]

(* A client makes a request, which Agent.rpc passes on. *)
Request(r, c, plain, host) ==
  LET t == TargetOf(c, plain, host) IN
  /\ Running /\ ~Made(r)
  /\ target' = [target EXCEPT ![r] = t]
  /\ UseEndpoint(r, t) \/ OpenPlain(r, t) \/ OpenTLS(r, t)
  /\ UNCHANGED failure

StartPlain(r) ==
  /\ Running /\ r \in queued
  /\ queued' = queued \ {r}
  /\ runsOn' = StartOn({r}, r)
  /\ UNCHANGED <<target, conn, endpoints, listeners, failure>>

-----------------------------------------------------------------------------
(* Connections *)

(* A plain connection is made; its endpoint has been in use since before. *)
Connected(r) ==
  /\ Running /\ conn[r] = "connecting" /\ target[r].plain
  /\ conn' = [conn EXCEPT ![r] = "open"]
  /\ UNCHANGED <<target, endpoints, listeners, queued, runsOn, failure>>

Negotiating(r) == Running /\ conn[r] = "connecting" /\ ~target[r].plain

(* Faulty: a connection that comes second is not noticed. *)
StartedNever(r) == FALSE

(* `started`: the listener of r has been called, by whichever connection. *)
Started(r) == r \notin listeners[Key(target[r])]

(* Faulty: a connection serves the request that opened it only. *)
HeardByOne(r) == {r}

(* The requests whose listeners are called when r's connection emits the key. *)
Heard(r) == listeners[Key(target[r])]

(* negotiated() with HTTP/2, first for its key: the endpoint is kept, and    *)
(* the key is emitted.                                                       *)
NegotiatedFirst(r) ==
  LET k == Key(target[r]) IN
  /\ Negotiating(r) /\ ~Started(r)
  /\ conn' = [conn EXCEPT ![r] = "open"]
  /\ endpoints' = [endpoints EXCEPT ![k] = r]
  /\ runsOn' = StartOn(Heard(r), r)
  /\ listeners' = [listeners EXCEPT ![k] = @ \ Heard(r)]
  /\ UNCHANGED <<target, queued, failure>>

(* Faulty: the connection that came second is left open. *)
SurplusKept == "open"

(* endpoint.close() *)
SurplusClosed == "closed"

(* negotiated() with HTTP/2, when r has been started on another connection. *)
NegotiatedSecond(r) ==
  /\ Negotiating(r) /\ Started(r)
  /\ conn' = [conn EXCEPT ![r] = SurplusClosed]
  /\ UNCHANGED <<target, endpoints, listeners, queued, runsOn, failure>>

(* negotiated() without HTTP/2: if r still waits, the first listener of the  *)
(* key throws and the others are not called; otherwise nothing happens. The  *)
(* socket has no endpoint then, and nobody closes it.                        *)
NotNegotiated(r) ==
  /\ Negotiating(r)
  /\ conn' = [conn EXCEPT ![r] = "idle"]
  /\ failure' = IF Started(r) THEN failure ELSE "negotiation"
  /\ UNCHANGED <<target, endpoints, listeners, queued, runsOn>>

(* The connection cannot be made: neither the https request nor the plain    *)
(* socket has an 'error' listener.                                           *)
ConnectFails(r) ==
  /\ Running /\ conn[r] = "connecting"
  /\ conn' = [conn EXCEPT ![r] = "lost"]
  /\ failure' = "connection"
  /\ UNCHANGED <<target, endpoints, listeners, queued, runsOn>>

(* The peer ends the connection; the agent keeps its endpoint. *)
ConnectionEnds(r) ==
  /\ Running /\ conn[r] \in {"open", "idle"}
  /\ conn' = [conn EXCEPT ![r] = "lost"]
  /\ UNCHANGED <<target, endpoints, listeners, queued, runsOn, failure>>

Next ==
  \/ \E r \in Requests, c \in Clients, plain \in BOOLEAN, host \in Hosts :
       Request(r, c, plain, host)
  \/ \E r \in Requests :
       \/ StartPlain(r) \/ Connected(r)
       \/ NegotiatedFirst(r) \/ NegotiatedSecond(r) \/ NotNegotiated(r)
       \/ ConnectFails(r) \/ ConnectionEnds(r)

Spec == Init /\ [][Next]_vars

(* Queued calls are run, and a TLS handshake comes to an end. *)
Fairness ==
  \A r \in Requests :
    /\ WF_vars(StartPlain(r))
    /\ WF_vars(NegotiatedFirst(r) \/ NegotiatedSecond(r) \/ NotNegotiated(r) \/ ConnectFails(r))

FairSpec == Spec /\ Fairness

-----------------------------------------------------------------------------
(* Properties *)

(* A request is started once, on a connection that was opened to the same   *)
(* host, by the same agent, and as plain or secure as the request: a        *)
(* request meant for TLS never travels in the clear.                        *)
RunsOnItsOwnKind ==
  \A r \in Requests :
    /\ \A d \in runsOn[r], e \in runsOn[r] : d = e
    /\ \A e \in runsOn[r] : target[e] = target[r]

(* However many requests negotiate at once, of the connections for a key on  *)
(* which HTTP/2 was negotiated the one the agent keeps is open, and those    *)
(* that came second are closed; and no request over TLS runs on a connection *)
(* without HTTP/2. (A socket on which it was not negotiated stays open.)     *)
OneConnectionPerKey ==
  \A r \in Requests :
    /\ conn[r] = "open" /\ ~target[r].plain => endpoints[Key(target[r])] = r
    /\ \A e \in runsOn[r] : target[r].plain \/ conn[e] \in {"open", "lost"}

(* Once a key has an endpoint nobody waits for the key any more, although    *)
(* each of the waiting requests opened a connection of its own.              *)
NoneLeftWaiting ==
  \A k \in Target : endpoints[k] # None => listeners[k] = {}

(* The endpoint kept for a key is never replaced: requests that were started *)
(* on it and those to come share it.                                         *)
EndpointIsKept ==
  [][\A k \in Target : endpoints[k] # None => endpoints'[k] = endpoints[k]]_vars

(* Every request that was made is started, unless a connection fails. *)
MadeIsStarted ==
  \A r \in Requests : Made(r) ~> (runsOn[r] # {} \/ ~Running)
=============================================================================
