---------------------------- MODULE AgentProofs ----------------------------
(***************************************************************************)
(* Proofs about agents, for any number of requests, clients and hosts.     *)
(***************************************************************************)
EXTENDS Agent, TLAPS

(* A request that waits for a key has the target of the key, which is not   *)
(* plain, and has not been started.                                         *)
WaitersWait ==
  \A k \in Target : \A r \in listeners[k] :
    target[r] = k /\ ~k.plain /\ runsOn[r] = {}

(* The same of a plain request whose start is queued. *)
QueuedWait ==
  \A r \in queued : target[r] # None /\ target[r].plain /\ runsOn[r] = {}

(* The endpoint kept under a key goes to the target of the key. *)
KeptForItsTarget ==
  \A k \in Target : endpoints[k] # None => target[endpoints[k]] = k

(* HTTP/2 was negotiated on the connection of an endpoint that is kept. *)
KeptIsNegotiated ==
  \A k \in Target : endpoints[k] # None => conn[endpoints[k]] \in {"open", "lost"}

(* A request that was not made has nothing. *)
NothingBefore ==
  \A r \in Requests : target[r] = None => runsOn[r] = {} /\ conn[r] = "none"

IInv ==
  /\ TypeOK /\ WaitersWait /\ QueuedWait /\ KeptForItsTarget /\ KeptIsNegotiated /\ NothingBefore
  /\ RunsOnItsOwnKind /\ OneConnectionPerKey /\ NoneLeftWaiting

-----------------------------------------------------------------------------
(* The agent of a client is an agent, and None is no target. *)
LEMMA AgentOfType ==
  ASSUME NEW c \in Clients
  PROVE  AgentOf(c) \in Agents
<1> QED
  BY AgentAssumption DEF AgentOf, Agents

(* Before any request nothing is kept and nobody waits. *)
LEMMA InitIInv == Init => IInv
<1> QED
  BY DEF Init, IInv, TypeOK, WaitersWait, QueuedWait, KeptForItsTarget, KeptIsNegotiated, NothingBefore,
         RunsOnItsOwnKind, OneConnectionPerKey, NoneLeftWaiting, Target

(* A request that was not made is nowhere. *)
LEMMA Unmade ==
  ASSUME IInv, NEW r \in Requests, target[r] = None
  PROVE  /\ runsOn[r] = {} /\ conn[r] = "none" /\ r \notin queued
         /\ \A k \in Target : r \notin listeners[k] /\ endpoints[k] # r
<1>1. runsOn[r] = {} /\ conn[r] = "none" /\ r \notin queued
  BY DEF IInv, NothingBefore, QueuedWait
<1>2. ASSUME NEW k \in Target PROVE r \notin listeners[k] /\ endpoints[k] # r
  BY <1>2, NoneAssumption DEF IInv, WaitersWait, KeptForItsTarget
<1> QED
  BY <1>1, <1>2

(* A request finds an endpoint, opens a plain connection, or joins those     *)
(* that wait for a key without an endpoint.                                  *)
LEMMA RequestStep ==
  ASSUME IInv, NEW r \in Requests, NEW c \in Clients, NEW plain \in BOOLEAN,
         NEW host \in Hosts, Request(r, c, plain, host)
  PROVE  IInv'
<1> DEFINE t == TargetOf(c, plain, host)
<1>t. t \in Target /\ t # None
  BY AgentOfType, NoneAssumption DEF Target, TargetOf
<1>2. target[r] = None /\ target' = [target EXCEPT ![r] = t] /\ failure' = failure
  BY DEF Request, Made
<1>a. /\ runsOn[r] = {} /\ conn[r] = "none" /\ r \notin queued
      /\ \A k \in Target : r \notin listeners[k] /\ endpoints[k] # r
  BY <1>2, Unmade
<1>T. TypeOK
  BY DEF IInv
<1> HIDE DEF t
<1>o. target'[r] = t /\ \A s \in Requests \ {r} : target'[s] = target[s]
  BY <1>2, <1>T DEF TypeOK
<1>c. ASSUME NEW s \in Requests, NEW d \in runsOn[s], ~target[s].plain
      PROVE  d \in Requests /\ d # r /\ s # r
  <2>1. d \in Requests /\ conn[d] # "none" /\ s # r
    BY <1>c, <1>a, <1>T DEF IInv, OneConnectionPerKey, TypeOK
  <2> QED
    BY <2>1, <1>a
<1>3. CASE UseEndpoint(r, t)
  <2> DEFINE e == endpoints[t]
  <2>1. e \in Requests /\ e # r /\ target[e] = t /\ target'[e] = t
    BY <1>T, <1>a, <1>t, <1>o, <1>3 DEF UseEndpoint, HasEndpoint, Key, TypeOK, IInv, KeptForItsTarget
  <2>2. /\ runsOn' = [s \in Requests |-> IF s = r THEN runsOn[s] \cup {e} ELSE runsOn[s]]
        /\ UNCHANGED <<conn, endpoints, listeners, queued>>
    BY <1>3 DEF UseEndpoint, StartOn, Key
  <2> HIDE DEF e
  <2>3. runsOn'[r] = {e} /\ \A s \in Requests \ {r} : runsOn'[s] = runsOn[s]
    BY <2>2, <1>a
  <2>4. TypeOK'
    BY <1>T, <1>2, <1>t, <2>1, <2>2 DEF TypeOK
  <2>5. WaitersWait'
    BY <1>a, <1>o, <2>2, <2>3, <1>T DEF WaitersWait, IInv, TypeOK
  <2>6. QueuedWait'
    BY <1>a, <1>o, <2>2, <2>3, <1>T DEF QueuedWait, IInv, TypeOK
  <2>7. KeptForItsTarget' /\ NoneLeftWaiting'
    BY <1>a, <1>o, <2>2, <1>T DEF KeptForItsTarget, NoneLeftWaiting, IInv, TypeOK
  <2>8. NothingBefore'
    BY <1>o, <1>t, <2>2, <2>3 DEF NothingBefore, IInv
  <2>9. RunsOnItsOwnKind'
    <3>1. ASSUME NEW s \in Requests \ {r}, NEW d \in runsOn[s] PROVE d # r
      BY <3>1, <1>2, <1>T, NoneAssumption DEF IInv, RunsOnItsOwnKind, NothingBefore, TypeOK
    <3> QED
      BY <1>o, <1>T, <2>1, <2>3, <3>1 DEF RunsOnItsOwnKind, IInv, TypeOK
  <2>k. KeptIsNegotiated'
    BY <2>2 DEF KeptIsNegotiated, IInv
  <2>10. OneConnectionPerKey'
    <3>1. conn[e] \in {"open", "lost"}
      BY <1>t, <2>1, <1>T, NoneAssumption DEF IInv, KeptIsNegotiated, e
    <3> QED
      BY <3>1, <1>a, <1>o, <2>2, <2>3 DEF OneConnectionPerKey, IInv, Key
  <2> QED
    BY <2>4, <2>5, <2>6, <2>7, <2>8, <2>9, <2>k, <2>10 DEF IInv
<1>r. ASSUME runsOn' = runsOn PROVE RunsOnItsOwnKind'
  <2>1. ASSUME NEW s \in Requests, NEW d \in runsOn[s] PROVE d # r /\ s # r
    BY <2>1, <1>2, <1>a, <1>T, NoneAssumption DEF IInv, RunsOnItsOwnKind, NothingBefore, TypeOK
  <2> QED
    BY <1>r, <1>o, <1>T, <2>1 DEF RunsOnItsOwnKind, IInv, TypeOK
<1>4. CASE OpenPlain(r, t)
  <2>1. /\ t.plain /\ conn' = [conn EXCEPT ![r] = "connecting"]
        /\ queued' = queued \cup {r} /\ UNCHANGED <<endpoints, listeners, runsOn>>
    BY <1>4 DEF OpenPlain
  <2>4. TypeOK'
    BY <1>T, <1>2, <1>t, <2>1 DEF TypeOK
  <2>5. WaitersWait'
    BY <1>a, <1>o, <2>1, <1>T DEF WaitersWait, IInv, TypeOK
  <2>6. QueuedWait'
    BY <1>a, <1>o, <1>t, <2>1, <1>T DEF QueuedWait, IInv, TypeOK
  <2>7. KeptForItsTarget' /\ NoneLeftWaiting'
    BY <1>a, <1>o, <2>1, <1>T DEF KeptForItsTarget, NoneLeftWaiting, IInv, TypeOK
  <2>8. NothingBefore'
    BY <1>o, <1>t, <1>T, <2>1 DEF NothingBefore, IInv, TypeOK
  <2>k. KeptIsNegotiated'
    BY <1>a, <1>T, <2>1 DEF KeptIsNegotiated, IInv, TypeOK
  <2>10. OneConnectionPerKey'
    BY <1>a, <1>c, <1>T, <1>o, <2>1 DEF OneConnectionPerKey, IInv, Key, TypeOK
  <2> QED
    BY <1>r, <2>1, <2>4, <2>5, <2>6, <2>7, <2>8, <2>k, <2>10 DEF IInv
<1>5. CASE OpenTLS(r, t)
  <2>1. /\ ~t.plain /\ endpoints[t] = None /\ conn' = [conn EXCEPT ![r] = "connecting"]
        /\ listeners' = [listeners EXCEPT ![t] = @ \cup {r}]
        /\ UNCHANGED <<endpoints, queued, runsOn>>
    BY <1>5 DEF OpenTLS, Listen, HasEndpoint, Key
  <2>4. TypeOK'
    BY <1>T, <1>2, <1>t, <2>1 DEF TypeOK
  <2>5. WaitersWait'
    <3> SUFFICES ASSUME NEW k \in Target, NEW s \in listeners'[k]
                 PROVE  target'[s] = k /\ ~k.plain /\ runsOn'[s] = {}
      BY DEF WaitersWait
    <3>1. CASE s = r
      BY <3>1, <1>a, <1>o, <1>t, <2>1, <1>T DEF TypeOK
    <3>2. CASE s # r
      <4>1. s \in listeners[k] /\ s \in Requests
        BY <3>2, <2>1, <1>T DEF TypeOK
      <4> QED
        BY <4>1, <3>2, <1>o, <2>1 DEF WaitersWait, IInv
    <3> QED
      BY <3>1, <3>2
  <2>6. QueuedWait'
    BY <1>a, <1>o, <2>1, <1>T DEF QueuedWait, IInv, TypeOK
  <2>7. KeptForItsTarget' /\ NoneLeftWaiting'
    BY <1>a, <1>o, <2>1, <1>T DEF KeptForItsTarget, NoneLeftWaiting, IInv, TypeOK
  <2>8. NothingBefore'
    BY <1>o, <1>t, <1>T, <2>1 DEF NothingBefore, IInv, TypeOK
  <2>k. KeptIsNegotiated'
    BY <1>a, <1>T, <2>1 DEF KeptIsNegotiated, IInv, TypeOK
  <2>10. OneConnectionPerKey'
    BY <1>a, <1>c, <1>T, <1>o, <2>1 DEF OneConnectionPerKey, IInv, Key, TypeOK
  <2> QED
    BY <1>r, <2>1, <2>4, <2>5, <2>6, <2>7, <2>8, <2>k, <2>10 DEF IInv
<1> QED
  BY <1>3, <1>4, <1>5 DEF Request, t

(* The first connection negotiated for a key serves all that wait for it. *)
LEMMA NegotiatedFirstStep ==
  ASSUME IInv, NEW r \in Requests, NegotiatedFirst(r)
  PROVE  IInv'
<1> DEFINE k == target[r]
           W == listeners[k]
<1>T. TypeOK
  BY DEF IInv
<1>1. k \in Target /\ ~k.plain /\ r \in W /\ r \in Requests
  BY <1>T, Unmade DEF NegotiatedFirst, Negotiating, Started, Key, TypeOK, IInv
<1>2. /\ conn' = [conn EXCEPT ![r] = "open"]
      /\ endpoints' = [endpoints EXCEPT ![k] = r]
      /\ runsOn' = [s \in Requests |-> IF s \in W THEN runsOn[s] \cup {r} ELSE runsOn[s]]
      /\ listeners' = [listeners EXCEPT ![k] = {}]
      /\ UNCHANGED <<target, queued, failure>>
  <2>1. [listeners EXCEPT ![k] = @ \ W] = [listeners EXCEPT ![k] = {}]
    BY <1>1, <1>T DEF TypeOK
  <2> QED
    BY <2>1 DEF NegotiatedFirst, StartOn, Heard, Key
<1>3. endpoints[k] = None
  BY <1>1 DEF IInv, NoneLeftWaiting
<1>4. \A s \in W : target[s] = k /\ runsOn[s] = {} /\ s \in Requests
  BY <1>1, <1>T DEF IInv, WaitersWait, TypeOK
<1> HIDE DEF k, W
<1>w. k = target[r] /\ W = listeners[k]
  BY DEF k, W
<1>5. /\ \A s \in W : runsOn'[s] = {r}
      /\ \A s \in Requests \ W : runsOn'[s] = runsOn[s]
  BY <1>2, <1>4
<1>6. TypeOK'
  BY <1>T, <1>1, <1>2 DEF TypeOK
<1>7. WaitersWait'
  <2> SUFFICES ASSUME NEW j \in Target, NEW s \in listeners'[j]
               PROVE  target'[s] = j /\ ~j.plain /\ runsOn'[s] = {}
    BY DEF WaitersWait
  <2>1. j # k /\ s \in listeners[j] /\ s \in Requests
    BY <1>1, <1>2, <1>T DEF TypeOK
  <2>2. target[s] = j /\ ~j.plain /\ runsOn[s] = {}
    BY <2>1 DEF IInv, WaitersWait
  <2>3. s \notin W
    BY <1>4, <2>1, <2>2
  <2> QED
    BY <1>2, <1>5, <2>1, <2>2, <2>3
<1>8. QueuedWait'
  <2>1. ASSUME NEW s \in queued PROVE s \notin W /\ s \in Requests
    BY <1>1, <1>4, <1>T, <2>1 DEF IInv, QueuedWait, TypeOK
  <2> QED
    BY <1>2, <1>5, <2>1 DEF IInv, QueuedWait
<1>9. KeptForItsTarget' /\ NoneLeftWaiting'
  BY <1>1, <1>2, <1>w, <1>T DEF IInv, KeptForItsTarget, NoneLeftWaiting, TypeOK
<1>k. KeptIsNegotiated'
  BY <1>1, <1>2, <1>T DEF IInv, KeptIsNegotiated, TypeOK
<1>10. NothingBefore'
  <2>1. k # None
    BY <1>1, NoneAssumption
  <2> QED
    BY <1>1, <1>2, <1>4, <1>5, <1>w, <1>T, <2>1 DEF IInv, NothingBefore, TypeOK
<1>11. RunsOnItsOwnKind'
  BY <1>2, <1>4, <1>5, <1>w DEF IInv, RunsOnItsOwnKind
<1>12. OneConnectionPerKey'
  <2>3. ASSUME NEW s \in Requests, NEW d \in runsOn'[s], ~target[s].plain
        PROVE  conn'[d] \in {"open", "lost"}
    <3>1. CASE d = r
      BY <3>1, <1>1, <1>2, <1>T DEF TypeOK
    <3>2. CASE d # r
      <4>1. d \in runsOn[s]
        BY <2>3, <3>2, <1>2, <1>5
      <4>2. d \in Requests /\ conn[d] \in {"open", "lost"}
        BY <4>1, <2>3, <1>T DEF IInv, OneConnectionPerKey, TypeOK
      <4> QED
        BY <4>2, <3>2, <1>2, <1>T DEF TypeOK
    <3> QED
      BY <3>1, <3>2
  <2> SUFFICES ASSUME NEW s \in Requests, conn'[s] = "open", ~target[s].plain
               PROVE  endpoints'[target[s]] = s
    BY <1>2, <2>3 DEF OneConnectionPerKey, Key
  <2>1. CASE s = r
    BY <2>1, <1>1, <1>2, <1>w, <1>T DEF TypeOK
  <2>2. CASE s # r
    <3>1. endpoints[target[s]] = s
      BY <2>2, <1>2, <1>T DEF IInv, OneConnectionPerKey, Key, TypeOK
    <3>2. target[s] # k
      BY <3>1, <1>3, NoneAssumption
    <3> QED
      BY <3>1, <3>2, <1>2, <1>1, <1>T DEF TypeOK
  <2> QED
    BY <2>1, <2>2
<1> QED
  BY <1>6, <1>7, <1>8, <1>9, <1>k, <1>10, <1>11, <1>12 DEF IInv

(* A connection that does not become an open one of TLS changes nothing for  *)
(* the requests.                                                             *)
LEMMA ConnStep ==
  ASSUME IInv, NEW r \in Requests, target[r] # None,
         NEW c \in {"open", "idle", "closed", "lost"},
         c = "open" => target[r].plain,
         conn[r] = "open" => c = "lost",
         c # "lost" => conn[r] = "connecting",
         conn' = [conn EXCEPT ![r] = c],
         failure' \in {"none", "negotiation", "connection"},
         UNCHANGED <<target, endpoints, listeners, queued, runsOn>>
  PROVE  IInv'
<1>1. TypeOK'
  BY DEF IInv, TypeOK
<1>2. WaitersWait' /\ QueuedWait' /\ KeptForItsTarget' /\ RunsOnItsOwnKind' /\ NoneLeftWaiting'
  BY DEF IInv, WaitersWait, QueuedWait, KeptForItsTarget, RunsOnItsOwnKind, NoneLeftWaiting
<1>3. NothingBefore' /\ OneConnectionPerKey'
  BY DEF IInv, NothingBefore, OneConnectionPerKey, TypeOK, Key
<1>4. KeptIsNegotiated'
  BY DEF IInv, KeptIsNegotiated, TypeOK
<1> QED
  BY <1>1, <1>2, <1>3, <1>4 DEF IInv

(* A queued start runs on the request's own connection. *)
LEMMA StartPlainStep ==
  ASSUME IInv, NEW r \in Requests, StartPlain(r)
  PROVE  IInv'
<1>T. TypeOK
  BY DEF IInv
<1>1. target[r] # None /\ target[r].plain /\ runsOn[r] = {}
  BY DEF StartPlain, IInv, QueuedWait
<1>2. /\ queued' = queued \ {r}
      /\ runsOn' = [s \in Requests |-> IF s \in {r} THEN runsOn[s] \cup {r} ELSE runsOn[s]]
      /\ UNCHANGED <<target, conn, endpoints, listeners, failure>>
  BY DEF StartPlain, StartOn
<1>3. runsOn'[r] = {r} /\ \A s \in Requests \ {r} : runsOn'[s] = runsOn[s]
  BY <1>1, <1>2
<1>4. TypeOK'
  BY <1>T, <1>2 DEF TypeOK
<1>5. WaitersWait'
  <2> SUFFICES ASSUME NEW j \in Target, NEW s \in listeners[j]
               PROVE  target[s] = j /\ ~j.plain /\ runsOn'[s] = {}
    BY <1>2 DEF WaitersWait
  <2>1. target[s] = j /\ ~j.plain /\ runsOn[s] = {} /\ s \in Requests
    BY <1>T DEF IInv, WaitersWait, TypeOK
  <2> QED
    BY <2>1, <1>1, <1>3
<1>6. QueuedWait'
  BY <1>2, <1>3, <1>T DEF IInv, QueuedWait, TypeOK
<1>7. KeptForItsTarget' /\ KeptIsNegotiated' /\ NoneLeftWaiting' /\ OneConnectionPerKey'
  BY <1>1, <1>2, <1>3
     DEF IInv, KeptForItsTarget, KeptIsNegotiated, NoneLeftWaiting, OneConnectionPerKey, Key
<1>8. NothingBefore' /\ RunsOnItsOwnKind'
  BY <1>1, <1>2, <1>3 DEF IInv, NothingBefore, RunsOnItsOwnKind
<1> QED
  BY <1>4, <1>5, <1>6, <1>7, <1>8 DEF IInv

-----------------------------------------------------------------------------
(* Every step keeps the invariant. *)
LEMMA NextIInv ==
  ASSUME IInv, [Next]_vars
  PROVE  IInv'
<1>1. ASSUME NEW r \in Requests, NEW c \in Clients, NEW plain \in BOOLEAN, NEW host \in Hosts,
             Request(r, c, plain, host)
      PROVE  IInv'
  BY <1>1, RequestStep
<1>2. ASSUME NEW r \in Requests, StartPlain(r)
      PROVE  IInv'
  BY <1>2, StartPlainStep
<1>m. ASSUME NEW r \in Requests, conn[r] # "none"
      PROVE  target[r] # None
  BY <1>m DEF IInv, NothingBefore
<1>f. failure \in {"none", "negotiation", "connection"}
  BY DEF IInv, TypeOK
<1>3. ASSUME NEW r \in Requests, Connected(r)
      PROVE  IInv'
  BY <1>3, <1>m, <1>f, ConnStep DEF Connected
<1>4. ASSUME NEW r \in Requests, NegotiatedFirst(r)
      PROVE  IInv'
  BY <1>4, NegotiatedFirstStep
<1>5. ASSUME NEW r \in Requests, NegotiatedSecond(r)
      PROVE  IInv'
  BY <1>5, <1>m, <1>f, ConnStep DEF NegotiatedSecond, Negotiating, SurplusClosed
<1>6. ASSUME NEW r \in Requests, NotNegotiated(r)
      PROVE  IInv'
  BY <1>6, <1>m, <1>f, ConnStep DEF NotNegotiated, Negotiating
<1>7. ASSUME NEW r \in Requests, ConnectFails(r)
      PROVE  IInv'
  BY <1>7, <1>m, ConnStep DEF ConnectFails
<1>8. ASSUME NEW r \in Requests, ConnectionEnds(r)
      PROVE  IInv'
  BY <1>8, <1>m, <1>f, ConnStep DEF ConnectionEnds
<1>9. CASE UNCHANGED vars
  BY <1>9 DEF vars, IInv, TypeOK, WaitersWait, QueuedWait, KeptForItsTarget, KeptIsNegotiated, NothingBefore,
              RunsOnItsOwnKind, OneConnectionPerKey, NoneLeftWaiting
<1> QED
  BY <1>1, <1>2, <1>3, <1>4, <1>5, <1>6, <1>7, <1>8, <1>9 DEF Next

(* The inductive invariant holds throughout. *)
LEMMA Invariance == Spec => []IInv
<1> QED
  BY InitIInv, NextIInv, PTL DEF Spec

(* The variables of the agents stay in their types. *)
THEOREM TypeCorrect == Spec => []TypeOK
<1>1. IInv => TypeOK
  BY DEF IInv
<1> QED
  BY <1>1, Invariance, PTL

(* Each request is started once, on a connection to its own target. *)
THEOREM RunsOnce == Spec => []RunsOnItsOwnKind
<1>1. IInv => RunsOnItsOwnKind
  BY DEF IInv
<1> QED
  BY <1>1, Invariance, PTL

(* Of the connections on which HTTP/2 was negotiated for a key only the kept *)
(* one is open, and requests over TLS run on none without HTTP/2.            *)
THEOREM OneOpen == Spec => []OneConnectionPerKey
<1>1. IInv => OneConnectionPerKey
  BY DEF IInv
<1> QED
  BY <1>1, Invariance, PTL

(* Nobody waits for a key that has an endpoint. *)
THEOREM WaitersServed == Spec => []NoneLeftWaiting
<1>1. IInv => NoneLeftWaiting
  BY DEF IInv
<1> QED
  BY <1>1, Invariance, PTL

(* Once kept, an endpoint stays: a second connection is negotiated only by a *)
(* request that is started already, since waiting requests have none.        *)
LEMMA KeepStep ==
  ASSUME IInv, [Next]_vars
  PROVE  \A k \in Target : endpoints[k] # None => endpoints'[k] = endpoints[k]
<1>1. ASSUME NEW r \in Requests, NegotiatedFirst(r), NEW k \in Target, endpoints[k] # None
      PROVE  endpoints'[k] = endpoints[k]
  <2>1. target[r] \in Target /\ r \in listeners[target[r]]
    BY <1>1, Unmade DEF NegotiatedFirst, Negotiating, Started, Key, TypeOK, IInv
  <2>2. k # target[r]
    BY <1>1, <2>1 DEF IInv, NoneLeftWaiting
  <2> QED
    BY <1>1, <2>1, <2>2 DEF NegotiatedFirst, Key, IInv, TypeOK
<1>2. CASE \A r \in Requests : ~NegotiatedFirst(r)
  <2>1. UNCHANGED endpoints
    <3>1. ASSUME NEW r \in Requests, NEW c \in Clients, NEW plain \in BOOLEAN, NEW host \in Hosts,
                 Request(r, c, plain, host)
          PROVE  UNCHANGED endpoints
      BY <3>1 DEF Request, UseEndpoint, OpenPlain, OpenTLS
    <3>2. ASSUME NEW r \in Requests,
                 \/ StartPlain(r) \/ Connected(r) \/ NegotiatedSecond(r)
                 \/ NotNegotiated(r) \/ ConnectFails(r) \/ ConnectionEnds(r)
          PROVE  UNCHANGED endpoints
      BY <3>2 DEF StartPlain, Connected, NegotiatedSecond, NotNegotiated, ConnectFails,
                  ConnectionEnds
    <3>3. CASE UNCHANGED vars
      BY <3>3 DEF vars
    <3> QED
      BY <1>2, <3>1, <3>2, <3>3 DEF Next
  <2> QED
    BY <2>1
<1> QED
  BY <1>1, <1>2

(* The agent keeps the first endpoint it got for a key for ever. *)
THEOREM EndpointKept == Spec => EndpointIsKept
<1>1. IInv /\ [Next]_vars
      => [\A k \in Target : endpoints[k] # None => endpoints'[k] = endpoints[k]]_vars
  BY KeepStep
<1> QED
  BY <1>1, Invariance, PTL DEF Spec, EndpointIsKept
=============================================================================
