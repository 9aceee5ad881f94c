------------------------------ MODULE Registry ------------------------------
(***************************************************************************)
(* From a proto file to the handler of a call (lib/protobuf.js, lib/app.js, *)
(* makeDispatcher of lib/dorusu.js, RpcServer of lib/server.js).            *)
(*                                                                          *)
(* A proto file gives each service a constructor of clients and a Service   *)
(* for servers, which an RpcApp adds; handlers are registered for the       *)
(* routes of its methods, before or after the server is created. A call is  *)
(* encoded by the client's method and arrives at the server later, where    *)
(* the app gives it codecs and the dispatcher a handler.                    *)
(*                                                                          *)
(* A name is its words, in camel case, with what the spelling of the proto  *)
(* file adds: a capital at its start, underscores between words.            *)
(***************************************************************************)
EXTENDS Integers, Sequences, FiniteSets

CONSTANTS
  Nodes,      \* the objects of the proto file: namespaces and services
  NodeParent, \* of each node, None for the root
  Label,      \* of each node, its name in its parent, Root for the root
  Services,   \* the nodes that are services
  Children,   \* of a service: its methods, in order
  Types,      \* message types
  Handlers,   \* functions that can be registered
  Undefined,  \* what is registered by mistake
  HasListener,\* was the server created with a requestListener, besides the app?
  Calls,      \* bound: the calls clients make
  Root, None

Name == [words : STRING, capital : BOOLEAN, underscores : BOOLEAN]
Method == [name : Name, req : Types, res : Types]

ASSUME RegistryAssumption ==
  /\ Services \subseteq Nodes
  /\ NodeParent \in [Nodes -> Nodes \cup {None}]
  /\ \A s \in Services : Children[s] \in Seq(Method)
  /\ HasListener \in BOOLEAN
  /\ Undefined \notin Handlers /\ None \notin Handlers \cup {Undefined} \cup Types

-----------------------------------------------------------------------------
(* lib/protobuf.js *)

capitalize(name) == [name EXCEPT !.capital = TRUE]
camelCase(name) == name.words

(* The labels from the root to a node; the root has none of its own. *)
fullyDotted ==
  LET path[n \in Nodes \cup {None}] ==
        IF n = None THEN <<>>
        ELSE path[NodeParent[n]] \o (IF Label[n] = Root THEN <<>> ELSE <<Label[n]>>)
  IN path

(* Faulty: as for a client. *)
ServerSideAsClient(m) == [name |-> capitalize(m.name), marshal |-> m.req, unmarshal |-> m.res]

(* What a server marshals is the response, what it unmarshals the request... *)
serverSideMethod(m) == [name |-> capitalize(m.name), marshal |-> m.res, unmarshal |-> m.req]

(* ...and a client the reverse. *)
clientSideMethod(m) == [name |-> capitalize(m.name), marshal |-> m.req, unmarshal |-> m.res]

serverSideSvcFor(s) == [i \in DOMAIN Children[s] |-> serverSideMethod(Children[s][i])]
clientSideSvcFor(s) == [i \in DOMAIN Children[s] |-> clientSideMethod(Children[s][i])]

Route(s, name) == [service |-> fullyDotted[s], method |-> name]
Routes == UNION {{Route(s, capitalize(Children[s][i].name)) : i \in DOMAIN Children[s]} : s \in Services}

ASSUME NamesAssumption == \A s, t \in Services : fullyDotted[s] = fullyDotted[t] => s = t

-----------------------------------------------------------------------------
VARIABLES
  services,         \* RpcApp._services, the services added
  requiredRoutes,   \* RpcApp._requiredRoutes
  marshallers,      \* RpcApp._marshallers, None without
  unmarshallers,    \* RpcApp._unmarshallers, None without
  handlers,         \* RpcApp._handlers: None for a route that was never registered
  broken,           \* history: services that were added, with an exception
  call,             \* of each call: what its client sent and expects, None before
  served            \* of each call: who served it, and its codecs, None before

app == <<services, requiredRoutes, marshallers, unmarshallers, handlers, broken>>
vars == <<app, call, served>>

Init ==
  /\ services = {} /\ requiredRoutes = {}
  /\ marshallers = [r \in Routes |-> None]
  /\ unmarshallers = [r \in Routes |-> None]
  /\ handlers = [r \in Routes |-> None]
  /\ broken = {}
  /\ call = [c \in Calls |-> None]
  /\ served = [c \in Calls |-> None]

(* lib/app.js, RpcApp *)

(* The methods of a service before the first whose route is there already. *)
AddedMethods(ms, s) ==
  {i \in DOMAIN ms :
     \A j \in 1..i : /\ Route(s, ms[j].name) \notin requiredRoutes
                     /\ \A k \in 1..(j - 1) : ms[k].name # ms[j].name}

(* addService: the service is kept even if one of its routes throws. *)
addService(s) ==
  LET ms == serverSideSvcFor(s)
      done == AddedMethods(ms, s)
      new(r) == {i \in done : Route(s, ms[i].name) = r}
  IN
  /\ s \notin services
  /\ services' = services \cup {s}
  /\ requiredRoutes' = requiredRoutes \cup {Route(s, ms[i].name) : i \in done}
  /\ marshallers' = [r \in Routes |->
       IF new(r) = {} THEN marshallers[r] ELSE ms[CHOOSE i \in new(r) : TRUE].marshal]
  /\ unmarshallers' = [r \in Routes |->
       IF new(r) = {} THEN unmarshallers[r] ELSE ms[CHOOSE i \in new(r) : TRUE].unmarshal]
  /\ broken' = IF done = DOMAIN ms THEN broken ELSE broken \cup {s}
  /\ UNCHANGED <<handlers, call, served>>

(* Faulty: any route may be registered. *)
RequiredAny(r) == TRUE

Required(r) == r \in requiredRoutes

(* Faulty: a handler may be registered over another. *)
HasRouteNever(r) == FALSE

(* `this._handlers[route]` is truthy. *)
hasRoute(r) == handlers[r] \in Handlers

(* register, which throws for a route that has a handler or is not required; *)
(* a handler that is undefined is kept as such.                              *)
register(r, h) ==
  /\ ~hasRoute(r) /\ Required(r)
  /\ handlers' = [handlers EXCEPT ![r] = h]
  /\ UNCHANGED <<services, requiredRoutes, marshallers, unmarshallers, broken, call, served>>

missingRoutes == {r \in requiredRoutes : ~hasRoute(r)}
isComplete == missingRoutes = {}

(* buildClient: of two methods with one name in camel case, a client has the *)
(* last.                                                                     *)
ClientMethods(s) ==
  LET ms == clientSideSvcFor(s) IN
  {i \in DOMAIN ms : \A j \in DOMAIN ms : j > i => camelCase(ms[j].name) # camelCase(ms[i].name)}

(* A client calls a method of its service; the server may not have it. *)
Call(c, s, i) ==
  LET cm == clientSideSvcFor(s)[i] IN
  /\ call[c] = None
  /\ call' = [call EXCEPT ![c] = [service |-> s, route |-> Route(s, cm.name),
                                  marshal |-> cm.marshal, unmarshal |-> cm.unmarshal]]
  /\ UNCHANGED <<app, served>>

-----------------------------------------------------------------------------
(* A request is ready at the server. *)

(* _useApp: the codecs of the request and the response. *)
Codecs(r) ==
  IF hasRoute(r) THEN [unmarshal |-> unmarshallers[r], marshal |-> marshallers[r]]
  ELSE [unmarshal |-> None, marshal |-> None]

(* Without a route the listener of the server answers, or `unimplemented`. *)
fallback == IF HasListener THEN "listener" ELSE "unimplemented"

(* The dispatcher calls what is registered under the route, if anything is;  *)
(* if that throws, or is no function, `unknown` answers.                     *)
Dispatched(r) ==
  CASE handlers[r] = None      -> {[handler |-> None, answer |-> fallback]}
    [] handlers[r] = Undefined -> {[handler |-> None, answer |-> "unknown"]}
    [] OTHER                   -> {[handler |-> handlers[r], answer |-> "handler"],
                                   [handler |-> handlers[r], answer |-> "unknown"]}

Serve(c) ==
  /\ call[c] # None /\ served[c] = None
  /\ \E d \in Dispatched(call[c].route) :
       served' = [served EXCEPT ![c] =
         [by |-> d, codecs |-> Codecs(call[c].route),
          complete |-> isComplete /\ broken = {} /\ call[c].service \in services]]
  /\ UNCHANGED <<app, call>>

Next ==
  \/ \E s \in Services : addService(s)
  \/ \E r \in Routes, h \in Handlers \cup {Undefined} : register(r, h)
  \/ \E c \in Calls, s \in Services : \E i \in ClientMethods(s) : Call(c, s, i)
  \/ \E c \in Calls : Serve(c)

Spec == Init /\ [][Next]_vars

-----------------------------------------------------------------------------
(* Properties *)

(* The parts of the app go together: a route has codecs exactly if it is     *)
(* required, and only then a handler.                                        *)
TypeOK ==
  /\ services \subseteq Services /\ broken \subseteq services
  /\ requiredRoutes \subseteq Routes
  /\ handlers \in [Routes -> Handlers \cup {Undefined, None}]
  /\ \A r \in Routes :
       /\ r \in requiredRoutes <=> marshallers[r] \in Types
       /\ r \in requiredRoutes <=> unmarshallers[r] \in Types
       /\ handlers[r] # None => r \in requiredRoutes

(* Is there a method of the service with the same route, but other types? *)
Ambiguous(r, s) ==
  \E i, j \in DOMAIN Children[s] :
    /\ Route(s, capitalize(Children[s][i].name)) = r
    /\ Route(s, capitalize(Children[s][j].name)) = r
    /\ Children[s][i] # Children[s][j]

(* A call is decoded by the server as what its client encoded, and answered  *)
(* in what its client decodes, when it reaches a handler: if the app was     *)
(* complete, and no service was added with an exception, it does. (Methods   *)
(* of one service whose names differ in the first letter's case only share   *)
(* a route, and are excepted: their service is one that throws.)             *)
ServedAsDeclared ==
  \A c \in Calls : served[c] # None =>
    /\ served[c].by.handler # None =>
         \/ served[c].codecs = [unmarshal |-> call[c].marshal, marshal |-> call[c].unmarshal]
         \/ Ambiguous(call[c].route, call[c].service)
    /\ served[c].complete => served[c].by.handler # None

(* The handler of a route is never replaced, while what was registered as a  *)
(* handler but is none may be.                                               *)
HandlerStays ==
  [][\A r \in Routes : handlers[r] \in Handlers => handlers'[r] = handlers[r]]_vars
=============================================================================
