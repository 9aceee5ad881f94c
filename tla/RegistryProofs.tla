--------------------------- MODULE RegistryProofs ---------------------------
(* The properties of Registry, for every proto file, every set of handlers   *)
(* and any order of additions, registrations and calls.                      *)
EXTENDS Registry, TLAPS

RouteOf(s, i) == Route(s, capitalize(Children[s][i].name))

(* A required route has the codecs of a method it is the route of. *)
RoutesOK ==
  \A r \in requiredRoutes :
    \E s \in Services : \E i \in DOMAIN Children[s] :
      /\ r = RouteOf(s, i)
      /\ marshallers[r] = Children[s][i].res
      /\ unmarshallers[r] = Children[s][i].req

(* A service that was added without an exception has all its routes. *)
AddedOK ==
  \A s \in services \ broken : \A i \in DOMAIN Children[s] : RouteOf(s, i) \in requiredRoutes

(* A call was made by a method of its service. *)
CallOK ==
  \A c \in Calls : call[c] # None =>
    /\ call[c].service \in Services
    /\ \E i \in DOMAIN Children[call[c].service] :
         /\ call[c].route = RouteOf(call[c].service, i)
         /\ call[c].marshal = Children[call[c].service][i].req
         /\ call[c].unmarshal = Children[call[c].service][i].res

FunctionsOK ==
  /\ DOMAIN marshallers = Routes /\ DOMAIN unmarshallers = Routes
  /\ call \in [Calls -> {call[c] : c \in Calls}]
  /\ served \in [Calls -> {served[c] : c \in Calls}]

ServedOK == \A c \in Calls : served[c] # None => call[c] # None

IInv == TypeOK /\ FunctionsOK /\ RoutesOK /\ AddedOK /\ CallOK /\ ServedOK /\ ServedAsDeclared

-----------------------------------------------------------------------------
LEMMA ChildType ==
  ASSUME NEW s \in Services, NEW i \in DOMAIN Children[s]
  PROVE  Children[s][i] \in Method /\ Children[s][i].req \in Types /\ Children[s][i].res \in Types
<1>1. Children[s] \in Seq(Method)
  BY RegistryAssumption
<1>2. Children[s][i] \in Method
  BY <1>1
<1>3. QED
  BY <1>2 DEF Method

LEMMA RouteType ==
  ASSUME NEW s \in Services, NEW i \in DOMAIN Children[s]
  PROVE  RouteOf(s, i) \in Routes
BY DEF RouteOf, Routes

(* What addService makes of a service's methods. *)
LEMMA ServerSide ==
  ASSUME NEW s \in Services
  PROVE  /\ DOMAIN serverSideSvcFor(s) = DOMAIN Children[s]
         /\ \A i \in DOMAIN Children[s] :
              /\ Route(s, serverSideSvcFor(s)[i].name) = RouteOf(s, i)
              /\ serverSideSvcFor(s)[i].marshal = Children[s][i].res
              /\ serverSideSvcFor(s)[i].unmarshal = Children[s][i].req
BY DEF serverSideSvcFor, serverSideMethod, RouteOf

LEMMA InitInv == Init => IInv
<1> SUFFICES ASSUME Init PROVE IInv
  OBVIOUS
<1>1. TypeOK
  BY RegistryAssumption DEF Init, TypeOK
<1>2. FunctionsOK /\ RoutesOK /\ AddedOK /\ CallOK /\ ServedOK /\ ServedAsDeclared
  BY DEF Init, FunctionsOK, RoutesOK, AddedOK, CallOK, ServedOK, ServedAsDeclared
<1>3. QED
  BY <1>1, <1>2 DEF IInv

-----------------------------------------------------------------------------
LEMMA AddInv ==
  ASSUME IInv, NEW s \in Services, addService(s)
  PROVE  IInv'
<1> DEFINE ms == serverSideSvcFor(s)
           done == AddedMethods(ms, s)
           new(r) == {i \in done : Route(s, ms[i].name) = r}
<1>1. /\ services' = services \cup {s}
      /\ requiredRoutes' = requiredRoutes \cup {Route(s, ms[i].name) : i \in done}
      /\ marshallers' = [r \in Routes |->
           IF new(r) = {} THEN marshallers[r] ELSE ms[CHOOSE i \in new(r) : TRUE].marshal]
      /\ unmarshallers' = [r \in Routes |->
           IF new(r) = {} THEN unmarshallers[r] ELSE ms[CHOOSE i \in new(r) : TRUE].unmarshal]
      /\ broken' = IF done = DOMAIN ms THEN broken ELSE broken \cup {s}
      /\ handlers' = handlers /\ call' = call /\ served' = served
  BY DEF addService
<1>2. done \subseteq DOMAIN Children[s]
  BY ServerSide DEF AddedMethods
<1>3. \A i \in done : RouteOf(s, i) = Route(s, ms[i].name) /\ RouteOf(s, i) \in Routes
  BY <1>2, ServerSide, RouteType
<1>4. requiredRoutes' = requiredRoutes \cup {RouteOf(s, i) : i \in done}
  BY <1>1, <1>3
<1>5. ASSUME NEW r \in Routes
      PROVE  \/ /\ new(r) = {} /\ marshallers'[r] = marshallers[r] /\ unmarshallers'[r] = unmarshallers[r]
                /\ r \in requiredRoutes' <=> r \in requiredRoutes
             \/ /\ r \in requiredRoutes'
                /\ \E i \in DOMAIN Children[s] :
                     /\ r = RouteOf(s, i)
                     /\ marshallers'[r] = Children[s][i].res
                     /\ unmarshallers'[r] = Children[s][i].req
  <2>1. CASE new(r) = {}
    BY <1>1, <1>3, <1>4, <2>1
  <2>2. CASE new(r) # {}
    <3> DEFINE k == CHOOSE i \in new(r) : TRUE
    <3>1. k \in new(r)
      BY <2>2
    <3>2. k \in DOMAIN Children[s] /\ r = RouteOf(s, k) /\ k \in done
      BY <1>2, <1>3, <3>1
    <3>3. marshallers'[r] = ms[k].marshal /\ unmarshallers'[r] = ms[k].unmarshal
      BY <1>1, <2>2
    <3> HIDE DEF k
    <3>4. marshallers'[r] = Children[s][k].res /\ unmarshallers'[r] = Children[s][k].req
      BY <3>2, <3>3, ServerSide
    <3>5. QED
      BY <1>4, <3>2, <3>4
  <2>3. QED
    BY <2>1, <2>2
<1>6. TypeOK'
  <2>1. services' \subseteq Services /\ broken' \subseteq services'
    BY <1>1 DEF IInv, TypeOK
  <2>2. requiredRoutes' \subseteq Routes
    BY <1>3, <1>4 DEF IInv, TypeOK
  <2>3. ASSUME NEW r \in Routes
        PROVE  /\ r \in requiredRoutes' <=> marshallers'[r] \in Types
               /\ r \in requiredRoutes' <=> unmarshallers'[r] \in Types
               /\ handlers'[r] # None => r \in requiredRoutes'
    BY <1>1, <1>4, <1>5, ChildType DEF IInv, TypeOK
  <2>4. QED
    BY <1>1, <2>1, <2>2, <2>3 DEF IInv, TypeOK
<1>7. FunctionsOK' /\ CallOK' /\ ServedOK' /\ ServedAsDeclared'
  <2>1. DOMAIN marshallers' = Routes /\ DOMAIN unmarshallers' = Routes
    BY <1>1
  <2>2. QED
    BY <1>1, <2>1 DEF IInv, FunctionsOK, CallOK, ServedOK, ServedAsDeclared
<1>8. RoutesOK'
  <2> SUFFICES ASSUME NEW r \in requiredRoutes'
               PROVE  \E t \in Services : \E i \in DOMAIN Children[t] :
                        /\ r = RouteOf(t, i)
                        /\ marshallers'[r] = Children[t][i].res
                        /\ unmarshallers'[r] = Children[t][i].req
    BY DEF RoutesOK
  <2>1. r \in Routes
    BY <1>3, <1>4 DEF IInv, TypeOK
  <2>2. QED
    BY <1>5, <2>1 DEF IInv, RoutesOK
<1>9. AddedOK'
  <2> SUFFICES ASSUME NEW t \in services' \ broken', NEW i \in DOMAIN Children[t]
               PROVE  RouteOf(t, i) \in requiredRoutes'
    BY DEF AddedOK
  <2>1. CASE t \in services
    <3>1. t \notin broken
      BY <1>1
    <3>2. QED
      BY <1>4, <2>1, <3>1 DEF IInv, AddedOK
  <2>2. CASE t = s
    <3>1. done = DOMAIN ms
      BY <1>1, <2>2
    <3>2. i \in done
      BY <2>2, <3>1, ServerSide
    <3>3. QED
      BY <1>4, <2>2, <3>2
  <2>3. QED
    BY <1>1, <2>1, <2>2
<1>10. QED
  BY <1>6, <1>7, <1>8, <1>9 DEF IInv

LEMMA RegisterInv ==
  ASSUME IInv, NEW r \in Routes, NEW h \in Handlers \cup {Undefined}, register(r, h)
  PROVE  IInv'
<1>1. /\ r \in requiredRoutes
      /\ handlers' = [handlers EXCEPT ![r] = h]
      /\ UNCHANGED <<services, requiredRoutes, marshallers, unmarshallers, broken, call, served>>
  BY DEF register, Required
<1>2. TypeOK'
  BY <1>1 DEF IInv, TypeOK
<1>3. QED
  BY <1>1, <1>2 DEF IInv, FunctionsOK, RoutesOK, AddedOK, CallOK, ServedOK, ServedAsDeclared

LEMMA CallInv ==
  ASSUME IInv, NEW c \in Calls, NEW s \in Services, NEW i \in ClientMethods(s), Call(c, s, i)
  PROVE  IInv'
<1> DEFINE new == [service |-> s, route |-> Route(s, clientSideSvcFor(s)[i].name),
                   marshal |-> clientSideSvcFor(s)[i].marshal,
                   unmarshal |-> clientSideSvcFor(s)[i].unmarshal]
<1>1. /\ call[c] = None /\ call' = [call EXCEPT ![c] = new]
      /\ UNCHANGED <<services, requiredRoutes, marshallers, unmarshallers, handlers, broken, served>>
  BY DEF Call, app
<1>2. i \in DOMAIN Children[s]
  BY DEF ClientMethods, clientSideSvcFor
<1>3. /\ new.service = s /\ new.route = RouteOf(s, i)
      /\ new.marshal = Children[s][i].req /\ new.unmarshal = Children[s][i].res
  BY <1>2 DEF clientSideSvcFor, clientSideMethod, RouteOf
<1> HIDE DEF new
<1>4. call'[c] = new /\ \A d \in Calls : d # c => call'[d] = call[d]
  BY <1>1 DEF IInv, FunctionsOK
<1>5. TypeOK' /\ RoutesOK' /\ AddedOK'
  BY <1>1 DEF IInv, TypeOK, RoutesOK, AddedOK
<1>6. FunctionsOK'
  <2>1. DOMAIN call' = Calls
    BY <1>1 DEF IInv, FunctionsOK
  <2>2. call' = [d \in Calls |-> call'[d]]
    BY <1>1, <2>1 DEF IInv, FunctionsOK
  <2>3. call' \in [Calls -> {call'[d] : d \in Calls}]
    BY <2>2
  <2>4. QED
    BY <1>1, <2>3 DEF IInv, FunctionsOK
<1>7. CallOK'
  BY <1>2, <1>3, <1>4 DEF IInv, CallOK
<1>8. \A d \in Calls : served[d] # None => d # c
  BY <1>1 DEF IInv, ServedOK
<1>9. ServedOK' /\ ServedAsDeclared'
  BY <1>1, <1>4, <1>8 DEF IInv, ServedOK, ServedAsDeclared
<1>10. QED
  BY <1>5, <1>6, <1>7, <1>9 DEF IInv

(* A call is served as its client and the app declare it. *)
LEMMA ServeStep ==
  ASSUME IInv, NEW c \in Calls, call[c] # None, NEW d \in Dispatched(call[c].route)
  PROVE  /\ d.handler # None =>
              \/ Codecs(call[c].route) =
                   [unmarshal |-> call[c].marshal, marshal |-> call[c].unmarshal]
              \/ Ambiguous(call[c].route, call[c].service)
         /\ isComplete /\ broken = {} /\ call[c].service \in services => d.handler # None
<1> DEFINE r == call[c].route
           s == call[c].service
<1>1. PICK i \in DOMAIN Children[s] :
        /\ r = RouteOf(s, i)
        /\ call[c].marshal = Children[s][i].req
        /\ call[c].unmarshal = Children[s][i].res
  BY DEF IInv, CallOK
<1>2. s \in Services
  BY DEF IInv, CallOK
<1>3. r \in Routes
  BY <1>1, <1>2, RouteType
<1>4. handlers[r] \in Handlers \cup {Undefined, None}
  BY <1>3 DEF IInv, TypeOK
<1>5. handlers[r] \in Handlers <=> d.handler # None
  BY <1>4, RegistryAssumption DEF Dispatched
<1> HIDE DEF r, s
<1>6. ASSUME handlers[r] \in Handlers
      PROVE  \/ Codecs(r) = [unmarshal |-> call[c].marshal, marshal |-> call[c].unmarshal]
             \/ Ambiguous(r, s)
  <2>1. r \in requiredRoutes
    BY <1>3, <1>6, RegistryAssumption DEF IInv, TypeOK
  <2>2. PICK t \in Services : \E k \in DOMAIN Children[t] :
          /\ r = RouteOf(t, k)
          /\ marshallers[r] = Children[t][k].res
          /\ unmarshallers[r] = Children[t][k].req
    BY <2>1 DEF IInv, RoutesOK
  <2>3. t = s
    <3>1. PICK k \in DOMAIN Children[t] : r = RouteOf(t, k)
      BY <2>2
    <3>2. RouteOf(s, i) = RouteOf(t, k)
      BY <1>1, <3>1
    <3>3. fullyDotted[s] = fullyDotted[t]
      BY <3>2 DEF RouteOf, Route
    <3>4. QED
      BY <1>2, <3>3, NamesAssumption
  <2> PICK j \in DOMAIN Children[s] :
          /\ r = RouteOf(s, j)
          /\ marshallers[r] = Children[s][j].res
          /\ unmarshallers[r] = Children[s][j].req
    BY <2>2, <2>3
  <2>4. Codecs(r) = [unmarshal |-> Children[s][j].req, marshal |-> Children[s][j].res]
    BY <1>6 DEF Codecs, hasRoute
  <2>5. CASE Children[s][i] = Children[s][j]
    BY <1>1, <2>4, <2>5
  <2>6. CASE Children[s][i] # Children[s][j]
    BY <1>1, <2>6 DEF Ambiguous, RouteOf
  <2>7. QED
    BY <2>5, <2>6
<1>7. ASSUME isComplete, broken = {}, s \in services
      PROVE  handlers[r] \in Handlers
  <2>1. r \in requiredRoutes
    BY <1>1, <1>7 DEF IInv, AddedOK
  <2>2. QED
    BY <1>7, <2>1 DEF isComplete, missingRoutes, hasRoute
<1>8. QED
  BY <1>5, <1>6, <1>7 DEF r, s

LEMMA ServeInv ==
  ASSUME IInv, NEW c \in Calls, Serve(c)
  PROVE  IInv'
<1>1. PICK d \in Dispatched(call[c].route) :
        served' = [served EXCEPT ![c] =
          [by |-> d, codecs |-> Codecs(call[c].route),
           complete |-> isComplete /\ broken = {} /\ call[c].service \in services]]
  BY DEF Serve
<1> DEFINE new == [by |-> d, codecs |-> Codecs(call[c].route),
                   complete |-> isComplete /\ broken = {} /\ call[c].service \in services]
<1>2. /\ call[c] # None
      /\ UNCHANGED <<services, requiredRoutes, marshallers, unmarshallers, handlers, broken, call>>
  BY DEF Serve, app
<1>3. /\ new.by = d /\ new.codecs = Codecs(call[c].route)
      /\ new.complete <=> isComplete /\ broken = {} /\ call[c].service \in services
  OBVIOUS
<1>4. served' = [served EXCEPT ![c] = new]
  BY <1>1
<1> HIDE DEF new
<1>5. served'[c] = new /\ \A e \in Calls : e # c => served'[e] = served[e]
  BY <1>4 DEF IInv, FunctionsOK
<1>6. TypeOK' /\ RoutesOK' /\ AddedOK' /\ CallOK'
  BY <1>2 DEF IInv, TypeOK, RoutesOK, AddedOK, CallOK
<1>7. FunctionsOK'
  <2>1. served' = [e \in Calls |-> served'[e]]
    BY <1>4 DEF IInv, FunctionsOK
  <2>2. served' \in [Calls -> {served'[e] : e \in Calls}]
    BY <2>1
  <2>3. QED
    BY <1>2, <2>2 DEF IInv, FunctionsOK
<1>8. ServedOK'
  BY <1>2, <1>5 DEF IInv, ServedOK
<1>9. ServedAsDeclared'
  <2> SUFFICES ASSUME NEW e \in Calls, served'[e] # None
               PROVE  /\ served'[e].by.handler # None =>
                           \/ served'[e].codecs = [unmarshal |-> call[e].marshal, marshal |-> call[e].unmarshal]
                           \/ Ambiguous(call[e].route, call[e].service)
                      /\ served'[e].complete => served'[e].by.handler # None
    BY <1>2 DEF ServedAsDeclared
  <2>1. CASE e = c
    BY <1>2, <1>3, <1>5, <2>1, ServeStep
  <2>2. CASE e # c
    BY <1>5, <2>2 DEF IInv, ServedAsDeclared
  <2>3. QED
    BY <2>1, <2>2
<1>10. QED
  BY <1>6, <1>7, <1>8, <1>9 DEF IInv

LEMMA StepInv ==
  ASSUME IInv, [Next]_vars
  PROVE  IInv'
<1>1. ASSUME UNCHANGED vars PROVE IInv'
  BY <1>1 DEF vars, app, IInv, TypeOK, FunctionsOK, RoutesOK, AddedOK, CallOK, ServedOK, ServedAsDeclared
<1>2. QED
  BY <1>1, AddInv, RegisterInv, CallInv, ServeInv DEF Next

THEOREM Inductive == Spec => []IInv
<1>1. Init => IInv
  BY InitInv
<1>2. IInv /\ [Next]_vars => IInv'
  BY StepInv
<1>3. QED
  BY <1>1, <1>2, PTL DEF Spec

(* A route has codecs exactly if it is required, and a handler only then. *)
THEOREM TypeCorrect == Spec => []TypeOK
<1>1. IInv => TypeOK
  BY DEF IInv
<1>2. QED
  BY <1>1, Inductive, PTL

(* A handler gets a call in the types its client has for it, and a complete  *)
(* app serves every call with a handler.                                     *)
THEOREM Served == Spec => []ServedAsDeclared
<1>1. IInv => ServedAsDeclared
  BY DEF IInv
<1>2. QED
  BY <1>1, Inductive, PTL

(* The handler of a route is never replaced. *)
THEOREM HandlerKept == Spec => HandlerStays
<1> DEFINE Stays == \A r \in Routes : handlers[r] \in Handlers => handlers'[r] = handlers[r]
<1>1. ASSUME TypeOK, Next PROVE Stays
  <2>1. ASSUME NEW q \in Routes, NEW h \in Handlers \cup {Undefined}, register(q, h) PROVE Stays
    BY <1>1, <2>1 DEF TypeOK, register, hasRoute
  <2>2. CASE handlers' = handlers
    BY <2>2
  <2>3. QED
    BY <1>1, <2>1, <2>2 DEF Next, addService, Call, Serve, app
<1>2. TypeOK /\ [Next]_vars => [Stays]_vars
  BY <1>1
<1>3. QED
  BY <1>2, TypeCorrect, PTL DEF Spec, HandlerStays
=============================================================================
