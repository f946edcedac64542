-------------------------- MODULE RouteTableProofs --------------------------
(***************************************************************************)
(* Proofs about RouteTable for every registration list, path set and body *)
(* limit: the model is well typed, and an alias of an endpoint registered *)
(* through ruma_route is never taken over by a later registration.        *)
(***************************************************************************)
EXTENDS RouteTable, TLAPS

HandlerOrNone == Handlers \cup {NoHandler}

\* Every entry of the registration list is one of the two call shapes.
LEMMA RegType ==
  ASSUME TypeOK, NEW i \in 1..Len(Registrations)
  PROVE  Registrations[i] \in RumaReg \cup RouteReg
BY RouteTableAssumption DEF TypeOK

\* A ruma registration is one whose kind is "ruma".
LEMMA RumaKind ==
  ASSUME NEW r \in RumaReg \cup RouteReg
  PROVE  /\ r.kind = "ruma" => r \in RumaReg
         /\ r.kind # "ruma" => r \in RouteReg
BY DEF RumaReg, RouteReg

LEMMA TypeInit == Init => TypeOK
<1> SUFFICES ASSUME Init PROVE TypeOK
  OBVIOUS
<1>1. table \in [Paths -> [FilterMethods -> HandlerOrNone]]
  BY DEF Init, EmptyTable, HandlerOrNone
<1>2. next \in 1..Len(Registrations) + 1
  BY RouteTableAssumption DEF Init
<1>3. last \in [req : Request \cup {NoRequest}, resp : Response]
  BY DEF Init, Response, Kinds, HandlerOrNone
<1>4. QED
  BY <1>1, <1>2, <1>3 DEF Init, TypeOK, HandlerOrNone

\* The handler MethodRouter picks is a handler or none.
LEMMA MethodHandlerType ==
  ASSUME TypeOK, NEW m \in ReqMethods, NEW p \in Paths
  PROVE  MethodHandler(m, p) \in HandlerOrNone
<1>1. table[p] \in [FilterMethods -> HandlerOrNone]
  BY DEF TypeOK, HandlerOrNone
<1>2. "GET" \in FilterMethods
  BY DEF FilterMethods
<1>3. QED
  BY <1>1, <1>2 DEF MethodHandler, HandlerOrNone

\* Every response the middleware stack produces has the response shape.
LEMMA ServeType ==
  ASSUME TypeOK, NEW q \in Request, NEW ok \in BOOLEAN
  PROVE  Serve(q, ok) \in Response
<1> DEFINE h == MethodHandler(q.method, q.path)
<1>1. h \in HandlerOrNone
  BY MethodHandlerType DEF Request
<1>2. \A k \in Kinds, s \in {200, 400, 403, 404, 405, 413} : ErrorResponse(k, s) \in Response
  BY DEF ErrorResponse, Response, HandlerOrNone
<1>3. h # NoHandler => RunHandler(h, q.size, ok) \in Response
  BY <1>1, <1>2 DEF RunHandler, initial_sync, Kinds, Response, HandlerOrNone
<1>4. RouterResponse(q, ok) \in Response
  BY <1>2, <1>3 DEF RouterResponse, not_found, Kinds
<1>5. Cors(q, RouterResponse(q, ok)) \in Response
  BY <1>2, <1>4 DEF Cors, Kinds
<1>6. QED
  BY <1>2, <1>5 DEF Serve, unrecognized_method, Kinds

LEMMA TypeStep == TypeOK /\ [Next]_vars => TypeOK'
<1> SUFFICES ASSUME TypeOK, [Next]_vars PROVE TypeOK'
  OBVIOUS
<1>1. CASE routes_step
  <2> DEFINE r == Registrations[next]
  <2>1. next \in 1..Len(Registrations)
    BY <1>1 DEF routes_step, TypeOK
  <2>2. r \in RumaReg \cup RouteReg
    BY <2>1, RegType
  <2>3. table' \in [Paths -> [FilterMethods -> HandlerOrNone]]
    <3>1. CASE r.kind = "ruma"
      <4>1. r \in RumaReg
        BY <2>2, <3>1, RumaKind
      <4>2. QED
        BY <1>1, <3>1, <4>1 DEF routes_step, add_to_router, TypeOK, RumaReg, HandlerOrNone
    <3>2. CASE r.kind # "ruma"
      <4>1. r \in RouteReg
        BY <2>2, <3>2, RumaKind
      <4>2. QED
        BY <1>1, <3>2, <4>1 DEF routes_step, route, TypeOK, RouteReg, HandlerOrNone
    <3>3. QED
      BY <3>1, <3>2
  <2>4. state' \in {"building", "serving", "panicked"}
    BY <1>1 DEF routes_step, add_to_router, route
  <2>5. QED
    BY <1>1, <2>1, <2>3, <2>4 DEF routes_step, TypeOK, HandlerOrNone
<1>2. CASE routes_fallback
  BY <1>2 DEF routes_fallback, TypeOK
<1>3. CASE ServeRequest
  BY <1>3, ServeType DEF ServeRequest, TypeOK
<1>4. CASE Aborted \/ UNCHANGED vars
  BY <1>4 DEF Aborted, vars, TypeOK
<1>5. QED
  BY <1>1, <1>2, <1>3, <1>4 DEF Next

\* The route table, the build counter and the last response keep their
\* types, for every registration list.
THEOREM TypeCorrect == Spec => []TypeOK
BY TypeInit, TypeStep, PTL DEF Spec


-----------------------------------------------------------------------------
(* Aliases.  AliasesAgree is inductive together with TypeOK: a step that   *)
(* writes an entry another endpoint's alias holds would have overlapped,   *)
(* and an overlap panics instead of writing.                               *)

IInv == TypeOK /\ AliasesAgree

LEMMA AliasInit == Init => IInv
BY TypeInit DEF Init, IInv, AliasesAgree

\* A written entry leaves every other entry of its path alone.
LEMMA ExceptOther ==
  ASSUME NEW f \in [FilterMethods -> HandlerOrNone], NEW m \in FilterMethods,
         NEW m2 \in FilterMethods, NEW v, m2 # m
  PROVE  [f EXCEPT ![m] = v][m2] = f[m2]
OBVIOUS

LEMMA AliasStep == IInv /\ [Next]_vars => IInv'
<1> SUFFICES ASSUME TypeOK, AliasesAgree, [Next]_vars PROVE AliasesAgree'
  BY TypeStep DEF IInv
<1>1. CASE routes_step
  <2> DEFINE r == Registrations[next]
  <2>1. next \in 1..Len(Registrations) /\ next' = next + 1
        /\ Registrations' = Registrations /\ state = "building"
    BY <1>1 DEF routes_step, TypeOK
  <2>2. r \in RumaReg \cup RouteReg
    BY <2>1, RegType
  <2>3. CASE state' = "panicked"
    BY <2>3 DEF AliasesAgree
  <2>4. CASE state' # "panicked"
    <3> SUFFICES ASSUME NEW i \in 1..next, Registrations[i].kind = "ruma"
                 PROVE  /\ Registrations[i].method \in FilterMethods
                        /\ \A p \in Aliases(Registrations[i]) :
                               table'[p][Registrations[i].method] = Registrations[i].handler
      BY <2>1, <2>4 DEF AliasesAgree
    <3> DEFINE ri == Registrations[i]
    <3>1. ri \in RumaReg
      BY <2>1, RegType, RumaKind DEF TypeOK
    <3>2. CASE r.kind = "ruma"
      <4>1. r \in RumaReg
        BY <2>2, <3>2, RumaKind
      <4>2. /\ r.method \in FilterMethods
            /\ \A p \in Aliases(r) : ~Overlaps(p, {r.method})
            /\ table' = [p \in Paths |->
                   IF p \in Aliases(r) THEN [table[p] EXCEPT ![r.method] = r.handler]
                   ELSE table[p]]
        BY <1>1, <2>1, <2>4, <3>2 DEF routes_step, add_to_router
      <4>3. CASE i = next
        <5>1. ASSUME NEW p \in Aliases(r) PROVE table'[p][r.method] = r.handler
          <6>1. p \in Paths
            BY <4>1 DEF RumaReg, Aliases
          <6>2. table[p] \in [FilterMethods -> HandlerOrNone]
            BY <6>1 DEF TypeOK, HandlerOrNone
          <6>3. QED
            BY <4>2, <6>1, <6>2
        <5>2. QED
          BY <4>2, <4>3, <5>1
      <4>4. CASE i < next
        <5>1. ri.method \in FilterMethods
              /\ \A p \in Aliases(ri) : table[p][ri.method] = ri.handler
          BY <2>1, <4>4 DEF AliasesAgree
        <5>2. ASSUME NEW p \in Aliases(ri)
              PROVE  table'[p][ri.method] = ri.handler
          <6>1. p \in Paths /\ ri.handler \in Handlers
            BY <3>1 DEF RumaReg, Aliases
          <6>2. table[p][ri.method] # NoHandler
            BY <5>1, <6>1, RouteTableAssumption
          <6>3. CASE p \in Aliases(r)
            <7>1. ri.method # r.method
              BY <4>2, <6>2, <6>3 DEF Overlaps
            <7>2. table[p] \in [FilterMethods -> HandlerOrNone]
              BY <6>1 DEF TypeOK, HandlerOrNone
            <7>3. table'[p] = [table[p] EXCEPT ![r.method] = r.handler]
              BY <4>2, <6>1, <6>3
            <7>4. QED
              BY <5>1, <4>2, <7>1, <7>2, <7>3, ExceptOther
          <6>4. CASE p \notin Aliases(r)
            BY <4>2, <5>1, <6>1, <6>4
          <6>5. QED
            BY <6>3, <6>4
        <5>3. QED
          BY <5>1, <5>2
      <4>5. i = next \/ i < next
        BY <2>1
      <4>6. QED
        BY <4>3, <4>4, <4>5
    <3>3. CASE r.kind # "ruma"
      <4>1. r \in RouteReg
        BY <2>2, <3>3, RumaKind
      <4>2. /\ ~Overlaps(r.path, r.methods)
            /\ table' = [table EXCEPT ![r.path] =
                   [m \in FilterMethods |->
                       IF m \in r.methods THEN r.handler[m] ELSE table[r.path][m]]]
        <5>1. route(r)
          BY <1>1, <3>3 DEF routes_step
        <5>2. QED
          BY <5>1, <2>1, <2>4 DEF route
      <4>3. i < next
        <5>1. i # next
          BY <3>3
        <5>2. QED
          BY <5>1, <2>1
      <4>4. ri.method \in FilterMethods
            /\ \A p \in Aliases(ri) : table[p][ri.method] = ri.handler
        <5>1. i \in 1..next - 1
          BY <2>1, <4>3
        <5>2. QED
          BY <2>1, <5>1 DEF AliasesAgree
      <4>5. ASSUME NEW p \in Aliases(ri)
            PROVE  table'[p][ri.method] = ri.handler
        <5>1. p \in Paths /\ ri.handler \in Handlers /\ r.path \in Paths
          BY <3>1, <4>1 DEF RumaReg, RouteReg, Aliases
        <5>2. table[p][ri.method] # NoHandler
          BY <4>4, <5>1, RouteTableAssumption
        <5>3. CASE p = r.path
          <6>1. ri.method \notin r.methods
            BY <4>2, <5>2, <5>3 DEF Overlaps
          <6>2. QED
            BY <4>2, <4>4, <5>1, <5>3, <6>1 DEF TypeOK
        <5>4. CASE p # r.path
          BY <4>2, <4>4, <5>1, <5>4 DEF TypeOK
        <5>5. QED
          BY <5>3, <5>4
      <4>6. QED
        BY <4>4, <4>5
    <3>4. QED
      BY <3>2, <3>3
  <2>5. QED
    BY <2>3, <2>4
<1>2. CASE routes_fallback
  BY <1>2 DEF routes_fallback, AliasesAgree
<1>3. CASE ServeRequest
  BY <1>3 DEF ServeRequest, AliasesAgree
<1>4. CASE Aborted \/ UNCHANGED vars
  BY <1>4 DEF Aborted, vars, AliasesAgree
<1>5. QED
  BY <1>1, <1>2, <1>3, <1>4 DEF Next

\* For every list of registrations: as long as startup has not panicked,
\* each alias of each endpoint that ruma_route has registered routes the
\* endpoint's method to its handler.
THEOREM AliasesHold == Spec => []AliasesAgree
<1>1. IInv => AliasesAgree
  BY DEF IInv
<1>2. QED
  BY <1>1, AliasInit, AliasStep, PTL DEF Spec

-----------------------------------------------------------------------------
(* Responses.  The last response was computed by the middleware stack from *)
(* the table as it is now: a request is served only once routes() has     *)
(* finished, and the table never changes after that.                       *)

\* Nothing is served before the fallback is installed or after a panic.
ServedWhenServing == state # "serving" => last.req = NoRequest

RInv == TypeOK /\ ServedWhenServing /\ UnservedIsUnrecognized
          /\ BodyLimitExact

\* The stack never lets a bare 405 out, and a request no route serves
\* gets M_UNRECOGNIZED with a 4xx status (404 from the fallback, 405 from
\* the method router rewritten by unrecognized_method).
LEMMA ServeUnrecognized ==
  ASSUME TypeOK, NEW q \in Request, NEW ok \in BOOLEAN
  PROVE  /\ Serve(q, ok).status = 405 => Serve(q, ok).kind = "Unrecognized"
         /\ ~q.preflight /\ MethodHandler(q.method, q.path) = NoHandler
               => /\ Serve(q, ok).kind = "Unrecognized"
                  /\ Serve(q, ok).status \in 400..499
<1>1. Serve(q, ok).status = 405 => Serve(q, ok).kind = "Unrecognized"
  BY DEF Serve, unrecognized_method, ErrorResponse
<1>2. ASSUME ~q.preflight, MethodHandler(q.method, q.path) = NoHandler
      PROVE  /\ Serve(q, ok).kind = "Unrecognized"
             /\ Serve(q, ok).status \in 400..499
  <2>1. Cors(q, RouterResponse(q, ok)) = RouterResponse(q, ok)
    BY <1>2 DEF Cors
  <2>2. CASE ~Routed(q.path)
    BY <1>2, <2>1, <2>2 DEF Serve, RouterResponse, not_found, ErrorResponse,
                            unrecognized_method
  <2>3. CASE Routed(q.path)
    BY <1>2, <2>1, <2>3 DEF Serve, RouterResponse, ErrorResponse,
                            unrecognized_method
  <2>4. QED
    BY <2>2, <2>3
<1>3. QED
  BY <1>1, <1>2

\* A response names a Ruma handler only if the body was within the limit:
\* initial_sync, a rejected body, a 405, the fallback and a preflight
\* answer name no handler.
LEMMA ServeWithinLimit ==
  ASSUME TypeOK, NEW q \in Request, NEW ok \in BOOLEAN,
         Serve(q, ok).handler \in Handlers \ ServerKeys
  PROVE  q.size <= MaxRequestSize
<1> DEFINE h == MethodHandler(q.method, q.path)
<1>1. NoHandler \notin Handlers
  BY RouteTableAssumption
<1>2. ~q.preflight /\ Routed(q.path) /\ h # NoHandler
  BY <1>1 DEF Serve, Cors, RouterResponse, not_found, ErrorResponse,
              unrecognized_method
<1>3. Serve(q, ok) = RunHandler(h, q.size, ok)
  <2>1. RunHandler(h, q.size, ok).status # 405
    BY DEF RunHandler, initial_sync, ErrorResponse
  <2>2. QED
    BY <1>2, <2>1 DEF Serve, Cors, RouterResponse, unrecognized_method
<1>4. q.size \in Nat /\ MaxRequestSize \in Nat
  BY RouteTableAssumption DEF Request
<1>5. QED
  BY <1>1, <1>3, <1>4 DEF RunHandler, initial_sync, ErrorResponse

\* A request within the limit, routed to a handler that extracts Ruma<Req>,
\* reaches that handler: the body limit lets exactly max_request_size
\* bytes through, and neither CORS nor unrecognized_method intervene.
LEMMA ServeReachesHandler ==
  ASSUME TypeOK, NEW q \in Request, NEW ok \in BOOLEAN, ~q.preflight,
         MethodHandler(q.method, q.path) \in Handlers \ (ServerKeys \cup {InitialSync}),
         q.size <= MaxRequestSize
  PROVE  Serve(q, ok).handler = MethodHandler(q.method, q.path)
<1> DEFINE h == MethodHandler(q.method, q.path)
<1>1. h # NoHandler
  BY RouteTableAssumption
<1>2. Routed(q.path)
  BY <1>1 DEF MethodHandler, Routed, FilterMethods
<1>3. RouterResponse(q, ok) = RunHandler(h, q.size, ok)
  BY <1>1, <1>2 DEF RouterResponse
<1>4. RunHandler(h, q.size, ok) = [status |-> IF ok THEN 200 ELSE 400,
                                   kind |-> IF ok THEN "none" ELSE "Business",
                                   handler |-> h]
  <2>1. q.size \in Nat /\ MaxRequestSize \in Nat
    BY RouteTableAssumption DEF Request
  <2>2. QED
    BY <2>1 DEF RunHandler
<1>5. QED
  BY <1>3, <1>4 DEF Serve, Cors, unrecognized_method

LEMMA RInvInit == Init => RInv
BY TypeInit, RouteTableAssumption DEF Init, RInv, ServedWhenServing, UnservedIsUnrecognized,
                BodyLimitExact, NoRequest, Request

LEMMA RInvStep == RInv /\ [Next]_vars => RInv'
<1> SUFFICES ASSUME RInv, [Next]_vars PROVE RInv'
  OBVIOUS
<1>1. TypeOK'
  BY TypeStep DEF RInv
<1>2. CASE routes_step
  \* The table changes, but nothing has been served yet.
  <2>1. last' = last /\ last.req = NoRequest /\ state' # "serving"
    BY <1>2 DEF routes_step, add_to_router, route, RInv, ServedWhenServing
  <2>2. QED
    BY <1>1, <2>1 DEF RInv, ServedWhenServing, UnservedIsUnrecognized,
                      BodyLimitExact
<1>3. CASE routes_fallback
  BY <1>1, <1>3 DEF routes_fallback, RInv, ServedWhenServing,
                    UnservedIsUnrecognized, BodyLimitExact, MethodHandler,
                    Routed
<1>4. CASE ServeRequest
  <2>1. PICK q \in Request, ok \in BOOLEAN :
               last' = [req |-> q, resp |-> Serve(q, ok)]
    BY <1>4 DEF ServeRequest
  <2>2. UNCHANGED <<table, state>> /\ state = "serving"
    BY <1>4 DEF ServeRequest
  <2>3. MethodHandler(q.method, q.path)' = MethodHandler(q.method, q.path)
    BY <2>2 DEF MethodHandler
  <2>4. UnservedIsUnrecognized'
    BY <2>1, <2>3, ServeUnrecognized DEF RInv, UnservedIsUnrecognized
  <2>5. BodyLimitExact'
    BY <2>1, <2>3, ServeWithinLimit, ServeReachesHandler DEF RInv, BodyLimitExact
  <2>6. QED
    BY <1>1, <2>2, <2>4, <2>5 DEF RInv, ServedWhenServing
<1>5. CASE Aborted \/ UNCHANGED vars
  BY <1>1, <1>5 DEF Aborted, vars, RInv, ServedWhenServing,
                    UnservedIsUnrecognized, BodyLimitExact, MethodHandler,
                    Routed
<1>6. QED
  BY <1>2, <1>3, <1>4, <1>5 DEF Next

\* For every table routes() can build, a request no route serves gets the
\* M_UNRECOGNIZED envelope with a 4xx status and no bare 405 leaves the
\* middleware stack (fallback, MethodRouter, CORS and unrecognized_method).
THEOREM UnservedHolds == Spec => []UnservedIsUnrecognized
BY RInvInit, RInvStep, PTL DEF Spec, RInv

\* For every body limit, no Ruma handler runs on a body over
\* max_request_size, and one of at most max_request_size bytes (the limit
\* itself included) reaches the handler its route names.
THEOREM BodyLimitHolds == Spec => []BodyLimitExact
BY RInvInit, RInvStep, PTL DEF Spec, RInv

=============================================================================
