----------------------------- MODULE RouteTable -----------------------------
(***************************************************************************)
(* Route table construction and request dispatch of src/src/main.rs.      *)
(*                                                                         *)
(* routes() folds a fixed list of registrations into an axum Router:       *)
(* ruma_route(handler) expands one endpoint's metadata into one route per  *)
(* path alias (RumaHandler::add_to_router), a few irregular routes are     *)
(* added by hand with .route(path, get(..).put(..)), and the builder ends  *)
(* with .fallback(not_found).  run_server then wraps every route in the    *)
(* middleware stack, of which three layers decide a response's status:    *)
(* unrecognized_method (outermost of the three), CORS, and the request     *)
(* body limit read by the Ruma extractor.                                  *)
(*                                                                         *)
(* Paths and handlers are model values; a request is a method, a path, a   *)
(* body size and whether it is a CORS preflight.  The behaviour of axum's  *)
(* Router::route (merging method routers, panicking on an overlap), of     *)
(* MethodRouter dispatch, of tower-http's CorsLayer and of conduit's error *)
(* to status mapping is modelled from their documentation.                 *)
(***************************************************************************)
EXTENDS Naturals, Sequences

CONSTANTS
    Paths,          \* path templates that requests may name
    Handlers,       \* business handlers (model values)
    InitialSync,    \* the initial_sync handler of main.rs
    ServerKeys,     \* handlers routed with get(..) that take no Ruma<Req>
    NoHandler,      \* "no handler for this method on this path"
    RouteLists,     \* candidate lists of the calls of routes(), in source order
    ReqMethods,     \* methods requests are drawn from
    MaxRequestSize  \* config.max_request_size

\* method_to_filter: the verbs it maps to a MethodFilter; any other
\* Method value makes it panic.
FilterMethods == {"DELETE", "GET", "HEAD", "OPTIONS", "PATCH", "POST", "PUT", "TRACE"}

HttpMethods == FilterMethods \cup {"CONNECT"}

\* A call of routes(): ruma_route(handler) for an endpoint with one method
\* and a sequence of path aliases, or .route(path, method router) where the
\* method router maps some verbs to handlers.
RumaReg == [kind : {"ruma"}, method : HttpMethods, paths : Seq(Paths),
            handler : Handlers]
RouteReg == [kind : {"route"}, path : Paths,
             methods : SUBSET FilterMethods, handler : [FilterMethods -> Handlers]]

ASSUME RouteTableAssumption ==
    /\ NoHandler \notin Handlers
    /\ InitialSync \in Handlers
    /\ ServerKeys \subseteq Handlers
    /\ RouteLists \subseteq Seq(RumaReg \cup RouteReg)
    /\ RouteLists # {}
    /\ ReqMethods \subseteq HttpMethods
    /\ MaxRequestSize \in Nat

VARIABLES
    table,   \* table[p][m]: the handler for method m on path p, or NoHandler
    next,    \* index of the next call of routes() to run
    state,   \* "building", "serving", or "panicked" (startup aborted)
    last,    \* the last request served and its response
    Registrations  \* the calls routes() makes in this build (never changes)

vars == <<table, next, state, last, Registrations>>

\* Responses: a status code, the error kind of the Matrix error envelope
\* ("none" for a bare response) and the business handler run, if any.
Kinds == {"none", "Unrecognized", "GuestAccessForbidden", "TooLarge", "Business"}
Response == [status : {200, 400, 403, 404, 405, 413}, kind : Kinds,
             handler : Handlers \cup {NoHandler}]
Request == [method : ReqMethods, path : Paths, size : 0..MaxRequestSize + 1,
            preflight : BOOLEAN]

NoRequest == [method |-> "GET", path |-> NoHandler, size |-> 0, preflight |-> FALSE]

EmptyTable == [p \in Paths |-> [m \in FilterMethods |-> NoHandler]]

\* A path the router has a route for (axum routes on the path first).
Routed(p) == \E m \in FilterMethods : table[p][m] # NoHandler

Aliases(r) == {r.paths[i] : i \in DOMAIN r.paths}

TypeOK ==
    /\ Registrations \in RouteLists
    /\ table \in [Paths -> [FilterMethods -> Handlers \cup {NoHandler}]]
    /\ next \in 1..Len(Registrations) + 1
    /\ state \in {"building", "serving", "panicked"}
    /\ last \in [req : Request \cup {NoRequest}, resp : Response]

Init ==
    /\ Registrations \in RouteLists
    /\ table = EmptyTable
    /\ next = 1
    /\ state = "building"
    /\ last = [req |-> NoRequest, resp |-> [status |-> 200, kind |-> "none",
                                           handler |-> NoHandler]]

-----------------------------------------------------------------------------
(* Building the router.                                                    *)

\* Router::route(path, method_router): a new path is inserted; on a known
\* path the method routers are merged, and merging two routers that both
\* handle a verb panics ("Overlapping method route").
Overlaps(p, ms) == \E m \in ms : table[p][m] # NoHandler

\* Mutant of add_to_router: only the first alias of the endpoint is routed.
add_to_router_first_alias(r) ==
    IF \/ r.method \notin FilterMethods
       \/ Len(r.paths) > 0 /\ Overlaps(r.paths[1], {r.method})
    THEN state' = "panicked" /\ UNCHANGED table
    ELSE /\ table' = [p \in Paths |->
                IF Len(r.paths) > 0 /\ p = r.paths[1]
                THEN [table[p] EXCEPT ![r.method] = r.handler] ELSE table[p]]
         /\ UNCHANGED state

\* RumaHandler::add_to_router: method_to_filter(meta.method), then one
\* router.route(path, on(filter, handler)) per alias of meta.history.
add_to_router(r) ==
    IF \/ r.method \notin FilterMethods
       \/ \E p \in Aliases(r) : Overlaps(p, {r.method})
    THEN state' = "panicked" /\ UNCHANGED table
    ELSE /\ table' = [p \in Paths |->
                IF p \in Aliases(r) THEN [table[p] EXCEPT ![r.method] = r.handler]
                ELSE table[p]]
         /\ UNCHANGED state

\* Router::route(path, get(h1).put(h2)...) for the hand-written routes.
route(r) ==
    IF Overlaps(r.path, r.methods)
    THEN state' = "panicked" /\ UNCHANGED table
    ELSE /\ table' = [table EXCEPT ![r.path] =
                [m \in FilterMethods |->
                    IF m \in r.methods THEN r.handler[m] ELSE table[r.path][m]]]
         /\ UNCHANGED state

\* One call of the routes() chain: .ruma_route(h) goes through
\* RouterExt::ruma_route to add_to_router, .route(..) to Router::route.
routes_step ==
    /\ state = "building"
    /\ next <= Len(Registrations)
    /\ LET r == Registrations[next] IN
         IF r.kind = "ruma" THEN add_to_router(r) ELSE route(r)
    /\ next' = next + 1
    /\ UNCHANGED <<last, Registrations>>

\* .fallback(not_found) ends routes(); run_server layers the middlewares
\* and serves the app.
routes_fallback ==
    /\ state = "building"
    /\ next = Len(Registrations) + 1
    /\ state' = "serving"
    /\ UNCHANGED <<table, next, last, Registrations>>


-----------------------------------------------------------------------------
(* Serving a request.                                                      *)

\* The handler axum's MethodRouter picks for a request: a HEAD request
\* falls back to the GET handler; NoHandler means 405 Method Not Allowed.
MethodHandler(m, p) ==
    IF m \in FilterMethods /\ table[p][m] # NoHandler THEN table[p][m]
    ELSE IF m = "HEAD" THEN table[p]["GET"]
    ELSE NoHandler

\* Error(kind) as conduit turns it into a response.
ErrorResponse(kind, status) == [status |-> status, kind |-> kind, handler |-> NoHandler]

\* not_found: Error::BadRequest(ErrorKind::Unrecognized, ..), which
\* conduit serves as 404.
not_found == ErrorResponse("Unrecognized", 404)

\* Mutant of initial_sync: an error kind conduit serves as 401
\* (ErrorKind::MissingToken), which no route of this server returns.
initial_sync_missing_token == ErrorResponse("MissingToken", 401)

\* initial_sync: Error::BadRequest(ErrorKind::GuestAccessForbidden, ..), 403.
initial_sync == ErrorResponse("GuestAccessForbidden", 403)

\* Mutant of RunHandler: a body of exactly max_request_size bytes rejected
\* (the limit tested with >= instead of >).
RunHandler_off_by_one(h, size, ok) ==
    CASE h = InitialSync -> initial_sync
      [] h \notin ServerKeys /\ size >= MaxRequestSize -> ErrorResponse("TooLarge", 413)
      [] OTHER -> [status |-> IF ok THEN 200 ELSE 400,
                   kind |-> IF ok THEN "none" ELSE "Business", handler |-> h]

\* A handler run for a request: initial_sync and the server-key routes take
\* no Ruma<Req>, every other handler extracts Ruma<Req>, whose body read
\* is capped by DefaultBodyLimit::max(max_request_size).  The business
\* result is Ok (200) or an Error passed through (ok = FALSE).
RunHandler(h, size, ok) ==
    CASE h = InitialSync -> initial_sync
      [] h \notin ServerKeys /\ size > MaxRequestSize -> ErrorResponse("TooLarge", 413)
      [] OTHER -> [status |-> IF ok THEN 200 ELSE 400,
                   kind |-> IF ok THEN "none" ELSE "Business", handler |-> h]

\* The router: the fallback for a path with no route, 405 for a verb the
\* path's method router lacks, the handler otherwise.
RouterResponse(q, ok) ==
    IF ~Routed(q.path) THEN not_found
    ELSE IF MethodHandler(q.method, q.path) = NoHandler
         THEN ErrorResponse("none", 405)
         ELSE RunHandler(MethodHandler(q.method, q.path), q.size, ok)

\* CorsLayer answers a preflight itself, without calling the route.
Cors(q, inner) == IF q.preflight THEN ErrorResponse("none", 200) ELSE inner

\* Mutant of unrecognized_method: the inner response is passed through.
unrecognized_method_passthrough(inner) == inner

\* unrecognized_method: runs the inner service and replaces a 405 by the
\* M_UNRECOGNIZED error envelope (its status stays METHOD_NOT_ALLOWED).
unrecognized_method(inner) ==
    IF inner.status = 405 THEN ErrorResponse("Unrecognized", 405) ELSE inner

\* The middleware stack of run_server around one route, outermost first;
\* the header, trace and compression layers leave the status alone.
Serve(q, ok) == unrecognized_method(Cors(q, RouterResponse(q, ok)))

ServeRequest ==
    /\ state = "serving"
    /\ \E q \in Request, ok \in BOOLEAN :
         last' = [req |-> q, resp |-> Serve(q, ok)]
    /\ UNCHANGED <<table, next, state, Registrations>>

\* A failed startup: the panic unwinds out of main and the process ends.
Aborted == state = "panicked" /\ UNCHANGED vars

Next == routes_step \/ routes_fallback \/ ServeRequest \/ Aborted

Spec == Init /\ [][Next]_vars

-----------------------------------------------------------------------------
(* Properties.                                                             *)

\* Spec section 3 and 8, aliasing: once routes() has run (and at every step
\* of it), each alias of each endpoint registered through ruma_route routes
\* the endpoint's method (one method_to_filter accepted) to the endpoint's
\* handler; no later registration can take an alias over (Router::route
\* would panic instead).
AliasesAgree ==
    \A i \in 1..next - 1 :
        LET r == Registrations[i] IN
          r.kind = "ruma" /\ state # "panicked" =>
              /\ r.method \in FilterMethods
              /\ \A p \in Aliases(r) : table[p][r.method] = r.handler

\* Spec section 6 and 8: a request that no route serves (an unknown path,
\* or a verb the path's routes lack) gets the M_UNRECOGNIZED envelope with
\* a 4xx status, and no response is ever a bare 405.  Covers the interplay
\* of the fallback, axum's MethodRouter, CORS and unrecognized_method.
UnservedIsUnrecognized ==
    LET q == last.req  r == last.resp IN
      /\ r.status = 405 => r.kind = "Unrecognized"
      /\ q # NoRequest /\ ~q.preflight /\ MethodHandler(q.method, q.path) = NoHandler
            => r.kind = "Unrecognized" /\ r.status \in 400..499

\* Spec section 8, body limit, at its boundary: a handler that extracts
\* Ruma<Req> runs only for a body within max_request_size, and a body of at
\* most max_request_size bytes -- exactly max_request_size included -- does
\* reach the handler its route names (DefaultBodyLimit::max(n) accepts n
\* bytes).
BodyLimitExact ==
    LET q == last.req  r == last.resp  h == MethodHandler(q.method, q.path) IN
      /\ r.handler \in Handlers \ ServerKeys => q.size <= MaxRequestSize
      /\ /\ q # NoRequest /\ ~q.preflight
         /\ h \in Handlers \ (ServerKeys \cup {InitialSync})
         /\ q.size <= MaxRequestSize
         => r.handler = h

=============================================================================
