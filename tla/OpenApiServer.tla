---------------------------- MODULE OpenApiServer ----------------------------
(***************************************************************************)
(* The generated HTTP server (backend/internal/gen/openapi): how NewServer *)
(* is configured (oas_cfg_gen.go), and the way of a request through        *)
(* routing, security, parameters, the handler and the encoder to the       *)
(* response and to the telemetry (oas_handlers_gen.go and the files it     *)
(* calls).  Handler, security handler and middleware belong to the program *)
(* that uses the package: here they answer anything their types allow.     *)
(*                                                                         *)
(* Every request has a goroutine of its own.  They share the counters, and *)
(* nothing else.  A response is kept as the Go value that was encoded;     *)
(* ApiCodec says which document that is.                                   *)
(***************************************************************************)
EXTENDS ApiSchema, ApiRouter

CONSTANTS
    Exchanges,         \* requests, each with its response
    Inputs,            \* what a request may be
    OptionLists,       \* the options NewServer may be given
    Outcomes,          \* operation |-> what its handler may return
    SecurityOutcomes,  \* what the security handler may return
    NoUUID,            \* the zero identifier
    CustomStatus       \* the status a handler given as an option writes

Statuses == {0, 200, 204, 400, 401, 403, 404, 405, 500, 501, 503, CustomStatus}

ASSUME ServerAssumption ==
    /\ CustomStatus \in Nat
    /\ SecurityOutcomes \subseteq {"accept", "skip", "deny"}
    /\ NoUUID \in UUID
    /\ IsFiniteSet(Exchanges)

\* The URL of a request is net/http's, its headers hold strings.
ASSUME InputAssumption ==
    \A r \in Inputs :
        /\ r.sent \in Seq(STRING)
        /\ r.url = ParseURL(r.sent)
        /\ r.id \in OptRequestId
        /\ r.preset \in Text

\* Go's types: a handler returns nil or a value of a type of its interface.
ASSUME OutcomeAssumption ==
    /\ DOMAIN Outcomes = Operations
    /\ \A op \in Operations : \A o \in Outcomes[op] :
          /\ o.err \in {"none", "not_implemented", "failure"}
          /\ o.type \in ResponseTypes[op] \union {"nil"}
          /\ o.type # "nil" => o.value \in ValuesOf(o.type)

VARIABLES
    options,   \* the options of NewServer
    cfg,       \* serverConfig
    up,        \* whether NewServer has returned a server, or an error
    pc,        \* what the goroutine of a request does next
    req,       \* http.Request
    route,     \* the operation with its raw argument
    session,   \* what the security handler said of the request
    params,    \* the parameters, decoded and then as the handler got them
    result,    \* what the handler returned
    out,       \* what the ResponseWriter has sent
    code,      \* codeRecorder.status
    fault,     \* the stage of recordError, if an error was met
    span,      \* the status of the span
    requests,  \* the counter of requests, by operation and status
    errors     \* the counter of errors, by operation and status

goroutine == <<pc, req, route, session, params, result, out, code, fault, span>>
counters == <<requests, errors>>
configuration == <<options, cfg, up>>
vars == <<options, cfg, up, pc, req, route, session, params, result, out, code,
          fault, span, requests, errors>>

-----------------------------------------------------------------------------
(* Configuration.                                                          *)

\* An option given nil, or a number that is not positive, changes nothing:
\* "nil" stands for both.
WithTracerProvider(c, v) ==
    IF v = "nil" THEN c ELSE [c EXCEPT !.TracerProvider = v]

WithMeterProvider(c, v) ==
    IF v = "nil" THEN c ELSE [c EXCEPT !.MeterProvider = v]

WithAttributes(c, v) == [c EXCEPT !.Attributes = v]

WithNotFound(c, v) == IF v = "nil" THEN c ELSE [c EXCEPT !.NotFound = v]

WithMethodNotAllowed(c, v) ==
    IF v = "nil" THEN c ELSE [c EXCEPT !.MethodNotAllowed = v]

WithErrorHandler(c, v) == IF v = "nil" THEN c ELSE [c EXCEPT !.ErrorHandler = v]

WithPathPrefix(c, v) == [c EXCEPT !.Prefix = v]

\* Mutated: an empty list of middlewares is taken for no list.
WithSomeMiddleware(c, v) ==
    IF v = "none" THEN c ELSE [c EXCEPT !.Middleware = v]
\* None, one, or a chain of them: the option replaces what another one set.
WithMiddleware(c, v) == [c EXCEPT !.Middleware = v]

WithMaxMultipartMemory(c, v) ==
    IF v = "nil" THEN c ELSE [c EXCEPT !.MaxMultipartMemory = v]

ApplyServer(c, option) ==
    CASE option.name = "TracerProvider" -> WithTracerProvider(c, option.value)
      [] option.name = "MeterProvider" -> WithMeterProvider(c, option.value)
      [] option.name = "Attributes" -> WithAttributes(c, option.value)
      [] option.name = "NotFound" -> WithNotFound(c, option.value)
      [] option.name = "MethodNotAllowed" ->
            WithMethodNotAllowed(c, option.value)
      [] option.name = "ErrorHandler" -> WithErrorHandler(c, option.value)
      [] option.name = "Prefix" -> WithPathPrefix(c, option.value)
      [] option.name = "Middleware" -> WithMiddleware(c, option.value)
      [] option.name = "MaxMultipartMemory" ->
            WithMaxMultipartMemory(c, option.value)

\* The providers nobody chose are the global ones.
InitOTEL(c) ==
    [c EXCEPT !.TracerProvider = IF @ = "nil" THEN "global" ELSE @,
              !.MeterProvider = IF @ = "nil" THEN "global" ELSE @]

DefaultConfig ==
    [TracerProvider |-> "nil", MeterProvider |-> "nil", Attributes |-> "none",
     NotFound |-> "default", MethodNotAllowed |-> "nil",
     ErrorHandler |-> "default", Prefix |-> "", Middleware |-> "none",
     MaxMultipartMemory |-> "32 MB"]

\* The package has an option for every field.  A prefix is a string, attributes
\* and middlewares are lists: only of the others one may be given nil.
ASSUME OptionAssumption ==
    \A opts \in OptionLists :
        /\ opts \in Seq([name: DOMAIN DefaultConfig, value: STRING])
        /\ \A i \in DOMAIN opts :
              opts[i].name \in {"Prefix", "Attributes", "Middleware"}
              => opts[i].value # "nil"

NewServerConfig(opts) == InitOTEL(FoldLeft(ApplyServer, DefaultConfig, opts))

-----------------------------------------------------------------------------
(* State functions.                                                        *)

Steps == {"idle", "route", "secure", "decode", "call", "encode", "record",
          "count", "done"}

Faults == {"none", "Security", "Security:CookieSession", "DecodeParams",
           "Internal", "EncodeResponse"}

NoValue == [nil |-> "nil"]

\* A body that is no value of the schema.
Nothing(type) == [type |-> type, value |-> NoValue]

Blank == [status |-> 0, id |-> "", etag |-> "", retry |-> UnsetInt,
          content |-> "none", allow |-> {}, body |-> Nothing("none"),
          cut |-> FALSE]

NoParams == [XRequestID |-> UnsetId, OrganizationId |-> NoUUID]

NoResult == [err |-> "none", type |-> "nil", value |-> NoValue]

\* A request has its path as it was sent and the URL net/http made of it; the
\* method a preflight asks for, and the response header that was set before.
NoRequest == [method |-> "GET", sent |-> <<>>, url |-> ParseURL(<<>>),
              id |-> UnsetId, cookie |-> FALSE, asks |-> "", preset |-> ""]

\* A request is observed once it is with the handler of an operation.
Observed(x) == route[x].op \in Operations

Label(x) == <<route[x].op, code[x]>>

Init ==
    /\ options \in OptionLists
    /\ cfg = DefaultConfig
    /\ up = "no"
    /\ pc = [x \in Exchanges |-> "idle"]
    /\ req = [x \in Exchanges |-> NoRequest]
    /\ route = [x \in Exchanges |-> [op |-> "none", args |-> <<>>,
                                     escaped |-> FALSE]]
    /\ session = [x \in Exchanges |-> "unasked"]
    /\ params = [x \in Exchanges |-> NoParams]
    /\ result = [x \in Exchanges |-> NoResult]
    /\ out = [x \in Exchanges |-> Blank]
    /\ code = [x \in Exchanges |-> 0]
    /\ fault = [x \in Exchanges |-> "none"]
    /\ span = [x \in Exchanges |-> "unset"]
    /\ requests = [l \in Operations \X Statuses |-> 0]
    /\ errors = [l \in Operations \X Statuses |-> 0]

-----------------------------------------------------------------------------
(* Answers of the server's own.                                            *)

\* http.NotFound writes plain text; another handler writes what it likes.
NotFound(w) ==
    IF cfg.NotFound = "default"
    THEN [w EXCEPT !.status = 404, !.content = "text",
                   !.body = Nothing("not_found")]
    ELSE [w EXCEPT !.status = CustomStatus]

\* OPTIONS asks what is allowed and is told so in its own headers; any other
\* method that is not GET is refused.
NotAllowed(w, r) ==
    LET options_ == r.method = "OPTIONS"
        told == IF ~options_ THEN {}
                ELSE {"Access-Control-Allow-Methods"}
                     \union IF r.asks = "GET"
                            THEN {"Access-Control-Allow-Headers"} ELSE {}
    IN IF cfg.MethodNotAllowed # "nil"
       THEN [w EXCEPT !.status = CustomStatus, !.allow = told]
       ELSE IF options_ THEN [w EXCEPT !.status = 204, !.allow = told]
       ELSE [w EXCEPT !.status = 405, !.allow = {"Allow"}]

\* ErrorHandler: once a status line is out another one has no effect.  A handler
\* given as an option writes a status of its own, or just a body ("body_only"),
\* for which net/http writes the line of a success.
WriteError(w, status) ==
    CASE w.status # 0 -> w
      [] w.status = 0 /\ cfg.ErrorHandler = "default" ->
            [w EXCEPT !.status = status, !.content = "json",
                      !.body = Nothing("error_message")]
      [] w.status = 0 /\ cfg.ErrorHandler = "body_only" ->
            [w EXCEPT !.status = 200]
      [] OTHER -> [w EXCEPT !.status = CustomStatus]

\* What codeRecorder has after ErrorHandler: it believes every WriteHeader,
\* whether or not it has an effect, and does not notice a Write without one.
Noted(before, status) ==
    CASE cfg.ErrorHandler = "default" -> status
      [] cfg.ErrorHandler = "body_only" -> before
      [] OTHER -> CustomStatus

\* Mutated: the error goes to the writer behind the recorder.
FailUnrecorded(x, stage, status) ==
    /\ fault' = [fault EXCEPT ![x] = stage]
    /\ out' = [out EXCEPT ![x] = WriteError(out[x], status)]
    /\ pc' = [pc EXCEPT ![x] = "record"]
    /\ UNCHANGED code

\* An error of a stage: the handler ends with ErrorHandler and recordError.
Fail(x, stage, status) ==
    /\ fault' = [fault EXCEPT ![x] = stage]
    /\ out' = [out EXCEPT ![x] = WriteError(out[x], status)]
    /\ code' = [code EXCEPT ![x] = Noted(@, status)]
    /\ pc' = [pc EXCEPT ![x] = "record"]

-----------------------------------------------------------------------------
(* Responses of the operations (oas_response_encoders_gen.go).             *)

StatusOf == [HealthStatusHeaders |-> 200, OrganizationHeaders |-> 200,
             BadRequestHeaders |-> 400, AuthenticationRequiredHeaders |-> 401,
             PermissionDeniedHeaders |-> 403,
             OrganizationNotFoundHeaders |-> 404,
             InternalErrorHeaders |-> 500, ServiceUnavailableHeaders |-> 503]

WithBody(w, res) ==
    [w EXCEPT !.status = StatusOf[res.type], !.content = "json",
              !.id = res.value.XRequestID,
              !.body = [type |-> res.type, value |-> res.value]]

EncodeGetLivenessResponse(w, res) == WithBody(w, res)

\* A Retry-After header is sent only if the handler set one.
EncodeGetReadinessResponse(w, res) ==
    IF res.type = "ServiceUnavailableHeaders"
    THEN [WithBody(w, res) EXCEPT !.retry = res.value.RetryAfter]
    ELSE WithBody(w, res)

EncodeGetOrganizationResponse(w, res) ==
    IF res.type = "OrganizationHeaders"
    THEN [WithBody(w, res) EXCEPT !.etag = res.value.ETag]
    ELSE WithBody(w, res)

EncodeResponse(op, w, res) ==
    CASE op = "getLiveness" -> EncodeGetLivenessResponse(w, res)
      [] op = "getReadiness" -> EncodeGetReadinessResponse(w, res)
      [] op = "getOrganization" -> EncodeGetOrganizationResponse(w, res)

-----------------------------------------------------------------------------
(* Parameters (oas_parameters_gen.go): what there is, or that it is bad.   *)

BadParams == [ok |-> FALSE, value |-> NoParams]

\* An absent header leaves the parameter unset, a present one is validated.
DecodeGetLivenessParams(r, arg) ==
    IF r.id.Set /\ ~ValidRequestId(r.id.Value) THEN BadParams
    ELSE [ok |-> TRUE, value |-> [NoParams EXCEPT !.XRequestID = r.id]]

DecodeGetReadinessParams(r, arg) ==
    IF r.id.Set /\ ~ValidRequestId(r.id.Value) THEN BadParams
    ELSE [ok |-> TRUE, value |-> [NoParams EXCEPT !.XRequestID = r.id]]

\* Mutated: the parameter is unescaped whether or not it was escaped.
DecodeAlwaysUnescapes(r, arg) ==
    LET param == PathUnescape(arg.args)
    IN IF \/ r.id.Set /\ ~ValidRequestId(r.id.Value)
          \/ param = <<>>
          \/ Len(param) # 1 \/ Head(param) \notin DOMAIN ParseUUID
       THEN [ok |-> FALSE, value |-> NoParams]
       ELSE [ok |-> TRUE,
             value |-> [XRequestID |-> r.id,
                        OrganizationId |-> ParseUUID[Head(param)]]]

\* The organization as well: unescaped if need be, not empty, and a UUID.
DecodeGetOrganizationParams(r, arg) ==
    LET param == IF arg.escaped THEN PathUnescape(arg.args) ELSE arg.args
    IN IF \/ r.id.Set /\ ~ValidRequestId(r.id.Value)
          \/ param = <<>>
          \/ Len(param) # 1 \/ Head(param) \notin DOMAIN ParseUUID
       THEN BadParams
       ELSE [ok |-> TRUE,
             value |-> [XRequestID |-> r.id,
                        OrganizationId |-> ParseUUID[Head(param)]]]

DecodeParams(op, r, arg) ==
    CASE op = "getLiveness" -> DecodeGetLivenessParams(r, arg)
      [] op = "getReadiness" -> DecodeGetReadinessParams(r, arg)
      [] op = "getOrganization" -> DecodeGetOrganizationParams(r, arg)

\* What a middleware hands on is packed by parameter; it may leave the header
\* out, which unpacking tolerates.
UnpackGetLivenessParams(packed) ==
    [NoParams EXCEPT !.XRequestID =
        IF "XRequestID" \in DOMAIN packed THEN packed.XRequestID ELSE UnsetId]

UnpackGetReadinessParams(packed) ==
    [NoParams EXCEPT !.XRequestID =
        IF "XRequestID" \in DOMAIN packed THEN packed.XRequestID ELSE UnsetId]

UnpackGetOrganizationParams(packed) ==
    [XRequestID |->
        IF "XRequestID" \in DOMAIN packed THEN packed.XRequestID ELSE UnsetId,
     OrganizationId |-> packed.OrganizationId]

UnpackParams(op, packed) ==
    CASE op = "getLiveness" -> UnpackGetLivenessParams(packed)
      [] op = "getReadiness" -> UnpackGetReadinessParams(packed)
      [] op = "getOrganization" -> UnpackGetOrganizationParams(packed)

-----------------------------------------------------------------------------
(* Security (oas_security_gen.go).                                         *)

\* securityCookieSession: the handler accepts, skips or denies; without a cookie
\* it is not asked.
CookieSession(r) == IF r.cookie THEN SecurityOutcomes ELSE {"unasked"}

-----------------------------------------------------------------------------
(* Mutated forms of the definitions below, used to test the properties.    *)

\* Whatever is no error satisfies the requirement.
SecureSkips(x) ==
    /\ pc[x] = "secure"
    /\ \E s \in CookieSession(req[x]) :
          /\ session' = [session EXCEPT ![x] = s]
          /\ IF s = "deny" THEN Fail(x, "Security:CookieSession", 401)
             ELSE /\ pc' = [pc EXCEPT ![x] = "decode"]
                  /\ UNCHANGED <<fault, out, code>>
    /\ UNCHANGED <<configuration, req, route, params, result, span, counters>>

\* The stopwatch is run where the error is recorded as well.
RecordAndCount(x) ==
    /\ pc[x] = "record"
    /\ errors' = [errors EXCEPT ![Label(x)] = @ + 1]
    /\ requests' = [requests EXCEPT ![Label(x)] = @ + 1]
    /\ span' = [span EXCEPT ![x] = IF code[x] < 100 \/ code[x] >= 500
                                   THEN "error" ELSE @]
    /\ pc' = [pc EXCEPT ![x] = "count"]
    /\ UNCHANGED <<configuration, req, route, session, params, result, out,
                   code, fault>>

-----------------------------------------------------------------------------
(* Actions.                                                                *)

\* NewServer, which fails if the meter refuses an instrument.
NewServer ==
    /\ up = "no"
    /\ cfg' = NewServerConfig(options)
    /\ up' \in {"yes", "failed"}
    /\ UNCHANGED <<options, goroutine, counters>>

\* A request arrives; what wraps the server may have set the request id of the
\* response.
Receive(x, r) ==
    /\ up = "yes"
    /\ pc[x] = "idle"
    /\ req' = [req EXCEPT ![x] = r]
    /\ out' = [out EXCEPT ![x] = [Blank EXCEPT !.id = r.preset]]
    /\ pc' = [pc EXCEPT ![x] = "route"]
    /\ UNCHANGED <<configuration, route, session, params, result, code, fault,
                   span, counters>>

\* ServeHTTP ends with one of the server's own answers ...
Unrouted(x) ==
    /\ pc[x] = "route"
    /\ \E found \in {ServeHTTP(req[x].method, req[x].url, cfg.Prefix)} :
          /\ found.op \notin Operations
          /\ out' = [out EXCEPT ![x] =
                        IF found.op = "notFound" THEN NotFound(out[x])
                        ELSE NotAllowed(out[x], req[x])]
    /\ pc' = [pc EXCEPT ![x] = "done"]
    /\ UNCHANGED <<configuration, req, route, session, params, result, code,
                   fault, span, counters>>

\* ... or calls the handler of the operation, which starts a span and a
\* stopwatch that will count the request however it ends.
Start(x) ==
    /\ pc[x] = "route"
    /\ \E found \in {ServeHTTP(req[x].method, req[x].url, cfg.Prefix)} :
          /\ found.op \in Operations
          /\ route' = [route EXCEPT ![x] = found]
          /\ pc' = [pc EXCEPT ![x] = IF found.op = "getOrganization"
                                     THEN "secure" ELSE "decode"]
    /\ UNCHANGED <<configuration, req, session, params, result, out, code,
                   fault, span, counters>>

\* The one requirement there is: an error of the security handler ends it, and
\* anything but its approval leaves it unsatisfied.
Secure(x) ==
    /\ pc[x] = "secure"
    /\ \E s \in CookieSession(req[x]) :
          /\ session' = [session EXCEPT ![x] = s]
          /\ \/ /\ s = "accept"
                /\ pc' = [pc EXCEPT ![x] = "decode"]
                /\ UNCHANGED <<fault, out, code>>
             \/ s = "deny" /\ Fail(x, "Security:CookieSession", 401)
             \/ s \in {"skip", "unasked"} /\ Fail(x, "Security", 401)
    /\ UNCHANGED <<configuration, req, route, params, result, span, counters>>

Decode(x) ==
    /\ pc[x] = "decode"
    /\ \E decoded \in {DecodeParams(route[x].op, req[x], route[x])} :
          IF decoded.ok
          THEN /\ params' = [params EXCEPT ![x] = decoded.value]
               /\ pc' = [pc EXCEPT ![x] = "call"]
               /\ UNCHANGED <<fault, out, code>>
          ELSE /\ Fail(x, "DecodeParams", 400)
               /\ UNCHANGED params
    /\ UNCHANGED <<configuration, req, route, session, result, span, counters>>

\* What a middleware may leave of the parameters on their way to the handler.
Handed(x) ==
    IF cfg.Middleware = "none" THEN {params[x]}
    ELSE {UnpackParams(route[x].op, params[x]),
          UnpackParams(route[x].op,
                       [OrganizationId |-> params[x].OrganizationId])}

\* The error a handler, or a middleware in its place, returns has its status.
ErrorStatus(err) == IF err = "not_implemented" THEN 501 ELSE 500

Call(x, o) ==
    /\ pc[x] = "call"
    /\ \E p \in Handed(x) : params' = [params EXCEPT ![x] = p]
    /\ result' = [result EXCEPT ![x] = o]
    /\ IF o.err = "none"
       THEN /\ pc' = [pc EXCEPT ![x] = "encode"]
            /\ UNCHANGED <<fault, out, code>>
       ELSE Fail(x, "Internal", ErrorStatus(o.err))
    /\ UNCHANGED <<configuration, req, route, session, span, counters>>

\* A middleware answers with an error instead of calling the handler.
Refuse(x) ==
    /\ pc[x] = "call"
    /\ cfg.Middleware # "none"
    /\ Fail(x, "Internal", ErrorStatus("failure"))
    /\ UNCHANGED <<configuration, req, route, session, params, result, span,
                   counters>>

\* The headers, the status line and the body are written.
Encode(x) ==
    /\ pc[x] = "encode"
    /\ result[x].type \in ResponseTypes[route[x].op]
    /\ LET w == EncodeResponse(route[x].op, out[x], result[x])
       IN /\ out' = [out EXCEPT ![x] = w]
          /\ code' = [code EXCEPT ![x] = w.status]
          /\ span' = [span EXCEPT ![x] = IF w.status >= 500 THEN "error" ELSE @]
    /\ pc' = [pc EXCEPT ![x] = "count"]
    /\ UNCHANGED <<configuration, req, route, session, params, result, fault,
                   counters>>

\* The client is gone when the body is written: the status line is out, and
\* ErrorHandler writes another one that only the recorder believes.
EncodeCut(x) ==
    /\ pc[x] = "encode"
    /\ result[x].type \in ResponseTypes[route[x].op]
    /\ LET w == EncodeResponse(route[x].op, out[x], result[x])
       IN /\ out' = [out EXCEPT ![x] = [w EXCEPT !.cut = TRUE]]
          /\ code' = [code EXCEPT ![x] = Noted(w.status, 500)]
          /\ span' = [span EXCEPT ![x] = IF w.status >= 500 THEN "error" ELSE @]
    /\ fault' = [fault EXCEPT ![x] = "EncodeResponse"]
    /\ pc' = [pc EXCEPT ![x] = "record"]
    /\ UNCHANGED <<configuration, req, route, session, params, result,
                   counters>>

\* A response of no type of the operation, nil for one, is an error.
EncodeUnexpected(x) ==
    /\ pc[x] = "encode"
    /\ result[x].type \notin ResponseTypes[route[x].op]
    /\ Fail(x, "EncodeResponse", 500)
    /\ UNCHANGED <<configuration, req, route, session, params, result, span,
                   counters>>

\* The deferred recordError runs before the stopwatch.
RecordError(x) ==
    /\ pc[x] = "record"
    /\ errors' = [errors EXCEPT ![Label(x)] = @ + 1]
    /\ span' = [span EXCEPT ![x] = IF code[x] < 100 \/ code[x] >= 500
                                   THEN "error" ELSE @]
    /\ pc' = [pc EXCEPT ![x] = "count"]
    /\ UNCHANGED <<configuration, req, route, session, params, result, out,
                   code, fault, requests>>

\* The deferred stopwatch.
CountRequest(x) ==
    /\ pc[x] = "count"
    /\ requests' = [requests EXCEPT ![Label(x)] = @ + 1]
    /\ pc' = [pc EXCEPT ![x] = "done"]
    /\ UNCHANGED <<configuration, req, route, session, params, result, out,
                   code, fault, span, errors>>

-----------------------------------------------------------------------------
(* The handlers.                                                           *)

\* What all three have in common after their parameters are decoded.
Respond(x) ==
    \/ \E o \in Outcomes[route[x].op] : Call(x, o)
    \/ Refuse(x)
    \/ Encode(x) \/ EncodeCut(x) \/ EncodeUnexpected(x)
    \/ RecordError(x) \/ CountRequest(x)

HandleGetLivenessRequest(x) ==
    /\ route[x].op = "getLiveness"
    /\ Decode(x) \/ Respond(x)

HandleGetOrganizationRequest(x) ==
    /\ route[x].op = "getOrganization"
    /\ Secure(x) \/ Decode(x) \/ Respond(x)

HandleGetReadinessRequest(x) ==
    /\ route[x].op = "getReadiness"
    /\ Decode(x) \/ Respond(x)

Serve(x) ==
    \/ Unrouted(x) \/ Start(x)
    \/ HandleGetLivenessRequest(x)
    \/ HandleGetOrganizationRequest(x)
    \/ HandleGetReadinessRequest(x)

Next ==
    \/ NewServer
    \/ \E x \in Exchanges : \E r \in Inputs : Receive(x, r)
    \/ \E x \in Exchanges : Serve(x)

Spec == Init /\ [][Next]_vars

-----------------------------------------------------------------------------
(* Properties.                                                             *)

\* Every variable stays in its type.
TypeOK ==
    /\ options \in OptionLists
    /\ up \in {"no", "yes", "failed"}
    /\ pc \in [Exchanges -> Steps]
    /\ req \in [Exchanges -> Inputs \union {NoRequest}]
    /\ \A x \in Exchanges :
          /\ route[x].op \in Operations \union {"none"}
          /\ params[x] \in [XRequestID: OptRequestId, OrganizationId: UUID]
          /\ result[x] = NoResult
                \/ result[x] \in UNION {Outcomes[op] : op \in Operations}
          /\ out[x].status \in Statuses
          /\ out[x].id \in Text
    /\ session \in [Exchanges -> {"unasked", "accept", "skip", "deny"}]
    /\ code \in [Exchanges -> Statuses]
    /\ fault \in [Exchanges -> Faults]
    /\ span \in [Exchanges -> {"unset", "error"}]
    /\ requests \in [Operations \X Statuses -> Nat]
    /\ errors \in [Operations \X Statuses -> Nat]

\* Nothing is done for a request that needs a session unless the security
\* handler has accepted the cookie of this very request: its parameters are not
\* looked at, so that a stranger is never told whether they are well formed, no
\* handler runs, and once it is over the client has got nothing but the error
\* of the security stage.
SessionFirst ==
    \A x \in Exchanges :
        route[x].op = "getOrganization" /\ session[x] # "accept" =>
            /\ params[x] = NoParams /\ result[x] = NoResult
            /\ pc[x] \notin {"secure", "done"} =>
                  fault[x] \in {"Security", "Security:CookieSession"}
            /\ pc[x] = "done" =>
                  out[x].status = CASE cfg.ErrorHandler = "default" -> 401
                                    [] cfg.ErrorHandler = "body_only" -> 200
                                    [] OTHER -> CustomStatus

\* Every request of an operation is counted once, under the status its recorder
\* has in the end, and every failed one is counted as an error under the same
\* status: before it is counted as a request, so the errors may lead by those
\* requests whose stopwatch is still to run.
TelemetryAddsUp ==
    \A l \in Operations \X Statuses :
        /\ requests[l] = Cardinality({x \in Exchanges : Observed(x)
                            /\ Label(x) = l /\ pc[x] = "done"})
        /\ errors[l] = Cardinality({x \in Exchanges : Observed(x)
                            /\ Label(x) = l /\ fault[x] # "none"
                            /\ pc[x] \in {"count", "done"}})

\* The status a request is counted under is the one the client got.  There are
\* two exceptions: a response whose body could not be written, and an error that
\* an ErrorHandler answers without WriteHeader, which is counted under none and
\* is a success for the client.
TelemetryMatchesWire ==
    \A x \in Exchanges :
        pc[x] \in {"count", "done"} /\ Observed(x)
        => \/ code[x] = out[x].status
           \/ out[x].cut /\ fault[x] = "EncodeResponse"
           \/ /\ cfg.ErrorHandler = "body_only" /\ fault[x] # "none"
              /\ code[x] = 0 /\ out[x].status = 200

\* The two copies of the search agree: FindPath finds an operation for a URL
\* exactly when ServeHTTP calls it, with the argument its handler decodes.
RoutesAgree ==
    \A x \in Exchanges :
        LET found == FindPath(req[x].method, req[x].url, cfg.Prefix)
        IN pc[x] \notin {"idle", "route"}
           => /\ found.found <=> Observed(x)
              /\ Observed(x) => found.name = route[x].op
              /\ pc[x] \in {"call", "encode"} /\ route[x].op = "getOrganization"
                 => /\ Head(found.args) \in DOMAIN ParseUUID
                    /\ ParseUUID[Head(found.args)] = params[x].OrganizationId

\* Of several options of one kind the last decides; nil decides nothing, but a
\* list of middlewares counts even when it is empty.
LastOptionDecides ==
    LET Final(name, default) ==
            LET set == {i \in DOMAIN options : options[i].name = name
                                            /\ options[i].value # "nil"}
            IN IF set = {} THEN default
               ELSE options[CHOOSE i \in set : \A j \in set : j =< i].value
    IN up = "yes" =>
       /\ cfg.NotFound = Final("NotFound", "default")
       /\ cfg.MethodNotAllowed = Final("MethodNotAllowed", "nil")
       /\ cfg.ErrorHandler = Final("ErrorHandler", "default")
       /\ cfg.Middleware = Final("Middleware", "none")
       /\ cfg.Prefix = Final("Prefix", "")
       /\ cfg.TracerProvider = Final("TracerProvider", "global")
       /\ cfg.MeterProvider = Final("MeterProvider", "global")
       /\ cfg.Attributes = Final("Attributes", "none")
       /\ cfg.MaxMultipartMemory = Final("MaxMultipartMemory", "32 MB")
=============================================================================
