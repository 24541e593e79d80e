---------------------------- MODULE HealthRoutes ----------------------------
(***************************************************************************)
(* The HTTP surface of the API process                                     *)
(* (backend/internal/platform/httpserver/routes.go): the generated server, *)
(* mounted at /health/ behind the request id, the request timeout and an   *)
(* http.ServeMux, with the handlers of the two probes.                     *)
(*                                                                         *)
(* Generated is OpenApiServer with this program's handlers in the place of *)
(* any handlers: it is built with no option, its security handler refuses  *)
(* everything, and its requests are the ones that the wrappers let pass.   *)
(* Every request runs in a goroutine of its own; the process, meanwhile,   *)
(* turns its readiness on and off again (health/state.go).                 *)
(***************************************************************************)
EXTENDS ApiSchema, ApiRouter

CONSTANTS
    Exchanges,       \* requests, each with its response
    ClientRequests,  \* what a client may send
    NewIds,          \* what uuid.NewString may return
    NoUUID, CustomStatus

ASSUME RoutesAssumption ==
    /\ IsFiniteSet(Exchanges)
    /\ NoUUID \in UUID
    /\ CustomStatus \in Nat
    /\ NewIds \subseteq Text
    /\ \A i \in NewIds : ValidRequestId(i)

\* "unavailable" stands for the message of the 503.
ASSUME MessageAssumption ==
    /\ {"SERVICE_UNAVAILABLE", "unavailable"} \subseteq Text
    /\ Sized("SERVICE_UNAVAILABLE", 1, 96)
    /\ "SERVICE_UNAVAILABLE" \in Matches["code"]
    /\ Sized("unavailable", 1, 512)

ASSUME ClientAssumption ==
    \A r \in ClientRequests :
        /\ DOMAIN r =
              {"method", "sent", "url", "id", "cookie", "asks", "preset"}
        /\ r.sent \in Seq(STRING)
        /\ r.url = ParseURL(r.sent)
        /\ r.id \in OptRequestId

VARIABLES
    life,    \* the process: before MarkReady, after it, after MarkNotReady
    ready,   \* health.State.ready
    outer,   \* what the goroutine of a request does next in the wrappers
    client,  \* the request as the client sent it
    id,      \* the X-Request-ID header of the response
    timer,   \* the context of context.WithTimeout
    reply,   \* who answered: the mux itself or the generated server
    saw,     \* where the process was when a probe read the readiness
    options, cfg, up, pc, req, route, session, params, result, out, code, fault,
    span, requests, errors

-----------------------------------------------------------------------------
(* The handlers.                                                           *)

HealthyResponse(i) ==
    [err |-> "none", type |-> "HealthStatusHeaders",
     value |-> [XRequestID |-> i, Response |-> [status |-> "ok"]]]

Unavailable(i) ==
    [err |-> "none", type |-> "ServiceUnavailableHeaders",
     value |->
        [RetryAfter |-> UnsetInt, XRequestID |-> i,
         Response |->
            [error |-> [code |-> "SERVICE_UNAVAILABLE",
                        message |-> "unavailable",
                        requestId |-> i, details |-> NoDetails]]]]

NotImplemented ==
    [err |-> "not_implemented", type |-> "nil", value |-> [nil |-> "nil"]]

\* The id of the parameters, or a new one.
RequestId(param) == IF param.Set THEN {param.Value} ELSE NewIds

GetLiveness(p) == {HealthyResponse(i) : i \in RequestId(p.XRequestID)}

GetReadiness(p) ==
    {IF ready THEN HealthyResponse(i) ELSE Unavailable(i) :
        i \in RequestId(p.XRequestID)}

\* healthHandler embeds UnimplementedHandler.
GetOrganization(p) == {NotImplemented}

Handler(op, p) == CASE op = "getLiveness" -> GetLiveness(p)
                    [] op = "getReadiness" -> GetReadiness(p)
                    [] op = "getOrganization" -> GetOrganization(p)

-----------------------------------------------------------------------------
(* The generated server of this program.                                   *)

ValidIds == {i \in Text : ValidRequestId(i)}

HealthOutcomes ==
    [getLiveness |-> {HealthyResponse(i) : i \in ValidIds},
     getReadiness |-> {HealthyResponse(i) : i \in ValidIds}
                         \union {Unavailable(i) : i \in ValidIds},
     getOrganization |-> {NotImplemented}]

\* A request whose id was checked or replaced; the response has it as well.
Forward(r, i) == [r EXCEPT !.id = NewOptRequestId(i), !.preset = i]

Forwarded == {Forward(r, i) : r \in ClientRequests, i \in ValidIds}

\* OpenApiServer, and with it what is proved of any such server.
Generated == INSTANCE OpenApiServer_proofs WITH
    Inputs <- Forwarded,
    OptionLists <- {<<>>},
    Outcomes <- HealthOutcomes,
    SecurityOutcomes <- {"deny"}

inner == <<options, cfg, up, pc, req, route, session, params, result, out, code,
           fault, span, requests, errors>>
wrappers == <<outer, client, id, timer, reply>>
process == <<life, ready>>
vars == <<process, wrappers, saw, inner>>

Init ==
    /\ life = "starting"
    /\ ready = FALSE
    /\ outer = [x \in Exchanges |-> "idle"]
    /\ client = [x \in Exchanges |-> Generated!NoRequest]
    /\ id = [x \in Exchanges |-> ""]
    /\ timer = [x \in Exchanges |-> "off"]
    /\ reply = [x \in Exchanges |-> "none"]
    /\ saw = [x \in Exchanges |-> "nothing"]
    /\ Generated!Init

-----------------------------------------------------------------------------
(* http.ServeMux.                                                          *)

\* Mutated: the generated server is mounted at the root.
MuxAtRoot(sent) == "generated"

\* http.ServeMux with the one pattern "/health/": a path that is not clean is
\* redirected to the clean one and "/health" to "/health/"; what is left is
\* matched segment by segment, each unescaped.
Mux(sent) ==
    IF \E i \in DOMAIN sent :
          \/ sent[i] \in {".", ".."}
          \/ i > 1 /\ sent[i] = "/" /\ sent[i - 1] = "/"
    THEN "redirect"
    ELSE IF PathUnescape(sent) = <<"/", "health">> THEN "redirect"
    ELSE IF Len(sent) >= 3
            /\ PathUnescape(SubSeq(sent, 1, 2)) = <<"/", "health">>
            /\ sent[3] = "/"
         THEN "generated" ELSE "not_found"

-----------------------------------------------------------------------------
(* Mutated forms of the definitions below, used to test the properties.    *)

\* A header that is there is trusted.
IdentifyUnchecked(x) ==
    /\ outer[x] = "received"
    /\ outer' = [outer EXCEPT ![x] = "identified"]
    /\ IF client[x].id.Set
       THEN id' = [id EXCEPT ![x] = client[x].id.Value]
       ELSE \E i \in NewIds : id' = [id EXCEPT ![x] = i]
    /\ UNCHANGED <<process, client, timer, reply, saw, inner>>

\* The flag is not taken back.
MarkNotReadyLate ==
    /\ life = "serving"
    /\ life' = "draining"
    /\ UNCHANGED <<ready, wrappers, saw, inner>>

\* The request with the id is not the one that is handed on.
MountUnidentified(x) ==
    /\ outer[x] = "armed"
    /\ Mux(client[x].sent) = "generated"
    /\ Generated!Receive(x, client[x])
    /\ outer' = [outer EXCEPT ![x] = "inside"]
    /\ reply' = [reply EXCEPT ![x] = "generated"]
    /\ UNCHANGED <<process, client, id, timer, saw>>

\* A request whose time is up is not handled any more.
CallInTime(x) ==
    /\ pc[x] = "call"
    /\ timer[x] # "expired"
    /\ \E o \in Handler(route[x].op, params[x]) : Generated!Call(x, o)
    /\ saw' = [saw EXCEPT ![x] = life]
    /\ UNCHANGED <<process, wrappers>>

-----------------------------------------------------------------------------
(* The process.                                                            *)

\* NewRoutes: the generated server is built, or the process does not start.
NewRoutes ==
    /\ Generated!NewServer
    /\ UNCHANGED <<process, wrappers, saw>>

MarkReady ==
    /\ up = "yes"
    /\ life = "starting"
    /\ life' = "serving"
    /\ ready' = TRUE
    /\ UNCHANGED <<wrappers, saw, inner>>

MarkNotReady ==
    /\ life = "serving"
    /\ life' = "draining"
    /\ ready' = FALSE
    /\ UNCHANGED <<wrappers, saw, inner>>

-----------------------------------------------------------------------------
(* The wrappers.                                                           *)

\* A connection is accepted as soon as there are routes to serve.
Arrive(x, r) ==
    /\ up = "yes"
    /\ outer[x] = "idle"
    /\ client' = [client EXCEPT ![x] = r]
    /\ outer' = [outer EXCEPT ![x] = "received"]
    /\ UNCHANGED <<process, id, timer, reply, saw, inner>>

\* withRequestID: Header.Get returns "" if there is no header.
Identify(x) ==
    /\ outer[x] = "received"
    /\ outer' = [outer EXCEPT ![x] = "identified"]
    /\ IF ValidRequestId(Or(client[x].id, ""))
       THEN id' = [id EXCEPT ![x] = client[x].id.Value]
       ELSE \E i \in NewIds : id' = [id EXCEPT ![x] = i]
    /\ UNCHANGED <<process, client, timer, reply, saw, inner>>

\* withRequestTimeout
ArmTimeout(x) ==
    /\ outer[x] = "identified"
    /\ outer' = [outer EXCEPT ![x] = "armed"]
    /\ timer' = [timer EXCEPT ![x] = "armed"]
    /\ UNCHANGED <<process, client, id, reply, saw, inner>>

\* The mux hands the request on ...
Mount(x) ==
    /\ outer[x] = "armed"
    /\ Mux(client[x].sent) = "generated"
    /\ Generated!Receive(x, Forward(client[x], id[x]))
    /\ outer' = [outer EXCEPT ![x] = "inside"]
    /\ reply' = [reply EXCEPT ![x] = "generated"]
    /\ UNCHANGED <<process, client, id, timer, saw>>

\* ... or answers itself.
Dismiss(x) ==
    /\ outer[x] = "armed"
    /\ Mux(client[x].sent) # "generated"
    /\ outer' = [outer EXCEPT ![x] = "inside"]
    /\ reply' = [reply EXCEPT ![x] = Mux(client[x].sent)]
    /\ UNCHANGED <<process, client, id, timer, saw, inner>>

\* The handler runs: for a probe of the readiness, one atomic load.
CallHandler(x) ==
    /\ pc[x] = "call"
    /\ \E o \in Handler(route[x].op, params[x]) : Generated!Call(x, o)
    /\ saw' = [saw EXCEPT ![x] = life]
    /\ UNCHANGED <<process, wrappers>>

\* Every other step of the generated server that a request of this program can
\* take: there is no middleware, no response of an unexpected type, and nothing
\* that needs a session (OrganizationHidden).
Inside(x) ==
    /\ \/ Generated!Unrouted(x) \/ Generated!Start(x)
       \/ Generated!Decode(x)
       \/ Generated!Encode(x) \/ Generated!EncodeCut(x)
       \/ Generated!RecordError(x) \/ Generated!CountRequest(x)
    /\ UNCHANGED <<process, wrappers, saw>>

\* The deferred cancel of withRequestTimeout, on the way out.
Return(x) ==
    /\ outer[x] = "inside"
    /\ reply[x] = "generated" => pc[x] = "done"
    /\ outer' = [outer EXCEPT ![x] = "answered"]
    /\ timer' = [timer EXCEPT ![x] = "released"]
    /\ UNCHANGED <<process, client, id, reply, saw, inner>>

\* The request timeout passes.  The handlers do not look at the context.
Expire(x) ==
    /\ timer[x] = "armed"
    /\ timer' = [timer EXCEPT ![x] = "expired"]
    /\ UNCHANGED <<process, outer, client, id, reply, saw, inner>>

-----------------------------------------------------------------------------

Handle(x) ==
    \/ Identify(x) \/ ArmTimeout(x) \/ Mount(x) \/ Dismiss(x)
    \/ CallHandler(x) \/ Inside(x) \/ Return(x)

Next ==
    \/ NewRoutes \/ MarkReady \/ MarkNotReady
    \/ \E x \in Exchanges :
          \/ \E r \in ClientRequests : Arrive(x, r)
          \/ Handle(x)
          \/ Expire(x)

\* The scheduler runs every goroutine; the handlers wait for nothing.  No client
\* is assumed to send, no deadline to pass, the process need not turn ready.
Fairness == \A x \in Exchanges : WF_vars(Handle(x))

Spec == Init /\ [][Next]_vars /\ Fairness

-----------------------------------------------------------------------------
(* Properties.                                                             *)

\* The id of a response is valid, whoever writes the response; it is the one of
\* the request if that is valid; the handler gets the same, and the body of an
\* error and the header agree.
EffectiveId ==
    \A x \in Exchanges :
        outer[x] \in {"armed", "inside", "answered"} =>
            /\ ValidRequestId(id[x])
            /\ client[x].id.Set /\ ValidRequestId(client[x].id.Value)
                  => id[x] = client[x].id.Value
            /\ reply[x] = "generated" => out[x].id = id[x]
            /\ out[x].body.type = "ServiceUnavailableHeaders"
                  => out[x].body.value.Response.error.requestId = id[x]

\* The operation of the fixture is in the generated router but is not reachable:
\* no path brings a request to its handlers.
OrganizationHidden ==
    \A x \in Exchanges : route[x].op # "getOrganization"

\* A readiness probe says 200 exactly when it read the flag between MarkReady
\* and MarkNotReady, and 503 otherwise: one that is answered after the process
\* began to drain may still say 200, but only if it read the flag before.  A
\* liveness probe says 200 at any time.  Behind withRequestID nothing is left to
\* refuse - never 400 for the id of the request, nor 401 - and what a handler
\* answers is valid under the schema, which the encoder does not check.
ProbeTellsTheTime ==
    \A x \in Exchanges :
        /\ pc[x] \in {"count", "done"} /\ route[x].op \in Operations
           => out[x].status =
                IF route[x].op = "getLiveness" \/ saw[x] = "serving" THEN 200
                ELSE 503
        /\ result[x].type # "nil" => ValidateResponse(result[x]) = {}

\* The counters of the generated server add up with several requests in flight.
TelemetryAddsUp == Generated!TelemetryAddsUp

\* Everything the routes do to the generated server is something it expects of
\* the handlers and requests it is specified for.
ImplementsGenerated == Generated!Spec

\* Every request is answered, in time or not.
Answered == \A x \in Exchanges : outer[x] = "received" ~> outer[x] = "answered"
=============================================================================
