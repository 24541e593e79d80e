------------------------- MODULE OpenApiServer_proofs -------------------------
(***************************************************************************)
(* Theorems about OpenApiServer: for any finite number of requests at a    *)
(* time, any handlers, any security handler, any options and any requests. *)
(***************************************************************************)
EXTENDS OpenApiServer, FiniteSetTheorems, TLAPS

\* The steps before the first byte of the response can be written.
Silent == {"idle", "route", "secure", "decode", "call", "encode"}

\* Nothing has been done for the request.
Untouched(x) ==
    fault[x] = "none" /\ params[x] = NoParams /\ result[x] = NoResult

\* The security handler has let the request pass.
Admitted(x) == session[x] = "accept"

\* The status of an error as the ErrorHandler of the server sends it.
ErrorSent(status) ==
    CASE cfg.ErrorHandler = "default" -> status
      [] cfg.ErrorHandler = "body_only" -> 200
      [] OTHER -> CustomStatus

\* Every goroutine has its place in each function.
Domains ==
    /\ DOMAIN pc = Exchanges /\ DOMAIN req = Exchanges
    /\ DOMAIN route = Exchanges /\ DOMAIN params = Exchanges
    /\ DOMAIN result = Exchanges /\ DOMAIN out = Exchanges
    /\ DOMAIN code = Exchanges /\ DOMAIN fault = Exchanges
    /\ DOMAIN span = Exchanges /\ DOMAIN session = Exchanges

\* What the variables of one goroutine may be.
Typed(x) ==
    /\ pc[x] \in Steps
    /\ req[x] \in Inputs \union {NoRequest}
    /\ route[x].op \in Operations \union {"none"}
    /\ params[x] \in [XRequestID: OptRequestId, OrganizationId: UUID]
    /\ pc[x] = "encode" => result[x] \in Outcomes[route[x].op]
    /\ \/ result[x] = NoResult
       \/ result[x] \in UNION {Outcomes[op] : op \in Operations}
    /\ DOMAIN out[x] = DOMAIN Blank
    /\ out[x].status \in Statuses
    /\ out[x].id \in Text
    /\ session[x] \in {"unasked", "accept", "skip", "deny"}
    /\ code[x] \in Statuses
    /\ fault[x] \in Faults
    /\ span[x] \in {"unset", "error"}

\* Where a request is says what has been done for it.
Staged(x) ==
    /\ pc[x] \in {"idle", "route"} => route[x].op = "none"
    /\ pc[x] \notin {"idle", "route", "done"} => Observed(x)
    /\ pc[x] \in {"idle", "route", "secure"} => Untouched(x)
    /\ pc[x] \in Silent =>
          fault[x] = "none" /\ out[x].status = 0 /\ code[x] = 0
    /\ pc[x] = "record" => fault[x] # "none"

\* A request that needs a session has one once its parameters are looked at, or
\* it has failed in the security stage.
Guarded(x) ==
    route[x].op = "getOrganization" /\ ~Admitted(x) =>
        /\ params[x] = NoParams /\ result[x] = NoResult
        /\ pc[x] \in {"secure", "record", "count", "done"}
        /\ pc[x] # "secure" =>
              /\ fault[x] \in {"Security", "Security:CookieSession"}
              /\ out[x].status = ErrorSent(401)

\* What the recorder believes is what the client was sent.
Recorded(x) ==
    pc[x] \notin Silent /\ Observed(x)
    => \/ code[x] = out[x].status
       \/ out[x].cut /\ fault[x] = "EncodeResponse"
       \/ /\ cfg.ErrorHandler = "body_only" /\ fault[x] # "none"
          /\ code[x] = 0 /\ out[x].status = 200

\* Nothing arrives before the server is built.
Built == up = "no" => \A x \in Exchanges : pc[x] = "idle"

GoroutineInv(x) == Typed(x) /\ Staged(x) /\ Guarded(x) /\ Recorded(x)

\* Nothing of the goroutine of y moves.
Still(y) ==
    /\ pc'[y] = pc[y] /\ req'[y] = req[y] /\ route'[y] = route[y]
    /\ params'[y] = params[y] /\ result'[y] = result[y] /\ out'[y] = out[y]
    /\ code'[y] = code[y] /\ fault'[y] = fault[y] /\ span'[y] = span[y]
    /\ session'[y] = session[y]

\* A step of one goroutine moves no other.
StepOf(x) ==
    /\ Domains' /\ GoroutineInv(x)' /\ UNCHANGED configuration
    /\ \A y \in Exchanges \ {x} : Still(y)

\* Every exchange is at a stage with what belongs to it.
RequestInv == Domains /\ Built /\ \A x \in Exchanges : GoroutineInv(x)

-----------------------------------------------------------------------------

\* The values of every response type have an id.
LEMMA ResponseHasId ==
    ASSUME NEW op \in Operations, NEW t \in ResponseTypes[op],
           NEW v \in ValuesOf(t)
    PROVE  v.XRequestID \in Text
<1> DEFINE Envelope == [XRequestID: Text, Response: ErrorEnvelope]
<1>1. \/ t = "HealthStatusHeaders" /\ v \in HealthStatusHeaders
      \/ t = "OrganizationHeaders" /\ v \in OrganizationHeaders
      \/ t = "ServiceUnavailableHeaders" /\ v \in ServiceUnavailableHeaders
      \/ v \in Envelope
  BY DEF Operations, ResponseTypes, ValuesOf, BadRequestHeaders,
     AuthenticationRequiredHeaders, PermissionDeniedHeaders,
     OrganizationNotFoundHeaders, InternalErrorHeaders
<1> QED
  BY <1>1 DEF HealthStatusHeaders, OrganizationHeaders,
     ServiceUnavailableHeaders

\* Encoding sends the status of the response's type with the response's id.
LEMMA EncodedResponse ==
    ASSUME NEW op \in Operations, NEW res, NEW w, DOMAIN w = DOMAIN Blank,
           res.type \in ResponseTypes[op], res.value \in ValuesOf(res.type),
           NEW e, e = EncodeResponse(op, w, res)
    PROVE  /\ DOMAIN e = DOMAIN Blank
           /\ e.status = StatusOf[res.type] /\ e.status \in Statuses
           /\ e.id = res.value.XRequestID /\ e.id \in Text
           /\ e.cut = w.cut
           /\ e.body = [type |-> res.type, value |-> res.value]
<1> DEFINE b == WithBody(w, res)
<1>1. /\ DOMAIN b = DOMAIN Blank
      /\ b.status = StatusOf[res.type]
      /\ b.id = res.value.XRequestID
      /\ b.cut = w.cut
      /\ b.body = [type |-> res.type, value |-> res.value]
  BY DEF WithBody, Blank
<1>2. StatusOf[res.type] \in Statuses
  BY DEF StatusOf, Statuses, ResponseTypes, Operations
<1>3. res.value.XRequestID \in Text
  BY ResponseHasId
<1>4. e \in {b, [b EXCEPT !.retry = res.value.RetryAfter],
          [b EXCEPT !.etag = res.value.ETag]}
  BY DEF EncodeResponse, EncodeGetLivenessResponse, Operations,
     EncodeGetReadinessResponse, EncodeGetOrganizationResponse
<1> HIDE DEF b
<1> QED
  BY <1>1, <1>2, <1>3, <1>4 DEF Blank

\* An error is written, and recorded, with one status.
LEMMA WrittenError ==
    ASSUME NEW w, DOMAIN w = DOMAIN Blank, w.status = 0,
           NEW status \in {400, 401, 500, 501}
    PROVE  LET e == WriteError(w, status)
           IN /\ DOMAIN e = DOMAIN Blank /\ e.id = w.id
              /\ e.status = ErrorSent(status) /\ e.status \in Statuses
<1> DEFINE e == WriteError(w, status)
<1>1. CASE cfg.ErrorHandler = "default"
  <2>1. e = [w EXCEPT !.status = status, !.content = "json",
                      !.body = Nothing("error_message")]
    BY <1>1 DEF WriteError
  <2>2. ErrorSent(status) = status /\ status \in Statuses
    BY <1>1 DEF ErrorSent, Statuses
  <2> QED
    BY <2>1, <2>2 DEF Blank
<1>2. CASE cfg.ErrorHandler = "body_only"
  <2>1. e = [w EXCEPT !.status = 200]
    BY <1>2 DEF WriteError
  <2>2. ErrorSent(status) = 200 /\ 200 \in Statuses
    BY <1>2 DEF ErrorSent, Statuses
  <2> QED
    BY <2>1, <2>2 DEF Blank
<1>3. CASE cfg.ErrorHandler \notin {"default", "body_only"}
  <2>1. e = [w EXCEPT !.status = CustomStatus]
    BY <1>3 DEF WriteError
  <2>2. ErrorSent(status) = CustomStatus /\ CustomStatus \in Statuses
    BY <1>3 DEF ErrorSent, Statuses
  <2> QED
    BY <2>1, <2>2 DEF Blank
<1> QED
  BY <1>1, <1>2, <1>3

\* Decoded parameters are typed.
LEMMA DecodedParams ==
    ASSUME NEW op \in Operations, NEW r \in Inputs \union {NoRequest}, NEW arg,
           DecodeParams(op, r, arg).ok
    PROVE  DecodeParams(op, r, arg).value
              \in [XRequestID: OptRequestId, OrganizationId: UUID]
<1>1. r.id \in OptRequestId
  <2>1. UnsetId \in OptRequestId
    BY TextAssumption DEF OptRequestId, UnsetId
  <2>2. CASE r \in Inputs
    BY <2>2, InputAssumption
  <2>3. CASE r = NoRequest
    BY <2>1, <2>3 DEF NoRequest
  <2> QED
    BY <2>2, <2>3
<1>2. NoUUID \in UUID /\ UnsetId \in OptRequestId
  BY ServerAssumption, TextAssumption DEF OptRequestId, UnsetId
<1>3. CASE op = "getLiveness" \/ op = "getReadiness"
  <2>1. DecodeParams(op, r, arg).value = [NoParams EXCEPT !.XRequestID = r.id]
    BY <1>3 DEF DecodeParams, DecodeGetLivenessParams,
       DecodeGetReadinessParams, BadParams
  <2>2. DecodeParams(op, r, arg).value =
           [XRequestID |-> r.id, OrganizationId |-> NoUUID]
    BY <2>1 DEF NoParams
  <2> QED
    BY <1>1, <1>2, <2>2
<1>4. CASE op = "getOrganization"
  <2> DEFINE param == IF arg.escaped THEN PathUnescape(arg.args) ELSE arg.args
  <2>1. /\ Head(param) \in DOMAIN ParseUUID
        /\ DecodeParams(op, r, arg).value =
              [XRequestID |-> r.id, OrganizationId |-> ParseUUID[Head(param)]]
    BY <1>4 DEF DecodeParams, DecodeGetOrganizationParams, BadParams
  <2>2. ParseUUID[Head(param)] \in UUID
    BY <2>1, TextAssumption
  <2> QED
    BY <1>1, <2>1, <2>2
<1> QED
  BY <1>3, <1>4 DEF Operations

-----------------------------------------------------------------------------

\* A goroutine that does not move keeps the invariant ...
LEMMA StillKeeps ==
    ASSUME NEW y \in Exchanges, GoroutineInv(y), Still(y), UNCHANGED cfg
    PROVE  GoroutineInv(y)'
  BY DEF Still, GoroutineInv, Typed, Staged, Guarded, Recorded, Untouched,
     Admitted, Observed, ErrorSent

\* ... so a step is good if it is for the goroutine that takes it.
LEMMA StepKeeps ==
    ASSUME RequestInv, NEW x \in Exchanges, StepOf(x), up # "no"
    PROVE  RequestInv'
  BY StillKeeps DEF StepOf, RequestInv, configuration, Built

\* An error of a stage that has sent nothing yet.
LEMMA FailStep ==
    ASSUME NEW x \in Exchanges, RequestInv,
           pc[x] \in Silent \ {"idle", "route"},
           NEW stage \in Faults \ {"none"}, NEW status \in {400, 401, 500, 501},
           Fail(x, stage, status)
    PROVE  /\ DOMAIN pc' = Exchanges /\ DOMAIN out' = Exchanges
           /\ DOMAIN code' = Exchanges /\ DOMAIN fault' = Exchanges
           /\ pc'[x] = "record" /\ fault'[x] = stage
           /\ DOMAIN out'[x] = DOMAIN Blank
           /\ out'[x].status \in Statuses /\ out'[x].id \in Text
           /\ out'[x].status = ErrorSent(status) /\ code'[x] \in Statuses
           /\ \/ code'[x] = out'[x].status
              \/ /\ cfg.ErrorHandler = "body_only"
                 /\ code'[x] = 0 /\ out'[x].status = 200
           /\ \A y \in Exchanges \ {x} :
                 /\ pc'[y] = pc[y] /\ fault'[y] = fault[y]
                 /\ out'[y] = out[y] /\ code'[y] = code[y]
<1>1. GoroutineInv(x) /\ Domains
  BY DEF RequestInv
<1>2. /\ DOMAIN out[x] = DOMAIN Blank /\ out[x].status = 0
      /\ out[x].id \in Text /\ code[x] = 0
  BY <1>1 DEF GoroutineInv, Typed, Staged
<1>3. /\ DOMAIN out' = Exchanges /\ out'[x] = WriteError(out[x], status)
      /\ DOMAIN code' = Exchanges /\ code'[x] = Noted(0, status)
  BY <1>1, <1>2 DEF Fail, Domains
<1>4. /\ out'[x].status = ErrorSent(status) /\ out'[x].status \in Statuses
      /\ DOMAIN out'[x] = DOMAIN Blank /\ out'[x].id \in Text
  BY <1>2, <1>3, WrittenError
<1>5. Noted(0, status) = IF cfg.ErrorHandler = "body_only" THEN 0
                         ELSE ErrorSent(status)
  BY DEF Noted, ErrorSent
<1>6. /\ 0 \in Statuses
      /\ cfg.ErrorHandler = "body_only" => ErrorSent(status) = 200
  BY DEF Statuses, ErrorSent
<1> QED
  BY <1>1, <1>3, <1>4, <1>5, <1>6 DEF Fail, Domains

\* A request arrives.
LEMMA ReceiveStep ==
    ASSUME RequestInv, NEW x \in Exchanges, NEW r \in Inputs, Receive(x, r)
    PROVE  StepOf(x)
<1>0. UNCHANGED configuration /\ UNCHANGED cfg
  BY DEF Receive, configuration
<1>1. GoroutineInv(x) /\ Domains
  BY DEF RequestInv
<1>2. r.preset \in Text
  BY InputAssumption
<1>3. /\ DOMAIN out'[x] = DOMAIN Blank /\ out'[x].status = 0
      /\ out'[x].id = r.preset
  BY <1>1 DEF Receive, Domains, Blank
<1> QED
  BY <1>0, <1>1, <1>2, <1>3
  DEF Receive, StepOf, Still, Domains, GoroutineInv, Typed, Staged, Guarded,
      ErrorSent, Recorded, Untouched, Observed, Silent, Steps, configuration,
      counters, Statuses

\* The server answers a request that has no route.
LEMMA UnroutedStep ==
    ASSUME RequestInv, NEW x \in Exchanges, Unrouted(x)
    PROVE  StepOf(x)
<1>0. UNCHANGED configuration /\ UNCHANGED cfg
  BY DEF Unrouted, configuration
<1>1. GoroutineInv(x) /\ Domains
  BY DEF RequestInv
<1>2. out'[x] = NotFound(out[x]) \/ out'[x] = NotAllowed(out[x], req[x])
  BY <1>1 DEF Unrouted, Domains
<1>3. /\ DOMAIN out'[x] = DOMAIN Blank /\ out'[x].status \in Statuses
      /\ out'[x].id \in Text
  <2>1. DOMAIN out[x] = DOMAIN Blank /\ out[x].id \in Text
    BY <1>1 DEF GoroutineInv, Typed
  <2>2. CASE out'[x] = NotFound(out[x])
    BY <2>1, <2>2 DEF NotFound, Blank, Statuses
  <2>3. CASE out'[x] = NotAllowed(out[x], req[x])
    <3> DEFINE told == IF req[x].method # "OPTIONS" THEN {}
                       ELSE {"Access-Control-Allow-Methods"}
                            \union IF req[x].asks = "GET"
                                   THEN {"Access-Control-Allow-Headers"} ELSE {}
    <3>1. \/ out'[x] = [out[x] EXCEPT !.status = CustomStatus, !.allow = told]
          \/ out'[x] = [out[x] EXCEPT !.status = 204, !.allow = told]
          \/ out'[x] = [out[x] EXCEPT !.status = 405, !.allow = {"Allow"}]
      BY <2>3 DEF NotAllowed
    <3> HIDE DEF told
    <3>2. {CustomStatus, 204, 405} \subseteq Statuses
      BY DEF Statuses
    <3>3. CASE out'[x] = [out[x] EXCEPT !.status = CustomStatus, !.allow = told]
      BY <2>1, <3>2, <3>3 DEF Blank
    <3>4. CASE out'[x] = [out[x] EXCEPT !.status = 204, !.allow = told]
      BY <2>1, <3>2, <3>4 DEF Blank
    <3>5. CASE out'[x] = [out[x] EXCEPT !.status = 405, !.allow = {"Allow"}]
      BY <2>1, <3>2, <3>5 DEF Blank
    <3> QED
      BY <3>1, <3>3, <3>4, <3>5
  <2> QED
    BY <1>2, <2>2, <2>3
<1>4. route'[x].op = "none" /\ pc'[x] = "done"
  BY <1>1 DEF Unrouted, GoroutineInv, Staged, Domains
<1> QED
  BY <1>0, <1>1, <1>3, <1>4
  DEF Unrouted, StepOf, Still, Domains, GoroutineInv, Typed, Staged, Guarded,
      ErrorSent, Recorded, Untouched, Observed, Silent, Steps, configuration,
      counters, Operations

\* The handler of an operation is called.
LEMMA StartStep ==
    ASSUME RequestInv, NEW x \in Exchanges, Start(x)
    PROVE  StepOf(x)
<1>0. UNCHANGED configuration /\ UNCHANGED cfg
  BY DEF Start, configuration
<1>1. GoroutineInv(x) /\ Domains
  BY DEF RequestInv
<1>2. /\ pc[x] = "route" /\ route'[x].op \in Operations
      /\ pc'[x] = IF route'[x].op = "getOrganization" THEN "secure"
                  ELSE "decode"
      /\ DOMAIN pc' = Exchanges /\ DOMAIN route' = Exchanges
      /\ \A y \in Exchanges \ {x} : pc'[y] = pc[y] /\ route'[y] = route[y]
  BY <1>1 DEF Start, Domains
<1>3. UNCHANGED <<req, session, params, result, out, code, fault, span>>
  BY DEF Start
<1> QED
  BY <1>0, <1>1, <1>2, <1>3
  DEF StepOf, Still, Domains, GoroutineInv, Typed, Staged, Guarded, ErrorSent,
      Recorded, Untouched, Observed, Silent, Steps

\* The security handler is asked, if there is a cookie.
LEMMA SecureStep ==
    ASSUME RequestInv, NEW x \in Exchanges, Secure(x)
    PROVE  StepOf(x)
<1>0. UNCHANGED configuration /\ UNCHANGED cfg
  BY DEF Secure, configuration
<1>1. GoroutineInv(x) /\ Domains
  BY DEF RequestInv
<1>2. pc[x] = "secure" /\ UNCHANGED <<req, route, params, result, span>>
  BY DEF Secure
<1>3. PICK s \in CookieSession(req[x]) :
          /\ session' = [session EXCEPT ![x] = s]
          /\ \/ /\ s = "accept"
                /\ pc' = [pc EXCEPT ![x] = "decode"]
                /\ UNCHANGED <<fault, out, code>>
             \/ s = "deny" /\ Fail(x, "Security:CookieSession", 401)
             \/ s \in {"skip", "unasked"} /\ Fail(x, "Security", 401)
  BY DEF Secure
<1>4. /\ s \in {"unasked", "accept", "skip", "deny"}
      /\ DOMAIN session' = Exchanges /\ session'[x] = s
      /\ \A y \in Exchanges \ {x} : session'[y] = session[y]
  BY <1>1, <1>3, ServerAssumption DEF CookieSession, Domains
<1>5. CASE /\ s = "accept" /\ pc' = [pc EXCEPT ![x] = "decode"]
           /\ UNCHANGED <<fault, out, code>>
  BY <1>0, <1>1, <1>2, <1>4, <1>5
  DEF StepOf, Still, Domains, GoroutineInv, Typed, Staged, Guarded, ErrorSent,
      Recorded, Untouched, Observed, Admitted, Silent, Steps
<1>6. ASSUME NEW stage \in {"Security", "Security:CookieSession"},
             Fail(x, stage, 401)
      PROVE  StepOf(x)
  <2>1. stage \in Faults \ {"none"}
    BY DEF Faults
  <2> HIDE DEF Fail
  <2>2. pc[x] \in Silent \ {"idle", "route"}
    BY <1>2 DEF Silent
  <2> QED
    BY <1>0, <1>1, <1>2, <1>4, <1>6, <2>1, <2>2, FailStep
    DEF StepOf, Still, Domains, GoroutineInv, Typed, Staged, Guarded, ErrorSent,
        Recorded, Untouched, Observed, Silent, Steps
<1> QED
  BY <1>3, <1>5, <1>6

\* The parameters are decoded.
LEMMA DecodeStep ==
    ASSUME RequestInv, NEW x \in Exchanges, Decode(x), Observed(x)
    PROVE  StepOf(x)
<1>0. UNCHANGED configuration /\ UNCHANGED cfg
  BY DEF Decode, configuration
<1>1. GoroutineInv(x) /\ Domains
  BY DEF RequestInv
<1>2. pc[x] = "decode" /\ UNCHANGED <<req, route, session, result, span>>
  BY DEF Decode
<1>3. route[x].op = "getOrganization" => Admitted(x)
  BY <1>1, <1>2 DEF GoroutineInv, Guarded
<1> DEFINE decoded == DecodeParams(route[x].op, req[x], route[x])
<1>4. CASE decoded.ok
  <2>1. /\ params' = [params EXCEPT ![x] = decoded.value]
        /\ pc' = [pc EXCEPT ![x] = "call"]
        /\ UNCHANGED <<fault, out, code>>
    BY <1>4 DEF Decode
  <2>2. decoded.value \in [XRequestID: OptRequestId, OrganizationId: UUID]
    BY <1>1, <1>4, DecodedParams DEF Observed, GoroutineInv, Typed
  <2> HIDE DEF decoded
  <2> QED
    BY <1>0, <1>1, <1>2, <1>3, <2>1, <2>2
    DEF StepOf, Still, Domains, GoroutineInv, Typed, Staged, Guarded, ErrorSent,
        Recorded, Untouched, Observed, Admitted, Silent, Steps
<1>5. CASE ~decoded.ok
  <2>1. Fail(x, "DecodeParams", 400) /\ UNCHANGED params
    BY <1>5 DEF Decode
  <2>2. pc[x] \in Silent \ {"idle", "route"} /\ "DecodeParams" \in Faults
    BY <1>2 DEF Silent, Faults
  <2> QED
    BY <1>0, <1>1, <1>2, <1>3, <2>1, <2>2, FailStep
    DEF StepOf, Still, Domains, GoroutineInv, Typed, Staged, Guarded, ErrorSent,
        Recorded, Observed, Admitted, Silent, Steps, Faults
<1> QED
  BY <1>4, <1>5

\* A middleware hands on what it got, or the zero value of some of it.
LEMMA HandedParams ==
    ASSUME NEW x \in Exchanges, Observed(x),
           params[x] \in [XRequestID: OptRequestId, OrganizationId: UUID],
           NEW p \in Handed(x)
    PROVE  p \in [XRequestID: OptRequestId, OrganizationId: UUID]
<1> DEFINE P == [XRequestID: OptRequestId, OrganizationId: UUID]
           named == [OrganizationId |-> params[x].OrganizationId]
<1>1. UnsetId \in OptRequestId /\ NoUUID \in UUID
  BY TextAssumption, ServerAssumption DEF OptRequestId, UnsetId
<1>2. /\ "OrganizationId" \in DOMAIN named /\ "XRequestID" \notin DOMAIN named
      /\ named.OrganizationId \in UUID /\ params[x].OrganizationId \in UUID
      /\ params[x].XRequestID \in OptRequestId
  OBVIOUS
<1> HIDE DEF named
<1>3. ASSUME NEW q \in {params[x], named}
      PROVE  UnpackParams(route[x].op, q) \in P
  <2> DEFINE i == IF "XRequestID" \in DOMAIN q THEN q.XRequestID ELSE UnsetId
  <2>1. i \in OptRequestId /\ q.OrganizationId \in UUID
    BY <1>1, <1>2, <1>3
  <2>2. \/ UnpackParams(route[x].op, q) = [NoParams EXCEPT !.XRequestID = i]
        \/ UnpackParams(route[x].op, q) =
              [XRequestID |-> i, OrganizationId |-> q.OrganizationId]
    BY DEF Observed, Operations, UnpackParams, UnpackGetLivenessParams,
       UnpackGetReadinessParams, UnpackGetOrganizationParams
  <2>3. [NoParams EXCEPT !.XRequestID = i] =
           [XRequestID |-> i, OrganizationId |-> NoUUID]
    BY DEF NoParams
  <2> QED
    BY <1>1, <2>1, <2>2, <2>3
<1>4. p \in {params[x], UnpackParams(route[x].op, params[x]),
             UnpackParams(route[x].op, named)}
  BY DEF Handed, named
<1> QED
  BY <1>3, <1>4

\* The handler or a middleware returns, with what may be left of the parameters.
LEMMA CallStep ==
    ASSUME RequestInv, NEW x \in Exchanges, Observed(x),
           NEW o \in Outcomes[route[x].op], Call(x, o)
    PROVE  StepOf(x)
<1>0. UNCHANGED configuration /\ UNCHANGED cfg
  BY DEF Call, configuration
<1>1. GoroutineInv(x) /\ Domains
  BY DEF RequestInv
<1>2. pc[x] = "call" /\ UNCHANGED <<req, route, session, span>>
  BY DEF Call
<1>3. route[x].op = "getOrganization" => Admitted(x)
  BY <1>1, <1>2 DEF GoroutineInv, Guarded
<1>4. /\ DOMAIN params' = Exchanges /\ DOMAIN result' = Exchanges
      /\ result'[x] = o
      /\ params'[x] \in [XRequestID: OptRequestId, OrganizationId: UUID]
      /\ \A y \in Exchanges \ {x} : params'[y] = params[y]
                                    /\ result'[y] = result[y]
  <2>1. PICK p \in Handed(x) : params' = [params EXCEPT ![x] = p]
    BY DEF Call
  <2>2. p \in [XRequestID: OptRequestId, OrganizationId: UUID]
    BY <1>1, <2>1, HandedParams DEF GoroutineInv, Typed
  <2>3. result' = [result EXCEPT ![x] = o]
    BY DEF Call
  <2> QED
    BY <1>1, <2>1, <2>2, <2>3 DEF Domains
<1>5. CASE o.err = "none"
  <2>1. pc' = [pc EXCEPT ![x] = "encode"] /\ UNCHANGED <<fault, out, code>>
    BY <1>5 DEF Call
  <2> QED
    BY <1>0, <1>1, <1>2, <1>3, <1>4, <2>1
    DEF StepOf, Still, Domains, GoroutineInv, Typed, Staged, Guarded, ErrorSent,
        Recorded, Untouched, Observed, Admitted, Silent, Steps
<1>6. CASE o.err # "none"
  <2>1. Fail(x, "Internal", ErrorStatus(o.err))
    BY <1>6 DEF Call
  <2>2. /\ pc[x] \in Silent \ {"idle", "route"}
        /\ "Internal" \in Faults \ {"none"}
        /\ ErrorStatus(o.err) \in {400, 401, 500, 501}
    BY <1>2 DEF Silent, Faults, ErrorStatus
  <2> HIDE DEF Fail
  <2> QED
    BY <1>0, <1>1, <1>2, <1>3, <1>4, <2>1, <2>2, FailStep
    DEF StepOf, Still, Domains, GoroutineInv, Typed, Staged, Guarded, ErrorSent,
        Recorded, Observed, Admitted, Silent, Steps
<1> QED
  BY <1>5, <1>6

\* A middleware refuses, or the response has no type of the operation.
LEMMA RefuseStep ==
    ASSUME RequestInv, NEW x \in Exchanges, Observed(x),
           Refuse(x) \/ EncodeUnexpected(x)
    PROVE  StepOf(x)
<1>0. UNCHANGED configuration /\ UNCHANGED cfg
  BY DEF Refuse, EncodeUnexpected, configuration
<1>1. GoroutineInv(x) /\ Domains
  BY DEF RequestInv
<1>2. /\ pc[x] \in {"call", "encode"}
      /\ UNCHANGED <<req, route, session, params, result, span>>
  BY DEF Refuse, EncodeUnexpected
<1>3. PICK stage \in {"Internal", "EncodeResponse"} : Fail(x, stage, 500)
  BY DEF Refuse, EncodeUnexpected, ErrorStatus
<1>4. /\ pc[x] \in Silent \ {"idle", "route"} /\ stage \in Faults \ {"none"}
      /\ stage # "DecodeParams"
  BY <1>2, <1>3 DEF Silent, Faults
<1>5. route[x].op = "getOrganization" => Admitted(x)
  BY <1>1, <1>2 DEF GoroutineInv, Guarded
<1> QED
  BY <1>0, <1>1, <1>2, <1>3, <1>4, <1>5, FailStep
  DEF StepOf, Still, Domains, GoroutineInv, Typed, Staged, Guarded, ErrorSent,
      Recorded, Observed, Admitted, Silent, Steps

\* The response is encoded, whether its body gets through or not.
LEMMA EncodeStep ==
    ASSUME RequestInv, NEW x \in Exchanges, Observed(x),
           Encode(x) \/ EncodeCut(x)
    PROVE  StepOf(x)
<1> DEFINE w == EncodeResponse(route[x].op, out[x], result[x])
<1> HIDE DEF w
<1>0. UNCHANGED configuration /\ UNCHANGED cfg
  BY DEF Encode, EncodeCut, configuration
<1>1. GoroutineInv(x) /\ Domains
  BY DEF RequestInv
<1>2. /\ pc[x] = "encode" /\ UNCHANGED <<req, route, session, params, result>>
      /\ result[x].type \in ResponseTypes[route[x].op]
  BY DEF Encode, EncodeCut
<1>3. route[x].op = "getOrganization" => Admitted(x)
  BY <1>1, <1>2 DEF GoroutineInv, Guarded
<1>4. /\ DOMAIN w = DOMAIN Blank /\ w.status \in Statuses /\ w.id \in Text
  <2>1. result[x] \in Outcomes[route[x].op] /\ DOMAIN out[x] = DOMAIN Blank
    BY <1>1, <1>2 DEF GoroutineInv, Typed
  <2>2. result[x].type # "nil"
    BY <1>2 DEF ResponseTypes, Operations, Observed
  <2>3. result[x].value \in ValuesOf(result[x].type)
    BY <2>1, <2>2, OutcomeAssumption DEF Observed
  <2>4. route[x].op \in Operations
    BY DEF Observed
  <2> DEFINE op == route[x].op
             res == result[x]
             before == out[x]
  <2>5. /\ op \in Operations /\ DOMAIN before = DOMAIN Blank
        /\ res.type \in ResponseTypes[op] /\ res.value \in ValuesOf(res.type)
        /\ w = EncodeResponse(op, before, res)
    BY <1>2, <2>1, <2>3, <2>4 DEF w
  <2> HIDE DEF op, res, before
  <2> QED
    BY <2>5, EncodedResponse
<1>5. span'[x] \in {"unset", "error"} /\ DOMAIN span' = Exchanges
      /\ \A y \in Exchanges \ {x} : span'[y] = span[y]
  BY <1>1 DEF Encode, EncodeCut, Domains, GoroutineInv, Typed
<1>6. CASE Encode(x)
  <2>1. /\ out' = [out EXCEPT ![x] = w] /\ code' = [code EXCEPT ![x] = w.status]
        /\ pc' = [pc EXCEPT ![x] = "count"] /\ UNCHANGED fault
    BY <1>6 DEF Encode, w
  <2> QED
    BY <1>0, <1>1, <1>2, <1>3, <1>4, <1>5, <2>1
    DEF StepOf, Still, Domains, GoroutineInv, Typed, Staged, Guarded, ErrorSent,
        Recorded, Observed, Admitted, Silent, Steps
<1>7. CASE EncodeCut(x)
  <2>1. /\ out' = [out EXCEPT ![x] = [w EXCEPT !.cut = TRUE]]
        /\ pc' = [pc EXCEPT ![x] = "record"]
        /\ fault' = [fault EXCEPT ![x] = "EncodeResponse"]
    BY <1>7 DEF EncodeCut, w
  <2>2. /\ DOMAIN out'[x] = DOMAIN Blank /\ out'[x].status \in Statuses
        /\ out'[x].id \in Text /\ out'[x].cut
    BY <1>1, <1>4, <2>1 DEF Domains, Blank
  <2>3. /\ DOMAIN code' = Exchanges /\ code'[x] \in Statuses
        /\ \A y \in Exchanges \ {x} : code'[y] = code[y]
    <3>1. code' = [code EXCEPT ![x] = Noted(w.status, 500)]
      BY <1>7 DEF EncodeCut, w
    <3>2. Noted(w.status, 500) \in {500, w.status, CustomStatus}
      BY DEF Noted
    <3> QED
      BY <1>1, <1>4, <3>1, <3>2 DEF Domains, Statuses
  <2> QED
    BY <1>0, <1>1, <1>2, <1>3, <1>5, <2>1, <2>2, <2>3
    DEF StepOf, Still, Domains, GoroutineInv, Typed, Staged, Guarded, ErrorSent,
        Recorded, Observed, Admitted, Silent, Steps, Faults
<1> QED
  BY <1>6, <1>7

\* The deferred functions of a handler only count.
LEMMA CountingStep ==
    ASSUME RequestInv, NEW x \in Exchanges, Observed(x),
           RecordError(x) \/ CountRequest(x)
    PROVE  StepOf(x)
<1>0. UNCHANGED configuration /\ UNCHANGED cfg
  BY DEF RecordError, CountRequest, configuration
<1>1. GoroutineInv(x) /\ Domains
  BY DEF RequestInv
<1>2. /\ pc[x] \in {"record", "count"} /\ pc'[x] \in {"count", "done"}
      /\ DOMAIN pc' = Exchanges /\ \A y \in Exchanges \ {x} : pc'[y] = pc[y]
      /\ UNCHANGED <<req, route, session, params, result, out, code, fault>>
  BY <1>1 DEF RecordError, CountRequest, Domains
<1>3. span'[x] \in {"unset", "error"} /\ DOMAIN span' = Exchanges
      /\ \A y \in Exchanges \ {x} : span'[y] = span[y]
  BY <1>1 DEF RecordError, CountRequest, Domains, GoroutineInv, Typed
<1>4. Typed(x)'
  BY <1>1, <1>2, <1>3 DEF Domains, GoroutineInv, Typed, Steps
<1>5. Staged(x)' /\ Guarded(x)' /\ Recorded(x)'
  BY <1>0, <1>1, <1>2
  DEF GoroutineInv, Staged, Guarded, ErrorSent, Recorded, Observed, Admitted,
      Silent
<1>6. Domains' /\ \A y \in Exchanges \ {x} : Still(y)
  BY <1>1, <1>2, <1>3 DEF Domains, Still
<1> QED
  BY <1>0, <1>4, <1>5, <1>6 DEF StepOf, GoroutineInv

\* Whatever a goroutine does while it serves is its own affair.
LEMMA ServeStep ==
    ASSUME RequestInv, NEW x \in Exchanges, Serve(x)
    PROVE  StepOf(x)
<1>1. CASE Unrouted(x)
  BY <1>1, UnroutedStep
<1>2. CASE Start(x)
  BY <1>2, StartStep
<1>3. ASSUME Observed(x), Secure(x) \/ Decode(x) \/ Respond(x)
      PROVE  StepOf(x)
  BY <1>3, SecureStep, DecodeStep, CallStep, RefuseStep, EncodeStep,
     CountingStep DEF Respond
<1> QED
  BY <1>1, <1>2, <1>3
  DEF Serve, HandleGetLivenessRequest, HandleGetOrganizationRequest,
      HandleGetReadinessRequest, Observed, Operations

-----------------------------------------------------------------------------

LEMMA RequestInvInit == Init => RequestInv
<1> SUFFICES ASSUME Init PROVE RequestInv
  OBVIOUS
<1>1. UnsetId \in OptRequestId /\ NoUUID \in UUID /\ "" \in Text
  BY TextAssumption, ServerAssumption DEF OptRequestId, UnsetId
<1>2. Domains
  BY DEF Init, Domains
<1> SUFFICES ASSUME NEW x \in Exchanges PROVE GoroutineInv(x)
  BY <1>2 DEF RequestInv, Built, Init
<1>3. /\ pc[x] = "idle" /\ req[x] = NoRequest /\ route[x].op = "none"
      /\ params[x] = NoParams /\ result[x] = NoResult /\ out[x] = Blank
      /\ session[x] = "unasked" /\ code[x] = 0
      /\ fault[x] = "none" /\ span[x] = "unset"
  BY DEF Init
<1>4. /\ Blank.status = 0 /\ Blank.id \in Text /\ ~Observed(x)
      /\ NoParams \in [XRequestID: OptRequestId, OrganizationId: UUID]
  BY <1>1, <1>3 DEF Blank, Observed, NoParams, Operations
<1>5. Typed(x)
  BY <1>3, <1>4 DEF Typed, Steps, Statuses, Faults
<1> QED
  BY <1>3, <1>4, <1>5
  DEF GoroutineInv, Staged, Guarded, Recorded, Untouched, Silent

LEMMA RequestInvNext == RequestInv /\ [Next]_vars => RequestInv'
<1> SUFFICES ASSUME RequestInv, [Next]_vars PROVE RequestInv'
  OBVIOUS
<1>1. CASE UNCHANGED vars
  BY <1>1
  DEF vars, RequestInv, Built, Domains, GoroutineInv, Typed, Staged, Guarded,
      Recorded, Untouched, Admitted, Observed, ErrorSent
<1>2. CASE NewServer
  <2>1. ASSUME NEW x \in Exchanges PROVE pc[x] = "idle" /\ GoroutineInv(x)
    BY <1>2, <2>1 DEF NewServer, RequestInv, Built
  <2>2. UNCHANGED goroutine /\ up' # "no"
    BY <1>2 DEF NewServer
  <2>3. ASSUME NEW x \in Exchanges PROVE GoroutineInv(x)'
    BY <2>1, <2>2, <2>3
    DEF goroutine, GoroutineInv, Typed, Staged, Guarded, Recorded, Untouched,
        Observed, Silent, Operations
  <2> QED
    BY <2>2, <2>3 DEF goroutine, RequestInv, Built, Domains
<1>3. ASSUME NEW x \in Exchanges, NEW r \in Inputs, Receive(x, r)
      PROVE  RequestInv'
  BY <1>3, ReceiveStep, StepKeeps DEF Receive
<1>4. ASSUME NEW x \in Exchanges, Serve(x) PROVE RequestInv'
  <2>1. pc[x] # "idle"
    BY <1>4
    DEF Serve, Unrouted, Start, HandleGetLivenessRequest, Respond,
        HandleGetOrganizationRequest, HandleGetReadinessRequest, Secure,
        Decode, Call, Refuse, Encode, EncodeCut, EncodeUnexpected,
        RecordError, CountRequest
  <2> QED
    BY <1>4, <2>1, ServeStep, StepKeeps DEF RequestInv, Built
<1> QED
  BY <1>1, <1>2, <1>3, <1>4 DEF Next

LEMMA RequestInvAlways == Spec => []RequestInv
  BY RequestInvInit, RequestInvNext, PTL DEF Spec

\* SessionFirst: a request whose cookie the security handler did not accept gets
\* the answer of the security stage, whatever else it brings.
THEOREM StrangersLearnNothing == Spec => []SessionFirst
<1>1. RequestInv => SessionFirst
  BY DEF RequestInv, GoroutineInv, Typed, Guarded, Admitted, ErrorSent,
     SessionFirst
<1> QED
  BY <1>1, RequestInvAlways, PTL

\* TelemetryMatchesWire, whatever the handlers return and the clients do.
THEOREM TelemetryIsTrue == Spec => []TelemetryMatchesWire
<1>1. RequestInv => TelemetryMatchesWire
  BY DEF RequestInv, GoroutineInv, Recorded, Silent, TelemetryMatchesWire
<1> QED
  BY <1>1, RequestInvAlways, PTL

-----------------------------------------------------------------------------
(* The counters.                                                           *)

\* The requests that are counted under l, and those that are counted as failed.
Counted(l) ==
    {x \in Exchanges : Observed(x) /\ Label(x) = l /\ pc[x] = "done"}

CountedFailed(l) ==
    {x \in Exchanges : Observed(x) /\ Label(x) = l /\ fault[x] # "none"
                       /\ pc[x] \in {"count", "done"}}

Labels == Operations \X Statuses

CountersInv ==
    /\ requests \in [Labels -> Nat]
    /\ errors \in [Labels -> Nat]
    /\ \A l \in Labels : /\ requests[l] = Cardinality(Counted(l))
                         /\ errors[l] = Cardinality(CountedFailed(l))

\* A step of x after which there is nothing more of it to be counted.
Uncounted(x) ==
    /\ UNCHANGED counters
    /\ pc[x] \notin {"count", "done"}
    /\ pc'[x] \in {"count", "done"} /\ Observed(x)'
       => pc'[x] = "count" /\ fault'[x] = "none"

\* Cardinalities of the sets above are numbers.
LEMMA FinitelyMany ==
    ASSUME NEW l
    PROVE  /\ IsFiniteSet(Counted(l)) /\ Cardinality(Counted(l)) \in Nat
           /\ IsFiniteSet(CountedFailed(l))
           /\ Cardinality(CountedFailed(l)) \in Nat
<1>1. Counted(l) \subseteq Exchanges /\ CountedFailed(l) \subseteq Exchanges
  BY DEF Counted, CountedFailed
<1> QED
  BY <1>1, ServerAssumption, FS_Subset, FS_CardinalityType

LEMMA UncountedStep ==
    ASSUME CountersInv, NEW x \in Exchanges, Uncounted(x),
           \A y \in Exchanges \ {x} : Still(y)
    PROVE  CountersInv'
<1>1. ASSUME NEW l PROVE Counted(l)' = Counted(l)
  BY DEF Counted, Uncounted, Still, Observed, Label
<1>2. ASSUME NEW l PROVE CountedFailed(l)' = CountedFailed(l)
  BY DEF CountedFailed, Uncounted, Still, Observed, Label
<1> QED
  BY <1>1, <1>2 DEF CountersInv, Uncounted, counters

\* What a goroutine does before its deferred functions is not counted.
LEMMA QuietStep ==
    ASSUME RequestInv, NEW x \in Exchanges,
           \/ \E r \in Inputs : Receive(x, r)
           \/ Unrouted(x) \/ Start(x) \/ Secure(x) \/ Decode(x)
           \/ \E o \in Outcomes[route[x].op] : Call(x, o)
           \/ Refuse(x) \/ Encode(x) \/ EncodeCut(x) \/ EncodeUnexpected(x)
    PROVE  Uncounted(x)
<1>1. GoroutineInv(x) /\ Domains
  BY DEF RequestInv
<1>2. UNCHANGED counters /\ pc[x] \in Silent
  BY DEF Receive, Unrouted, Start, Secure, Decode, Call, Refuse, Encode,
     EncodeCut, EncodeUnexpected, Silent
<1>3. \/ pc'[x] \in {"route", "secure", "decode", "call", "encode", "record"}
      \/ pc'[x] = "done" /\ pc[x] = "route" /\ UNCHANGED route
      \/ pc'[x] = "count" /\ UNCHANGED fault
  BY <1>1 DEF Receive, Unrouted, Start, Secure, Decode, Call, Refuse, Encode,
     EncodeCut, EncodeUnexpected, Fail, Domains
<1> QED
  BY <1>1, <1>2, <1>3
  DEF Uncounted, Silent, GoroutineInv, Staged, Observed, Operations

LEMMA RecordErrorCounts ==
    ASSUME CountersInv, RequestInv, NEW x \in Exchanges, Observed(x),
           RecordError(x), \A y \in Exchanges \ {x} : Still(y)
    PROVE  CountersInv'
<1>1. GoroutineInv(x) /\ Domains
  BY DEF RequestInv
<1>2. Label(x) \in Labels
  BY <1>1 DEF Label, Labels, Observed, GoroutineInv, Typed
<1>3. fault[x] # "none" /\ pc[x] = "record" /\ pc'[x] = "count"
      /\ UNCHANGED <<route, code, fault, requests>>
      /\ errors' = [errors EXCEPT ![Label(x)] = @ + 1]
  BY <1>1 DEF RecordError, GoroutineInv, Staged, Domains
<1>4. ASSUME NEW l PROVE Counted(l)' = Counted(l)
  BY <1>3 DEF Counted, Still, Observed, Label
<1>5. ASSUME NEW l, l # Label(x) PROVE CountedFailed(l)' = CountedFailed(l)
  BY <1>3, <1>5 DEF CountedFailed, Still, Observed, Label
<1>6. /\ CountedFailed(Label(x))' = CountedFailed(Label(x)) \union {x}
      /\ x \notin CountedFailed(Label(x)) /\ Label(x)' = Label(x)
  BY <1>3 DEF CountedFailed, Still, Observed, Label
<1>7. Cardinality(CountedFailed(Label(x)) \union {x})
         = Cardinality(CountedFailed(Label(x))) + 1
  BY <1>6, FinitelyMany, FS_AddElement
<1>8. requests' \in [Labels -> Nat] /\ errors' \in [Labels -> Nat]
  BY <1>2, <1>3 DEF CountersInv
<1> SUFFICES ASSUME NEW l \in Labels
             PROVE  /\ requests'[l] = Cardinality(Counted(l)')
                    /\ errors'[l] = Cardinality(CountedFailed(l)')
  BY <1>8 DEF CountersInv, Labels, Statuses, Operations
<1>9. requests'[l] = Cardinality(Counted(l)')
  BY <1>3, <1>4 DEF CountersInv
<1>10. CASE l # Label(x)
  BY <1>3, <1>5, <1>9, <1>10 DEF CountersInv
<1>11. CASE l = Label(x)
  <2>1. errors'[l] = errors[l] + 1
    BY <1>2, <1>3, <1>11 DEF CountersInv
  <2>2. errors[l] = Cardinality(CountedFailed(l))
    BY DEF CountersInv
  <2>3. CountedFailed(l)' = CountedFailed(l) \union {x}
    BY <1>6, <1>11
  <2> QED
    BY <1>7, <1>9, <1>11, <2>1, <2>2, <2>3
<1> QED
  BY <1>10, <1>11

LEMMA CountRequestCounts ==
    ASSUME CountersInv, RequestInv, NEW x \in Exchanges, Observed(x),
           CountRequest(x), \A y \in Exchanges \ {x} : Still(y)
    PROVE  CountersInv'
<1>1. GoroutineInv(x) /\ Domains
  BY DEF RequestInv
<1>2. Label(x) \in Labels
  BY <1>1 DEF Label, Labels, Observed, GoroutineInv, Typed
<1>3. pc[x] = "count" /\ pc'[x] = "done"
      /\ UNCHANGED <<route, code, fault, errors>>
      /\ requests' = [requests EXCEPT ![Label(x)] = @ + 1]
  BY <1>1 DEF CountRequest, Domains
<1>4. ASSUME NEW l PROVE CountedFailed(l)' = CountedFailed(l)
  BY <1>3 DEF CountedFailed, Still, Observed, Label
<1>5. ASSUME NEW l, l # Label(x) PROVE Counted(l)' = Counted(l)
  BY <1>3, <1>5 DEF Counted, Still, Observed, Label
<1>6. /\ Counted(Label(x))' = Counted(Label(x)) \union {x}
      /\ x \notin Counted(Label(x)) /\ Label(x)' = Label(x)
  BY <1>3 DEF Counted, Still, Observed, Label
<1>7. Cardinality(Counted(Label(x)) \union {x})
         = Cardinality(Counted(Label(x))) + 1
  BY <1>6, FinitelyMany, FS_AddElement
<1>8. requests' \in [Labels -> Nat] /\ errors' \in [Labels -> Nat]
  BY <1>2, <1>3 DEF CountersInv
<1> SUFFICES ASSUME NEW l \in Labels
             PROVE  /\ requests'[l] = Cardinality(Counted(l)')
                    /\ errors'[l] = Cardinality(CountedFailed(l)')
  BY <1>8 DEF CountersInv, Labels, Statuses, Operations
<1>9. errors'[l] = Cardinality(CountedFailed(l)')
  BY <1>3, <1>4 DEF CountersInv
<1>10. CASE l # Label(x)
  BY <1>3, <1>5, <1>9, <1>10 DEF CountersInv
<1>11. CASE l = Label(x)
  <2>1. requests'[l] = requests[l] + 1
    BY <1>2, <1>3, <1>11 DEF CountersInv
  <2>2. requests[l] = Cardinality(Counted(l))
    BY DEF CountersInv
  <2>3. Counted(l)' = Counted(l) \union {x}
    BY <1>6, <1>11
  <2> QED
    BY <1>7, <1>9, <1>11, <2>1, <2>2, <2>3
<1> QED
  BY <1>10, <1>11

LEMMA CountersInvInit == Init => CountersInv
<1> SUFFICES ASSUME Init PROVE CountersInv
  OBVIOUS
<1>1. ASSUME NEW l PROVE Counted(l) = {} /\ CountedFailed(l) = {}
  BY DEF Init, Counted, CountedFailed
<1>2. Cardinality({}) = 0
  BY FS_EmptySet
<1> QED
  BY <1>1, <1>2 DEF Init, CountersInv, Labels

LEMMA CountersInvNext ==
    RequestInv /\ CountersInv /\ [Next]_vars => CountersInv'
<1> SUFFICES ASSUME RequestInv, CountersInv, [Next]_vars PROVE CountersInv'
  OBVIOUS
<1>1. ASSUME UNCHANGED <<goroutine, counters>> PROVE CountersInv'
  BY <1>1 DEF goroutine, counters, CountersInv, Counted, CountedFailed,
     Observed, Label
<1>2. CASE UNCHANGED vars
  BY <1>1, <1>2 DEF vars, goroutine, counters
<1>3. CASE NewServer
  BY <1>1, <1>3 DEF NewServer
<1>4. ASSUME NEW x \in Exchanges, NEW r \in Inputs, Receive(x, r)
      PROVE  CountersInv'
  BY <1>4, ReceiveStep, QuietStep, UncountedStep DEF StepOf
<1>5. ASSUME NEW x \in Exchanges, Serve(x) PROVE CountersInv'
  <2>1. \A y \in Exchanges \ {x} : Still(y)
    BY <1>5, ServeStep DEF StepOf
  <2>2. CASE \/ Unrouted(x) \/ Start(x) \/ Secure(x) \/ Decode(x)
             \/ \E o \in Outcomes[route[x].op] : Call(x, o)
             \/ Refuse(x) \/ Encode(x) \/ EncodeCut(x) \/ EncodeUnexpected(x)
    BY <2>1, <2>2, QuietStep, UncountedStep
  <2>3. CASE Observed(x) /\ (RecordError(x) \/ CountRequest(x))
    BY <2>1, <2>3, RecordErrorCounts, CountRequestCounts
  <2> QED
    BY <1>5, <2>2, <2>3
    DEF Serve, HandleGetLivenessRequest, HandleGetOrganizationRequest,
        HandleGetReadinessRequest, Respond, Observed, Operations
<1> QED
  BY <1>2, <1>3, <1>4, <1>5 DEF Next

\* TelemetryAddsUp: the counters miss no request and count none twice, however
\* many are in flight.
THEOREM NothingUncounted == Spec => []TelemetryAddsUp
<1>1. CountersInv => TelemetryAddsUp
  BY DEF CountersInv, TelemetryAddsUp, Counted, CountedFailed, Labels
<1> QED
  BY <1>1, RequestInvAlways, CountersInvInit, CountersInvNext, PTL DEF Spec

-----------------------------------------------------------------------------
(* Type correctness.                                                       *)

\* The variables TypeOK takes for functions are functions.
FunctionsInv ==
    /\ options \in OptionLists
    /\ up \in {"no", "yes", "failed"}
    /\ pc = [x \in Exchanges |-> pc[x]]
    /\ req = [x \in Exchanges |-> req[x]]
    /\ code = [x \in Exchanges |-> code[x]]
    /\ fault = [x \in Exchanges |-> fault[x]]
    /\ span = [x \in Exchanges |-> span[x]]
    /\ session = [x \in Exchanges |-> session[x]]

\* A variable that is as it was or has one place changed.
Changed(f, g, x) == \/ g = f
                    \/ \E v : g = [f EXCEPT ![x] = v]

LEMMA ChangedFunction ==
    ASSUME NEW f, NEW g, NEW x, Changed(f, g, x), f = [y \in Exchanges |-> f[y]]
    PROVE  g = [y \in Exchanges |-> g[y]]
<1>1. CASE g = f
  BY <1>1
<1>2. ASSUME NEW v, g = [f EXCEPT ![x] = v]
      PROVE  g = [y \in Exchanges |-> g[y]]
  BY <1>2
<1> QED
  BY <1>1, <1>2 DEF Changed

LEMMA FunctionsInvNext == FunctionsInv /\ [Next]_vars => FunctionsInv'
<1> SUFFICES ASSUME FunctionsInv, [Next]_vars PROVE FunctionsInv'
  OBVIOUS
<1>1. CASE UNCHANGED vars
  BY <1>1 DEF vars, FunctionsInv
<1>2. CASE NewServer
  BY <1>2 DEF NewServer, goroutine, FunctionsInv
<1>3. ASSUME NEW x,
             \/ \E r \in Inputs : Receive(x, r)
             \/ Unrouted(x) \/ Start(x) \/ Secure(x) \/ Decode(x)
             \/ \E o \in Outcomes[route[x].op] : Call(x, o)
             \/ Refuse(x) \/ Encode(x) \/ EncodeCut(x) \/ EncodeUnexpected(x)
             \/ RecordError(x) \/ CountRequest(x)
      PROVE  FunctionsInv'
  <2>1. UNCHANGED <<options, up>>
    BY <1>3 DEF Receive, Unrouted, Start, Secure, Decode, Call, Refuse, Encode,
       EncodeCut, EncodeUnexpected, RecordError, CountRequest, configuration
  <2>2. Changed(pc, pc', x)
    BY <1>3 DEF Receive, Unrouted, Start, Secure, Decode, Call, Refuse, Encode,
       EncodeCut, EncodeUnexpected, RecordError, CountRequest, Fail, Changed
  <2>3. Changed(req, req', x)
    BY <1>3 DEF Receive, Unrouted, Start, Secure, Decode, Call, Refuse, Encode,
       EncodeCut, EncodeUnexpected, RecordError, CountRequest, Changed
  <2>4. Changed(code, code', x)
    BY <1>3 DEF Receive, Unrouted, Start, Secure, Decode, Call, Refuse, Encode,
       EncodeCut, EncodeUnexpected, RecordError, CountRequest, Fail, Changed
  <2>5. Changed(fault, fault', x)
    BY <1>3 DEF Receive, Unrouted, Start, Secure, Decode, Call, Refuse, Encode,
       EncodeCut, EncodeUnexpected, RecordError, CountRequest, Fail, Changed
  <2>6. Changed(span, span', x)
    BY <1>3 DEF Receive, Unrouted, Start, Secure, Decode, Call, Refuse, Encode,
       EncodeCut, EncodeUnexpected, RecordError, CountRequest, Changed
  <2>7. Changed(session, session', x)
    BY <1>3 DEF Receive, Unrouted, Start, Secure, Decode, Call, Refuse, Encode,
       EncodeCut, EncodeUnexpected, RecordError, CountRequest, Changed
  <2> QED
    BY <2>1, <2>2, <2>3, <2>4, <2>5, <2>6, <2>7, ChangedFunction
    DEF FunctionsInv
<1> QED
  BY <1>1, <1>2, <1>3
  DEF Next, Serve, HandleGetLivenessRequest, HandleGetOrganizationRequest,
      HandleGetReadinessRequest, Respond

\* Every variable stays in its type.
THEOREM TypeCorrect == Spec => []TypeOK
<1>1. Init => FunctionsInv
  BY DEF Init, FunctionsInv
<1>2. RequestInv /\ CountersInv /\ FunctionsInv => TypeOK
  <2> SUFFICES ASSUME RequestInv, CountersInv, FunctionsInv PROVE TypeOK
    OBVIOUS
  <2>1. ASSUME NEW x \in Exchanges PROVE Typed(x)
    BY DEF RequestInv, GoroutineInv
  <2>2. pc \in [Exchanges -> Steps]
    BY <2>1 DEF FunctionsInv, Typed
  <2>3. req \in [Exchanges -> Inputs \union {NoRequest}]
    BY <2>1 DEF FunctionsInv, Typed
  <2>4. code \in [Exchanges -> Statuses]
    BY <2>1 DEF FunctionsInv, Typed
  <2>5. fault \in [Exchanges -> Faults]
    BY <2>1 DEF FunctionsInv, Typed
  <2>6. span \in [Exchanges -> {"unset", "error"}]
    BY <2>1 DEF FunctionsInv, Typed
  <2>7. session \in [Exchanges -> {"unasked", "accept", "skip", "deny"}]
    BY <2>1 DEF FunctionsInv, Typed
  <2> QED
    BY <2>1, <2>2, <2>3, <2>4, <2>5, <2>6, <2>7
    DEF TypeOK, Typed, FunctionsInv, CountersInv, Labels
<1> QED
  BY <1>1, <1>2, RequestInvAlways, FunctionsInvNext, CountersInvInit,
     CountersInvNext, PTL DEF Spec

-----------------------------------------------------------------------------
(* The two copies of the router.                                           *)

\* The argument as the handler of the operation decodes it.
Argument(found) ==
    IF found.escaped THEN PathUnescape(found.args) ELSE found.args

LEMMA CutOfSequence ==
    ASSUME NEW path \in Seq(STRING), NEW prefix, Len(prefix) \in Nat
    PROVE  /\ Cut(path, prefix) \in Seq(STRING)
           /\ HasEscape(Cut(path, prefix)) => HasEscape(path)
<1> DEFINE n == Len(prefix)
           c == SubSeq(path, n + 1, Len(path))
<1>1. /\ c \in Seq(STRING) /\ DOMAIN c = 1 .. Len(c)
      /\ \A i \in DOMAIN c : n + i \in DOMAIN path /\ c[i] = path[n + i]
  OBVIOUS
<1> QED
  BY <1>1 DEF Cut, HasEscape

\* Unescaping what has no escape changes nothing.
LEMMA NothingToUnescape ==
    ASSUME NEW path \in Seq(STRING), ~HasEscape(path)
    PROVE  PathUnescape(path) = path
<1>1. path = [i \in DOMAIN path |-> path[i]]
  OBVIOUS
<1> QED
  BY <1>1 DEF HasEscape, PathUnescape

LEMMA ElemOfURL ==
    ASSUME NEW sent \in Seq(STRING)
    PROVE  Elem(ParseURL(sent)) \in Seq(STRING)
<1>1. ASSUME NEW f, DOMAIN f = DOMAIN sent, f = [i \in DOMAIN sent |-> f[i]],
             \A i \in DOMAIN sent : f[i] \in STRING
      PROVE  f \in Seq(STRING)
  BY <1>1
<1>2. /\ PathUnescape(sent) \in Seq(STRING)
      /\ NormalizeEscapedPath(sent) \in Seq(STRING)
  BY <1>1, EscapeAssumption DEF PathUnescape, NormalizeEscapedPath
<1> QED
  BY <1>2 DEF ParseURL, Elem

\* FindPath finds what ServeHTTP calls, with the argument that is decoded.
LEMMA SearchesAgree ==
    ASSUME NEW method, NEW sent \in Seq(STRING), NEW prefix,
           NEW s, s = ServeHTTP(method, ParseURL(sent), prefix),
           NEW f, f = FindPath(method, ParseURL(sent), prefix)
    PROVE  /\ f.found <=> s.op \in Operations
           /\ f.found => f.name = s.op /\ f.args = Argument(s)
<1> DEFINE url == ParseURL(sent)
           elem == Elem(url)
           cut == CutPrefix(elem, prefix)
           leaf == IF cut.ok THEN Leaf(cut.rest) ELSE NoRoute
<1>1. elem \in Seq(STRING)
  BY ElemOfURL
<1> HIDE DEF elem
<1>2. /\ cut.rest \in Seq(STRING)
      /\ HasEscape(cut.rest) => HasEscape(elem)
  <2>1. /\ Cut(elem, <<prefix>>) \in Seq(STRING)
        /\ HasEscape(Cut(elem, <<prefix>>)) => HasEscape(elem)
    BY <1>1, CutOfSequence
  <2>2. <<>> \in Seq(STRING) /\ ~HasEscape(<<>>)
    BY DEF HasEscape
  <2>3. cut.rest \in {elem, Cut(elem, <<prefix>>), <<>>}
    BY DEF CutPrefix
  <2> QED
    BY <1>1, <2>1, <2>2, <2>3
<1>3. Leaf(<<>>) = NoRoute
  BY DEF Leaf, LivePath, ReadyPath, IsPrefix, OrganizationsPrefix
<1>4. /\ leaf.args \in Seq(STRING)
      /\ HasEscape(leaf.args) => HasEscape(elem)
      /\ leaf.op \in Operations \union {"none"}
  <2> DEFINE argument == Cut(cut.rest, OrganizationsPrefix)
  <2>1. /\ argument \in Seq(STRING)
        /\ HasEscape(argument) => HasEscape(cut.rest)
    BY <1>2, CutOfSequence DEF OrganizationsPrefix
  <2>2. <<>> \in Seq(STRING) /\ ~HasEscape(<<>>)
    BY DEF HasEscape
  <2>3. /\ leaf.args \in {argument, <<>>}
        /\ leaf.op \in Operations \union {"none"}
    BY DEF Leaf, NoRoute, Operations
  <2> QED
    BY <1>2, <2>1, <2>2, <2>3
<1>5. /\ s.op = IF leaf.op = "none" THEN "notFound"
                ELSE IF method = "GET" THEN leaf.op ELSE "notAllowed"
      /\ s.args = leaf.args
      /\ s.escaped = (url.RawPath # <<>> /\ HasEscape(elem))
  BY <1>3 DEF ServeHTTP, elem
<1>6. /\ f.found <=> leaf.op # "none" /\ method = "GET"
      /\ f.found => /\ f.name = leaf.op
                    /\ f.args = IF url.RawPath = <<>> THEN leaf.args
                                ELSE PathUnescape(leaf.args)
  BY DEF FindPath, elem
<1> HIDE DEF url, leaf
<1>7. ~HasEscape(elem) => PathUnescape(leaf.args) = leaf.args
  BY <1>4, NothingToUnescape
<1> QED
  BY <1>4, <1>5, <1>6, <1>7 DEF Operations, Argument

\* What the decoder made of the argument is in the parameters.
Decoded(x) ==
    /\ Head(Argument(route[x])) \in DOMAIN ParseUUID
    /\ ParseUUID[Head(Argument(route[x]))] = params[x].OrganizationId

\* A request is where ServeHTTP sent it.
Routed(x) ==
    LET found == ServeHTTP(req[x].method, req[x].url, cfg.Prefix)
    IN /\ IF Observed(x) THEN route[x] = found ELSE found.op \notin Operations
       /\ pc[x] \in {"call", "encode"} /\ route[x].op = "getOrganization"
          => Decoded(x)

RoutedInv ==
    /\ \A x \in Exchanges : /\ req[x] \in Inputs \union {NoRequest}
                            /\ up = "no" => pc[x] = "idle"
    /\ \A x \in Exchanges : pc[x] \notin {"idle", "route"} => Routed(x)

\* The step of one request keeps the others where they were sent.
LEMMA OthersStayRouted ==
    ASSUME RequestInv, RoutedInv, NEW x \in Exchanges, StepOf(x),
           UNCHANGED configuration, up # "no",
           pc'[x] \notin {"idle", "route"} => Routed(x)'
    PROVE  RoutedInv'
  BY DEF RoutedInv, Routed, Decoded, Observed, StepOf, Still, configuration,
     GoroutineInv, Typed

LEMMA RoutedInvNext ==
    RequestInv /\ RoutedInv /\ [Next]_vars => RoutedInv'
<1> SUFFICES ASSUME RequestInv, RoutedInv, [Next]_vars PROVE RoutedInv'
  OBVIOUS
<1>1. CASE UNCHANGED vars
  BY <1>1 DEF vars, RoutedInv, Routed, Decoded, Observed
<1>2. CASE NewServer
  BY <1>2 DEF NewServer, goroutine, RoutedInv
<1>3. ASSUME NEW x \in Exchanges, NEW r \in Inputs, Receive(x, r)
      PROVE  RoutedInv'
  <2>1. StepOf(x) /\ up # "no" /\ UNCHANGED configuration
    BY <1>3, ReceiveStep DEF Receive
  <2>2. pc'[x] = "route"
    BY <1>3 DEF Receive, RequestInv, Domains
  <2> QED
    BY <2>1, <2>2, OthersStayRouted
<1>4. ASSUME NEW x \in Exchanges, Serve(x) PROVE RoutedInv'
  <2>1. StepOf(x)
    BY <1>4, ServeStep
  <2>2. /\ \/ Unrouted(x) \/ Start(x) \/ Secure(x) \/ Decode(x)
           \/ \E o \in Outcomes[route[x].op] : Call(x, o)
           \/ Refuse(x) \/ Encode(x) \/ EncodeCut(x) \/ EncodeUnexpected(x)
           \/ RecordError(x) \/ CountRequest(x)
    BY <1>4 DEF Serve, HandleGetLivenessRequest, HandleGetOrganizationRequest,
       HandleGetReadinessRequest, Respond
  <2>3. UNCHANGED <<configuration, req>> /\ pc[x] # "idle"
    BY <2>2 DEF Unrouted, Start, Secure, Decode, Call, Refuse, Encode,
       EncodeCut, EncodeUnexpected, RecordError, CountRequest
  <2>4. up # "no" /\ UNCHANGED cfg
    BY <2>3 DEF RoutedInv, configuration
  <2>5. /\ DOMAIN pc = Exchanges /\ DOMAIN route = Exchanges
        /\ DOMAIN params = Exchanges
        /\ pc[x] = "route" => ~Observed(x)
    BY DEF RequestInv, Domains, GoroutineInv, Staged, Observed, Operations
  <2> SUFFICES Routed(x)'
    BY <2>1, <2>3, <2>4, OthersStayRouted
  <2>6. CASE Unrouted(x)
    BY <2>3, <2>4, <2>5, <2>6 DEF Unrouted, Routed, Observed
  <2>7. CASE Start(x)
    BY <2>3, <2>4, <2>5, <2>7 DEF Start, Routed, Observed
  <2>8. CASE pc[x] # "route" /\ UNCHANGED route
    <3>1. Routed(x)
      BY <2>3, <2>8 DEF RoutedInv
    <3>2. CASE Decode(x)
      BY <2>3, <2>4, <2>5, <2>8, <3>1, <3>2
      DEF Decode, Routed, Observed, Decoded, Argument, DecodeParams,
          DecodeGetOrganizationParams, BadParams, Fail
    <3>3. CASE \E o \in Outcomes[route[x].op] : Call(x, o)
      BY <2>3, <2>4, <2>5, <2>8, <3>1, <3>3
      DEF Call, Routed, Observed, Decoded, Handed, UnpackParams,
          UnpackGetOrganizationParams, Fail
    <3>4. CASE /\ UNCHANGED params
               /\ pc'[x] \in {pc[x], "decode", "record", "count", "done"}
      BY <2>3, <2>4, <2>8, <3>1, <3>4 DEF Routed, Observed, Decoded
    <3> QED
      BY <2>2, <2>5, <2>8, <3>2, <3>3, <3>4
      DEF Unrouted, Start, Secure, Refuse, Encode, EncodeCut, EncodeUnexpected,
          RecordError, CountRequest, Fail
  <2> QED
    BY <2>2, <2>6, <2>7, <2>8
    DEF Secure, Decode, Call, Refuse, Encode, EncodeCut, EncodeUnexpected,
        RecordError, CountRequest
<1> QED
  BY <1>1, <1>2, <1>3, <1>4 DEF Next

\* RoutesAgree, for every path, escape, method and prefix.
THEOREM RoutersAgree == Spec => []RoutesAgree
<1>1. Init => RoutedInv
  BY DEF Init, RoutedInv
<1>2. RequestInv /\ RoutedInv => RoutesAgree
  <2> SUFFICES ASSUME RequestInv, RoutedInv, NEW x \in Exchanges,
                      pc[x] \notin {"idle", "route"}
               PROVE  LET found ==
                             FindPath(req[x].method, req[x].url, cfg.Prefix)
                      IN /\ found.found <=> Observed(x)
                         /\ Observed(x) => /\ found.name = route[x].op
                                           /\ found.args = Argument(route[x])
    BY DEF RoutesAgree, RoutedInv, Routed, Decoded, Observed, Operations
  <2>1. req[x].sent \in Seq(STRING) /\ req[x].url = ParseURL(req[x].sent)
    <3>1. CASE req[x] = NoRequest
      <4>1. NoRequest.sent = <<>> /\ NoRequest.url = ParseURL(<<>>)
        BY DEF NoRequest
      <4>2. <<>> \in Seq(STRING)
        OBVIOUS
      <4> QED
        BY <3>1, <4>1, <4>2
    <3>2. CASE req[x] \in Inputs
      BY <3>2, InputAssumption
    <3> QED
      BY <3>1, <3>2 DEF RoutedInv
  <2>2. Routed(x)
    BY DEF RoutedInv
  <2> QED
    BY <2>1, <2>2, SearchesAgree DEF Routed, Observed
<1> QED
  BY <1>1, <1>2, RequestInvAlways, RoutedInvNext, PTL DEF Spec

-----------------------------------------------------------------------------
(* The options.                                                            *)

\* NewServerConfig folds with ApplyServer.
OptionFold == INSTANCE FoldRun WITH Op <- ApplyServer

Fields == DOMAIN DefaultConfig

\* An option sets the field it is for, unless it is given nil.
LEMMA OptionApplied ==
    ASSUME NEW opts \in OptionLists, NEW i \in DOMAIN opts,
           NEW c, DOMAIN c = Fields
    PROVE  LET o == opts[i]
               d == ApplyServer(c, o)
           IN /\ DOMAIN d = Fields
              /\ \A f \in Fields :
                    d[f] = IF f = o.name /\ o.value # "nil" THEN o.value
                           ELSE c[f]
<1> DEFINE o == opts[i]
<1>1. /\ o.name \in Fields
      /\ o.name \in {"Prefix", "Attributes", "Middleware"} => o.value # "nil"
  <2> DEFINE Options == [name: Fields, value: STRING]
  <2>1. opts \in Seq(Options)
    BY OptionAssumption DEF Fields
  <2>2. opts[i] \in Options
    <3> HIDE DEF Options
    <3> QED
      BY <2>1
  <2> QED
    BY <2>2, OptionAssumption
<1> HIDE DEF o
<1>2. Fields = {"TracerProvider", "MeterProvider", "Attributes", "NotFound",
                "MethodNotAllowed", "ErrorHandler", "Prefix", "Middleware",
                "MaxMultipartMemory"}
  BY DEF Fields, DefaultConfig
<1>3. ApplyServer(c, o) = IF o.value = "nil" THEN c
                          ELSE [c EXCEPT ![o.name] = o.value]
  BY <1>1, <1>2
  DEF ApplyServer, WithTracerProvider, WithMeterProvider, WithAttributes,
      WithNotFound, WithMethodNotAllowed, WithErrorHandler, WithPathPrefix,
      WithMiddleware, WithMaxMultipartMemory
<1> QED
  BY <1>1, <1>3 DEF o

\* v is what the last of the first k options gives a field, if one does.
Decided(opts, k, f, v) ==
    LET set == {i \in 1 .. k : opts[i].name = f /\ opts[i].value # "nil"}
    IN IF set = {} THEN v = DefaultConfig[f]
       ELSE \E i \in set : v = opts[i].value /\ \A j \in set : j =< i

\* Of the options so far the last one for a field decides.
LEMMA OptionsFolded ==
    ASSUME NEW opts \in OptionLists
    PROVE  LET c == FoldLeft(ApplyServer, DefaultConfig, opts)
           IN /\ DOMAIN c = Fields
              /\ \A f \in Fields : Decided(opts, Len(opts), f, c[f])
<1> DEFINE n == Len(opts)
<1>1. opts \in Seq([name: Fields, value: STRING])
  BY OptionAssumption DEF Fields
<1>2. n \in Nat /\ DOMAIN opts = 1 .. n
  BY <1>1
<1>3. PICK c : /\ OptionFold!Run(c, DefaultConfig, opts)
               /\ FoldLeft(ApplyServer, DefaultConfig, opts) = c[n]
  <2>1. \E c : /\ OptionFold!Run(c, DefaultConfig, opts)
               /\ OptionFold!FoldLeft(ApplyServer, DefaultConfig, opts) = c[n]
    BY <1>2, OptionFold!FoldLeftRuns
  <2> QED
    BY <2>1 DEF FoldLeft, MapThenFoldSet, Max, OptionFold!FoldLeft,
       OptionFold!MapThenFoldSet, OptionFold!Max
<1> DEFINE Good(k) == /\ DOMAIN c[k] = Fields
                      /\ \A f \in Fields : Decided(opts, k, f, c[k][f])
           S == {k \in 0 .. n : Good(k)}
<1>4. 0 \in S
  BY <1>2, <1>3 DEF OptionFold!Run, Decided, Fields
<1>5. ASSUME NEW k \in 1 .. n, k - 1 \in S PROVE k \in S
  <2>1. Good(k - 1)
    BY <1>5
  <2>2. /\ DOMAIN c[k] = Fields
        /\ \A f \in Fields :
              c[k][f] = IF f = opts[k].name /\ opts[k].value # "nil"
                        THEN opts[k].value ELSE c[k - 1][f]
    BY <1>2, <1>3, <2>1, OptionApplied DEF OptionFold!Run
  <2>3. ASSUME NEW f \in Fields PROVE Decided(opts, k, f, c[k][f])
    <3> DEFINE old == {i \in 1 .. (k - 1) :
                          opts[i].name = f /\ opts[i].value # "nil"}
               new == {i \in 1 .. k :
                          opts[i].name = f /\ opts[i].value # "nil"}
    <3>1. CASE f = opts[k].name /\ opts[k].value # "nil"
      <4>1. k \in new /\ \A j \in new : j =< k
        BY <1>2, <3>1
      <4> QED
        BY <2>2, <3>1, <4>1 DEF Decided
    <3>2. CASE ~(f = opts[k].name /\ opts[k].value # "nil")
      <4>1. new = old
        BY <1>2, <3>2
      <4>2. c[k][f] = c[k - 1][f]
        BY <2>2, <3>2
      <4>3. Decided(opts, k - 1, f, c[k - 1][f])
        BY <2>1
      <4> QED
        BY <4>1, <4>2, <4>3 DEF Decided
    <3> QED
      BY <3>1, <3>2
  <2> QED
    BY <2>2, <2>3
<1>6. n \in S
  <2> HIDE DEF S
  <2>1. \A k \in 0 .. n : k \in S
    BY <1>2, <1>4, <1>5, OptionFold!UpTo
  <2> QED
    BY <1>2, <2>1
<1> QED
  BY <1>3, <1>6

\* A server that is up has the configuration that its options make.
ConfigInv ==
    /\ options \in OptionLists
    /\ up # "no" => cfg = NewServerConfig(options)

\* The fields of a server's configuration, one by one.
LEMMA ConfigDecided ==
    ASSUME ConfigInv, up = "yes", NEW f \in Fields, NEW final,
           \A v : Decided(options, Len(options), f, v) => v = final
    PROVE  cfg[f] = IF f \in {"TracerProvider", "MeterProvider"}
                        /\ final = "nil"
                    THEN "global" ELSE final
<1> DEFINE c == FoldLeft(ApplyServer, DefaultConfig, options)
<1>1. DOMAIN c = Fields /\ Decided(options, Len(options), f, c[f])
  BY OptionsFolded DEF ConfigInv
<1>2. cfg = InitOTEL(c)
  BY DEF ConfigInv, NewServerConfig
<1> HIDE DEF c
<1>3. c[f] = final
  BY <1>1
<1>4. "TracerProvider" \in Fields /\ "MeterProvider" \in Fields
  BY DEF Fields, DefaultConfig
<1> QED
  BY <1>1, <1>2, <1>3, <1>4 DEF InitOTEL

\* The server has the configuration its options make.
LEMMA ConfigInvAlways == Spec => []ConfigInv
<1>1. Init => ConfigInv
  BY DEF Init, ConfigInv
<1>2. ConfigInv /\ [Next]_vars => ConfigInv'
  <2>1. ASSUME ConfigInv, UNCHANGED configuration PROVE ConfigInv'
    BY <2>1 DEF ConfigInv, configuration
  <2>2. ASSUME ConfigInv, NewServer PROVE ConfigInv'
    BY <2>2 DEF ConfigInv, NewServer
  <2>3. ASSUME NEW x \in Exchanges, Serve(x) PROVE UNCHANGED configuration
    <3>1. \/ Unrouted(x) \/ Start(x) \/ Secure(x) \/ Decode(x)
          \/ \E o \in Outcomes[route[x].op] : Call(x, o)
          \/ Refuse(x) \/ Encode(x) \/ EncodeCut(x) \/ EncodeUnexpected(x)
          \/ RecordError(x) \/ CountRequest(x)
      BY <2>3 DEF Serve, HandleGetLivenessRequest, HandleGetReadinessRequest,
         HandleGetOrganizationRequest, Respond
    <3> QED
      BY <3>1 DEF Unrouted, Start, Secure, Decode, Call, Refuse, Encode,
         EncodeCut, EncodeUnexpected, RecordError, CountRequest
  <2>4. ASSUME NEW x \in Exchanges, NEW r \in Inputs, Receive(x, r)
        PROVE  UNCHANGED configuration
    BY <2>4 DEF Receive
  <2> QED
    BY <2>1, <2>2, <2>3, <2>4 DEF Next, vars, configuration
<1> QED
  BY <1>1, <1>2, PTL DEF Spec

\* LastOptionDecides, for every list of options.
THEOREM OptionsDecided == Spec => []LastOptionDecides
<1>1. ConfigInv => LastOptionDecides
  <2> SUFFICES ASSUME ConfigInv, up = "yes" PROVE LastOptionDecides
    BY DEF LastOptionDecides
  <2> DEFINE set(f) == {i \in DOMAIN options : options[i].name = f
                                            /\ options[i].value # "nil"}
             last(f) == CHOOSE i \in set(f) : \A j \in set(f) : j =< i
             Final(f, default) ==
                IF set(f) = {} THEN default ELSE options[last(f)].value
  <2>1. /\ Len(options) \in Nat /\ DOMAIN options = 1 .. Len(options)
    BY OptionAssumption DEF ConfigInv
  <2>2. ASSUME NEW f \in Fields, NEW v, Decided(options, Len(options), f, v)
        PROVE  v = Final(f, DefaultConfig[f])
    <3>1. CASE set(f) = {}
      BY <2>1, <2>2, <3>1 DEF Decided
    <3>2. CASE set(f) # {}
      <4>1. PICK i \in set(f) : v = options[i].value /\ \A j \in set(f) : j =< i
        BY <2>1, <2>2, <3>2 DEF Decided
      <4>2. last(f) \in set(f) /\ \A j \in set(f) : j =< last(f)
        BY <4>1
      <4>3. set(f) \subseteq Nat
        BY <2>1
      <4>4. last(f) = i
        <5> HIDE DEF last, set
        <5> QED
          BY <4>1, <4>2, <4>3
      <4>5. Final(f, DefaultConfig[f]) = options[last(f)].value
        <5> HIDE DEF last, set
        <5> QED
          BY <3>2
      <4> QED
        <5> HIDE DEF last, set, Final
        <5> QED
          BY <4>1, <4>4, <4>5
    <3> QED
      BY <3>1, <3>2
  <2>3. ASSUME NEW f \in Fields
        PROVE  cfg[f] = Final(f, IF f \in {"TracerProvider", "MeterProvider"}
                                 THEN "global" ELSE DefaultConfig[f])
    <3>1. cfg[f] = IF /\ f \in {"TracerProvider", "MeterProvider"}
                      /\ Final(f, DefaultConfig[f]) = "nil"
                   THEN "global" ELSE Final(f, DefaultConfig[f])
      <4> HIDE DEF Final
      <4> QED
        BY <2>2, ConfigDecided
    <3>2. CASE set(f) = {}
      <4>1. \A d : Final(f, d) = d
        BY <3>2
      <4> HIDE DEF Final
      <4>2. /\ DefaultConfig.TracerProvider = "nil"
            /\ DefaultConfig.MeterProvider = "nil"
            /\ f \notin {"TracerProvider", "MeterProvider"}
               => Final(f, DefaultConfig[f]) = DefaultConfig[f]
        BY <4>1 DEF DefaultConfig
      <4> QED
        BY <3>1, <4>1, <4>2
    <3>3. CASE set(f) # {}
      <4>1. PICK v : Decided(options, Len(options), f, v)
        BY OptionsFolded DEF ConfigInv
      <4>2. v # "nil" /\ v = Final(f, DefaultConfig[f])
        BY <2>1, <2>2, <3>3, <4>1 DEF Decided
      <4> QED
        BY <3>1, <3>3, <4>2
    <3> QED
      BY <3>2, <3>3
  <2> HIDE DEF Final
  <2> QED
    BY <2>3 DEF Fields, DefaultConfig, LastOptionDecides, Final
<1> QED
  BY <1>1, ConfigInvAlways, PTL
==============================================================================
