------------------------- MODULE HealthRoutes_proofs -------------------------
(***************************************************************************)
(* Theorems about HealthRoutes: for any finite number of requests at a     *)
(* time, any paths, methods and ids that clients may send.                 *)
(***************************************************************************)
EXTENDS HealthRoutes, SequenceTheorems, TLAPS

\* The places of a request, in order.
Unmounted == {"idle", "received", "identified", "armed"}

Identified == {"identified", "armed", "inside", "answered"}

Probes == {"getLiveness", "getReadiness"}

\* What the handler of a probe answers, as the readiness was when it ran.
ProbeAnswer(x) ==
    IF route[x].op = "getLiveness" \/ saw[x] = "serving"
    THEN HealthyResponse(id[x]) ELSE Unavailable(id[x])

Domains ==
    /\ DOMAIN outer = Exchanges /\ DOMAIN client = Exchanges
    /\ DOMAIN id = Exchanges /\ DOMAIN reply = Exchanges
    /\ DOMAIN saw = Exchanges /\ DOMAIN pc = Exchanges
    /\ DOMAIN req = Exchanges /\ DOMAIN route = Exchanges
    /\ DOMAIN params = Exchanges /\ DOMAIN result = Exchanges
    /\ DOMAIN out = Exchanges

\* The wrappers come before the generated server, and give it a valid id.
Wrapped(x) ==
    /\ outer[x] # "idle" => client[x] \in ClientRequests
    /\ outer[x] \in Identified =>
          /\ id[x] \in ValidIds
          /\ client[x].id.Set /\ ValidRequestId(client[x].id.Value)
                => id[x] = client[x].id.Value
    /\ reply[x] # "generated" =>
          /\ pc[x] = "idle" /\ out[x] = Generated!Blank
    /\ reply[x] = "generated" =>
          /\ outer[x] \in {"inside", "answered"} /\ pc[x] # "idle"
          /\ Mux(client[x].sent) = "generated"
          /\ req[x] = Forward(client[x], id[x])
    /\ outer[x] \in Unmounted => reply[x] = "none"

\* In the generated server it goes to a probe or gets one of its own answers.
Answering(x) ==
    /\ DOMAIN out[x] = DOMAIN Generated!Blank
    /\ pc[x] \in {"idle", "route", "decode", "call", "encode", "record",
                 "count", "done"}
    /\ route[x].op \in Probes \union {"none"}
    /\ pc[x] \in {"idle", "route"} => route[x].op = "none"
    /\ pc[x] \notin {"idle", "route", "done"} => route[x].op \in Probes
    /\ pc[x] = "call" => params[x].XRequestID = NewOptRequestId(id[x])
    /\ pc[x] = "idle" \/ out[x].id = id[x]
    /\ \/ pc[x] \in {"encode", "record", "count"}
       \/ pc[x] = "done" /\ route[x].op \in Probes
       => result[x] = ProbeAnswer(x)
    /\ \/ pc[x] \in {"idle", "route", "decode", "call"}
       \/ pc[x] = "done" /\ route[x].op = "none"
       => result[x] = Generated!NoResult
    /\ \/ pc[x] \in {"record", "count"}
       \/ pc[x] = "done" /\ route[x].op \in Probes
       => /\ out[x].status = Generated!StatusOf[result[x].type]
          /\ out[x].body = [type |-> result[x].type, value |-> result[x].value]
    /\ \/ pc[x] \in {"idle", "route", "decode", "call", "encode"}
       \/ pc[x] = "done" /\ route[x].op = "none"
       => out[x].body.type \in {"none", "not_found"}

ExchangeInv(x) == Wrapped(x) /\ Answering(x)

RoutesInv ==
    /\ Domains
    /\ ready <=> life = "serving"
    /\ \A x \in Exchanges : ExchangeInv(x)

\* Nothing of the goroutine of y moves.
Still(y) ==
    /\ outer'[y] = outer[y] /\ client'[y] = client[y] /\ id'[y] = id[y]
    /\ reply'[y] = reply[y] /\ saw'[y] = saw[y] /\ pc'[y] = pc[y]
    /\ req'[y] = req[y] /\ route'[y] = route[y] /\ params'[y] = params[y]
    /\ result'[y] = result[y] /\ out'[y] = out[y]

\* A step of one goroutine moves no other.
StepOf(x) ==
    /\ Domains' /\ ExchangeInv(x)' /\ UNCHANGED process
    /\ \A y \in Exchanges \ {x} : Still(y)

-----------------------------------------------------------------------------
(* What the mux lets through never leads to an organization.               *)

LEMMA PrefixAt ==
    ASSUME NEW S, NEW s \in Seq(S), NEW t \in Seq(S), IsPrefix(s, t),
           NEW i \in 1..Len(s)
    PROVE  t[i] = s[i]
<1>1. Len(s) \in Nat /\ Len(t) \in Nat /\ Len(s) =< Len(t)
  BY DEF IsPrefix
<1>2. SubSeq(s, 1, Len(s)) = SubSeq(t, 1, Len(s))
  BY DEF IsPrefix
<1>3. SubSeq(s, 1, Len(s))[i] = s[i] /\ SubSeq(t, 1, Len(s))[i] = t[i]
  BY <1>1
<1> QED
  BY <1>2, <1>3

\* The prover does not know that a literal is a string.
Tokens ==
    STRING \union {"/", "health", "live", "ready", "api", "v1", "organizations"}

LEMMA HealthOnly ==
    ASSUME NEW sent \in Seq(Tokens), Mux(sent) = "generated", NEW method,
           NEW prefix
    PROVE  ServeHTTP(method, ParseURL(sent), prefix).op # "getOrganization"
<1> DEFINE url == ParseURL(sent)
           e == Elem(url)
<1>1. Len(sent) \in Nat /\ Len(sent) >= 3
  BY DEF Mux
<1>2. (IF sent[2] \in Escapes THEN Unescaped[sent[2]] ELSE sent[2]) = "health"
  <2> DEFINE head == SubSeq(sent, 1, 2)
  <2>1. PathUnescape(head) = <<"/", "health">>
    BY DEF Mux
  <2>2. head[2] = sent[2] /\ 2 \in DOMAIN head
    BY <1>1
  <2> HIDE DEF head
  <2>3. PathUnescape(head)[2] = IF head[2] \in Escapes
                                THEN Unescaped[head[2]] ELSE head[2]
    BY <2>2 DEF PathUnescape
  <2> QED
    BY <2>1, <2>2, <2>3
<1>3. e \in {PathUnescape(sent), NormalizeEscapedPath(sent)}
  BY DEF Elem, ParseURL
<1>4. e \in Seq(Tokens) /\ Len(e) = Len(sent)
  <2>1. ASSUME NEW f, f \in [1..Len(sent) -> Tokens]
        PROVE  f \in Seq(Tokens) /\ Len(f) = Len(sent)
    BY <1>1, <2>1, IsASeq
  <2>2. /\ PathUnescape(sent) \in [1..Len(sent) -> Tokens]
        /\ NormalizeEscapedPath(sent) \in [1..Len(sent) -> Tokens]
    BY <1>1, EscapeAssumption DEF Tokens, PathUnescape, NormalizeEscapedPath
  <2> QED
    BY <1>3, <2>1, <2>2
<1>5. e[2] # "/" /\ e[2] # "api"
  <2>1. 2 \in DOMAIN sent
    BY <1>1
  <2>2. PathUnescape(sent)[2] = "health"
    BY <1>2, <2>1 DEF PathUnescape
  <2>3. NormalizeEscapedPath(sent)[2] = "health"
           \/ NormalizeEscapedPath(sent)[2] \in Escapes
    BY <1>2, <2>1 DEF NormalizeEscapedPath
  <2>4. "/" \notin Escapes /\ "api" \notin Escapes
    BY EscapeAssumption
  <2> QED
    BY <1>3, <2>2, <2>3, <2>4
<1> HIDE DEF e
<1> DEFINE rest == CutPrefix(e, prefix).rest
<1>6. /\ rest \in Seq(Tokens)
      /\ rest[1] # "/" \/ rest[2] # "api" \/ rest = <<>>
  <2>1. CASE rest = e
    BY <1>4, <1>5, <2>1
  <2>2. CASE rest = <<>>
    BY <2>2
  <2>3. CASE rest = Cut(e, <<prefix>>)
    <3>1. rest = SubSeq(e, 2, Len(e))
      BY <2>3 DEF Cut
    <3>2. rest \in Seq(Tokens) /\ rest[1] = e[2]
      BY <1>1, <1>4, <3>1
    <3> QED
      BY <1>5, <3>2
  <2> QED
    BY <2>1, <2>2, <2>3 DEF CutPrefix
<1> HIDE DEF rest
<1>7. ASSUME rest # <<>>
      PROVE  Leaf(rest).op # "getOrganization"
  <2>1. /\ OrganizationsPrefix \in Seq(Tokens)
        /\ 2 \in 1..Len(OrganizationsPrefix)
        /\ OrganizationsPrefix[1] = "/" /\ OrganizationsPrefix[2] = "api"
    <3>1. OrganizationsPrefix \in Seq(Tokens)
      BY DEF OrganizationsPrefix, Tokens
    <3>2. Len(OrganizationsPrefix) = 7
      BY DEF OrganizationsPrefix
    <3>3. OrganizationsPrefix[1] = "/" /\ OrganizationsPrefix[2] = "api"
      BY DEF OrganizationsPrefix
    <3> QED
      BY <3>1, <3>2, <3>3
  <2>2. rest \in Seq(Tokens)
    BY <1>6, <1>7
  <2>3. ~IsPrefix(OrganizationsPrefix, rest)
    BY <1>6, <1>7, <2>1, <2>2, PrefixAt
  <2> QED
    BY <2>3 DEF Leaf, NoRoute
<1>8. ServeHTTP(method, url, prefix).op
         \in {"notFound", "notAllowed"} \union
             {Leaf(r).op : r \in {rest} \ {<<>>}}
  BY DEF ServeHTTP, e, rest, NoRoute
<1> QED
  BY <1>7, <1>8

\* The instance's operators of ApiSchema and ApiRouter are the module's own.
LEMMA SameOperators ==
    ASSUME NEW v, NEW method, NEW url, NEW prefix
    PROVE  /\ Generated!ValidRequestId(v) = ValidRequestId(v)
           /\ Generated!ServeHTTP(method, url, prefix)
                 = ServeHTTP(method, url, prefix)
<1>1. Generated!ValidRequestId(v) = ValidRequestId(v)
  BY DEF Generated!ValidRequestId, ValidRequestId, Generated!Sized, Sized
<1>2. Generated!Elem(url) = Elem(url)
  BY DEF Generated!Elem, Elem, Generated!NormalizeEscapedPath,
     NormalizeEscapedPath
<1>3. ASSUME NEW path
      PROVE  Generated!CutPrefix(path, prefix) = CutPrefix(path, prefix)
  BY DEF Generated!CutPrefix, CutPrefix, Generated!Cut, Cut,
     Generated!IsPrefix, IsPrefix
<1>4. ASSUME NEW path PROVE Generated!Leaf(path) = Leaf(path)
  BY DEF Generated!Leaf, Leaf, Generated!LivePath, LivePath,
     Generated!ReadyPath, ReadyPath, Generated!OrganizationsPrefix,
     OrganizationsPrefix, Generated!Cut, Cut, Generated!NoRoute, NoRoute
<1>5. Generated!ServeHTTP(method, url, prefix) = ServeHTTP(method, url, prefix)
  BY <1>2, <1>3, <1>4
  DEF Generated!ServeHTTP, ServeHTTP, Generated!HasEscape, HasEscape,
      Generated!NoRoute, NoRoute
<1> QED
  BY <1>1, <1>5

-----------------------------------------------------------------------------
(* Steps of one goroutine.                                                 *)

LEMMA StillKeeps ==
    ASSUME NEW y \in Exchanges, ExchangeInv(y), Still(y)
    PROVE  ExchangeInv(y)'
  BY DEF Still, ExchangeInv, Wrapped, Answering, ProbeAnswer

LEMMA StepKeeps ==
    ASSUME RoutesInv, NEW x \in Exchanges, StepOf(x)
    PROVE  RoutesInv'
  BY StillKeeps DEF StepOf, RoutesInv, process

\* An id the wrapper gave out.
LEMMA NewIdsAreValid == NewIds \subseteq ValidIds
  BY RoutesAssumption DEF ValidIds

\* A request arrives, is identified and gets its timer.
LEMMA WrapStep ==
    ASSUME RoutesInv, NEW x \in Exchanges,
           \/ \E r \in ClientRequests : Arrive(x, r)
           \/ Identify(x) \/ ArmTimeout(x)
    PROVE  StepOf(x)
<1>1. ExchangeInv(x) /\ Domains
  BY DEF RoutesInv
<1>2. UNCHANGED <<process, inner, reply, saw>>
  BY DEF Arrive, Identify, ArmTimeout
<1>3. reply[x] = "none" /\ pc[x] = "idle"
  BY <1>1 DEF Arrive, Identify, ArmTimeout, ExchangeInv, Wrapped, Unmounted
<1>4. CASE \E r \in ClientRequests : Arrive(x, r)
  BY <1>1, <1>2, <1>3, <1>4
  DEF Arrive, StepOf, Still, Domains, ExchangeInv, Wrapped, Answering, inner,
      Unmounted, Identified, Probes
<1>5. CASE Identify(x)
  <2>1. /\ id'[x] \in ValidIds
        /\ client[x].id.Set /\ ValidRequestId(client[x].id.Value)
              => id'[x] = client[x].id.Value
    <3>1. client[x].id \in OptRequestId
      BY <1>1, <1>5, ClientAssumption DEF Identify, ExchangeInv, Wrapped
    <3>2. CASE ValidRequestId(Or(client[x].id, ""))
      <4>1. id'[x] = client[x].id.Value
        BY <1>1, <1>5, <3>2 DEF Identify, Domains
      <4>2. client[x].id.Set
        <5>1. ~ValidRequestId("")
          <6> DEFINE n == Length[""]
          <6>1. n = 0
            BY TextAssumption
          <6> HIDE DEF n
          <6>2. n \notin 1..128
            BY <6>1
          <6>3. ~Sized("", 1, 128)
            BY <6>2 DEF Sized, n
          <6> QED
            BY <6>3 DEF ValidRequestId
        <5> QED
          BY <3>2, <5>1 DEF Or
      <4> QED
        BY <3>1, <3>2, <4>1, <4>2 DEF Or, ValidIds, OptRequestId
    <3>3. CASE ~ValidRequestId(Or(client[x].id, ""))
      <4>1. id'[x] \in NewIds
        BY <1>1, <1>5, <3>3 DEF Identify, Domains
      <4> QED
        BY <3>3, <4>1, NewIdsAreValid DEF Or
    <3> QED
      BY <3>2, <3>3
  <2>2. /\ DOMAIN id' = Exchanges
        /\ \A y \in Exchanges \ {x} : id'[y] = id[y]
    BY <1>1, <1>5 DEF Identify, Domains
  <2>3. /\ outer[x] = "received" /\ outer'[x] = "identified"
        /\ DOMAIN outer' = Exchanges /\ UNCHANGED client
        /\ \A y \in Exchanges \ {x} : outer'[y] = outer[y]
    BY <1>1, <1>5 DEF Identify, Domains
  <2> QED
    BY <1>1, <1>2, <1>3, <2>1, <2>2, <2>3
    DEF StepOf, Still, Domains, ExchangeInv, Wrapped, Answering, inner,
        Unmounted, Identified, Probes
<1>6. CASE ArmTimeout(x)
  BY <1>1, <1>2, <1>3, <1>6
  DEF ArmTimeout, StepOf, Still, Domains, ExchangeInv, Wrapped, Answering,
      inner, Unmounted, Identified, Probes, ProbeAnswer
<1> QED
  BY <1>4, <1>5, <1>6

\* The mux hands the request on or answers it; the request returns; its time
\* passes.
LEMMA MountStep ==
    ASSUME RoutesInv, NEW x \in Exchanges, Mount(x)
    PROVE  StepOf(x)
<1>1. ExchangeInv(x) /\ Domains
  BY DEF RoutesInv
<1> DEFINE r == Forward(client[x], id[x])
<1>2. /\ outer[x] = "armed" /\ outer'[x] = "inside" /\ reply'[x] = "generated"
      /\ Mux(client[x].sent) = "generated"
      /\ DOMAIN outer' = Exchanges /\ DOMAIN reply' = Exchanges
      /\ \A y \in Exchanges \ {x} : outer'[y] = outer[y] /\ reply'[y] = reply[y]
      /\ UNCHANGED <<process, client, id, saw, route, params, result>>
  BY <1>1 DEF Mount, Domains, Generated!Receive
<1>3. /\ pc'[x] = "route" /\ DOMAIN pc' = Exchanges
      /\ req'[x] = r /\ DOMAIN req' = Exchanges
      /\ out'[x] = [Generated!Blank EXCEPT !.id = r.preset]
      /\ DOMAIN out' = Exchanges
      /\ \A y \in Exchanges \ {x} : /\ pc'[y] = pc[y] /\ req'[y] = req[y]
                                    /\ out'[y] = out[y]
  BY <1>1 DEF Mount, Domains, Generated!Receive
<1>4. /\ client[x] \in ClientRequests /\ pc[x] = "idle"
      /\ reply[x] = "none"
  BY <1>1, <1>2 DEF ExchangeInv, Wrapped, Unmounted
<1>5. r.preset = id[x]
  BY <1>4, ClientAssumption DEF Forward
<1> HIDE DEF r
<1>6. /\ DOMAIN out'[x] = DOMAIN Generated!Blank /\ out'[x].id = id[x]
      /\ out'[x].body.type = "none"
  <2>1. DOMAIN out'[x] = DOMAIN Generated!Blank /\ out'[x].id = r.preset
        /\ out'[x].body = Generated!Blank.body
    BY <1>3 DEF Generated!Blank
  <2>2. Generated!Blank.body.type = "none"
    BY DEF Generated!Blank, Generated!Nothing
  <2> QED
    BY <1>5, <2>1, <2>2
<1>7. Wrapped(x)'
  BY <1>1, <1>2, <1>3, <1>4 DEF ExchangeInv, Wrapped, Identified, Unmounted, r
<1>8. Answering(x)'
  BY <1>1, <1>2, <1>3, <1>4, <1>6 DEF ExchangeInv, Answering, Probes
<1>9. Domains' /\ UNCHANGED process /\ \A y \in Exchanges \ {x} : Still(y)
  BY <1>1, <1>2, <1>3 DEF Domains, Still, process
<1> QED
  BY <1>7, <1>8, <1>9 DEF StepOf, ExchangeInv

LEMMA LeaveStep ==
    ASSUME RoutesInv, NEW x \in Exchanges, Dismiss(x) \/ Return(x) \/ Expire(x)
    PROVE  StepOf(x)
<1>1. ExchangeInv(x) /\ Domains
  BY DEF RoutesInv
<1>2. UNCHANGED <<process, client, id, saw, inner>>
  BY DEF Dismiss, Return, Expire
<1>3. CASE Dismiss(x)
  <2>1. /\ outer[x] = "armed" /\ outer'[x] = "inside"
        /\ reply'[x] \in {"redirect", "not_found"}
        /\ DOMAIN outer' = Exchanges /\ DOMAIN reply' = Exchanges
        /\ \A y \in Exchanges \ {x} :
              outer'[y] = outer[y] /\ reply'[y] = reply[y]
    BY <1>1, <1>3 DEF Dismiss, Domains, Mux
  <2> QED
    BY <1>1, <1>2, <2>1
    DEF StepOf, Still, Domains, ExchangeInv, Wrapped, Answering, inner,
        Unmounted, Identified, Probes, ProbeAnswer
<1>4. CASE Return(x)
  <2>1. /\ outer[x] = "inside" /\ outer'[x] = "answered" /\ UNCHANGED reply
        /\ DOMAIN outer' = Exchanges
        /\ \A y \in Exchanges \ {x} : outer'[y] = outer[y]
    BY <1>1, <1>4 DEF Return, Domains
  <2> QED
    BY <1>1, <1>2, <2>1
    DEF StepOf, Still, Domains, ExchangeInv, Wrapped, Answering, inner,
        Unmounted, Identified, Probes, ProbeAnswer
<1>5. CASE Expire(x)
  <2>1. UNCHANGED <<outer, reply>>
    BY <1>5 DEF Expire
  <2> QED
    BY <1>1, <1>2, <2>1
    DEF StepOf, Still, Domains, ExchangeInv, Wrapped, Answering, inner,
        Unmounted, Identified, Probes, ProbeAnswer
<1> QED
  BY <1>3, <1>4, <1>5

\* The handler of a probe gets the id and answers with it.
LEMMA CallStep ==
    ASSUME RoutesInv, NEW x \in Exchanges, CallHandler(x)
    PROVE  /\ Domains' /\ ExchangeInv(x)' /\ UNCHANGED process
           /\ \A y \in Exchanges \ {x} : Still(y)
           /\ \E o \in HealthOutcomes[route[x].op] : Generated!Call(x, o)
<1>1. ExchangeInv(x) /\ Domains
  BY DEF RoutesInv
<1>2. PICK o \in Handler(route[x].op, params[x]) : Generated!Call(x, o)
  BY DEF CallHandler
<1>3. /\ pc[x] = "call" /\ route[x].op \in Probes /\ reply[x] = "generated"
      /\ params[x].XRequestID = NewOptRequestId(id[x]) /\ id[x] \in ValidIds
      /\ out[x].id = id[x] /\ out[x].body.type \in {"none", "not_found"}
  BY <1>1 DEF CallHandler, ExchangeInv, Wrapped, Answering, Identified
<1>4. o = IF route[x].op = "getLiveness" \/ life = "serving"
          THEN HealthyResponse(id[x]) ELSE Unavailable(id[x])
  <2>1. RequestId(params[x].XRequestID) = {id[x]}
    BY <1>3 DEF RequestId, NewOptRequestId
  <2> QED
    BY <1>2, <1>3, <2>1
    DEF Handler, GetLiveness, GetReadiness, Probes, RoutesInv
<1>5. o \in HealthOutcomes[route[x].op]
  BY <1>3, <1>4 DEF HealthOutcomes, Probes
<1>6. o.err = "none"
  BY <1>4 DEF HealthyResponse, Unavailable
<1>7. /\ pc' = [pc EXCEPT ![x] = "encode"]
      /\ result' = [result EXCEPT ![x] = o]
      /\ DOMAIN params' = Exchanges
      /\ \A y \in Exchanges \ {x} : params'[y] = params[y]
      /\ UNCHANGED <<req, route, out>>
  <2>1. \E p : params' = [params EXCEPT ![x] = p]
    BY <1>2 DEF Generated!Call
  <2> QED
    BY <1>1, <1>2, <1>6, <2>1
    DEF Generated!Call, Generated!configuration, Generated!counters, Domains
<1>8. saw' = [saw EXCEPT ![x] = life] /\ UNCHANGED <<process, wrappers>>
  BY DEF CallHandler
<1>9. result'[x] = ProbeAnswer(x)'
  BY <1>1, <1>4, <1>7, <1>8 DEF Domains, ProbeAnswer, wrappers
<1>10. Wrapped(x)'
  BY <1>1, <1>3, <1>7, <1>8 DEF ExchangeInv, Wrapped, wrappers, Domains
<1>11. Answering(x)'
  BY <1>1, <1>3, <1>7, <1>8, <1>9 DEF ExchangeInv, Answering, wrappers, Domains
<1>12. Domains' /\ \A y \in Exchanges \ {x} : Still(y)
  BY <1>1, <1>7, <1>8 DEF Domains, Still, wrappers
<1> QED
  BY <1>2, <1>5, <1>8, <1>10, <1>11, <1>12 DEF ExchangeInv

\* The generated server finds no route, or one to a probe.
LEMMA RouteStep ==
    ASSUME RoutesInv, NEW x \in Exchanges,
           Generated!Unrouted(x) \/ Generated!Start(x),
           UNCHANGED <<process, wrappers, saw>>
    PROVE  StepOf(x)
<1>1. ExchangeInv(x) /\ Domains
  BY DEF RoutesInv
<1>2. /\ pc[x] = "route" /\ route[x].op = "none" /\ reply[x] = "generated"
      /\ client[x] \in ClientRequests /\ req[x] = Forward(client[x], id[x])
      /\ Mux(client[x].sent) = "generated" /\ result[x] = Generated!NoResult
      /\ DOMAIN out[x] = DOMAIN Generated!Blank /\ out[x].id = id[x]
      /\ out[x].body.type \in {"none", "not_found"}
  BY <1>1 DEF ExchangeInv, Wrapped, Answering, Generated!Unrouted,
     Generated!Start
<1>3. CASE Generated!Unrouted(x)
  <2>1. /\ pc' = [pc EXCEPT ![x] = "done"]
        /\ UNCHANGED <<req, route, params, result>>
        /\ DOMAIN out' = Exchanges
        /\ \A y \in Exchanges \ {x} : out'[y] = out[y]
        /\ \/ out'[x] = Generated!NotFound(out[x])
           \/ out'[x] = Generated!NotAllowed(out[x], req[x])
    BY <1>1, <1>3 DEF Generated!Unrouted, Domains
  <2>2. /\ DOMAIN out'[x] = DOMAIN Generated!Blank /\ out'[x].id = id[x]
        /\ out'[x].body.type \in {"none", "not_found"}
    <3>1. CASE out'[x] = Generated!NotFound(out[x])
      BY <1>2, <3>1 DEF Generated!NotFound, Generated!Blank, Generated!Nothing
    <3>2. CASE out'[x] = Generated!NotAllowed(out[x], req[x])
      <4> DEFINE told == IF req[x].method # "OPTIONS" THEN {}
                         ELSE {"Access-Control-Allow-Methods"}
                              \union IF req[x].asks = "GET"
                                     THEN {"Access-Control-Allow-Headers"}
                                     ELSE {}
      <4>1. \/ out'[x] = [out[x] EXCEPT !.status = CustomStatus,
                                        !.allow = told]
            \/ out'[x] = [out[x] EXCEPT !.status = 204, !.allow = told]
            \/ out'[x] = [out[x] EXCEPT !.status = 405, !.allow = {"Allow"}]
        BY <3>2 DEF Generated!NotAllowed
      <4> HIDE DEF told
      <4>2. /\ DOMAIN out'[x] = DOMAIN out[x] /\ out'[x].id = out[x].id
            /\ out'[x].body = out[x].body
        BY <1>2, <4>1 DEF Generated!Blank
      <4> QED
        BY <1>2, <4>2
    <3> QED
      BY <2>1, <3>1, <3>2
  <2> QED
    BY <1>1, <1>2, <2>1, <2>2
    DEF StepOf, Still, Domains, ExchangeInv, Wrapped, Answering, wrappers,
        Probes, ProbeAnswer
<1>4. CASE Generated!Start(x)
  <2>1. req[x].url = ParseURL(client[x].sent) /\ client[x].sent \in Seq(Tokens)
    <3>1. /\ client[x].url = ParseURL(client[x].sent)
          /\ client[x].sent \in Seq(STRING)
      BY <1>2, ClientAssumption
    <3>2. req[x].url = client[x].url
      BY <1>2, ClientAssumption DEF Forward
    <3>3. Seq(STRING) \subseteq Seq(Tokens)
      BY SeqMonotonic DEF Tokens
    <3> QED
      BY <3>1, <3>2, <3>3
  <2>2. /\ route'[x] = ServeHTTP(req[x].method, req[x].url, cfg.Prefix)
        /\ route'[x].op \in Operations
        /\ DOMAIN route' = Exchanges /\ DOMAIN pc' = Exchanges
        /\ pc'[x] = IF route'[x].op = "getOrganization" THEN "secure"
                    ELSE "decode"
        /\ \A y \in Exchanges \ {x} : route'[y] = route[y] /\ pc'[y] = pc[y]
        /\ UNCHANGED <<req, params, result, out>>
    <3> DEFINE found ==
                  Generated!ServeHTTP(req[x].method, req[x].url, cfg.Prefix)
    <3>1. /\ found = ServeHTTP(req[x].method, req[x].url, cfg.Prefix)
          /\ found.op \in Operations
          /\ route' = [route EXCEPT ![x] = found]
          /\ pc' = [pc EXCEPT ![x] = IF found.op = "getOrganization"
                                    THEN "secure" ELSE "decode"]
      <4>1. found = ServeHTTP(req[x].method, req[x].url, cfg.Prefix)
        BY SameOperators
      <4>2. Generated!Operations = Operations
        BY DEF Generated!Operations, Operations
      <4> QED
        BY <1>4, <4>1, <4>2 DEF Generated!Start
    <3> HIDE DEF found
    <3>2. UNCHANGED <<req, params, result, out>>
      BY <1>4 DEF Generated!Start
    <3> QED
      BY <1>1, <3>1, <3>2 DEF Domains
  <2>3. route'[x].op \in Probes /\ pc'[x] = "decode"
    BY <1>2, <2>1, <2>2, HealthOnly DEF Operations, Probes
  <2> QED
    BY <1>1, <1>2, <2>2, <2>3
    DEF StepOf, Still, Domains, ExchangeInv, Wrapped, Answering, wrappers,
        Probes, ProbeAnswer
<1> QED
  BY <1>3, <1>4

\* Decoding does not fail: the wrapper has seen to it that the id is valid.
LEMMA DecodeStep ==
    ASSUME RoutesInv, NEW x \in Exchanges, Generated!Decode(x),
           UNCHANGED <<process, wrappers, saw>>
    PROVE  StepOf(x)
<1>1. ExchangeInv(x) /\ Domains
  BY DEF RoutesInv
<1>2. /\ pc[x] = "decode" /\ route[x].op \in Probes /\ reply[x] = "generated"
      /\ client[x] \in ClientRequests /\ req[x] = Forward(client[x], id[x])
      /\ id[x] \in ValidIds
  BY <1>1 DEF ExchangeInv, Wrapped, Answering, Generated!Decode, Identified
<1>3. req[x].id = NewOptRequestId(id[x])
  BY <1>2, ClientAssumption DEF Forward
<1> DEFINE decoded == Generated!DecodeParams(route[x].op, req[x], route[x])
<1>4. /\ decoded.ok
      /\ decoded.value = [Generated!NoParams EXCEPT !.XRequestID = req[x].id]
  <2>1. Generated!ValidRequestId(req[x].id.Value)
    BY <1>2, <1>3, SameOperators DEF NewOptRequestId, ValidIds
  <2>2. decoded = [ok |-> TRUE,
                   value |->
                      [Generated!NoParams EXCEPT !.XRequestID = req[x].id]]
    BY <1>2, <2>1 DEF Generated!DecodeParams, Generated!DecodeGetLivenessParams,
       Generated!DecodeGetReadinessParams, Probes
  <2> QED
    BY <2>2
<1>5. /\ params' = [params EXCEPT ![x] = decoded.value]
      /\ pc' = [pc EXCEPT ![x] = "call"]
      /\ UNCHANGED <<req, route, result, out>>
  BY <1>4 DEF Generated!Decode
<1> HIDE DEF decoded
<1>6. decoded.value.XRequestID = NewOptRequestId(id[x])
  BY <1>3, <1>4 DEF Generated!NoParams
<1> QED
  BY <1>1, <1>2, <1>5, <1>6
  DEF StepOf, Still, Domains, ExchangeInv, Wrapped, Answering, wrappers,
      Probes, ProbeAnswer

\* The response is encoded, whether its body gets through or not.
LEMMA EncodeStep ==
    ASSUME RoutesInv, NEW x \in Exchanges,
           Generated!Encode(x) \/ Generated!EncodeCut(x),
           UNCHANGED <<process, wrappers, saw>>
    PROVE  StepOf(x)
<1>1. ExchangeInv(x) /\ Domains
  BY DEF RoutesInv
<1>2. /\ pc[x] = "encode" /\ route[x].op \in Probes /\ reply[x] = "generated"
      /\ result[x] = ProbeAnswer(x) /\ DOMAIN out[x] = DOMAIN Generated!Blank
      /\ UNCHANGED <<req, route, params, result>>
  BY <1>1 DEF ExchangeInv, Wrapped, Answering, Generated!Encode,
     Generated!EncodeCut
<1> DEFINE w == Generated!EncodeResponse(route[x].op, out[x], result[x])
           b == Generated!WithBody(out[x], result[x])
<1>3. /\ DOMAIN b = DOMAIN Generated!Blank
      /\ b.status = Generated!StatusOf[result[x].type]
      /\ b.id = result[x].value.XRequestID
      /\ b.body = [type |-> result[x].type, value |-> result[x].value]
  BY <1>2 DEF Generated!WithBody, Generated!Blank
<1>4. \E r : w \in {b, [b EXCEPT !.retry = r]}
  BY <1>2 DEF Generated!EncodeResponse, Generated!EncodeGetLivenessResponse,
     Generated!EncodeGetReadinessResponse, Probes
<1>5. result[x].value.XRequestID = id[x]
  BY <1>2 DEF ProbeAnswer, HealthyResponse, Unavailable
<1>6. /\ DOMAIN out' = Exchanges /\ DOMAIN pc' = Exchanges
      /\ out'[x] \in {w, [w EXCEPT !.cut = TRUE]}
      /\ pc'[x] \in {"count", "record"}
      /\ \A y \in Exchanges \ {x} : out'[y] = out[y] /\ pc'[y] = pc[y]
  BY <1>1 DEF Generated!Encode, Generated!EncodeCut, Domains
<1> HIDE DEF w, b
<1>7. /\ DOMAIN w = DOMAIN Generated!Blank
      /\ w.status = Generated!StatusOf[result[x].type]
      /\ w.id = id[x]
      /\ w.body = [type |-> result[x].type, value |-> result[x].value]
  BY <1>3, <1>4, <1>5 DEF Generated!Blank
<1>8. /\ DOMAIN out'[x] = DOMAIN Generated!Blank
      /\ out'[x].status = Generated!StatusOf[result[x].type]
      /\ out'[x].id = id[x]
      /\ out'[x].body = [type |-> result[x].type, value |-> result[x].value]
  BY <1>6, <1>7 DEF Generated!Blank
<1>9. Wrapped(x)'
  BY <1>1, <1>2, <1>6 DEF ExchangeInv, Wrapped, wrappers
<1>10. Answering(x)'
  BY <1>1, <1>2, <1>6, <1>8
  DEF ExchangeInv, Answering, ProbeAnswer, wrappers, Probes
<1>11. Domains' /\ UNCHANGED process /\ \A y \in Exchanges \ {x} : Still(y)
  BY <1>1, <1>2, <1>6 DEF Domains, Still, wrappers, process
<1> QED
  BY <1>9, <1>10, <1>11 DEF StepOf, ExchangeInv

\* The deferred functions only count.
LEMMA CountingStep ==
    ASSUME RoutesInv, NEW x \in Exchanges,
           Generated!RecordError(x) \/ Generated!CountRequest(x),
           UNCHANGED <<process, wrappers, saw>>
    PROVE  StepOf(x)
<1>1. ExchangeInv(x) /\ Domains
  BY DEF RoutesInv
<1>2. /\ \/ pc[x] = "record" /\ pc'[x] = "count"
         \/ pc[x] = "count" /\ pc'[x] = "done"
      /\ DOMAIN pc' = Exchanges
      /\ \A y \in Exchanges \ {x} : pc'[y] = pc[y]
      /\ UNCHANGED <<req, route, params, result, out>>
  BY <1>1 DEF Generated!RecordError, Generated!CountRequest, Domains
<1>3. Wrapped(x)'
  BY <1>1, <1>2 DEF ExchangeInv, Wrapped, wrappers
<1>4. Answering(x)'
  BY <1>1, <1>2 DEF ExchangeInv, Answering, ProbeAnswer, wrappers, Probes
<1>5. Domains' /\ UNCHANGED process /\ \A y \in Exchanges \ {x} : Still(y)
  BY <1>1, <1>2 DEF Domains, Still, wrappers, process
<1> QED
  BY <1>3, <1>4, <1>5 DEF StepOf, ExchangeInv

LEMMA InsideStep ==
    ASSUME RoutesInv, NEW x \in Exchanges, Inside(x)
    PROVE  StepOf(x)
<1>1. UNCHANGED <<process, wrappers, saw>>
  BY DEF Inside
<1>2. CASE Generated!Unrouted(x) \/ Generated!Start(x)
  BY <1>1, <1>2, RouteStep
<1>3. CASE Generated!Decode(x)
  BY <1>1, <1>3, DecodeStep
<1>4. CASE Generated!Encode(x) \/ Generated!EncodeCut(x)
  BY <1>1, <1>4, EncodeStep
<1>5. CASE Generated!RecordError(x) \/ Generated!CountRequest(x)
  BY <1>1, <1>5, CountingStep
<1> QED
  BY <1>2, <1>3, <1>4, <1>5 DEF Inside

-----------------------------------------------------------------------------

LEMMA RoutesInvInit == Init => RoutesInv
<1> SUFFICES ASSUME Init PROVE RoutesInv
  OBVIOUS
<1>1. Domains
  BY DEF Init, Generated!Init, Domains
<1>2. ready <=> life = "serving"
  BY DEF Init
<1>3. ASSUME NEW x \in Exchanges PROVE ExchangeInv(x)
  <2>1. /\ outer[x] = "idle" /\ reply[x] = "none" /\ pc[x] = "idle"
        /\ route[x].op = "none" /\ result[x] = Generated!NoResult
        /\ out[x] = Generated!Blank
    BY DEF Init, Generated!Init
  <2>2. Generated!Blank.body.type = "none"
    BY DEF Generated!Blank, Generated!Nothing
  <2> QED
    BY <2>1, <2>2 DEF ExchangeInv, Wrapped, Answering, Identified, Unmounted
<1> QED
  BY <1>1, <1>2, <1>3 DEF RoutesInv

LEMMA RoutesInvNext == RoutesInv /\ [Next]_vars => RoutesInv'
<1> SUFFICES ASSUME RoutesInv, [Next]_vars PROVE RoutesInv'
  OBVIOUS
<1>1. ASSUME UNCHANGED <<wrappers, saw, pc, req, route, params, result, out>>,
             ready' <=> life' = "serving"
      PROVE  RoutesInv'
  BY <1>1 DEF wrappers, RoutesInv, Domains, ExchangeInv, Wrapped, Answering,
     ProbeAnswer
<1>2. CASE UNCHANGED vars
  BY <1>1, <1>2 DEF vars, inner, process, RoutesInv
<1>3. CASE NewRoutes
  BY <1>1, <1>3 DEF NewRoutes, Generated!NewServer, Generated!goroutine,
     process, RoutesInv
<1>4. CASE MarkReady
  BY <1>1, <1>4 DEF MarkReady, inner
<1>5. CASE MarkNotReady
  BY <1>1, <1>5 DEF MarkNotReady, inner
<1>6. ASSUME NEW x \in Exchanges,
             \/ \E r \in ClientRequests : Arrive(x, r)
             \/ Handle(x) \/ Expire(x)
      PROVE  RoutesInv'
  <2>1. StepOf(x)
    BY <1>6, WrapStep, MountStep, LeaveStep, CallStep, InsideStep
    DEF Handle, StepOf
  <2> QED
    BY <2>1, StepKeeps
<1> QED
  BY <1>2, <1>3, <1>4, <1>5, <1>6 DEF Next

LEMMA RoutesInvAlways == Spec => []RoutesInv
  BY RoutesInvInit, RoutesInvNext, PTL DEF Spec

-----------------------------------------------------------------------------
(* The theorems.                                                           *)

\* OrganizationHidden, whatever paths clients send and however they escape them.
THEOREM NoWayToOrganizations == Spec => []OrganizationHidden
<1>1. RoutesInv => OrganizationHidden
  BY DEF RoutesInv, ExchangeInv, Answering, Probes, OrganizationHidden
<1> QED
  BY <1>1, RoutesInvAlways, PTL

\* EffectiveId, whatever ids clients send.
THEOREM OneEffectiveId == Spec => []EffectiveId
<1>1. RoutesInv => EffectiveId
  <2> SUFFICES ASSUME RoutesInv, NEW x \in Exchanges, outer[x] \in Identified
               PROVE  /\ ValidRequestId(id[x])
                      /\ client[x].id.Set /\ ValidRequestId(client[x].id.Value)
                            => id[x] = client[x].id.Value
                      /\ reply[x] = "generated" => out[x].id = id[x]
                      /\ out[x].body.type = "ServiceUnavailableHeaders"
                            => out[x].body.value.Response.error.requestId
                                  = id[x]
    BY DEF EffectiveId, Identified
  <2>1. Wrapped(x) /\ Answering(x)
    BY DEF RoutesInv, ExchangeInv
  <2>2. ASSUME out[x].body.type = "ServiceUnavailableHeaders"
        PROVE  out[x].body.value.Response.error.requestId = id[x]
    <3>1. \/ out[x].body.type \in {"none", "not_found"}
          \/ /\ result[x] = ProbeAnswer(x)
             /\ out[x].body = [type |-> result[x].type,
                               value |-> result[x].value]
      BY <2>1 DEF Answering
    <3>2. ProbeAnswer(x).type = "ServiceUnavailableHeaders"
             => ProbeAnswer(x) = Unavailable(id[x])
      BY DEF ProbeAnswer, HealthyResponse
    <3>3. Unavailable(id[x]).value.Response.error.requestId = id[x]
      BY DEF Unavailable
    <3> QED
      BY <2>1, <2>2, <3>1, <3>2, <3>3
  <2> QED
    BY <2>1, <2>2 DEF Wrapped, Answering, ValidIds
<1> QED
  BY <1>1, RoutesInvAlways, PTL

\* A record of checks that hold has no field that fails.
LEMMA NoneFails ==
    ASSUME NEW c, \A f \in DOMAIN c : c[f]
    PROVE  Failing(c) = {}
  BY DEF Failing

\* What the handlers of the probes answer is valid.
LEMMA AnswersAreValid ==
    ASSUME NEW i \in ValidIds
    PROVE  /\ ValidateResponse(HealthyResponse(i)) = {}
           /\ ValidateResponse(Unavailable(i)) = {}
<1>1. ValidRequestId(i)
  BY DEF ValidIds
<1>2. ValidateResponse(HealthyResponse(i)) = {}
  <2> DEFINE res == HealthyResponse(i)
  <2>1. /\ res.type = "HealthStatusHeaders" /\ res.value.XRequestID = i
        /\ res.value.Response.status = "ok"
    BY DEF HealthyResponse
  <2> HIDE DEF res
  <2>2. ValidateHealthStatus(res.value.Response) = {}
    <3> DEFINE c == [status |->
                      ValidHealthStatusStatus(res.value.Response.status)]
    <3>1. DOMAIN c = {"status"} /\ c.status
      BY <2>1 DEF ValidHealthStatusStatus, HealthStatusStatus
    <3> HIDE DEF c
    <3>2. Failing(c) = {}
      BY <3>1, NoneFails
    <3> QED
      BY <3>2 DEF ValidateHealthStatus, c
  <2>3. ValidateHealthStatusHeaders(res.value) = {}
    <3> DEFINE c == [XRequestID |-> ValidRequestId(res.value.XRequestID),
                    Response |-> ValidateHealthStatus(res.value.Response) = {}]
    <3>1. DOMAIN c = {"XRequestID", "Response"} /\ c.XRequestID /\ c.Response
      BY <1>1, <2>1, <2>2
    <3> HIDE DEF c
    <3>2. Failing(c) = {}
      BY <3>1, NoneFails
    <3> QED
      BY <3>2 DEF ValidateHealthStatusHeaders, c
  <2> QED
    BY <2>1, <2>3 DEF ValidateResponse, res
<1>3. ValidateResponse(Unavailable(i)) = {}
  <2> DEFINE res == Unavailable(i)
             e == res.value.Response.error
  <2>1. /\ res.type = "ServiceUnavailableHeaders" /\ res.value.XRequestID = i
        /\ ~res.value.RetryAfter.Set
    BY DEF Unavailable, UnsetInt
  <2>2. /\ e.code = "SERVICE_UNAVAILABLE" /\ e.message = "unavailable"
        /\ e.requestId = i /\ ~e.details.Set
    BY DEF Unavailable, NoDetails
  <2> HIDE DEF res
  <2> HIDE DEF e
  <2>3. ValidateError(e) = {}
    <3> DEFINE c == [code |-> Sized(e.code, 1, 96)
                                 /\ e.code \in Matches["code"],
                    message |-> Sized(e.message, 1, 512),
                    requestId |-> ValidRequestId(e.requestId),
                    details |->
                       \/ ~e.details.Set
                       \/ /\ Len(e.details.List) =< 20
                          /\ \A j \in DOMAIN e.details.List :
                               ValidateErrorDetail(e.details.List[j]) = {}]
    <3>1. /\ DOMAIN c = {"code", "message", "requestId", "details"}
          /\ c.code /\ c.message /\ c.requestId /\ c.details
      BY <1>1, <2>2, MessageAssumption
    <3> HIDE DEF c
    <3>2. Failing(c) = {}
      BY <3>1, NoneFails
    <3> QED
      BY <3>2 DEF ValidateError, c
  <2>4. ValidateErrorEnvelope(res.value.Response) = {}
    <3> DEFINE c == [error |-> ValidateError(res.value.Response.error) = {}]
    <3>1. DOMAIN c = {"error"} /\ c.error
      BY <2>3 DEF e
    <3> HIDE DEF c
    <3>2. Failing(c) = {}
      BY <3>1, NoneFails
    <3> QED
      BY <3>2 DEF ValidateErrorEnvelope, c
  <2>5. ValidateServiceUnavailable(res.value) = {}
    <3> DEFINE c == [RetryAfter |-> res.value.RetryAfter.Set
                                     => res.value.RetryAfter.Value \in 1..300,
                    XRequestID |-> ValidRequestId(res.value.XRequestID),
                    Response |-> ValidateErrorEnvelope(res.value.Response) = {}]
    <3>1. DOMAIN c = {"RetryAfter", "XRequestID", "Response"} /\ c.RetryAfter
          /\ c.XRequestID /\ c.Response
      BY <1>1, <2>1, <2>4
    <3> HIDE DEF c
    <3>2. Failing(c) = {}
      BY <3>1, NoneFails
    <3> QED
      BY <3>2 DEF ValidateServiceUnavailable, c
  <2> QED
    BY <2>1, <2>5 DEF ValidateResponse, res
<1> QED
  BY <1>2, <1>3

\* ProbeTellsTheTime, whenever the process turns ready and back.
THEOREM ProbesTellTheTime == Spec => []ProbeTellsTheTime
<1>1. RoutesInv => ProbeTellsTheTime
  <2> SUFFICES ASSUME RoutesInv, NEW x \in Exchanges
               PROVE  /\ /\ pc[x] \in {"count", "done"}
                         /\ route[x].op \in Operations
                         => out[x].status =
                               IF \/ route[x].op = "getLiveness"
                                  \/ saw[x] = "serving"
                               THEN 200 ELSE 503
                      /\ result[x].type # "nil"
                            => ValidateResponse(result[x]) = {}
    BY DEF ProbeTellsTheTime
  <2>1. Wrapped(x) /\ Answering(x)
    BY DEF RoutesInv, ExchangeInv
  <2>2. ASSUME pc[x] \in {"count", "done"}, route[x].op \in Operations
        PROVE  out[x].status =
                  IF route[x].op = "getLiveness" \/ saw[x] = "serving"
                  THEN 200 ELSE 503
    <3>1. route[x].op \in Probes /\ result[x] = ProbeAnswer(x)
          /\ out[x].status = Generated!StatusOf[result[x].type]
      BY <2>1, <2>2 DEF Answering, Probes, Operations
    <3> QED
      BY <3>1 DEF ProbeAnswer, HealthyResponse, Unavailable, Generated!StatusOf
  <2>3. ASSUME result[x].type # "nil"
        PROVE  ValidateResponse(result[x]) = {}
    <3>1. Generated!NoResult.type = "nil"
      BY DEF Generated!NoResult
    <3>2. result[x] = ProbeAnswer(x) /\ id[x] \in ValidIds
      BY <2>1, <2>3, <3>1 DEF Wrapped, Answering, Identified, Probes
    <3> QED
      BY <3>2, AnswersAreValid DEF ProbeAnswer
  <2> QED
    BY <2>2, <2>3
<1> QED
  BY <1>1, RoutesInvAlways, PTL

-----------------------------------------------------------------------------
(* The refinement.                                                         *)

\* Every step of the routes is one of the generated server, or none.
LEMMA StepRefines ==
    RoutesInv /\ [Next]_vars => [Generated!Next]_(Generated!vars)
<1> SUFFICES ASSUME RoutesInv, [Next]_vars
             PROVE  Generated!Next \/ UNCHANGED Generated!vars
  OBVIOUS
<1>1. UNCHANGED inner => UNCHANGED Generated!vars
  BY DEF inner, Generated!vars
<1>2. CASE UNCHANGED vars
  BY <1>1, <1>2 DEF vars
<1>3. CASE NewRoutes
  BY <1>3 DEF NewRoutes, Generated!Next
<1>4. CASE MarkReady \/ MarkNotReady
  BY <1>1, <1>4 DEF MarkReady, MarkNotReady
<1>5. ASSUME NEW x \in Exchanges, \E r \in ClientRequests : Arrive(x, r)
      PROVE  UNCHANGED inner
  BY <1>5 DEF Arrive
<1>6. ASSUME NEW x \in Exchanges, \/ Identify(x) \/ ArmTimeout(x)
                                  \/ Dismiss(x) \/ Return(x) \/ Expire(x)
      PROVE  UNCHANGED inner
  BY <1>6 DEF Identify, ArmTimeout, Dismiss, Return, Expire
<1>7. ASSUME NEW x \in Exchanges, Mount(x) PROVE Generated!Next
  <2>1. client[x] \in ClientRequests /\ id[x] \in ValidIds
    BY <1>7 DEF Mount, RoutesInv, ExchangeInv, Wrapped, Identified
  <2>2. Forward(client[x], id[x]) \in Forwarded
    BY <2>1 DEF Forwarded
  <2> QED
    BY <1>7, <2>2 DEF Mount, Generated!Next
<1>8. ASSUME NEW x \in Exchanges, CallHandler(x) PROVE Generated!Next
  <2>1. \E o \in HealthOutcomes[route[x].op] : Generated!Call(x, o)
    BY <1>8, CallStep
  <2>2. route[x].op \in Probes
    BY <1>8 DEF CallHandler, RoutesInv, ExchangeInv, Answering
  <2> QED
    BY <2>1, <2>2
    DEF Generated!Next, Generated!Serve, Generated!Respond, Probes,
        Generated!HandleGetLivenessRequest, Generated!HandleGetReadinessRequest
<1>9. ASSUME NEW x \in Exchanges, Inside(x) PROVE Generated!Next
  <2>1. CASE Generated!Unrouted(x) \/ Generated!Start(x)
    BY <2>1 DEF Generated!Next, Generated!Serve
  <2>2. CASE \/ Generated!Decode(x) \/ Generated!Encode(x)
             \/ Generated!EncodeCut(x) \/ Generated!RecordError(x)
             \/ Generated!CountRequest(x)
    <3>1. pc[x] \in {"decode", "encode", "record", "count"}
      BY <2>2 DEF Generated!Decode, Generated!Encode, Generated!EncodeCut,
         Generated!RecordError, Generated!CountRequest
    <3>2. route[x].op \in Probes
      BY <3>1 DEF RoutesInv, ExchangeInv, Answering
    <3> QED
      BY <2>2, <3>2
      DEF Generated!Next, Generated!Serve, Generated!Respond, Probes,
          Generated!HandleGetLivenessRequest,
          Generated!HandleGetReadinessRequest
  <2> QED
    BY <1>9, <2>1, <2>2 DEF Inside
<1> QED
  BY <1>1, <1>2, <1>3, <1>4, <1>5, <1>6, <1>7, <1>8, <1>9 DEF Next, Handle

\* ImplementsGenerated: the program's handlers, its requests and its options
\* are such that every theorem about the generated server is about them.
THEOREM RoutesRefine == Spec => ImplementsGenerated
<1>1. Init => Generated!Init
  BY DEF Init
<1> QED
  BY <1>1, StepRefines, RoutesInvAlways, PTL
  DEF Spec, ImplementsGenerated, Generated!Spec

\* What OpenApiServer assumes of its handlers, requests and options is true of
\* the program's, so that its theorems hold of the instance.
THEOREM GeneratedExpectations ==
    /\ Generated!ServerAssumption
    /\ Generated!InputAssumption
    /\ Generated!OutcomeAssumption
    /\ Generated!OptionAssumption
<1>1. Generated!ServerAssumption
  BY RoutesAssumption DEF Generated!ServerAssumption, Generated!IsFiniteSet,
     IsFiniteSet
<1>2. Generated!InputAssumption
  <2> SUFFICES ASSUME NEW c \in ClientRequests, NEW i \in ValidIds
               PROVE  LET r == Forward(c, i)
                      IN /\ r.sent \in Seq(STRING)
                         /\ r.url = Generated!ParseURL(r.sent)
                         /\ r.id \in Generated!OptRequestId
                         /\ r.preset \in Text
    BY DEF Generated!InputAssumption, Forwarded
  <2> DEFINE r == Forward(c, i)
  <2>1. /\ r.sent = c.sent /\ r.url = c.url /\ r.id = NewOptRequestId(i)
        /\ r.preset = i /\ c.url = ParseURL(c.sent)
        /\ c.sent \in Seq(STRING)
    BY ClientAssumption DEF Forward
  <2> HIDE DEF r
  <2>2. Generated!ParseURL(r.sent) = ParseURL(r.sent)
    BY DEF Generated!ParseURL, ParseURL, Generated!PathUnescape, PathUnescape
  <2>3. NewOptRequestId(i) \in Generated!OptRequestId
    BY DEF NewOptRequestId, Generated!OptRequestId, ValidIds
  <2> QED
    BY <2>1, <2>2, <2>3 DEF r, ValidIds
<1>3. Generated!OutcomeAssumption
  <2>1. DOMAIN HealthOutcomes = Generated!Operations
    BY DEF HealthOutcomes, Generated!Operations
  <2>2. ASSUME NEW i \in ValidIds
        PROVE  /\ HealthyResponse(i).value \in Generated!HealthStatusHeaders
               /\ Unavailable(i).value \in Generated!ServiceUnavailableHeaders
    <3>1. i \in Text
      BY DEF ValidIds
    <3>2. HealthyResponse(i).value \in Generated!HealthStatusHeaders
      BY <3>1, TextAssumption DEF HealthyResponse,
         Generated!HealthStatusHeaders, Generated!HealthStatus
    <3>3. NoDetails \in Generated!Details /\ UnsetInt \in Generated!OptInt
      BY TextAssumption DEF NoDetails, Generated!Details, Generated!NoDetails,
         UnsetInt, Generated!OptInt
    <3>4. Unavailable(i).value \in Generated!ServiceUnavailableHeaders
      BY <3>1, <3>3, MessageAssumption DEF Unavailable, Generated!Error,
         Generated!ErrorEnvelope, Generated!ServiceUnavailableHeaders
    <3> QED
      BY <3>2, <3>4
  <2> SUFFICES ASSUME NEW op \in Generated!Operations,
                      NEW o \in HealthOutcomes[op]
               PROVE  /\ o.err \in {"none", "not_implemented", "failure"}
                      /\ o.type \in Generated!ResponseTypes[op] \union {"nil"}
                      /\ o.type # "nil"
                            => o.value \in Generated!ValuesOf(o.type)
    BY <2>1 DEF Generated!OutcomeAssumption
  <2>3. ASSUME NEW i \in ValidIds, o = HealthyResponse(i),
               op \in {"getLiveness", "getReadiness"}
        PROVE  /\ o.err = "none" /\ o.type \in Generated!ResponseTypes[op]
               /\ o.value \in Generated!ValuesOf(o.type)
    <3>1. o.err = "none" /\ o.type = "HealthStatusHeaders"
      BY <2>3 DEF HealthyResponse
    <3>2. o.value \in Generated!HealthStatusHeaders
      BY <2>2, <2>3
    <3> QED
      BY <2>3, <3>1, <3>2 DEF Generated!ResponseTypes, Generated!ValuesOf
  <2>4. ASSUME NEW i \in ValidIds, o = Unavailable(i), op = "getReadiness"
        PROVE  /\ o.err = "none" /\ o.type \in Generated!ResponseTypes[op]
               /\ o.value \in Generated!ValuesOf(o.type)
    <3>1. o.err = "none" /\ o.type = "ServiceUnavailableHeaders"
      BY <2>4 DEF Unavailable
    <3>2. o.value \in Generated!ServiceUnavailableHeaders
      BY <2>2, <2>4
    <3> QED
      BY <2>4, <3>1, <3>2 DEF Generated!ResponseTypes, Generated!ValuesOf
  <2>5. CASE o = NotImplemented
    BY <2>5 DEF NotImplemented
  <2> QED
    BY <2>3, <2>4, <2>5 DEF Generated!Operations, HealthOutcomes
<1>4. Generated!OptionAssumption
  BY DEF Generated!OptionAssumption
<1> QED
  BY <1>1, <1>2, <1>3, <1>4

-----------------------------------------------------------------------------

\* TelemetryAddsUp: what was proved of the generated server with any handlers
\* holds of it with this program's.
THEOREM RoutesTelemetry == Spec => []TelemetryAddsUp
<1>1. Generated!TextAssumption
  BY TextAssumption DEF TextAssumption, Generated!TextAssumption,
     Patterns, Generated!Patterns
<1>2. Generated!EscapeAssumption
  BY EscapeAssumption DEF EscapeAssumption, Generated!EscapeAssumption
<1>3. Generated!Spec => []Generated!TelemetryAddsUp
  BY <1>1, <1>2, GeneratedExpectations, Generated!NothingUncounted, PTL
<1> QED
  BY <1>3, RoutesRefine, PTL DEF ImplementsGenerated, TelemetryAddsUp
=============================================================================
