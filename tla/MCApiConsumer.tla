---------------------------- MODULE MCApiConsumer ----------------------------
(* An instance of ApiConsumer for TLC: strings by what matters of them.      *)
EXTENDS ApiConsumer

MCLengths ==
    ("" :> 0) @@ ("ok" :> 2) @@ ("ACTIVE" :> 6) @@ ("SUSPENDED" :> 9)
      @@ ("id" :> 128) @@ ("long" :> 129) @@ ("odd" :> 3) @@ ("E1" :> 2)
      @@ ("words" :> 512) @@ ("tag" :> 3) @@ ("u1" :> 36) @@ ("U1" :> 36)
      @@ ("u0" :> 36) @@ ("t0" :> 20) @@ ("t1" :> 20) @@ ("t1.5" :> 22)
MCText == DOMAIN MCLengths
MCMatches == [id |-> {"id", "ok", "E1"}, code |-> {"E1", "ACTIVE"},
              etag |-> {"tag"}]
MCUUID == {"uuid0", "uuid1"}
MCTimestamp == {"zero", "one", "one and a half"}
MCNumber == {0, 1, 300, 301}
MCParseUUID ==
    ("u1" :> "uuid1") @@ ("U1" :> "uuid1") @@ ("u0" :> "uuid0")
MCFormatUUID == [uuid0 |-> "u0", uuid1 |-> "u1"]
MCParseTime ==
    ("t0" :> "zero") @@ ("t1" :> "one") @@ ("t1.5" :> "one and a half")
MCFormatTime ==
    ("zero" :> "t0") @@ ("one" :> "t1") @@ ("one and a half" :> "t1")

\* "%25..." stands for a percent sign that was escaped itself.
MCUnescaped ==
    ("%health" :> "health") @@ ("%api" :> "api") @@ ("%u1" :> "u1")
      @@ ("%2F" :> "/") @@ ("%25u1" :> "%u1")
MCEscapes == DOMAIN MCUnescaped
MCReserved == {"%2F", "%25u1"}
MCDefault == {"%25u1"}

Health(leaf) == <<"/", "health", "/", leaf>>
Organizations(rest) ==
    <<"/", "api", "/", "v1", "/", "organizations", "/">> \o rest

Plain(sent) ==
    [NoRequest EXCEPT !.sent = sent, !.url = ParseURL(sent)]
MCInputs ==
    {Plain(s) : s \in
        {<<>>, Health("live"), Health("ready"), Health("other"),
         <<"/", "%health", "/", "live">>, Organizations(<<"u1">>),
         <<"/p">> \o Health("ready")}}
      \union {[Plain(Health("live")) EXCEPT !.id = NewOptRequestId(i)] :
                 i \in {"id", "long", "odd"}}
      \union {[Plain(Health("ready")) EXCEPT !.id = NewOptRequestId("")]}
      \union {[Plain(Health("live")) EXCEPT !.method = m, !.asks = a] :
                 m \in {"POST", "OPTIONS"}, a \in {"", "GET"}}
      \union {[Plain(s) EXCEPT !.cookie = TRUE, !.preset = "id"] : s \in
                 {Organizations(<<"U1">>), Organizations(<<"%u1">>),
                  Organizations(<<>>), Organizations(<<"u1", "/", "u1">>),
                  Organizations(<<"u1", "%2F", "u1">>),
                  Organizations(<<"%25u1">>),
                  <<"/", "%api">> \o Tail(Tail(Organizations(<<"%25u1">>)))}}

Given(n, v) == [name |-> n, value |-> v]
MCOptions ==
    {Given(n, v) : n \in {"TracerProvider", "NotFound", "ErrorHandler"},
                   v \in {"nil", "own"}}
      \union {Given("Middleware", v) : v \in {"none", "one", "chain"}}
      \union {Given("Prefix", v) : v \in {"", "/p"}}
      \union {Given("ErrorHandler", "body_only")}
MCOptionLists ==
    {<<>>, <<Given("MeterProvider", "own"), Given("Attributes", "own")>>,
     <<Given("MethodNotAllowed", "own"), Given("MaxMultipartMemory", "nil")>>,
     <<Given("MaxMultipartMemory", "own"), Given("MethodNotAllowed", "nil")>>}
      \union {<<o>> : o \in MCOptions}
      \union {<<o, p>> : o, p \in {q \in MCOptions : q.name = "Middleware"}}
      \union {<<o, p>> : o, p \in {q \in MCOptions : q.name = "ErrorHandler"}}

Result(type, value) == [err |-> "none", type |-> type, value |-> value]
Detail == [pointer |-> "odd", code |-> "E1", message |-> "words"]
Envelope(details) ==
    [error |-> [code |-> "E1", message |-> "words", requestId |-> "id",
                details |-> details]]
Enveloped(details) == [XRequestID |-> "id", Response |-> Envelope(details)]
Healthy == Result("HealthStatusHeaders",
                  [XRequestID |-> "id", Response |-> [status |-> "ok"]])
Failure(err) == [err |-> err, type |-> "nil", value |-> NoValue]
MCOutcomes ==
    [getLiveness |->
        {Healthy, NoResult, Failure("not_implemented"), Failure("failure"),
         Result("InternalErrorHeaders",
                Enveloped([Set |-> TRUE, List |-> <<>>]))},
     getReadiness |->
        {Healthy,
         Result("ServiceUnavailableHeaders",
                [RetryAfter |-> [Value |-> 300, Set |-> TRUE]]
                  @@ Enveloped([Set |-> TRUE, List |-> <<Detail, Detail>>]))},
     getOrganization |->
        {Result(t, Enveloped(NoDetails)) :
            t \in ResponseTypes["getOrganization"] \ {"OrganizationHeaders"}}
          \union {Result("OrganizationHeaders",
                    [ETag |-> "tag", XRequestID |-> "id",
                     Response |->
                        [id |-> "uuid1", name |-> "words", status |-> s,
                         createdAt |-> "one",
                         updatedAt |-> "one and a half"]]) :
                  s \in {"ACTIVE", "odd"}}]
=============================================================================
