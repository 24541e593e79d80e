---------------------------- MODULE MCHealthRoutes ----------------------------
(* An instance of HealthRoutes for TLC.                                      *)
EXTENDS HealthRoutes, TLC

MCLengths ==
    ("" :> 0) @@ ("ok" :> 2) @@ ("ACTIVE" :> 6) @@ ("SUSPENDED" :> 9)
      @@ ("SERVICE_UNAVAILABLE" :> 19) @@ ("unavailable" :> 39)
      @@ ("mine" :> 128) @@ ("long" :> 129) @@ ("new" :> 36)
MCText == DOMAIN MCLengths
MCMatches == [id |-> {"mine", "new"},
              code |-> {"ACTIVE", "SUSPENDED", "SERVICE_UNAVAILABLE"},
              etag |-> {}]
MCParseUUID == "new" :> "uuid1"

MCUnescaped == ("%health" :> "health") @@ ("%.." :> "..") @@ ("%2F" :> "/")
MCEscapes == DOMAIN MCUnescaped
MCReserved == {"%2F"}

Organization1 == <<"/", "api", "/", "v1", "/", "organizations", "/", "new">>
Requested(sent) ==
    [method |-> "GET", sent |-> sent, url |-> ParseURL(sent), id |-> UnsetId,
     cookie |-> FALSE, asks |-> "", preset |-> ""]
MCClientRequests ==
    {[Requested(<<"/", "health", "/", "ready">>) EXCEPT !.id = o] :
        o \in {NewOptRequestId("mine"), NewOptRequestId("long")}}
      \union {[Requested(<<"/", "%health", "/", "live">>) EXCEPT
                  !.id = NewOptRequestId("")],
              [Requested(<<"/", "health", "/", "live">>) EXCEPT
                  !.method = "POST"],
              [Requested(Organization1) EXCEPT !.cookie = TRUE],
              [Requested(<<"/", "health", "/", "..">> \o Organization1)
                  EXCEPT !.cookie = TRUE],
              [Requested(<<"/", "health", "/", "%..">> \o Organization1)
                  EXCEPT !.cookie = TRUE]}
=============================================================================
