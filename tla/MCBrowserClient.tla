--------------------------- MODULE MCBrowserClient ---------------------------
(* An instance of BrowserClient for TLC.                                     *)
EXTENDS BrowserClient, TLC

CONSTANTS p1, p2, p3, e1, e2, r1, c1

MCInstallList == (p1 :> "request") @@ (p2 :> "request") @@ (p3 :> "request")
                  @@ (r1 :> "response") @@ (e1 :> "error") @@ (e2 :> "error")

\* Two of them are of one function: it is used twice, or again.
MCFnOf == [i \in {p1, p2, p3, r1, e1, e2} |-> IF i = p2 THEN p1 ELSE i]

Asks(method, throwing_, style) ==
    [method |-> method, throwOnError |-> throwing_, style |-> style]
MCCallOptions ==
    {Asks("GET", "undefined", "fields"), Asks("POST", "undefined", "data"),
     Asks("POST", "false", "fields"), Asks("GET", "true", "data")}

App(token, does, installs, callers) ==
    [token |-> token, streams |-> "streams" \in does,
     configures |-> "configures" \in does,
     installs |-> installs, callers |-> callers]
MCApps ==
    {App(TRUE, {"streams"}, {}, {}), App(TRUE, {"streams"}, {p1, p2}, {}),
     App(TRUE, {}, {p1, p2, p3}, {}), App(TRUE, {}, {p1, p2}, {c1}),
     App(FALSE, {}, {p1, r1}, {c1}),
     App(TRUE, {"configures"}, {e1, e2}, {c1})}

\* An application that leaves the lists alone has any log; another one has a
\* log without refusals and two connections.
MCInit ==
    /\ BrowserInit
    /\ app.installs # {} => named = Events /\ refused = {} /\ limit = 2
    /\ \A w \in Walkers :
          ~(w \in app.callers /\ app.configures)
          => asked[w].throwOnError = "undefined"
    /\ c1 \notin app.callers => asked[c1].method = "GET"
    /\ ~app.streams => asked[Stream].method = "GET"

MCSpec == MCInit /\ [][BrowserNext]_browserVars /\ BrowserFairness
=============================================================================
