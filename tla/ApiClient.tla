------------------------------ MODULE ApiClient ------------------------------
(***************************************************************************)
(* The browser's API client: createBrowserApiClient                        *)
(* (frontend/src/lib/api/runtime/browser-client.ts) around the generated   *)
(* createClient (generated/client/client.gen.ts) with its lists of         *)
(* interceptors (class Interceptors in utils.gen.ts).                      *)
(*                                                                         *)
(* A call passes its request, its response and its error through the       *)
(* interceptors of the three lists, and awaits each of them: meanwhile the *)
(* application may add one, withdraw one, replace one or clear a list.  A  *)
(* call goes on with the array it began with; clear() gives the list a new *)
(* one, everything else changes the array in place.  The connections of a  *)
(* stream (BrowserClient) pass through the first list only.                *)
(*                                                                         *)
(* The arrays hold functions, and one function may be listed several times *)
(* or again after it was withdrawn: use() and update() look for no other.  *)
(* The model tells such occurrences apart: each use() and each update() is *)
(* an installation of its own, of a function that others may be of too,    *)
(* and a slot holds an installation.  Where the code compares functions,   *)
(* FnOf does.                                                              *)
(*                                                                         *)
(* A step ends where the code awaits.  Requests, responses and errors are  *)
(* what the properties tell apart of them.                                 *)
(***************************************************************************)
EXTENDS Naturals, Sequences, SequencesExt

CONSTANTS
    Calls,      \* calls of a method of the client
    Stream,     \* the stream, which is no call
    Installs,   \* what use() or update() puts into a slot, each time anew
    InstallList,\* the list it is put into
    FnOf,       \* the function it is an installation of
    Csrf,       \* the interceptor of createBrowserApiClient
    NoFn,       \* null in an array
    CallOptions,\* the options a call may have
    Apps,       \* what the application may do with the client
    MaxClears   \* bound on the clear() of a list

Lists == {"request", "response", "error"}

Safe == {"GET", "HEAD", "OPTIONS"}

ASSUME ApiClientAssumption ==
    /\ Stream \notin Calls
    /\ Csrf \notin Installs
    /\ NoFn \notin Installs \union {Csrf}
    /\ InstallList \in [Installs -> Lists]
    /\ DOMAIN FnOf = Installs
    /\ CallOptions \subseteq [method: STRING,
                              throwOnError: {"undefined", "true", "false"},
                              style: {"data", "fields"}]
    /\ Apps \subseteq [token: BOOLEAN, streams: BOOLEAN, configures: BOOLEAN,
                       installs: SUBSET Installs, callers: SUBSET Calls]

VARIABLES
    app,       \* what this application does, and whether it has a token
    fns,       \* for each list the arrays it has had; the last one is in use
    id,        \* what use() returned for an installation, or 0
    home,      \* history: the array it was put into, or 0 if it is to come
    withdrawn, \* history: those an eject or an update took out
    throwing,  \* throwOnError of the configuration
    stage,     \* what a call awaits
    walk,      \* the array it goes through and the slot it is at
    asked,     \* its options
    throws,    \* whether it throws, as decided when it was made
    request, response, failure,
    answer,    \* how it was settled
    ran,       \* the interceptors it has called, in order
    due        \* history: those that were there when its walk began, and are

registryVars == <<fns, id, home, withdrawn>>
callVars == <<stage, walk, asked, throws, request, response, failure, answer,
              ran, due>>
apiVars == <<app, registryVars, throwing, callVars>>

\* What a call under way leaves alone.
outside == <<app, registryVars, throwing, asked, throws>>
\* What a change of a list leaves alone, but for what is due.
calling == <<app, throwing, stage, walk, asked, throws, request, response,
             failure, answer, ran>>

-----------------------------------------------------------------------------
(* State functions.                                                        *)

Walkers == Calls \union {Stream}
Fns == Installs \union {Csrf}
ListOf(f) == IF f = Csrf THEN "request" ELSE InstallList[f]

\* The array that a list has now.
InUse(list) == Last(fns[list])

Present(array) == {array[i] : i \in DOMAIN array} \ {NoFn}

\* The next slot that is not empty, or 0.
Following(array, i) ==
    LET slots == {j \in DOMAIN array : j > i /\ array[j] # NoFn}
    IN IF slots = {} THEN 0 ELSE CHOOSE j \in slots : \A k \in slots : j =< k

\* The interceptor a walk awaits, whatever its slot holds by now.
Awaited(w) == Last(ran[w])

\* What comes after the last interceptor of a list.
AfterWalk == [request |-> "fetch", response |-> "answered", error |-> "failed"]

ApiInit ==
    /\ app \in Apps
    /\ fns = [l \in Lists |->
                 <<IF l = "request" /\ app.token THEN <<Csrf>> ELSE <<>> >>]
    /\ id = [f \in Installs |-> 0]
    /\ home = [f \in Installs |-> 0]
    /\ withdrawn = {}
    /\ throwing = TRUE
    /\ stage = [w \in Walkers |-> "idle"]
    /\ walk = [w \in Walkers |-> [array |-> 1, at |-> 0]]
    /\ asked \in [Walkers -> CallOptions]
    /\ throws = [c \in Calls |-> FALSE]
    /\ request = [w \in Walkers |-> "undefined"]
    /\ response = [c \in Calls |-> "undefined"]
    /\ failure = [c \in Calls |-> "none"]
    /\ answer = [c \in Calls |-> "pending"]
    /\ ran = [w \in Walkers |-> <<>>]
    /\ due = [w \in Walkers |-> {}]

-----------------------------------------------------------------------------
(* A walk through the interceptors of a list.                              *)

\* On from a slot of an array: the next interceptor is called and awaited, or
\* the loop is over.  What follows it in the same turn is a step of its own,
\* which no list has a part in.
Advance(w, list, n, from, before) ==
    LET array == fns[list][n]
        next == Following(array, from)
    IN /\ walk' = [walk EXCEPT ![w] = [array |-> n, at |-> next]]
       /\ stage' = [stage EXCEPT ![w] = IF next = 0 THEN AfterWalk[list]
                                        ELSE list]
       /\ ran' = [ran EXCEPT ![w] = IF next = 0 THEN before
                                    ELSE Append(before, array[next])]

\* The loop begins with the array that is in use.
Enter(w, list, before) ==
    /\ due' = [due EXCEPT ![w] = Present(InUse(list))]
    /\ Advance(w, list, Len(fns[list]), 0, before)

\* An interceptor has returned.
GoOn(w) ==
    /\ Advance(w, stage[w], walk[w].array, walk[w].at, ran[w])
    /\ UNCHANGED due

\* catch: the error goes through the interceptors for errors.
Throw(c, error) ==
    /\ failure' = [failure EXCEPT ![c] = error]
    /\ Enter(c, "error", ran[c])

-----------------------------------------------------------------------------
(* Mutated forms of the definitions below, used to test the properties.    *)

\* The slot goes, and those behind it move up.
EjectSplices(f) ==
    LET l == ListOf(f)
    IN /\ id[f] # 0
       /\ id[f] \in DOMAIN InUse(l)
       /\ fns' = [fns EXCEPT ![l][Len(fns[l])] = RemoveAt(@, id[f])]
       /\ withdrawn' = withdrawn \union {InUse(l)[id[f]]}
       /\ due' = [w \in Walkers |-> due[w] \ {InUse(l)[id[f]]}]
       /\ UNCHANGED <<calling, id, home>>

\* The array is replaced by one without the interceptor.
EjectRebuilds(f) ==
    LET l == ListOf(f)
    IN /\ id[f] # 0
       /\ id[f] \in DOMAIN InUse(l)
       /\ InUse(l)[id[f]] # NoFn
       /\ fns' = [fns EXCEPT ![l] =
             Append(@, [Last(@) EXCEPT ![id[f]] = NoFn])]
       /\ withdrawn' = withdrawn \union {InUse(l)[id[f]]}
       /\ due' = [w \in Walkers |-> due[w] \ {InUse(l)[id[f]]}]
       /\ UNCHANGED <<calling, id, home>>

\* The method is not looked at.
TokenOnAny(w) ==
    /\ stage[w] = "request"
    /\ \E r \in IF Awaited(w) # Csrf THEN {request[w], "other"} ELSE {"token"} :
          request' = [request EXCEPT ![w] = r]
    /\ GoOn(w)
    /\ UNCHANGED <<outside, response, failure, answer>>

\* The configuration is looked at when the call has failed.
ReportByConfig(c) ==
    /\ stage[c] = "failed"
    /\ failure' = [failure EXCEPT ![c] = "error"]
    /\ stage' = [stage EXCEPT ![c] = "settled"]
    /\ answer' = [answer EXCEPT ![c] = IF throwing THEN "rejected" ELSE "error"]
    /\ UNCHANGED <<outside, walk, request, response, ran, due>>

-----------------------------------------------------------------------------
(* Interceptors come and go.                                               *)

\* use(): at the end of the array, whatever is listed there; its index is the
\* id.
Use(f) ==
    /\ f \in app.installs
    /\ home[f] = 0
    /\ LET l == ListOf(f)
           n == Len(fns[l])
       IN /\ fns' = [fns EXCEPT ![l][n] = Append(@, f)]
          /\ id' = [id EXCEPT ![f] = Len(InUse(l)) + 1]
          /\ home' = [home EXCEPT ![f] = n]
    /\ UNCHANGED <<app, withdrawn, throwing, callVars>>

\* getInterceptorIndex() of an id finds a slot that is not empty ...
Filled(list, i) == i \in DOMAIN InUse(list) /\ InUse(list)[i] # NoFn

\* ... and of a function the first slot that holds it.
Holds(list, i, fn) ==
    /\ i \in DOMAIN InUse(list)
    /\ InUse(list)[i] \in Installs
    /\ FnOf[InUse(list)[i]] = fn

FirstOf(list, i, fn) ==
    Holds(list, i, fn) /\ \A j \in 1 .. i - 1 : ~Holds(list, j, fn)

\* The slot gets another content; nobody owes its interceptor a run any more.
PutInto(list, i, content) ==
    /\ fns' = [fns EXCEPT ![list][Len(fns[list])][i] = content]
    /\ withdrawn' = withdrawn \union {InUse(list)[i]}
    /\ due' = [w \in Walkers |-> due[w] \ {InUse(list)[i]}]

\* eject() by id: whatever is in the slot gives way to null.
Eject(f) ==
    /\ id[f] # 0
    /\ Filled(ListOf(f), id[f])
    /\ PutInto(ListOf(f), id[f], NoFn)
    /\ UNCHANGED <<calling, id, home>>

\* eject() by function, which need not be the installation its caller made.
EjectFunction(f) ==
    /\ \E i \in DOMAIN InUse(ListOf(f)) :
          /\ FirstOf(ListOf(f), i, FnOf[f])
          /\ PutInto(ListOf(f), i, NoFn)
    /\ UNCHANGED <<calling, id, home>>

\* What update() puts into a slot may be a function that is listed elsewhere.
Replacement(g, list) ==
    /\ g \in app.installs
    /\ ListOf(g) = list
    /\ home[g] = 0

\* update() by id: another interceptor takes over the slot and the id.
Update(f, g) ==
    /\ id[f] # 0
    /\ Replacement(g, ListOf(f))
    /\ Filled(ListOf(f), id[f])
    /\ PutInto(ListOf(f), id[f], g)
    /\ id' = [id EXCEPT ![g] = id[f], ![f] = 0]
    /\ home' = [home EXCEPT ![g] = Len(fns[ListOf(f)])]
    /\ UNCHANGED calling

\* update() by function returns the function: nobody has an id of its
\* replacement.
UpdateFunction(f, g) ==
    /\ Replacement(g, ListOf(f))
    /\ \E i \in DOMAIN InUse(ListOf(f)) :
          /\ FirstOf(ListOf(f), i, FnOf[f])
          /\ PutInto(ListOf(f), i, g)
    /\ home' = [home EXCEPT ![g] = Len(fns[ListOf(f)])]
    /\ UNCHANGED <<calling, id>>

\* clear(), by those who use the list: a new array; a call that goes through
\* the old one keeps it.
Clear(list) ==
    /\ \E f \in app.installs : ListOf(f) = list
    /\ Len(fns[list]) =< MaxClears
    /\ fns' = [fns EXCEPT ![list] = Append(@, <<>>)]
    /\ UNCHANGED <<app, id, home, withdrawn, throwing, callVars>>

\* setConfig()
SetConfig ==
    /\ app.configures
    /\ throwing' = ~throwing
    /\ UNCHANGED <<app, registryVars, callVars>>

Registry ==
    \/ \E f \in Installs : Use(f) \/ Eject(f) \/ EjectFunction(f)
    \/ \E f, g \in Installs : Update(f, g) \/ UpdateFunction(f, g)
    \/ \E l \in Lists : Clear(l)
    \/ SetConfig

-----------------------------------------------------------------------------
(* Requests.                                                               *)

\* The call is made; beforeRequest awaits credentials and validators.
Call(c) ==
    /\ c \in app.callers
    /\ stage[c] = "idle"
    /\ stage' = [stage EXCEPT ![c] = "before"]
    /\ throws' = [throws EXCEPT ![c] =
          CASE asked[c].throwOnError = "undefined" -> throwing
            [] asked[c].throwOnError = "true" -> TRUE
            [] asked[c].throwOnError = "false" -> FALSE]
    /\ UNCHANGED <<app, registryVars, throwing, walk, asked, request, response,
                   failure, answer, ran, due>>

Prepare(c) ==
    /\ stage[c] = "before"
    /\ request' = [request EXCEPT ![c] = "plain"]
    /\ Enter(c, "request", ran[c])
    /\ UNCHANGED <<outside, response, failure, answer>>

\* A credential, a validator, the serializer or the URL throws.
PrepareFails(c) ==
    /\ stage[c] = "before"
    /\ Throw(c, "error")
    /\ UNCHANGED <<outside, request, response, answer>>

\* The interceptor of createBrowserApiClient sets the header of an unsafe
\* request; another one may return another request.
RequestReturned(w) ==
    /\ stage[w] = "request"
    /\ \E r \in IF Awaited(w) # Csrf THEN {request[w], "other"}
                ELSE IF asked[w].method \in Safe THEN {request[w]}
                ELSE {"token"} :
          request' = [request EXCEPT ![w] = r]
    /\ GoOn(w)
    /\ UNCHANGED <<outside, response, failure, answer>>

RequestThrows(c) ==
    /\ stage[c] = "request"
    /\ Throw(c, "error")
    /\ UNCHANGED <<outside, request, response, answer>>

\* A response may hold JSON, other content, a stream, nothing, or an error.
Responses == {"json", "text", "stream", "empty", "bad"}

FetchAnswers(c) ==
    /\ stage[c] = "fetch"
    /\ \E r \in Responses : response' = [response EXCEPT ![c] = r]
    /\ Enter(c, "response", ran[c])
    /\ UNCHANGED <<outside, request, failure, answer>>

FetchRejects(c) ==
    /\ stage[c] = "fetch"
    /\ Throw(c, "error")
    /\ UNCHANGED <<outside, request, response, answer>>

-----------------------------------------------------------------------------
(* Responses and errors.                                                   *)

ResponseReturned(c) ==
    /\ stage[c] = "response"
    /\ \E r \in Responses : response' = [response EXCEPT ![c] = r]
    /\ GoOn(c)
    /\ UNCHANGED <<outside, request, failure, answer>>

ResponseThrows(c) ==
    /\ stage[c] = "response"
    /\ Throw(c, "error")
    /\ UNCHANGED <<outside, request, response, answer>>

Settle(c, result) ==
    /\ stage' = [stage EXCEPT ![c] = "settled"]
    /\ answer' = [answer EXCEPT ![c] = result]
    /\ UNCHANGED <<outside, walk, request, response, ran>>

\* No content, a stream, or content that nobody checks: text, a blob, a form.
Resolve(c) ==
    /\ stage[c] = "answered"
    /\ response[c] \in {"empty", "stream", "text"}
    /\ Settle(c, "data")
    /\ UNCHANGED <<failure, due>>

\* JSON is parsed and given to the validator and the transformer.
ReadBody(c) ==
    /\ stage[c] = "answered"
    /\ response[c] = "json"
    /\ stage' = [stage EXCEPT ![c] = "check"]
    /\ UNCHANGED <<outside, walk, request, response, failure, answer, ran, due>>

BodyFails(c) ==
    /\ stage[c] = "answered"
    /\ response[c] \in {"json", "text"}
    /\ Throw(c, "error")
    /\ UNCHANGED <<outside, request, response, answer>>

CheckPasses(c) ==
    /\ stage[c] = "check"
    /\ Settle(c, "data")
    /\ UNCHANGED <<failure, due>>

CheckFails(c) ==
    /\ stage[c] = "check"
    /\ Throw(c, "error")
    /\ UNCHANGED <<outside, request, response, answer>>

\* The error is the body of the response, which may be empty.
BadStatus(c) ==
    /\ stage[c] = "answered"
    /\ response[c] = "bad"
    /\ \E e \in {"error", "nothing"} : Throw(c, e)
    /\ UNCHANGED <<outside, request, response, answer>>

\* An interceptor makes another error of it, or forgets to return one.
ErrorReturned(c) ==
    /\ stage[c] = "error"
    /\ \E e \in {"error", "nothing"} : failure' = [failure EXCEPT ![c] = e]
    /\ GoOn(c)
    /\ UNCHANGED <<outside, request, response, answer>>

\* There is no catch around the interceptors for errors.
ErrorThrows(c) ==
    /\ stage[c] = "error"
    /\ failure' = [failure EXCEPT ![c] = "thrown"]
    /\ due' = [due EXCEPT ![c] = {}]
    /\ Settle(c, "rejected")

\* What is nothing becomes {}.
Report(c) ==
    /\ stage[c] = "failed"
    /\ failure' = [failure EXCEPT ![c] = "error"]
    /\ Settle(c, IF throws[c] THEN "rejected"
                 ELSE IF asked[c].style = "data" THEN "undefined" ELSE "error")
    /\ UNCHANGED due

Handle(c) ==
    \/ Call(c) \/ Prepare(c) \/ PrepareFails(c)
    \/ RequestReturned(c) \/ RequestThrows(c)
    \/ FetchAnswers(c) \/ FetchRejects(c)
    \/ ResponseReturned(c) \/ ResponseThrows(c)
    \/ Resolve(c) \/ ReadBody(c) \/ BodyFails(c)
    \/ CheckPasses(c) \/ CheckFails(c) \/ BadStatus(c)
    \/ ErrorReturned(c) \/ ErrorThrows(c) \/ Report(c)

-----------------------------------------------------------------------------
(* Properties.                                                             *)

\* However the lists change while a call is on its way, it runs no installation
\* of an interceptor twice, and none is left out that was there when its walk
\* began and has not been taken out since.  A function runs as often as it was
\* met: once more if it is listed twice, or if it was withdrawn and used again
\* before the walk came to the end of its array.
EachOnce ==
    \A w \in Walkers :
        /\ IsInjective(ran[w])
        /\ stage[w] \notin Lists => due[w] \subseteq Range(ran[w])

\* An unsafe request that is sent has the token of createBrowserApiClient and a
\* safe one never has it, unless the list was cleared before the request began
\* or an interceptor made another request of it
\* ("adds the session-bound CSRF token to unsafe methods",
\* docs/api/openapi.md:99).
TokenOnUnsafe ==
    \A w \in Walkers :
        /\ request[w] = "token" => asked[w].method \notin Safe
        /\ stage[w] = "fetch" /\ app.token /\ walk[w].array = 1
              => request[w] = "other" \/ asked[w].method \in Safe
                    \/ request[w] = "token"

\* What is ejected or replaced by its id is the installation that the id was
\* given for, unless the list was cleared since or somebody took it out before;
\* and no installation that was taken out is run again, by no call under way
\* either, until its function is installed anew.
WithdrawsOwn ==
    [][/\ \A f \in Installs :
            /\ Eject(f) \/ \E g \in Installs : Update(f, g)
            /\ home[f] = Len(fns[ListOf(f)])
            /\ f \notin withdrawn
            => withdrawn' = withdrawn \union {f}
       /\ \A w \in Walkers :
            ran'[w] # ran[w] /\ ran'[w] # <<>>
            => Last(ran'[w]) \notin withdrawn]_apiVars

\* A call that was told not to throw - when it was made, whatever setConfig did
\* since - rejects only with what an interceptor for errors threw; one that was
\* told to throw never resolves with an error; no error is nothing, and no call
\* that met one resolves with data.
CallerTold ==
    \A c \in Calls :
        stage[c] = "settled" =>
            /\ answer[c] = "rejected" => throws[c] \/ failure[c] = "thrown"
            /\ answer[c] \in {"error", "undefined"} => ~throws[c]
            /\ answer[c] = "data" <=> failure[c] = "none"
            /\ failure[c] # "nothing"
=============================================================================
