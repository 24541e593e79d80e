---------------------------- MODULE BrowserClient ----------------------------
(***************************************************************************)
(* One client with its calls and a stream (makeSseFn in                    *)
(* frontend/src/lib/api/generated/client/client.gen.ts): every connection  *)
(* of the generator of EventStream sends its request through the           *)
(* interceptors of ApiClient, as they are at that moment.                  *)
(***************************************************************************)
EXTENDS EventStream, ApiClient

browserVars == <<vars, apiVars>>

BrowserInit == Init /\ ApiInit

-----------------------------------------------------------------------------
(* The stream.                                                             *)

\* The application makes a stream and asks for its first event.
StartStream == app.streams /\ Start /\ UNCHANGED apiVars

\* A new request, which onRequest takes through the list.
StreamAttempt ==
    /\ Attempt
    /\ request' = [request EXCEPT ![Stream] = "plain"]
    /\ Enter(Stream, "request", <<>>)
    /\ UNCHANGED <<outside, response, failure, answer>>

StreamRequestReturned == RequestReturned(Stream) /\ UNCHANGED vars

\* The request is no longer the client's.
HandOver ==
    /\ stage' = [stage EXCEPT ![Stream] = "idle"]
    /\ due' = [due EXCEPT ![Stream] = {}]
    /\ UNCHANGED <<outside, walk, request, response, failure, answer, ran>>

StreamConnect == stage[Stream] = "fetch" /\ Connect /\ HandOver

\* An interceptor throws, or fetch rejects.
StreamFetchFails ==
    /\ stage[Stream] \in {"request", "fetch"}
    /\ FetchFails
    /\ HandOver

\* Everything else the generator, its consumer and its server do.
StreamGoesOn ==
    /\ \/ StopAborted \/ GiveUp \/ BackOff \/ Wake
       \/ ReadOn \/ ParseChunk \/ Refuse \/ Yield
    /\ UNCHANGED apiVars

Outside ==
    /\ \/ Resume \/ StopIterating
       \/ \E n \in 1 .. BatchSize : ReadEvents(n)
       \/ ReadDone \/ ReadFails
       \/ Abort \/ ForgottenCloses
    /\ UNCHANGED apiVars

BrowserNext ==
    \/ StartStream \/ StreamAttempt \/ StreamRequestReturned
    \/ StreamConnect \/ StreamFetchFails \/ StreamGoesOn \/ Outside
    \/ (Registry \/ \E c \in Calls : Handle(c)) /\ UNCHANGED vars

\* What EventStream assumes, and that interceptors return or throw.
BrowserFairness ==
    /\ WF_browserVars(StreamAttempt \/ StreamGoesOn)
    /\ WF_browserVars(\/ StreamRequestReturned
                      \/ stage[Stream] = "request" /\ StreamFetchFails)
    /\ WF_browserVars(/\ aborted
                      /\ \/ stage[Stream] = "fetch" /\ StreamFetchFails
                         \/ (ReadDone \/ ReadFails) /\ UNCHANGED apiVars)

BrowserSpec == BrowserInit /\ [][BrowserNext]_browserVars /\ BrowserFairness
=============================================================================
