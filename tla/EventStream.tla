----------------------------- MODULE EventStream -----------------------------
(***************************************************************************)
(* The event-stream client of the frontend: the generator that             *)
(* createSseClient returns                                                 *)
(* (frontend/src/lib/api/generated/core/serverSentEvents.gen.ts).          *)
(*                                                                         *)
(* It connects with the id of the last event it parsed, reads some events  *)
(* at a time, has each one validated and yields it; any exception leads to *)
(* a sleep and a new connection, a normal end of the stream ends it.  It   *)
(* runs only while its consumer asks for the next event, and an            *)
(* AbortSignal may fire between any two of its steps.                      *)
(*                                                                         *)
(* The server keeps a log of events 1 .. LogLength and answers a request   *)
(* with those after Last-Event-ID, or all of them without that header.     *)
(* Event e has the id e, or none.  An event "refused" is one at which the  *)
(* validator, the transformer or onSseEvent throws.  Delays are left out.  *)
(***************************************************************************)
EXTENDS Naturals, FiniteSets

CONSTANTS
    LogLength,    \* the events the server has
    BatchSize,    \* bound on the complete events that one read completes
    RetryLimits,  \* values of sseMaxRetryAttempts in use; 0 is undefined
    MaxAttempt,   \* where the attempt counter stops counting
    MaxOpen       \* where the count of forgotten connections stops

ASSUME StreamAssumption ==
    /\ {LogLength, BatchSize, MaxAttempt, MaxOpen} \subseteq Nat
    /\ RetryLimits \subseteq 0 .. MaxAttempt

VARIABLES
    pc,          \* where the generator is
    limit,       \* sseMaxRetryAttempts
    named,       \* the events that carry an id
    refused,     \* the events at which a callback throws
    lastEventId, \* the last id parsed, or 0
    attempt,     \* connections tried in the generator's life
    position,    \* the last event of this connection that was handled
    chunks,      \* how many more the last read completed
    aborted,     \* signal.aborted
    forgotten,   \* open connections whose reader was released, not cancelled
    yielded,     \* history: the events the consumer got
    repeated,    \* history: those it got again or after a later one
    afterAbort   \* history: how many it got after the abort

optionVars  == <<limit, named, refused>>
historyVars == <<yielded, repeated, afterAbort>>
vars == <<pc, limit, named, refused, lastEventId, attempt, position, chunks,
          aborted, forgotten, yielded, repeated, afterAbort>>

-----------------------------------------------------------------------------
(* State functions.                                                        *)

Events == 1 .. LogLength

Places == {"created", "top", "fetch", "read", "chunks", "validate", "yielded",
           "caught", "sleep", "over"}

\* The event in hand: the server sends its log in order.
Current == position + 1

\* A counter that stops at its bound.
UpTo(bound, n) == IF n < bound THEN n ELSE bound

\* The reader is released and nobody cancels the body; a signal that has fired
\* has ended it already.
Forget == forgotten' = IF aborted THEN forgotten
                       ELSE UpTo(MaxOpen, forgotten + 1)

Init ==
    /\ pc = "created"
    /\ limit \in RetryLimits
    /\ named \in SUBSET Events
    /\ refused \in SUBSET Events
    /\ lastEventId = 0
    /\ attempt = 0
    /\ position = 0
    /\ chunks = 0
    /\ aborted = FALSE
    /\ forgotten = 0
    /\ yielded = {}
    /\ repeated = {}
    /\ afterAbort = 0

-----------------------------------------------------------------------------
(* Mutated forms of the definitions below, used to test the properties.    *)

AttemptIgnoresAbort ==
    /\ pc = "top"
    /\ pc' = "fetch"
    /\ attempt' = UpTo(MaxAttempt, attempt + 1)
    /\ UNCHANGED <<optionVars, lastEventId, position, chunks, aborted,
                   forgotten, historyVars>>

ReadTakesIds(n) ==
    /\ pc = "read"
    /\ ~aborted
    /\ position + n \in Events
    /\ chunks' = n
    /\ lastEventId' = IF position + n \in named THEN position + n
                      ELSE lastEventId
    /\ pc' = "chunks"
    /\ UNCHANGED <<optionVars, attempt, position, aborted, forgotten,
                   historyVars>>

ReadIgnoresAbort(n) ==
    /\ pc = "read"
    /\ position + n \in Events
    /\ chunks' = n
    /\ pc' = "chunks"
    /\ UNCHANGED <<optionVars, lastEventId, attempt, position, aborted,
                   forgotten, historyVars>>

ParseForgetsId ==
    /\ pc = "chunks"
    /\ chunks > 0
    /\ pc' = "validate"
    /\ UNCHANGED <<optionVars, lastEventId, attempt, position, chunks, aborted,
                   forgotten, historyVars>>

-----------------------------------------------------------------------------
(* The loop over connections.                                              *)

\* The consumer asks for its first event, which starts the generator.
Start ==
    /\ pc = "created"
    /\ pc' = "top"
    /\ UNCHANGED <<optionVars, lastEventId, attempt, position, chunks, aborted,
                   forgotten, historyVars>>

\* The head of the loop: leave it when aborted ...
StopAborted ==
    /\ pc = "top"
    /\ aborted
    /\ pc' = "over"
    /\ UNCHANGED <<optionVars, lastEventId, attempt, position, chunks, aborted,
                   forgotten, historyVars>>

\* ... or count an attempt and send the request.
Attempt ==
    /\ pc = "top"
    /\ ~aborted
    /\ pc' = "fetch"
    /\ attempt' = UpTo(MaxAttempt, attempt + 1)
    /\ UNCHANGED <<optionVars, lastEventId, position, chunks, aborted,
                   forgotten, historyVars>>

\* One round of the loop begins.
Top == StopAborted \/ Attempt

\* A response with a body: the server continues after Last-Event-ID.  That there
\* is none after the abort takes a fetch that obeys the signal: a request which
\* an interceptor built anew without it would connect, and abortHandler, which
\* is registered too late, would not end its reads.
Connect ==
    /\ pc = "fetch"
    /\ ~aborted
    /\ position' = lastEventId
    /\ pc' = "read"
    /\ UNCHANGED <<optionVars, lastEventId, attempt, chunks, aborted,
                   forgotten, historyVars>>

\* fetch rejects (the network, an interceptor, the signal) or the response is
\* not ok or has no body.
FetchFails ==
    /\ pc = "fetch"
    /\ pc' = "caught"
    /\ UNCHANGED <<optionVars, lastEventId, attempt, position, chunks, aborted,
                   forgotten, historyVars>>

\* catch: onSseError, then give up after the last attempt ...
GiveUp ==
    /\ pc = "caught"
    /\ limit # 0 /\ attempt >= limit
    /\ pc' = "over"
    /\ UNCHANGED <<optionVars, lastEventId, attempt, position, chunks, aborted,
                   forgotten, historyVars>>

\* ... or sleep, with a delay that nothing cuts short ...
BackOff ==
    /\ pc = "caught"
    /\ limit = 0 \/ attempt < limit
    /\ pc' = "sleep"
    /\ UNCHANGED <<optionVars, lastEventId, attempt, position, chunks, aborted,
                   forgotten, historyVars>>

\* ... and go around.
Wake ==
    /\ pc = "sleep"
    /\ pc' = "top"
    /\ UNCHANGED <<optionVars, lastEventId, attempt, position, chunks, aborted,
                   forgotten, historyVars>>

-----------------------------------------------------------------------------
(* The loop over reads.                                                    *)

\* reader.read() completes n events, or none and part of the next one (n = 0
\* changes nothing and is left out).  A chunk is a whole event: the server ends
\* its lines with LF, or no read ends between a CR and its LF, which would be
\* taken for an empty line and split the event in two.
ReadEvents(n) ==
    /\ pc = "read"
    /\ ~aborted
    /\ position + n \in Events
    /\ chunks' = n
    /\ pc' = "chunks"
    /\ UNCHANGED <<optionVars, lastEventId, attempt, position, aborted,
                   forgotten, historyVars>>

\* done: the server ended the stream, or the abort handler cancelled the
\* reader.  The generator ends either way.
ReadDone ==
    /\ pc = "read"
    /\ pc' = "over"
    /\ UNCHANGED <<optionVars, lastEventId, attempt, position, chunks, aborted,
                   forgotten, historyVars>>

\* The connection breaks, or the signal reaches the body before the handler.
ReadFails ==
    /\ pc = "read"
    /\ pc' = "caught"
    /\ UNCHANGED <<optionVars, lastEventId, attempt, position, chunks, aborted,
                   forgotten, historyVars>>

\* All chunks of the read are handled: read again.
ReadOn ==
    /\ pc = "chunks"
    /\ chunks = 0
    /\ pc' = "read"
    /\ UNCHANGED <<optionVars, lastEventId, attempt, position, chunks, aborted,
                   forgotten, historyVars>>

\* The lines of the next chunk: an id counts from here on.
ParseChunk ==
    /\ pc = "chunks"
    /\ chunks > 0
    /\ lastEventId' = IF Current \in named THEN Current ELSE lastEventId
    /\ pc' = "validate"
    /\ UNCHANGED <<optionVars, attempt, position, chunks, aborted, forgotten,
                   historyVars>>

\* A callback throws: finally releases the reader, and the rest of the read
\* is dropped.
Refuse ==
    /\ pc = "validate"
    /\ Current \in refused
    /\ pc' = "caught"
    /\ chunks' = 0
    /\ Forget
    /\ UNCHANGED <<optionVars, lastEventId, attempt, position, aborted,
                   historyVars>>

\* The event is yielded, and the generator waits for its consumer ...
Yield ==
    /\ pc = "validate"
    /\ Current \notin refused
    /\ pc' = "yielded"
    /\ yielded' = yielded \union {Current}
    /\ repeated' = IF \E e \in yielded : e >= Current
                   THEN repeated \union {Current} ELSE repeated
    /\ afterAbort' = IF aborted THEN UpTo(LogLength, afterAbort + 1)
                     ELSE afterAbort
    /\ UNCHANGED <<optionVars, lastEventId, attempt, position, chunks, aborted,
                   forgotten>>

\* ... who asks for the next one ...
Resume ==
    /\ pc = "yielded"
    /\ pc' = "chunks"
    /\ position' = Current
    /\ chunks' = chunks - 1
    /\ UNCHANGED <<optionVars, lastEventId, attempt, aborted, forgotten,
                   historyVars>>

\* ... or stops iterating: return() runs the finally clause.
StopIterating ==
    /\ pc = "yielded"
    /\ pc' = "over"
    /\ chunks' = 0
    /\ Forget
    /\ UNCHANGED <<optionVars, lastEventId, attempt, position, aborted,
                   historyVars>>

-----------------------------------------------------------------------------
(* The environment.                                                        *)

\* controller.abort(): the signal of fetch ends every body it started.
Abort ==
    /\ ~aborted
    /\ pc # "over"
    /\ aborted' = TRUE
    /\ forgotten' = 0
    /\ UNCHANGED <<pc, optionVars, lastEventId, attempt, position, chunks,
                   historyVars>>

\* The server or the garbage collector closes a forgotten connection.
ForgottenCloses ==
    /\ forgotten > 0
    /\ forgotten' = forgotten - 1
    /\ UNCHANGED <<pc, optionVars, lastEventId, attempt, position, chunks,
                   aborted, historyVars>>

-----------------------------------------------------------------------------

\* What the generator does by itself, timers and callbacks included.
Internal ==
    \/ Top
    \/ GiveUp \/ BackOff \/ Wake
    \/ ReadOn \/ ParseChunk \/ Refuse \/ Yield

Consumer == Start \/ Resume \/ StopIterating

Network ==
    \/ Connect
    \/ FetchFails
    \/ \E n \in 1 .. BatchSize : ReadEvents(n)
    \/ ReadDone
    \/ ReadFails

Next == Internal \/ Consumer \/ Network \/ Abort \/ ForgottenCloses

\* Timers fire and callbacks return; fetch and read answer once the signal has
\* fired.  The network is free to be silent, and so is the consumer.
Fairness ==
    /\ WF_vars(Internal)
    /\ WF_vars(aborted /\ (FetchFails \/ ReadDone \/ ReadFails))

Spec == Init /\ [][Next]_vars /\ Fairness

-----------------------------------------------------------------------------
(* Properties.                                                             *)

\* Every variable stays in its type, and the chunks of a
\* read live within their loop.
TypeOK ==
    /\ pc \in Places
    /\ limit \in RetryLimits
    /\ named \subseteq Events
    /\ refused \subseteq Events
    /\ lastEventId \in 0 .. LogLength
    /\ attempt \in 0 .. MaxAttempt
    /\ position \in 0 .. LogLength
    /\ chunks \in 0 .. BatchSize
    /\ pc \notin {"chunks", "validate", "yielded"} => chunks = 0
    /\ aborted \in BOOLEAN
    /\ forgotten \in 0 .. MaxOpen
    /\ yielded \subseteq Events
    /\ repeated \subseteq yielded
    /\ afterAbort \in 0 .. LogLength

\* However often the stream is broken off and resumed, and wherever in a read,
\* an event with an id reaches the consumer at most once and in order.  This is
\* so for line ends that are LF, or that no read tears apart (ReadEvents): of an
\* event split at a CR LF the data could come before its id is read, and again.
NamedAtMostOnce == repeated \intersect named = {}

\* Resuming after lastEventId skips nothing but what a callback refused: every
\* event up to it was yielded, or is in hand, or has an id and was refused (one
\* without an id is sent again, and nothing after it is ever reached).  Here too
\* line ends are LF or whole: an event split after its id line would move
\* lastEventId on without its data.
SkippedOnlyRefused ==
    \A e \in 1 .. lastEventId :
        \/ e \in yielded
        \/ e \in refused \intersect named
        \/ pc = "validate" /\ e = Current

\* After the abort the consumer gets at most the rest of one read.
AbortStopsReading == afterAbort <= BatchSize

\* Every refusal leaves its connection open while the next one is made; as long
\* as refused events carry ids, an event can do so once, and an iteration that
\* is stopped once more.
ForgottenBounded ==
    refused \subseteq named =>
        forgotten <= Cardinality(refused) + (IF pc = "over" THEN 1 ELSE 0)

\* An aborted generator ends, unless its consumer has stopped asking, even if
\* its retries are unlimited.
AbortEnds == aborted ~> pc \in {"created", "yielded", "over"}
=============================================================================
