--------------------------- MODULE ServerLifecycle ---------------------------
(***************************************************************************)
(* The API process from start to exit: cmd/api/main.go, Server.Run and     *)
(* Server.Serve (internal/platform/httpserver/server.go) and the readiness *)
(* flag (internal/platform/health/state.go).                               *)
(*                                                                         *)
(* Two goroutines of the program interleave - the one that runs main and   *)
(* Server.Serve, and the one it starts for http.Server.Serve - with the    *)
(* connections, the signal and the shutdown deadline.  http.Server itself  *)
(* is not part of the repository: Accept, AcceptFails, ListenerClosed, the *)
(* Drain actions and ForceClose model what its documentation and the       *)
(* program's use of it rely on.  Shutdown closes the listener, waits for   *)
(* the accept loop to return, and then polls until every connection is     *)
(* idle; Close breaks the connections that are not.                        *)
(***************************************************************************)
EXTENDS Naturals, FiniteSets

CONSTANT Conns   \* the connections clients may open

VARIABLES
    main,        \* what the main goroutine does next
    serve,       \* the goroutine that runs http.Server.Serve
    ready,       \* health.State.ready
    listening,   \* the TCP listener is open
    shutting,    \* http.Server.inShutdown
    signalled,   \* SIGINT or SIGTERM was delivered
    expired,     \* the shutdown context's deadline has passed
    conn,        \* the connections
    result,      \* what Server.Run returned
    exit         \* how the process ended

vars == <<main, serve, ready, listening, shutting, signalled, expired, conn,
          result, exit>>

-----------------------------------------------------------------------------
(* State functions.                                                        *)

MainSteps == {"load", "listen", "spawn", "mark_ready", "select",
              "withdraw_on_error", "withdraw", "shutdown", "drain", "close",
              "join_forced", "join", "returned", "gone"}
ServeSteps == {"unborn", "started", "accepting", "failed", "closed"}
ConnStates == {"absent", "new", "handling", "idle", "closed", "aborted"}

Busy == {"new", "handling"}

ServeReturned == serve \in {"failed", "closed"}

\* signal.NotifyContext has run and "stop" has not.
SignalHandled == main \notin {"load", "returned", "gone"}

\* What a connection is left with when the process or http.Server drops it.
Dropped(c) == IF conn[c] \in Busy THEN "aborted"
              ELSE IF conn[c] = "idle" THEN "closed" ELSE conn[c]

Init ==
    /\ main = "load"
    /\ serve = "unborn"
    /\ ready = FALSE
    /\ listening = FALSE
    /\ shutting = FALSE
    /\ signalled = FALSE
    /\ expired = FALSE
    /\ conn = [c \in Conns |-> "absent"]
    /\ result = "none"
    /\ exit = "none"

Return(outcome) ==
    /\ result' = outcome
    /\ main' = "returned"

-----------------------------------------------------------------------------
(* Mutated forms of the definitions below, used to test the properties.    *)

MarkReadyInGoroutine ==
    /\ serve = "started"
    /\ serve' = IF shutting THEN "closed" ELSE "accepting"
    /\ listening' = ~shutting
    /\ ready' = TRUE
    /\ UNCHANGED <<main, shutting, signalled, expired, conn, result, exit>>

DrainWaitsForever ==
    /\ main = "drain"
    /\ FALSE
    /\ UNCHANGED vars

ForceCloseIsClean ==
    /\ main = "close"
    /\ conn' = [c \in Conns |-> Dropped(c)]
    /\ main' = "join"
    /\ UNCHANGED <<serve, ready, listening, shutting, signalled, expired,
                   result, exit>>

ReturnWithoutJoin ==
    /\ main = "join"
    /\ Return("nil")
    /\ UNCHANGED <<serve, ready, listening, shutting, signalled, expired, conn,
                   exit>>

DrainGivesUpEarly ==
    /\ main = "drain"
    /\ serve # "accepting"
    /\ main' = "close"
    /\ UNCHANGED <<serve, ready, listening, shutting, signalled, expired, conn,
                   result, exit>>

-----------------------------------------------------------------------------
(* main and Server.Run.                                                    *)

\* LoadAPI and NewAPI succeed and signal.NotifyContext is installed ...
Load ==
    /\ main = "load"
    /\ main' = "listen"
    /\ UNCHANGED <<serve, ready, listening, shutting, signalled, expired, conn,
                   result, exit>>

\* ... or the configuration is refused.
LoadFails ==
    /\ main = "load"
    /\ Return("config_error")
    /\ UNCHANGED <<serve, ready, listening, shutting, signalled, expired, conn,
                   exit>>

\* net.Listen opens the port ...
Listen ==
    /\ main = "listen"
    /\ listening' = TRUE
    /\ main' = "spawn"
    /\ UNCHANGED <<serve, ready, shutting, signalled, expired, conn, result,
                   exit>>

\* ... or fails.
ListenFails ==
    /\ main = "listen"
    /\ Return("listen_error")
    /\ UNCHANGED <<serve, ready, listening, shutting, signalled, expired, conn,
                   exit>>

\* run returns to main: a result other than nil is exit status 1.  Whatever is
\* still being handled dies with the process.
Exit ==
    /\ main = "returned"
    /\ main' = "gone"
    /\ exit' = IF result = "nil" THEN "zero" ELSE "one"
    /\ conn' = [c \in Conns |-> Dropped(c)]
    /\ listening' = FALSE
    /\ UNCHANGED <<serve, ready, shutting, signalled, expired, result>>

-----------------------------------------------------------------------------
(* Server.Serve.                                                           *)

\* The go statement: the goroutine may start at any later time.
Spawn ==
    /\ main = "spawn"
    /\ main' = "mark_ready"
    /\ serve' = "started"
    /\ UNCHANGED <<ready, listening, shutting, signalled, expired, conn, result,
                   exit>>

MarkReady ==
    /\ main = "mark_ready"
    /\ main' = "select"
    /\ ready' = TRUE
    /\ UNCHANGED <<serve, listening, shutting, signalled, expired, conn, result,
                   exit>>

\* select: a result on serveDone, a done context, or either when both are there.
SelectServeDone ==
    /\ main = "select"
    /\ ServeReturned
    /\ main' = "withdraw_on_error"
    /\ UNCHANGED <<serve, ready, listening, shutting, signalled, expired, conn,
                   result, exit>>

SelectSignal ==
    /\ main = "select"
    /\ signalled
    /\ main' = "withdraw"
    /\ UNCHANGED <<serve, ready, listening, shutting, signalled, expired, conn,
                   result, exit>>

\* MarkNotReady after the accept loop ended by itself, and the return.
WithdrawOnError ==
    /\ main = "withdraw_on_error"
    /\ ready' = FALSE
    /\ Return(IF serve = "closed" THEN "nil" ELSE "serve_error")
    /\ UNCHANGED <<serve, listening, shutting, signalled, expired, conn, exit>>

\* MarkNotReady, before Shutdown is called.
Withdraw ==
    /\ main = "withdraw"
    /\ ready' = FALSE
    /\ main' = "shutdown"
    /\ UNCHANGED <<serve, listening, shutting, signalled, expired, conn, result,
                   exit>>

\* The deadline is set and Shutdown closes the listener.  A listener that the
\* goroutine has not registered yet stays open until it has.
Shutdown ==
    /\ main = "shutdown"
    /\ shutting' = TRUE
    /\ listening' = (listening /\ serve = "started")
    /\ main' = "drain"
    /\ UNCHANGED <<serve, ready, signalled, expired, conn, result, exit>>

\* Shutdown polls: idle connections are closed, and if no other is left it
\* returns nil.
Drained ==
    /\ main = "drain"
    /\ serve # "accepting"
    /\ \A c \in Conns : conn[c] \notin Busy
    /\ conn' = [c \in Conns |-> Dropped(c)]
    /\ main' = "join"
    /\ UNCHANGED <<serve, ready, listening, shutting, signalled, expired,
                   result, exit>>

\* Shutdown polls: idle connections are closed, others are waited for.
DrainContinues ==
    /\ main = "drain"
    /\ serve # "accepting"
    /\ \E c \in Conns : conn[c] \in Busy
    /\ \E c \in Conns : conn[c] = "idle"
    /\ conn' = [c \in Conns |-> IF conn[c] = "idle" THEN "closed" ELSE conn[c]]
    /\ UNCHANGED <<main, serve, ready, listening, shutting, signalled, expired,
                   result, exit>>

\* Shutdown returns the error of the expired context.
DrainExpires ==
    /\ main = "drain"
    /\ serve # "accepting"
    /\ expired
    /\ main' = "close"
    /\ UNCHANGED <<serve, ready, listening, shutting, signalled, expired, conn,
                   result, exit>>

\* Close breaks every connection.
ForceClose ==
    /\ main = "close"
    /\ conn' = [c \in Conns |-> Dropped(c)]
    /\ main' = "join_forced"
    /\ UNCHANGED <<serve, ready, listening, shutting, signalled, expired,
                   result, exit>>

\* <-serveDone after Close: the drain error is returned.
JoinForced ==
    /\ main = "join_forced"
    /\ ServeReturned
    /\ Return("drain_error")
    /\ UNCHANGED <<serve, ready, listening, shutting, signalled, expired, conn,
                   exit>>

\* <-serveDone after a clean drain: an accept error that came first still shows.
Join ==
    /\ main = "join"
    /\ ServeReturned
    /\ Return(IF serve = "closed" THEN "nil" ELSE "serve_error")
    /\ UNCHANGED <<serve, ready, listening, shutting, signalled, expired, conn,
                   exit>>

-----------------------------------------------------------------------------
(* The goroutine of http.Server.Serve, and the connections.                *)

\* Serve registers the listener, or closes it and returns ErrServerClosed.
ServeStarts ==
    /\ serve = "started"
    /\ serve' = IF shutting THEN "closed" ELSE "accepting"
    /\ listening' = ~shutting
    /\ UNCHANGED <<main, ready, shutting, signalled, expired, conn, result,
                   exit>>

Accept(c) ==
    /\ serve = "accepting"
    /\ listening
    /\ conn[c] = "absent"
    /\ conn' = [conn EXCEPT ![c] = "new"]
    /\ UNCHANGED <<main, serve, ready, listening, shutting, signalled, expired,
                   result, exit>>

\* Accept returns a permanent error: Serve closes the listener and returns it.
AcceptFails ==
    /\ serve = "accepting"
    /\ listening
    /\ serve' = "failed"
    /\ listening' = FALSE
    /\ UNCHANGED <<main, ready, shutting, signalled, expired, conn, result,
                   exit>>

\* Accept fails because Shutdown closed the listener: ErrServerClosed.
ListenerClosed ==
    /\ serve = "accepting"
    /\ ~listening
    /\ serve' = "closed"
    /\ UNCHANGED <<main, ready, listening, shutting, signalled, expired, conn,
                   result, exit>>

\* A request is read, on a new or a kept-alive connection.
Request(c) ==
    /\ conn[c] \in {"new", "idle"}
    /\ conn' = [conn EXCEPT ![c] = "handling"]
    /\ UNCHANGED <<main, serve, ready, listening, shutting, signalled, expired,
                   result, exit>>

\* The handler returns and the response is written; a server that shuts down
\* keeps no connection alive.
Respond(c) ==
    /\ conn[c] = "handling"
    /\ conn' = [conn EXCEPT ![c] = IF shutting THEN "closed" ELSE "idle"]
    /\ UNCHANGED <<main, serve, ready, listening, shutting, signalled, expired,
                   result, exit>>

-----------------------------------------------------------------------------
(* The environment.                                                        *)

\* SIGINT or SIGTERM cancels the context; without a handler it kills.
Signal ==
    /\ ~signalled
    /\ main # "gone"
    /\ signalled' = TRUE
    /\ IF SignalHandled
       THEN UNCHANGED <<main, listening, conn, exit>>
       ELSE /\ main' = "gone"
            /\ exit' = "killed"
            /\ listening' = FALSE
            /\ conn' = [c \in Conns |-> Dropped(c)]
    /\ UNCHANGED <<serve, ready, shutting, expired, result>>

\* context.WithTimeout(..., shutdownTimeout)
DeadlineExpires ==
    /\ main = "drain"
    /\ ~expired
    /\ expired' = TRUE
    /\ UNCHANGED <<main, serve, ready, listening, shutting, signalled, conn,
                   result, exit>>

-----------------------------------------------------------------------------

MainStep ==
    \/ Load \/ LoadFails \/ Listen \/ ListenFails \/ Exit
    \/ Spawn \/ MarkReady \/ SelectServeDone \/ SelectSignal
    \/ WithdrawOnError \/ Withdraw \/ Shutdown
    \/ Drained \/ DrainExpires
    \/ ForceClose \/ JoinForced \/ Join

ServeStep == ServeStarts \/ ListenerClosed

Alive == main # "gone"

Next ==
    \/ MainStep
    \/ DrainContinues
    \/ Alive /\ (ServeStep \/ AcceptFails)
    \/ Alive /\ \E c \in Conns : Accept(c) \/ Request(c) \/ Respond(c)
    \/ Signal
    \/ DeadlineExpires

\* The scheduler runs both goroutines and time passes.  No handler is assumed
\* to return, no client to send, no signal to come.
Fairness ==
    /\ WF_vars(MainStep)
    /\ WF_vars(Alive /\ ServeStep)
    /\ WF_vars(DeadlineExpires)

Spec == Init /\ [][Next]_vars /\ Fairness

-----------------------------------------------------------------------------
(* Properties.                                                             *)

\* Every variable stays in its type.
TypeOK ==
    /\ main \in MainSteps
    /\ serve \in ServeSteps
    /\ ready \in BOOLEAN
    /\ listening \in BOOLEAN
    /\ shutting \in BOOLEAN
    /\ signalled \in BOOLEAN
    /\ expired \in BOOLEAN
    /\ conn \in [Conns -> ConnStates]
    /\ result \in {"none", "nil", "config_error", "listen_error", "serve_error",
                   "drain_error"}
    /\ exit \in {"none", "zero", "one", "killed"}

\* From the moment the listener is closed to drain, whichever way the goroutines
\* interleave, the readiness probe answers 503, and it never turns again.
WithdrawnBeforeDrain == shutting => ~ready

\* Exit status 0 means that no accepted request was cut off.
CleanExitDrained == exit = "zero" => \A c \in Conns : conn[c] # "aborted"

\* Server.Run leaves no goroutine in the accept loop behind, on any path.
GoroutineJoined == result \notin {"none", "config_error", "listen_error"}
                      => ServeReturned /\ ~listening

\* Nothing of the running process is cut off before the whole deadline of a
\* shutdown that somebody asked for, and no drain error is returned before.
ForcedOnlyAfterDeadline ==
    \/ result = "drain_error"
    \/ main # "gone" /\ \E c \in Conns : conn[c] = "aborted"
    => expired /\ signalled

\* A signalled process ends, even when a handler never returns.
SignalEndsProcess == signalled ~> main = "gone"

\* The document of the backend's architecture says that readiness "becomes true
\* only after HTTP serving starts": the code violates it, as it marks ready
\* without waiting for the goroutine.
ReadyOnlyWhenServing == ready => serve # "started"
=============================================================================
