----------------------- MODULE ServerLifecycle_proofs -----------------------
(***************************************************************************)
(* Theorems about ServerLifecycle, for any set of connections.             *)
(***************************************************************************)
EXTENDS ServerLifecycle, TLAPS

\* The steps of main at which readiness may be on.
ReadySteps == {"select", "withdraw_on_error", "withdraw"}

\* The steps of main once http.Server.Shutdown was called.
ShutdownSteps == {"drain", "close", "join_forced", "join", "returned", "gone"}

\* Readiness is on only between MarkReady and the withdrawal, all of which
\* comes before Shutdown.
ReadyInv ==
    /\ ready => main \in ReadySteps
    /\ shutting => main \in ShutdownSteps

\* The accept loop ends as "closed" only because of Shutdown, and with the
\* listener closed.
ServeInv ==
    /\ main \in {"load", "listen", "spawn"} => serve = "unborn"
    /\ main = "withdraw_on_error" => ServeReturned
    /\ serve = "closed" => shutting
    /\ serve = "accepting" /\ ~listening /\ Alive => shutting
    /\ ServeReturned => ~listening

\* A drained server has no accept loop and no connection left that could be
\* cut off, and only a drained server returns nil.
DrainInv ==
    /\ main \in ShutdownSteps \ {"returned", "gone"} => shutting
    /\ main \notin {"join_forced", "returned", "gone"} =>
          \A c \in Conns : conn[c] # "aborted"
    /\ main = "join" \/ result = "nil" =>
          /\ serve # "accepting"
          /\ \A c \in Conns : conn[c] \in {"absent", "closed"}
    /\ result # "none" => main \in {"returned", "gone"}
    /\ result \notin {"none", "config_error", "listen_error"} => ServeReturned
    /\ exit = "zero" => result = "nil"

\* The inductive invariant.
ServerInv == TypeOK /\ ReadyInv /\ ServeInv /\ DrainInv

\* Dropping a connection leaves it aborted if it was busy, and otherwise as it
\* was or closed.
LEMMA DroppedConn ==
    ASSUME NEW c \in Conns, TypeOK
    PROVE  /\ Dropped(c) \in {"absent", "closed", "aborted"}
           /\ conn[c] \in {"absent", "closed"} => Dropped(c) = conn[c]
           /\ conn[c] \notin Busy \union {"aborted"}
                 => Dropped(c) \in {"absent", "closed"}
  BY DEF Dropped, Busy, TypeOK, ConnStates

LEMMA ServerInvInit == Init => ServerInv
  BY DEF Init, ServerInv, TypeOK, ReadyInv, ServeInv, DrainInv, MainSteps,
         ServeSteps, ConnStates, ServeReturned, ReadySteps, ShutdownSteps, Alive

\* Each step of either goroutine, a client or the environment preserves it.
LEMMA ServerInvPreserved == ServerInv /\ [Next]_vars => ServerInv'
<1> SUFFICES ASSUME ServerInv, [Next]_vars PROVE ServerInv'
  OBVIOUS
<1> USE DEF ServerInv, TypeOK, ReadyInv, ServeInv, DrainInv, MainSteps,
            ServeSteps, ConnStates, ServeReturned, ReadySteps, ShutdownSteps,
            Alive
<1>1. CASE UNCHANGED vars
  BY <1>1 DEF vars
<1>2. ASSUME MainStep PROVE ServerInv'
  <2>1. CASE Load
    BY <2>1 DEF Load
  <2>2. CASE LoadFails
    BY <2>2 DEF LoadFails, Return
  <2>3. CASE Listen
    BY <2>3 DEF Listen
  <2>4. CASE ListenFails
    BY <2>4 DEF ListenFails, Return
  <2>5. CASE Exit
    <3>1. \A c \in Conns : conn'[c] \in {"absent", "closed", "aborted"}
      BY <2>5, DroppedConn DEF Exit
    <3>2. result = "nil" =>
             \A c \in Conns : conn'[c] \in {"absent", "closed"}
      BY <2>5, DroppedConn DEF Exit
    <3>3. conn' \in [Conns -> ConnStates]
      BY <2>5, <3>1 DEF Exit
    <3>4. /\ main = "returned" /\ main' = "gone"
          /\ exit' = IF result = "nil" THEN "zero" ELSE "one"
          /\ listening' = FALSE
          /\ UNCHANGED <<serve, ready, shutting, signalled, expired, result>>
      BY <2>5 DEF Exit
    <3>5. TypeOK'
      BY <3>3, <3>4
    <3>6. ReadyInv'
      BY <3>4
    <3>7. ServeInv'
      BY <3>4
    <3>8. DrainInv'
      BY <3>2, <3>4
    <3> QED
      BY <3>5, <3>6, <3>7, <3>8
  <2>6. CASE Spawn
    BY <2>6 DEF Spawn
  <2>7. CASE MarkReady
    BY <2>7 DEF MarkReady
  <2>8. CASE SelectServeDone
    BY <2>8 DEF SelectServeDone
  <2>9. CASE SelectSignal
    BY <2>9 DEF SelectSignal
  <2>10. CASE WithdrawOnError
    <3>1. serve # "closed"
      BY <2>10 DEF WithdrawOnError
    <3>2. result' = "serve_error" /\ main' = "returned"
      BY <2>10, <3>1 DEF WithdrawOnError, Return
    <3>3. ServeReturned
      BY <2>10 DEF WithdrawOnError
    <3> QED
      BY <2>10, <3>1, <3>2, <3>3 DEF WithdrawOnError
  <2>11. CASE Withdraw
    BY <2>11 DEF Withdraw
  <2>12. CASE Shutdown
    BY <2>12 DEF Shutdown
  <2>13. CASE Drained
    <3>1. \A c \in Conns : conn[c] \notin Busy \union {"aborted"}
      BY <2>13 DEF Drained
    <3>2. \A c \in Conns : conn'[c] \in {"absent", "closed"}
      BY <2>13, <3>1, DroppedConn DEF Drained
    <3>3. conn' \in [Conns -> ConnStates]
      BY <2>13, <3>2 DEF Drained
    <3>4. /\ main = "drain" /\ main' = "join" /\ serve # "accepting"
          /\ UNCHANGED <<serve, ready, listening, shutting, signalled, expired,
                         result, exit>>
      BY <2>13 DEF Drained
    <3>5. shutting
      BY <3>4
    <3> QED
      BY <3>2, <3>3, <3>4, <3>5
  <2>14. CASE DrainExpires
    BY <2>14 DEF DrainExpires
  <2>15. CASE ForceClose
    BY <2>15 DEF ForceClose, Dropped, Busy
  <2>16. CASE JoinForced
    BY <2>16 DEF JoinForced, Return
  <2>17. CASE Join
    BY <2>17 DEF Join, Return
  <2> QED
    BY <1>2, <2>1, <2>2, <2>3, <2>4, <2>5, <2>6, <2>7, <2>8, <2>9,
       <2>10, <2>11, <2>12, <2>13, <2>14, <2>15, <2>16, <2>17
    DEF MainStep
<1>3. ASSUME DrainContinues PROVE ServerInv'
  BY <1>3 DEF DrainContinues, Busy
<1>4. ASSUME Alive, ServeStarts PROVE ServerInv'
  BY <1>4 DEF ServeStarts, Alive
<1>5. ASSUME Alive, ListenerClosed PROVE ServerInv'
  BY <1>5 DEF ListenerClosed, Alive
<1>6. ASSUME Alive, AcceptFails PROVE ServerInv'
  BY <1>6 DEF AcceptFails, Alive
<1>7. ASSUME Signal PROVE ServerInv'
  <2>1. CASE SignalHandled
    BY <1>7, <2>1 DEF Signal
  <2>2. CASE ~SignalHandled
    <3>1. \A c \in Conns : conn'[c] \in {"absent", "closed", "aborted"}
      BY <1>7, <2>2, DroppedConn DEF Signal
    <3>2. result = "nil" =>
             \A c \in Conns : conn'[c] \in {"absent", "closed"}
      BY <1>7, <2>2, DroppedConn DEF Signal, SignalHandled
    <3>3. conn' \in [Conns -> ConnStates]
      BY <1>7, <2>2, <3>1 DEF Signal
    <3>4. /\ main \in {"load", "returned"} /\ main' = "gone"
          /\ exit' = "killed" /\ listening' = FALSE /\ signalled' = TRUE
          /\ UNCHANGED <<serve, ready, shutting, expired, result>>
      BY <1>7, <2>2 DEF Signal, SignalHandled
    <3>5. TypeOK'
      BY <3>3, <3>4
    <3>6. ReadyInv'
      BY <3>4
    <3>7. ServeInv'
      BY <3>4
    <3>8. DrainInv'
      BY <3>2, <3>4
    <3> QED
      BY <3>5, <3>6, <3>7, <3>8
  <2> QED
    BY <2>1, <2>2
<1>8. ASSUME DeadlineExpires PROVE ServerInv'
  BY <1>8 DEF DeadlineExpires
<1>9. ASSUME Alive, NEW c \in Conns, Accept(c) PROVE ServerInv'
  BY <1>9 DEF Accept, Alive
<1>10. ASSUME Alive, NEW c \in Conns, Request(c) PROVE ServerInv'
  BY <1>10 DEF Request, Alive
<1>11. ASSUME Alive, NEW c \in Conns, Respond(c) PROVE ServerInv'
  BY <1>11 DEF Respond, Alive
<1> QED
  BY <1>1, <1>2, <1>3, <1>4, <1>5, <1>6, <1>7, <1>8, <1>9, <1>10, <1>11
  DEF Next, ServeStep

LEMMA ServerInvariant == Spec => []ServerInv
  BY ServerInvInit, ServerInvPreserved, PTL DEF Spec

\* Every variable stays in its type.
THEOREM ServerTypeCorrect == Spec => []TypeOK
  BY ServerInvariant, PTL DEF ServerInv

\* Readiness is withdrawn before the listener is closed to drain, and no late
\* MarkReady turns it on again.
THEOREM ReadinessWithdrawn == Spec => []WithdrawnBeforeDrain
<1>1. ServerInv => WithdrawnBeforeDrain
  BY DEF ServerInv, ReadyInv, WithdrawnBeforeDrain, ReadySteps, ShutdownSteps
<1> QED
  BY <1>1, ServerInvariant, PTL

\* However many connections are open and whenever the signal comes, exit status
\* 0 means that no accepted request was cut off.
THEOREM CleanExit == Spec => []CleanExitDrained
<1>1. ServerInv => CleanExitDrained
  BY DEF ServerInv, DrainInv, CleanExitDrained
<1> QED
  BY <1>1, ServerInvariant, PTL

\* Server.Run never returns while the goroutine it started still accepts.
THEOREM NothingLeftRunning == Spec => []GoroutineJoined
<1>1. ServerInv => GoroutineJoined
  BY DEF ServerInv, DrainInv, ServeInv, GoroutineJoined
<1> QED
  BY <1>1, ServerInvariant, PTL
-----------------------------------------------------------------------------

\* The steps of main after it chose the signal, and those after the deadline.
SignalSteps == {"withdraw", "shutdown", "drain", "close", "join_forced"}
ForcedSteps == {"close", "join_forced"}

\* Whoever got as far as closing connections by force was asked to stop and has
\* waited for the deadline.
ForcedInv ==
    /\ main \in SignalSteps => signalled
    /\ main \in ForcedSteps => expired
    /\ ForcedOnlyAfterDeadline

\* A connection is cut off by ForceClose, or when the process is gone.
LEMMA ForcedInvPreserved == ServerInv /\ ForcedInv /\ [Next]_vars => ForcedInv'
<1> SUFFICES ASSUME ServerInv, ForcedInv, [Next]_vars PROVE ForcedInv'
  OBVIOUS
<1> USE DEF ForcedInv, ForcedOnlyAfterDeadline, SignalSteps, ForcedSteps
<1>1. CASE UNCHANGED vars
  BY <1>1 DEF vars
<1>2. /\ conn \in [Conns -> ConnStates]
      /\ main \in MainSteps
      /\ result # "none" => main \in {"returned", "gone"}
      /\ main \notin {"join_forced", "returned", "gone"} =>
            \A c \in Conns : conn[c] # "aborted"
  BY DEF ServerInv, TypeOK, DrainInv
<1>3. CASE MainStep
  <2>1. CASE Load \/ LoadFails \/ Listen \/ ListenFails \/ Spawn \/ MarkReady
    BY <2>1, <1>2
    DEF Load, LoadFails, Listen, ListenFails, Spawn, MarkReady, Return
  <2>2. CASE SelectServeDone \/ SelectSignal \/ WithdrawOnError \/ Withdraw
    BY <2>2, <1>2
    DEF SelectServeDone, SelectSignal, WithdrawOnError, Withdraw, Return
  <2>3. CASE Shutdown \/ DrainExpires
    BY <2>3, <1>2 DEF Shutdown, DrainExpires
  <2>4. CASE Exit
    BY <2>4, <1>2 DEF Exit
  <2>5. CASE Drained
    <3>1. \A c \in Conns : conn'[c] # "aborted"
      BY <2>5, <1>2 DEF Drained, Dropped
    <3> QED
      BY <2>5, <3>1, <1>2 DEF Drained
  <2>6. CASE ForceClose
    BY <2>6, <1>2 DEF ForceClose
  <2>7. CASE JoinForced \/ Join
    BY <2>7, <1>2 DEF JoinForced, Join, Return
  <2> QED
    BY <1>3, <2>1, <2>2, <2>3, <2>4, <2>5, <2>6, <2>7 DEF MainStep
<1>4. CASE DrainContinues
  BY <1>4, <1>2 DEF DrainContinues
<1>5. CASE ServeStep \/ AcceptFails
  BY <1>5 DEF ServeStep, ServeStarts, ListenerClosed, AcceptFails
<1>6. ASSUME NEW c \in Conns, Accept(c) \/ Request(c) \/ Respond(c)
      PROVE  ForcedInv'
  <2>1. \A d \in Conns : conn'[d] = "aborted" => conn[d] = "aborted"
    BY <1>6, <1>2 DEF Accept, Request, Respond
  <2> QED
    BY <1>6, <2>1 DEF Accept, Request, Respond
<1>7. CASE Signal
  BY <1>7, <1>2 DEF Signal
<1>8. CASE DeadlineExpires
  BY <1>8 DEF DeadlineExpires
<1> QED
  BY <1>1, <1>3, <1>4, <1>5, <1>6, <1>7, <1>8 DEF Next

\* Nothing of a running process is cut off before the deadline of a shutdown
\* somebody asked for, and no drain error is returned before.
THEOREM ForcedAfterDeadline == Spec => []ForcedOnlyAfterDeadline
<1>1. Init => ForcedInv
  BY DEF Init, ForcedInv, ForcedOnlyAfterDeadline, SignalSteps, ForcedSteps
<1>2. ForcedInv => ForcedOnlyAfterDeadline
  BY DEF ForcedInv
<1> QED
  BY <1>1, <1>2, ForcedInvPreserved, ServerInvariant, PTL DEF Spec
=============================================================================
