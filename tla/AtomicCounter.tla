--------------------------- MODULE AtomicCounter ---------------------------
(***************************************************************************)
(* What record_metric promises its callers: a counter, to which every call *)
(* adds 1 in one indivisible step.                                         *)
(*                                                                         *)
(* The promise is kept for as long as the lock is sound.  From the moment  *)
(* "degraded" is set - an unlink took another process's lock file away -   *)
(* additions may be lost, and then a call may only promise that it leaves  *)
(* the counter positive and not above the additions made.                  *)
(***************************************************************************)
EXTENDS Naturals

VARIABLES
    value,         \* the counter
    additions,     \* the calls that returned
    degraded       \* the lock has been broken

counterVars == <<value, additions, degraded>>

CounterInit ==
    /\ value = 0
    /\ additions = 0
    /\ degraded = FALSE

\* While the lock is sound an addition is exact.
Credit ==
    /\ additions' = additions + 1
    /\ IF degraded
       THEN value' \in 1 .. additions'
       ELSE value' = value + 1
    /\ UNCHANGED degraded

Degrade ==
    /\ degraded' = TRUE
    /\ UNCHANGED <<value, additions>>

CounterNext == Credit \/ Degrade

CounterSpec == CounterInit /\ [][CounterNext]_counterVars
=============================================================================
