---------------------------- MODULE MetricsStore ----------------------------
(***************************************************************************)
(* record_metric (.codex/scripts/control_actions.py) under the lock of     *)
(* module WorkspaceLock: inside workspace_lock a process reads             *)
(* control/metrics.json, adds to one counter and replaces the file.  The   *)
(* replacement is atomic (atomic_write_text), the read and the write are   *)
(* two steps.  One counter is modelled, and each process adds 1 to it.     *)
(***************************************************************************)
EXTENDS WorkspaceLock

ASSUME ProcsAssumption == IsFiniteSet(Procs)

VARIABLES
    counter,   \* the counter in metrics.json
    copy,      \* the value each process read
    phase      \* where each process is in the body of record_metric

metricsVars == <<counter, copy, phase>>
allVars == <<vars, metricsVars>>

Credited == {p \in Procs : phase[p] = "written"}

MetricsInit ==
    /\ Init
    /\ counter = 0
    /\ copy = [p \in Procs |-> 0]
    /\ phase = [p \in Procs |-> "start"]

-----------------------------------------------------------------------------
(* Mutated forms of the definitions below, used to test the properties.    *)

ReadWithoutLock(p) ==
    /\ pc[p] \notin Dead
    /\ phase[p] = "start"
    /\ copy' = [copy EXCEPT ![p] = counter]
    /\ phase' = [phase EXCEPT ![p] = "read"]
    /\ UNCHANGED <<vars, counter>>

WriteTwice(p) ==
    /\ pc[p] = "critical"
    /\ phase[p] \in {"read", "written"}
    /\ counter' = copy[p] + 1
    /\ copy' = [copy EXCEPT ![p] = counter']
    /\ phase' = [phase EXCEPT ![p] = "written"]
    /\ UNCHANGED vars

-----------------------------------------------------------------------------

\* read_json of metrics.json, inside the lock (nested or not).
ReadMetrics(p) ==
    /\ pc[p] = "critical"
    /\ phase[p] = "start"
    /\ copy' = [copy EXCEPT ![p] = counter]
    /\ phase' = [phase EXCEPT ![p] = "read"]
    /\ UNCHANGED <<vars, counter>>

\* write_json of the incremented copy.
WriteMetrics(p) ==
    /\ pc[p] = "critical"
    /\ phase[p] = "read"
    /\ counter' = copy[p] + 1
    /\ phase' = [phase EXCEPT ![p] = "written"]
    /\ UNCHANGED <<vars, copy>>

\* The lock moves on; a body that raises leaves the lock without writing.
LockStep == Next /\ UNCHANGED metricsVars

MetricsNext ==
    \/ \E p \in Procs : ReadMetrics(p) \/ WriteMetrics(p)
    \/ LockStep

MetricsSpec == MetricsInit /\ [][MetricsNext]_allVars

-----------------------------------------------------------------------------
(* Properties.                                                             *)

\* Every variable stays in its type.
MetricsTypeOK ==
    /\ TypeOK
    /\ counter \in 0 .. Cardinality(Procs)
    /\ copy \in [Procs -> 0 .. Cardinality(Procs)]
    /\ phase \in [Procs -> {"start", "read", "written"}]

\* Every addition that returned is in the counter.  The evaluation case
\* concurrent-mutations-are-serialized expects it ("preserve every successful
\* mutation"); the code violates it with three processes.
NoLostUpdate == counter = Cardinality(Credited)

\* Additions are lost only through an unlink of another process's lock file.
LostOnlyAfterMisdelete == ~misdeleted => NoLostUpdate

\* No interleaving, not even one that breaks the lock, makes the counter
\* overstate the additions: the damage is bounded to lost updates.
NeverOvercounts ==
    /\ counter <= Cardinality(Credited)
    /\ Credited # {} => counter > 0

\* record_metric implements the counter of module AtomicCounter.
Abstract == INSTANCE AtomicCounter WITH
    value <- counter, additions <- Cardinality(Credited),
    degraded <- misdeleted

ImplementsCounter == Abstract!CounterSpec
=============================================================================
