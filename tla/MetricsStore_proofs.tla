------------------------ MODULE MetricsStore_proofs ------------------------
(***************************************************************************)
(* Theorems about WorkspaceLock, for any set of processes and any bounds;  *)
(* and about MetricsStore, for any finite set of processes: what the lock  *)
(* is worth to record_metric, and that record_metric implements the        *)
(* counter of module AtomicCounter.                                        *)
(***************************************************************************)
EXTENDS MetricsStore, FiniteSetTheorems, TLAPS

-----------------------------------------------------------------------------
(* Type correctness.                                                       *)

\* Initially every variable is in its type.
LEMMA TypeInit == Init => TypeOK
<1> SUFFICES ASSUME Init PROVE TypeOK
  OBVIOUS
<1>1. pidWritten \in BOOLEAN /\ misdeleted \in BOOLEAN
  BY DEF Init
<1>2. depth \in [Procs -> 0 .. MaxDepth] /\ crashes \in 0 .. MaxCrashes
  BY LockAssumption DEF Init
<1> QED
  BY <1>1, <1>2 DEF Init, TypeOK, Waiting, Holding, Finished, Dead

\* Every action of the lock keeps every variable in its type.
LEMMA TypePreserved == TypeOK /\ [Next]_vars => TypeOK'
<1> SUFFICES ASSUME TypeOK, [Next]_vars PROVE TypeOK'
  OBVIOUS
<1> USE LockAssumption DEF TypeOK, Waiting, Holding, Finished, Dead, Goto
<1>1. CASE UNCHANGED vars
  BY <1>1 DEF vars
<1>2. ASSUME NEW p \in Procs, Acquire(p) PROVE TypeOK'
  <2>1. CASE OpenCreates(p)
    BY <2>1 DEF OpenCreates
  <2>2. CASE OpenExists(p)
    BY <2>2 DEF OpenExists
  <2>3. CASE WritePid(p)
    BY <2>3 DEF WritePid
  <2>4. CASE ReadPid(p)
    BY <2>4 DEF ReadPid
  <2>5. CASE ProbePid(p)
    BY <2>5 DEF ProbePid
  <2>6. CASE UnlinkStale(p)
    <3>1. pc' \in [Procs -> Waiting \union Holding \union Finished \union Dead]
      BY <2>6 DEF UnlinkStale
    <3>2. misdeleted' \in BOOLEAN
      BY <2>6, Zenon DEF UnlinkStale
    <3>3. lockFile' = NoProc /\ pidWritten' = FALSE
      BY <2>6 DEF UnlinkStale
    <3>4. UNCHANGED <<seen, late, depth, reused, crashes>>
      BY <2>6 DEF UnlinkStale
    <3> QED
      BY <3>1, <3>2, <3>3, <3>4
  <2>7. CASE RetryOrGiveUp(p)
    BY <2>7 DEF RetryOrGiveUp
  <2> QED
    BY <1>2, <2>1, <2>2, <2>3, <2>4, <2>5, <2>6, <2>7 DEF Acquire
<1>3. ASSUME NEW p \in Procs, DeadlinePasses(p) PROVE TypeOK'
  BY <1>3 DEF DeadlinePasses
<1>4. ASSUME NEW p \in Procs, EnterNested(p) PROVE TypeOK'
  BY <1>4 DEF EnterNested
<1>5. ASSUME NEW p \in Procs, LeaveNested(p) PROVE TypeOK'
  BY <1>5 DEF LeaveNested
<1>6. ASSUME NEW p \in Procs, Release(p) PROVE TypeOK'
  <2>1. pc' \in [Procs -> Waiting \union Holding \union Finished \union Dead]
    BY <1>6 DEF Release
  <2>2. depth' \in [Procs -> 0 .. MaxDepth]
    BY <1>6 DEF Release
  <2>3. misdeleted' \in BOOLEAN
    BY <1>6, Zenon DEF Release
  <2>4. lockFile' = NoProc /\ pidWritten' = FALSE
    BY <1>6 DEF Release
  <2>5. UNCHANGED <<seen, late, reused, crashes>>
    BY <1>6 DEF Release
  <2> QED
    BY <2>1, <2>2, <2>3, <2>4, <2>5
<1>7. ASSUME NEW p \in Procs, Exit(p) PROVE TypeOK'
  BY <1>7 DEF Exit
<1>8. ASSUME NEW p \in Procs, Crash(p) PROVE TypeOK'
  BY <1>8 DEF Crash
<1>9. ASSUME NEW p \in Procs, PidReused(p) PROVE TypeOK'
  BY <1>9 DEF PidReused
<1> QED
  BY <1>1, <1>2, <1>3, <1>4, <1>5, <1>6, <1>7, <1>8, <1>9 DEF Next

\* Every variable stays in its type, whatever the processes do.
THEOREM TypeCorrect == Spec => []TypeOK
  BY TypeInit, TypePreserved, PTL DEF Spec

-----------------------------------------------------------------------------
(* The lock excludes until a file is misdeleted.                           *)

\* A process about to unlink has seen the probed process dead, and no process
\* comes back from the dead.
UnlinksTheDead ==
    \A p \in Procs :
        /\ pc[p] = "probe" => seen[p] \in Procs
        /\ pc[p] = "unlink" => seen[p] \in Procs /\ pc[seen[p]] \in Dead

\* The inductive invariant.
LockInv ==
    /\ TypeOK
    /\ NoLeakedLock
    /\ UnlinksTheDead
    /\ OverlapOnlyAfterMisdelete

\* Nobody holds the lock and no file exists at first.
LEMMA LockInvInit == Init => LockInv
<1> SUFFICES ASSUME Init PROVE LockInv
  OBVIOUS
<1>1. TypeOK
  BY TypeInit
<1>2. NoLeakedLock
  BY DEF Init, NoLeakedLock
<1>3. \A p \in Procs : pc[p] = "open"
  BY DEF Init
<1>4. UnlinksTheDead /\ OverlapOnlyAfterMisdelete
  BY <1>3 DEF UnlinksTheDead, OverlapOnlyAfterMisdelete, Holding
<1> QED
  BY <1>1, <1>2, <1>4 DEF LockInv

\* Each action preserves each part of the invariant.
LEMMA LockInvPreserved == LockInv /\ [Next]_vars => LockInv'
<1> SUFFICES ASSUME LockInv, [Next]_vars PROVE LockInv'
  OBVIOUS
<1>1. TypeOK'
  BY TypePreserved DEF LockInv
<1> USE <1>1, LockAssumption
    DEF TypeOK, NoLeakedLock, UnlinksTheDead, OverlapOnlyAfterMisdelete,
        LockInv, Waiting, Holding, Finished, Dead, Goto
<1>2. CASE UNCHANGED vars
  BY <1>2 DEF vars
<1>3. ASSUME NEW p \in Procs, Acquire(p) PROVE LockInv'
  <2>1. CASE OpenCreates(p)
    BY <2>1 DEF OpenCreates
  <2>2. CASE OpenExists(p)
    BY <2>2 DEF OpenExists
  <2>3. CASE WritePid(p)
    BY <2>3 DEF WritePid
  <2>4. CASE ReadPid(p)
    BY <2>4 DEF ReadPid
  <2>5. CASE ProbePid(p)
    BY <2>5 DEF ProbePid, PidExists
  <2>6. CASE UnlinkStale(p)
    BY <2>6 DEF UnlinkStale
  <2>7. CASE RetryOrGiveUp(p)
    BY <2>7 DEF RetryOrGiveUp
  <2> QED
    BY <1>3, <2>1, <2>2, <2>3, <2>4, <2>5, <2>6, <2>7 DEF Acquire
<1>4. ASSUME NEW p \in Procs, DeadlinePasses(p) PROVE LockInv'
  BY <1>4 DEF DeadlinePasses
<1>5. ASSUME NEW p \in Procs, EnterNested(p) PROVE LockInv'
  BY <1>5 DEF EnterNested
<1>6. ASSUME NEW p \in Procs, LeaveNested(p) PROVE LockInv'
  BY <1>6 DEF LeaveNested
<1>7. ASSUME NEW p \in Procs, Release(p) PROVE LockInv'
  BY <1>7 DEF Release
<1>8. ASSUME NEW p \in Procs, Exit(p) PROVE LockInv'
  BY <1>8 DEF Exit
<1>9. ASSUME NEW p \in Procs, Crash(p) PROVE LockInv'
  BY <1>9 DEF Crash
<1>10. ASSUME NEW p \in Procs, PidReused(p) PROVE LockInv'
  BY <1>10 DEF PidReused
<1> QED
  BY <1>2, <1>3, <1>4, <1>5, <1>6, <1>7, <1>8, <1>9, <1>10 DEF Next

LEMMA LockInvariant == Spec => []LockInv
  BY LockInvInit, LockInvPreserved, PTL DEF Spec

\* For any number of processes, crashes and nested locks: a process inside
\* workspace_lock is alone, with its own file at the path, until an unlink hits
\* a file other than the one that was read or created.
THEOREM ExclusionUntilMisdelete == Spec => []OverlapOnlyAfterMisdelete
  BY LockInvariant, PTL DEF LockInv

\* Only a process inside the lock, or one that crashed, leaves a file at the
\* lock path - even after the lock has been broken.
THEOREM NothingLeaks == Spec => []NoLeakedLock
  BY LockInvariant, PTL DEF LockInv

-----------------------------------------------------------------------------
(* With two processes the lock is sound.                                   *)

\* Of two processes, the one that unlinks has read the other's pid, and the
\* dead other one cannot have created a second file: no misdelete happens.
LEMMA PairNeverMisdeletes ==
    ASSUME NEW a, NEW b, Procs = {a, b},
           LockInv, ~misdeleted, [Next]_vars
    PROVE  ~misdeleted'
<1> USE LockAssumption
    DEF LockInv, TypeOK, NoLeakedLock, UnlinksTheDead,
        OverlapOnlyAfterMisdelete, Waiting, Holding, Finished, Dead, Goto
<1>1. ASSUME NEW p \in Procs, UnlinkStale(p) PROVE ~misdeleted'
  BY <1>1 DEF UnlinkStale
<1>2. ASSUME NEW p \in Procs, Release(p) PROVE ~misdeleted'
  BY <1>2 DEF Release
<1> QED
  BY <1>1, <1>2
  DEF Next, vars, Acquire, OpenCreates, OpenExists, WritePid, ReadPid,
      ProbePid, RetryOrGiveUp, DeadlinePasses, EnterNested, LeaveNested, Exit,
      Crash, PidReused

\* Two processes never overlap inside workspace_lock, whatever crashes and
\* recycled pids they meet: the overlap takes a third process.
THEOREM PairExclusion ==
    ASSUME NEW a, NEW b, Procs = {a, b}
    PROVE  Spec => []MutualExclusion
<1>1. Init => ~misdeleted
  BY DEF Init
<1>2. LockInv /\ ~misdeleted /\ [Next]_vars => ~misdeleted'
  BY PairNeverMisdeletes
<1>3. LockInv /\ ~misdeleted => MutualExclusion
  <2> SUFFICES ASSUME LockInv, ~misdeleted PROVE Cardinality(Holders) <= 1
    BY DEF MutualExclusion
  <2>1. Holders \subseteq {lockFile}
    BY DEF LockInv, OverlapOnlyAfterMisdelete, Holders
  <2>2. IsFiniteSet({lockFile}) /\ Cardinality({lockFile}) = 1
    BY FS_Singleton
  <2> QED
    BY <2>1, <2>2, FS_Subset
<1> QED
  BY <1>1, <1>2, <1>3, LockInvariant, PTL DEF Spec

-----------------------------------------------------------------------------
(* The metrics store.                                                      *)

\* The places of a process that has been inside the lock.
Inside == {"critical"} \union Finished \union Dead

\* The shape of the variables, without the bounds that follow from the rest.
Shape ==
    /\ counter \in Nat
    /\ copy \in [Procs -> Nat]
    /\ phase \in [Procs -> {"start", "read", "written"}]

\* The counter, and whatever was read of it, is at most the additions made.
Bounded ==
    /\ counter <= Cardinality(Credited)
    /\ \A p \in Procs : copy[p] <= Cardinality(Credited)
    /\ Credited # {} => counter > 0

\* While the lock is sound the counter is exact, and so is the copy of the
\* process that is about to write it back.
Exact ==
    ~misdeleted =>
        /\ counter = Cardinality(Credited)
        /\ \A p \in Procs : phase[p] = "read" /\ pc[p] = "critical"
                               => copy[p] = counter

\* Only a process inside the lock reads.
ReadInside == \A p \in Procs : phase[p] = "read" => pc[p] \in Inside

\* The inductive invariant.
CounterInv == LockInv /\ Shape /\ Bounded /\ Exact /\ ReadInside

-----------------------------------------------------------------------------
(* Cardinalities.                                                          *)

\* The credited processes can be counted, and are at most all of them.
LEMMA CreditedFinite ==
    /\ IsFiniteSet(Credited)
    /\ Cardinality(Credited) \in Nat
    /\ Cardinality(Procs) \in Nat
    /\ Cardinality(Credited) <= Cardinality(Procs)
<1>1. Credited \subseteq Procs
  BY DEF Credited
<1> QED
  BY <1>1, ProcsAssumption, FS_Subset, FS_CardinalityType

\* A write credits one more process.
LEMMA WriteCredits ==
    ASSUME NEW p \in Procs, Shape, WriteMetrics(p)
    PROVE  /\ p \notin Credited
           /\ Credited' = Credited \union {p}
           /\ Cardinality(Credited') = Cardinality(Credited) + 1
<1>1. p \notin Credited /\ Credited' = Credited \union {p}
  BY DEF Shape, WriteMetrics, Credited
<1> QED
  BY <1>1, CreditedFinite, FS_AddElement

-----------------------------------------------------------------------------
(* The invariant.                                                          *)

\* A step of the lock never mends it, and takes nobody who has been inside
\* back to the door.
LEMMA LockStepFacts ==
    ASSUME LockInv, Next
    PROVE  /\ misdeleted => misdeleted'
           /\ \A q \in Procs : pc[q] \in Inside => pc'[q] \in Inside
           /\ \A q \in Procs : pc'[q] = "critical"
                                 => pc[q] \in {"write", "critical"}
<1> USE DEF LockInv, TypeOK, Inside, Waiting, Holding, Finished, Dead, Goto
<1>1. PICK p \in Procs :
         \/ Acquire(p) \/ DeadlinePasses(p) \/ EnterNested(p) \/ LeaveNested(p)
         \/ Release(p) \/ Exit(p) \/ Crash(p) \/ PidReused(p)
  BY DEF Next
<1>2. CASE Acquire(p)
  BY <1>2 DEF Acquire, OpenCreates, OpenExists, WritePid, ReadPid, ProbePid,
              UnlinkStale, RetryOrGiveUp
<1>3. CASE ~Acquire(p)
  BY <1>1, <1>3 DEF DeadlinePasses, EnterNested, LeaveNested, Release, Exit,
                    Crash, PidReused
<1> QED
  BY <1>2, <1>3

LEMMA CounterInvInit == MetricsInit => CounterInv
<1> SUFFICES ASSUME MetricsInit PROVE CounterInv
  OBVIOUS
<1>1. LockInv
  BY LockInvInit DEF MetricsInit
<1>2. Shape
  BY DEF MetricsInit, Shape
<1>3. Credited = {}
  BY DEF MetricsInit, Credited
<1>4. Cardinality(Credited) = 0
  BY <1>3, FS_EmptySet
<1>5. counter = 0 /\ \A p \in Procs : copy[p] = 0 /\ phase[p] = "start"
  BY DEF MetricsInit
<1> QED
  BY <1>1, <1>2, <1>3, <1>4, <1>5
  DEF CounterInv, Bounded, Exact, ReadInside

LEMMA CounterInvPreserved ==
    CounterInv /\ [MetricsNext]_allVars => CounterInv'
<1> SUFFICES ASSUME CounterInv, [MetricsNext]_allVars PROVE CounterInv'
  OBVIOUS
<1>1. CASE UNCHANGED allVars
  <2>1. UNCHANGED vars /\ UNCHANGED metricsVars
    BY <1>1 DEF allVars
  <2>2. LockInv'
    BY <2>1, LockInvPreserved DEF CounterInv
  <2> QED
    BY <2>1, <2>2 DEF CounterInv, Shape, Bounded, Exact, ReadInside, Credited,
                      vars, metricsVars, Inside
<1>2. ASSUME NEW p \in Procs, ReadMetrics(p) PROVE CounterInv'
  <2>1. LockInv'
    BY <1>2, LockInvPreserved DEF CounterInv, ReadMetrics
  <2>2. Shape'
    BY <1>2 DEF CounterInv, Shape, ReadMetrics
  <2>3. Credited' = Credited /\ counter' = counter
    BY <1>2 DEF CounterInv, Shape, ReadMetrics, Credited
  <2>4. Bounded' /\ Exact' /\ ReadInside'
    BY <1>2, <2>3, CreditedFinite
    DEF CounterInv, Shape, Bounded, Exact, ReadInside, ReadMetrics, vars, Inside
  <2> QED
    BY <2>1, <2>2, <2>4 DEF CounterInv
<1>3. ASSUME NEW p \in Procs, WriteMetrics(p) PROVE CounterInv'
  <2>1. LockInv'
    BY <1>3, LockInvPreserved DEF CounterInv, WriteMetrics
  <2>2. Shape'
    BY <1>3 DEF CounterInv, Shape, WriteMetrics
  <2>3. Cardinality(Credited') = Cardinality(Credited) + 1
    BY <1>3, WriteCredits DEF CounterInv
  <2>4. counter' = copy[p] + 1 /\ UNCHANGED <<vars, copy>>
    BY <1>3 DEF WriteMetrics
  <2>5. Bounded'
    BY <2>3, <2>4, CreditedFinite DEF CounterInv, Shape, Bounded
  <2>6. ReadInside'
    BY <1>3 DEF CounterInv, Shape, ReadInside, WriteMetrics, vars, Inside
  <2>7. ASSUME ~misdeleted
        PROVE  \A q \in Procs : pc[q] = "critical" => q = p
    BY <1>3, <2>7 DEF CounterInv, LockInv, OverlapOnlyAfterMisdelete, Holding,
                      WriteMetrics
  <2>8. ASSUME ~misdeleted PROVE copy[p] = Cardinality(Credited)
    BY <1>3, <2>8 DEF CounterInv, Exact, WriteMetrics
  <2>9. phase'[p] = "written"
    BY <1>3 DEF CounterInv, Shape, WriteMetrics
  <2>10. Exact'
    BY <2>3, <2>4, <2>7, <2>8, <2>9 DEF Exact, vars
  <2> QED
    BY <2>1, <2>2, <2>5, <2>6, <2>10 DEF CounterInv
<1>4. CASE LockStep
  <2>1. LockInv'
    BY <1>4, LockInvPreserved DEF CounterInv, LockStep
  <2>2. UNCHANGED metricsVars /\ Credited' = Credited
    BY <1>4 DEF LockStep, metricsVars, Credited
  <2>3. /\ misdeleted => misdeleted'
        /\ \A q \in Procs : pc[q] \in Inside => pc'[q] \in Inside
        /\ \A q \in Procs : pc'[q] = "critical"
                              => pc[q] \in {"write", "critical"}
    BY <1>4, LockStepFacts DEF CounterInv, LockStep
  <2>4. Shape' /\ Bounded'
    BY <2>2 DEF CounterInv, Shape, Bounded, metricsVars
  <2>5. ReadInside'
    BY <2>2, <2>3
    DEF CounterInv, ReadInside, metricsVars, Inside, Finished, Dead
  <2>6. ASSUME NEW q \in Procs, phase[q] = "read", pc'[q] = "critical"
        PROVE  pc[q] = "critical"
    BY <2>3, <2>6 DEF CounterInv, ReadInside, Inside, Finished, Dead
  <2>7. Exact'
    BY <2>2, <2>3, <2>6 DEF CounterInv, Exact, metricsVars
  <2> QED
    BY <2>1, <2>4, <2>5, <2>7 DEF CounterInv
<1> QED
  BY <1>1, <1>2, <1>3, <1>4 DEF MetricsNext

LEMMA CounterInvariant == MetricsSpec => []CounterInv
  BY CounterInvInit, CounterInvPreserved, PTL DEF MetricsSpec

-----------------------------------------------------------------------------
(* What callers of record_metric may rely on.                              *)

\* The counter, and every copy of it, is between 0 and the number of processes.
THEOREM MetricsTypeCorrect == MetricsSpec => []MetricsTypeOK
<1>1. CounterInv => MetricsTypeOK
  BY CreditedFinite
  DEF CounterInv, LockInv, Shape, Bounded, MetricsTypeOK
<1> QED
  BY <1>1, CounterInvariant, PTL

\* For any number of processes, an addition is lost only after an unlink took
\* away a lock file that was in use.
THEOREM LossTakesMisdelete == MetricsSpec => []LostOnlyAfterMisdelete
<1>1. CounterInv => LostOnlyAfterMisdelete
  BY DEF CounterInv, Exact, LostOnlyAfterMisdelete, NoLostUpdate
<1> QED
  BY <1>1, CounterInvariant, PTL

\* The counter never overstates the additions, whatever becomes of the lock.
THEOREM NoOvercount == MetricsSpec => []NeverOvercounts
<1>1. CounterInv => NeverOvercounts
  BY DEF CounterInv, Bounded, NeverOvercounts
<1> QED
  BY <1>1, CounterInvariant, PTL

\* record_metric under the lock implements the abstract counter: exact while
\* the lock is sound, bounded by the additions made afterwards.
THEOREM CounterImplemented == MetricsSpec => ImplementsCounter
<1>1. MetricsInit => Abstract!CounterInit
  <2> SUFFICES ASSUME MetricsInit PROVE Abstract!CounterInit
    OBVIOUS
  <2>1. counter = 0 /\ misdeleted = FALSE
    BY DEF MetricsInit, Init
  <2>2. Credited = {}
    BY DEF MetricsInit, Credited
  <2> QED
    BY <2>1, <2>2, FS_EmptySet DEF Abstract!CounterInit
<1>2. ASSUME CounterInv, [MetricsNext]_allVars
      PROVE  [Abstract!CounterNext]_(Abstract!counterVars)
  <2>1. CASE UNCHANGED allVars
    BY <2>1 DEF allVars, vars, metricsVars, Credited, Abstract!counterVars
  <2>2. ASSUME NEW p \in Procs, ReadMetrics(p)
        PROVE  UNCHANGED Abstract!counterVars
    <3>1. Credited' = Credited
      BY <1>2, <2>2 DEF CounterInv, Shape, ReadMetrics, Credited
    <3> QED
      BY <2>2, <3>1 DEF ReadMetrics, vars, Abstract!counterVars
  <2>3. ASSUME NEW p \in Procs, WriteMetrics(p) PROVE Abstract!Credit
    <3>1. Cardinality(Credited') = Cardinality(Credited) + 1
      BY <1>2, <2>3, WriteCredits DEF CounterInv
    <3>2. counter' = copy[p] + 1 /\ UNCHANGED vars
      BY <2>3 DEF WriteMetrics
    <3>3. counter' \in 1 .. Cardinality(Credited')
      BY <1>2, <3>1, <3>2, CreditedFinite DEF CounterInv, Shape, Bounded
    <3>4. ~misdeleted => counter' = counter + 1
      BY <1>2, <2>3, <3>2 DEF CounterInv, Exact, WriteMetrics
    <3>5. UNCHANGED misdeleted
      BY <3>2 DEF vars
    <3> QED
      BY <3>1, <3>3, <3>4, <3>5 DEF Abstract!Credit
  <2>4. CASE LockStep
    <3>1. misdeleted => misdeleted'
      BY <1>2, <2>4, LockStepFacts DEF CounterInv, LockStep
    <3>2. counter' = counter /\ Credited' = Credited
      BY <2>4 DEF LockStep, metricsVars, Credited
    <3>3. misdeleted \in BOOLEAN /\ misdeleted' \in BOOLEAN
      <4>1. LockInv'
        BY <1>2, <2>4, LockInvPreserved DEF CounterInv, LockStep
      <4> QED
        BY <1>2, <4>1 DEF CounterInv, LockInv, TypeOK
    <3> QED
      BY <3>1, <3>2, <3>3
      DEF Abstract!CounterNext, Abstract!Degrade, Abstract!counterVars
  <2> QED
    BY <1>2, <2>1, <2>2, <2>3, <2>4 DEF MetricsNext, Abstract!CounterNext
<1> QED
  BY <1>1, <1>2, CounterInvariant, PTL
  DEF MetricsSpec, ImplementsCounter, Abstract!CounterSpec
=============================================================================
