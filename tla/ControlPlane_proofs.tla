------------------------ MODULE ControlPlane_proofs ------------------------
(***************************************************************************)
(* Theorems about ControlPlane, for any risks, workflow, names and bounds: *)
(* type correctness, the safety of approvals, completions and the audit    *)
(* trail, and that the commands implement WorkspaceLifecycle.              *)
(***************************************************************************)
EXTENDS ControlPlane, TLAPS

\* Heads and contents are counted by the edits that made them.
Counted ==
    /\ repo.head <= edits
    /\ repo.content <= edits

\* A transition under way: its target is in status.md, it is a legal one, its
\* event is still to come, and only completions are being checked.
Underway ==
    /\ step \in Checking \union {"append_event"} =>
          /\ status = move.to
          /\ move.to \in Targets(move.from)
          /\ events < MaxEvents
    /\ step \in Checking => move.to \in Final

TypeInv == TypeOK /\ Counted /\ Underway

\* The conclusion of CommitPointIsGated that the first half of the validation
\* establishes ...
GatesStand ==
    /\ \A g \in Required :
          /\ gates[g].state = "passed"
          /\ g \in TechnicalGates =>
                gates[g].execution = "run-gate" /\ gates[g].exit = "zero"
          /\ g = "user_approval" => gates[g].actor = "user"
    /\ risk = "high" =>
          gates["independent_review"].actor \notin {"pending", implementer}

\* ... and that holds on while the second half is done, with an approver, and
\* with the rest of the first half if nobody edits.
CheckedGatesStand ==
    step = "check_bindings" /\ ~move.errors =>
        /\ GatesStand
        /\ Concrete(ReadBack(approvedBy))
        /\ edits = move.since => PlanAndGatesValid

\* The transition under way has seen no more edits than were made.
SinceCounted == move.since <= edits

\* Once a completion was accepted the workspace stays final, and approved by a
\* name that can be read.
CertifiedApproved ==
    certified # {} =>
        /\ status \in Final
        /\ Concrete(ReadBack(approvedBy))
        /\ step \in Checking => move.from \in Final

\* Lines, counted transitions and deaths.
TrailCounted ==
    LET pending == IF step = "count_transition" THEN 1 ELSE 0
    IN  /\ metrics["transitions"] + pending <= events
        /\ events <= metrics["transitions"] + pending + crashes

\* A delivery starts from a certified completion.
DeliveryOfCertified ==
    step \in Checking /\ move.from \in Final /\ crashes = 0
        => move.from \in certified

\* The inductive invariant.
ControlInv ==
    /\ TypeInv
    /\ ApprovedBeforeWork /\ CertifiedApproved
    /\ TrailCounted /\ AuditTrail
    /\ CompletionCertified /\ DeliveryOfCertified
    /\ SinceCounted /\ CheckedGatesStand /\ CommitPointIsGated

-----------------------------------------------------------------------------
(* Type correctness.                                                       *)

\* The tables stay within the gates and the statuses.
LEMMA Tables ==
    /\ \A r \in Risks : RequiredGates(r) \subseteq GateNames
    /\ \A s \in Statuses : Targets(s) \subseteq Statuses
    /\ "tests" \in GateNames
    /\ "independent_review" \in GateNames
    /\ Actors \subseteq Names
<1>1. \A r \in Risks : RequiredGates(r) \subseteq GateNames
  BY Zenon DEF GateNames
<1>2. \A s \in Statuses : Targets(s) \subseteq Statuses
  BY DEF Statuses, Targets
<1>3. {"tests", "independent_review"} \subseteq RequiredGates("high")
  BY DEF RequiredGates
<1>4. "high" \in Risks
  BY DEF Risks
<1>5. Actors \subseteq Names
  BY DEF Names
<1> QED
  BY <1>1, <1>2, <1>3, <1>4, <1>5

\* The bounds are numbers.
LEMMA Bounds ==
    /\ MaxEvents \in Nat /\ MaxRuns \in Nat /\ MaxCheckpoints \in Nat
    /\ MaxEdits \in Nat /\ MaxCrashes \in Nat
    /\ 0 \in 0 .. MaxEdits
<1>1. /\ MaxEvents \in Nat /\ MaxRuns \in Nat /\ MaxCheckpoints \in Nat
      /\ MaxEdits \in Nat /\ MaxCrashes \in Nat
  BY ControlAssumption
<1> QED
  BY <1>1

\* The empty records are in the types of the records.
LEMMA EmptyRecords ==
    /\ NoReceipt \in Receipt
    /\ NoMove \in Move
    /\ NoRun \in Run
    /\ NoGitBinding \in GitBinding
    /\ NoFileBinding \in FileBinding
    /\ Untouched \in Repo
<1> USE Bounds, Tables
<1>1. 0 \in 0 .. MaxEdits
  OBVIOUS
<1>2. NoReceipt \in Receipt
  BY <1>1 DEF NoReceipt, Receipt, Names
<1>3. NoMove \in Move
  BY <1>1 DEF NoMove, Move, Names, Statuses
<1>4. NoRun \in Run
  BY <1>1 DEF NoRun, Run, Names
<1>5. Untouched \in Repo
  BY <1>1 DEF Untouched, Repo
<1>6. NoGitBinding \in GitBinding
  BY <1>1, <1>5 DEF NoGitBinding, GitBinding
<1>7. NoFileBinding \in FileBinding
  BY <1>1 DEF NoFileBinding, FileBinding
<1> QED
  BY <1>2, <1>3, <1>4, <1>5, <1>6, <1>7

\* Initially every variable is in its type.
LEMMA TypeInvInit == Init => TypeInv
<1> SUFFICES ASSUME Init PROVE TypeInv
  OBVIOUS
<1>1. /\ risk \in RisksInUse /\ status \in Statuses /\ lastEvent \in Statuses
      /\ approvedBy \in Names /\ implementer \in Names
  BY ControlAssumption DEF Init, Names, Approvers, Final
<1>2. gates \in [GateNames -> Receipt] /\ metrics \in [Counters -> Nat]
  <2>1. PICK actor \in Approvers :
           gates = [g \in GateNames |-> IF g \in Recorded
                                       THEN Passed(g, actor) ELSE NoReceipt]
    BY DEF Init
  <2>2. ASSUME NEW g \in Recorded PROVE Passed(g, actor) \in Receipt
    <3>1. actor \in Names /\ 0 \in 0 .. MaxEdits
      BY Bounds, Tables DEF Approvers
    <3>2. g \in TechnicalGates => "suite" \in Commands
      BY ControlAssumption
    <3>3. CASE g \in TechnicalGates
      BY <3>1, <3>2, <3>3 DEF Passed, Receipt
    <3>4. CASE g \notin TechnicalGates
      BY <3>1, <3>4 DEF Passed, Receipt
    <3> QED
      BY <3>3, <3>4
  <2>3. gates \in [GateNames -> Receipt]
    BY <2>1, <2>2, EmptyRecords
  <2>4. metrics \in [Counters -> Nat]
    BY DEF Init
  <2> QED
    BY <2>3, <2>4
<1>3. /\ gitBinding \in GitBinding /\ fileBinding \in FileBinding
      /\ repo \in Repo /\ scan \in FileBinding /\ move \in Move /\ run \in Run
  BY EmptyRecords DEF Init
<1>4. /\ events \in 0 .. MaxEvents /\ edits \in 0 .. MaxEdits
      /\ crashes \in 0 .. MaxCrashes
  <2>1. events = 0 /\ edits = 0 /\ crashes = 0
    BY DEF Init
  <2> QED
    BY <2>1, Bounds
<1>5. /\ present \subseteq Artifacts /\ stale \subseteq GateNames
      /\ openTasks \in BOOLEAN /\ certified \subseteq Final /\ step \in Steps
  BY DEF Init, Steps
<1>6. TypeOK
  BY <1>1, <1>2, <1>3, <1>4, <1>5 DEF TypeOK
<1>7. Counted
  <2>1. repo = Untouched /\ edits = 0
    BY DEF Init
  <2> QED
    BY <2>1 DEF Counted, Untouched
<1>8. Underway
  BY DEF Init, Underway, Checking
<1> QED
  BY <1>6, <1>7, <1>8 DEF TypeInv

\* Counting keeps the counters natural numbers.
LEMMA CountType ==
    ASSUME metrics \in [Counters -> Nat], NEW c \in Counters, Count(c)
    PROVE  metrics' \in [Counters -> Nat]
  BY DEF Count

\* A bounded counter stays within its bound.
LEMMA BoundedCount ==
    ASSUME NEW max \in Nat, NEW n \in 0 .. max, n < max
    PROVE  n + 1 \in 0 .. max
  OBVIOUS

\* An edit stays within its bound, and so does what it counts.
LEMMA EditCounts ==
    ASSUME TypeInv, Edit
    PROVE  /\ edits' = edits + 1 /\ edits' \in 0 .. MaxEdits
           /\ repo.head <= edits' /\ repo.head + 1 <= edits'
           /\ repo.content <= edits' /\ repo.content + 1 <= edits'
           /\ repo.head + 1 \in 0 .. MaxEdits
           /\ repo.content + 1 \in 0 .. MaxEdits
<1>1. edits \in 0 .. MaxEdits /\ edits < MaxEdits /\ edits' = edits + 1
  BY DEF TypeInv, TypeOK, Edit
<1>2. repo.head \in 0 .. MaxEdits /\ repo.content \in 0 .. MaxEdits
  BY DEF TypeInv, TypeOK, Repo
<1>3. repo.head <= edits /\ repo.content <= edits
  BY DEF TypeInv, Counted
<1> QED
  BY <1>1, <1>2, <1>3, Bounds

\* Every action keeps every variable in its type.
LEMMA TypeInvPreserved == TypeInv /\ [Next]_vars => TypeInv'
<1> SUFFICES ASSUME TypeInv, [Next]_vars PROVE TypeInv'
  OBVIOUS
<1> USE Bounds, Tables, EmptyRecords
<1> USE DEF TypeInv, TypeOK, Counted, Underway, Steps, Checking, Done,
            statusVars, trailVars, bindVars, workVars, boundVars
<1>1. CASE UNCHANGED vars
  BY <1>1 DEF vars
<1>2. CASE Transition
  <2>1. ASSUME NEW to \in Statuses, NEW actor \in Actors,
               BeginTransition(to, actor)
        PROVE  TypeInv'
    <3>1. move' = [from |-> status, to |-> to, actor |-> actor,
                      errors |-> FALSE, since |-> edits]
      BY <2>1 DEF BeginTransition
    <3>2. move' \in Move
      BY <3>1 DEF Move, Names
    <3>3. move'.from = status /\ move'.to = to
      BY <3>1
    <3> QED
      BY <2>1, <3>2, <3>3 DEF BeginTransition
  <2>2. CASE CheckPlanAndGates
    <3>1. PlanAndGatesValid \in BOOLEAN
      BY DEF PlanAndGatesValid, ReceiptsValid
    <3>2. move' \in Move /\ move'.from = move.from /\ move'.to = move.to
      BY <2>2, <3>1 DEF CheckPlanAndGates, Move
    <3> QED
      BY <2>2, <3>2 DEF CheckPlanAndGates
  <2>3. CASE CompletionAccepted
    BY <2>3 DEF CompletionAccepted
  <2>4. CASE CompletionRejected
    <3>1. move.from \in Statuses
      BY DEF Move
    <3> QED
      BY <2>4, <3>1 DEF CompletionRejected
  <2>5. CASE AppendEvent
    <3>1. move.to \in Statuses
      BY DEF Move
    <3>2. events' \in 0 .. MaxEvents
      BY <2>5, BoundedCount DEF AppendEvent
    <3> QED
      BY <2>5, <3>1, <3>2 DEF AppendEvent
  <2>6. CASE CountTransition
    <3>1. metrics' \in [Counters -> Nat]
      BY <2>6, CountType DEF CountTransition, Counters
    <3> QED
      BY <2>6, <3>1 DEF CountTransition
  <2> QED
    BY <1>2, <2>1, <2>2, <2>3, <2>4, <2>5, <2>6 DEF Transition
<1>3. CASE Gate
  <2>1. ASSUME NEW gate \in Required, NEW actor \in Actors,
               RecordGate(gate, actor)
        PROVE  TypeInv'
    <3>1. [state |-> "passed", actor |-> actor, command |-> "",
           execution |-> "manual", exit |-> "none",
           content |-> 0] \in Receipt
      BY DEF Receipt
    <3>2. gates' \in [GateNames -> Receipt]
      BY <2>1, <3>1 DEF RecordGate
    <3>3. stale' \subseteq GateNames
      BY <2>1 DEF RecordGate
    <3> QED
      BY <2>1, <3>2, <3>3 DEF RecordGate
  <2>2. ASSUME NEW gate \in Runnable, NEW actor \in Actors,
               NEW command \in Commands, StartGate(gate, actor, command)
        PROVE  TypeInv'
    <3>1. run' \in Run
      BY <2>2, ControlAssumption DEF StartGate, Run, Repo
    <3> QED
      BY <2>2, <3>1 DEF StartGate
  <2>3. ASSUME NEW exit \in {"zero", "nonzero"}, NEW same \in BOOLEAN,
               GateEnds(exit, same)
        PROVE  TypeInv'
    <3>1. run' \in Run
      BY <2>3 DEF GateEnds, Run
    <3>2. run.gate \in GateNames
      BY DEF Run
    <3>3. stale' \subseteq GateNames
      BY <2>3, <3>2 DEF GateEnds
    <3> QED
      BY <2>3, <3>1, <3>3 DEF GateEnds
  <2>4. CASE RecordRun
    <3>1. [state |-> IF run.exit = "zero" THEN "passed" ELSE "failed",
           actor |-> run.actor, command |-> run.command,
           execution |-> "run-gate", exit |-> run.exit,
           content |-> run.content] \in Receipt
      BY DEF Receipt, Run
    <3>2. gates' \in [GateNames -> Receipt]
      BY <2>4, <3>1 DEF RecordRun
    <3>3. stale' \subseteq GateNames
      BY <2>4 DEF RecordRun
    <3> QED
      BY <2>4, <3>2, <3>3 DEF RecordRun
  <2>5. CASE RefuseRun
    BY <2>5 DEF RefuseRun
  <2>6. CASE CountRun
    <3>1. metrics' \in [Counters -> Nat]
      BY <2>6, CountType DEF CountRun, Counters
    <3> QED
      BY <2>6, <3>1 DEF CountRun
  <2>7. CASE CountFailure
    <3>1. metrics' \in [Counters -> Nat]
      BY <2>7, CountType DEF CountFailure, Counters
    <3> QED
      BY <2>7, <3>1 DEF CountFailure
  <2> QED
    BY <1>3, <2>1, <2>2, <2>3, <2>4, <2>5, <2>6, <2>7 DEF Gate
<1>4. CASE Record
  <2>1. CASE BeginCheckpoint
    BY <2>1 DEF BeginCheckpoint
  <2>2. CASE CountCheckpoint
    <3>1. metrics' \in [Counters -> Nat]
      BY <2>2, CountType DEF CountCheckpoint, Counters
    <3> QED
      BY <2>2, <3>1 DEF CountCheckpoint
  <2>3. ASSUME NEW actor \in Actors, RecordImplementation(actor)
        PROVE  TypeInv'
    BY <2>3 DEF RecordImplementation
  <2>4. CASE BindGitHead
    <3>1. run' \in Run
      BY <2>4 DEF BindGitHead, Run, Repo
    <3> QED
      BY <2>4, <3>1 DEF BindGitHead
  <2>5. CASE BindGitFiles
    <3>1. gitBinding' \in GitBinding
      BY <2>5 DEF BindGitFiles, GitBinding, Repo, Run
    <3> QED
      BY <2>5, <3>1 DEF BindGitFiles
  <2>6. CASE ScanFiles
    <3>1. scan' \in FileBinding
      BY <2>6 DEF ScanFiles, FileBinding, Repo
    <3> QED
      BY <2>6, <3>1 DEF ScanFiles
  <2>7. CASE BindFiles
    BY <2>7 DEF BindFiles
  <2> QED
    BY <1>4, <2>1, <2>2, <2>3, <2>4, <2>5, <2>6, <2>7 DEF Record
<1>5. CASE Environment
  <2>1. ASSUME NEW inside \in BOOLEAN, EditSource(inside) PROVE TypeInv'
    <3>1. Edit /\ repo' = [repo EXCEPT !.content = @ + 1,
                                       !.outside = @ \/ ~inside]
      BY <2>1 DEF EditSource
    <3>2. (repo.outside \/ ~inside) \in BOOLEAN
      OBVIOUS
    <3>3. repo' \in Repo
      BY <3>1, <3>2, EditCounts DEF Repo
    <3>4. repo'.head = repo.head /\ repo'.content = repo.content + 1
      BY <3>1 DEF Repo
    <3>5. Counted'
      BY <3>1, <3>4, EditCounts
    <3>6. edits' \in 0 .. MaxEdits
      BY <3>1, EditCounts
    <3> QED
      BY <2>1, <3>3, <3>5, <3>6 DEF EditSource
  <2>2. CASE Commit
    <3>1. Edit /\ repo' = [repo EXCEPT !.head = @ + 1, !.outside = FALSE]
      BY <2>2 DEF Commit
    <3>3. repo' \in Repo
      BY <3>1, EditCounts DEF Repo
    <3>4. repo'.head = repo.head + 1 /\ repo'.content = repo.content
      BY <3>1 DEF Repo
    <3>5. Counted'
      BY <3>1, <3>4, EditCounts
    <3>6. edits' \in 0 .. MaxEdits
      BY <3>1, EditCounts
    <3> QED
      BY <2>2, <3>3, <3>5, <3>6 DEF Commit
  <2>3. ASSUME NEW gate \in Required, EditEvidence(gate) PROVE TypeInv'
    <3>1. stale' \subseteq GateNames
      BY <2>3, ControlAssumption DEF EditEvidence, Required
    <3>2. edits' \in 0 .. MaxEdits /\ Counted'
      BY <2>3, EditCounts DEF EditEvidence
    <3> QED
      BY <2>3, <3>1, <3>2 DEF EditEvidence
  <2>4. CASE EditPlan
    <3>1. edits' \in 0 .. MaxEdits /\ Counted'
      BY <2>4, EditCounts DEF EditPlan
    <3> QED
      BY <2>4, <3>1 DEF EditPlan
  <2>5. ASSUME NEW file \in Artifacts, EditArtifact(file) PROVE TypeInv'
    <3>1. edits' \in 0 .. MaxEdits /\ Counted'
      BY <2>5, EditCounts DEF EditArtifact
    <3> QED
      BY <2>5, <3>1 DEF EditArtifact
  <2>6. CASE Crash
    <3>1. crashes' \in 0 .. MaxCrashes
      BY <2>6, BoundedCount DEF Crash
    <3> QED
      BY <2>6, <3>1 DEF Crash
  <2> QED
    BY <1>5, <2>1, <2>2, <2>3, <2>4, <2>5, <2>6 DEF Environment
<1> QED
  BY <1>1, <1>2, <1>3, <1>4, <1>5 DEF Next

\* Every variable of the control plane stays in its type.
THEOREM ControlTypeCorrect == Spec => []TypeOK
  BY TypeInvInit, TypeInvPreserved, PTL DEF Spec, TypeInv

-----------------------------------------------------------------------------
(* The steps that matter to a transition.                                  *)

TransitionSteps == Checking \union {"append_event", "count_transition"}

\* What every step does that is not a transition's own or a death: it leaves
\* the workspace's status and trail alone, and while a transition is under way
\* it touches nothing the transition has validated.
Elsewhere ==
    /\ UNCHANGED <<risk, status, approvedBy, lastEvent, events, crashes,
                   certified>>
    /\ metrics'["transitions"] = metrics["transitions"]
    /\ step \in TransitionSteps =>
          /\ UNCHANGED <<step, move, gates, implementer, gitBinding,
                         fileBinding>>
          /\ edits' = edits => UNCHANGED <<present, openTasks, stale, repo>>
    /\ edits' \in {edits, edits + 1}
    /\ move' = move \/ move' = NoMove
    /\ step' \in TransitionSteps => step \in TransitionSteps

LEMMA OtherSteps ==
    ASSUME TypeInv, Gate \/ Record \/ (Environment /\ ~Crash)
    PROVE  Elsewhere
<1> USE DEF Elsewhere, TransitionSteps, Checking, statusVars, trailVars,
            bindVars, workVars, boundVars, Done
<1>1. metrics \in [Counters -> Nat]
  BY DEF TypeInv, TypeOK
<1>2. CASE Gate
  BY <1>1, <1>2
  DEF Gate, RecordGate, StartGate, GateEnds, RecordRun, RefuseRun, CountRun,
      CountFailure, Count, Counters
<1>3. CASE Record
  BY <1>1, <1>3
  DEF Record, BeginCheckpoint, CountCheckpoint, RecordImplementation,
      BindGitHead, BindGitFiles, ScanFiles, BindFiles, Count, Counters
<1>4. CASE Environment /\ ~Crash
  <2>1. edits + 1 # edits
    <3>1. edits \in 0 .. MaxEdits
      BY DEF TypeInv, TypeOK
    <3> QED
      BY <3>1, Bounds
  <2> QED
    BY <1>4, <2>1
    DEF Environment, EditSource, Commit, EditEvidence, EditPlan, EditArtifact,
        Edit
<1> QED
  BY <1>2, <1>3, <1>4

\* A stuttering step is such a step.
LEMMA StutterElsewhere == UNCHANGED vars => Elsewhere
  BY DEF vars, Elsewhere

\* So there are eight cases to look at.
LEMMA StepCases ==
    ASSUME TypeInv, [Next]_vars
    PROVE  \/ \E to \in Statuses, actor \in Actors : BeginTransition(to, actor)
           \/ CheckPlanAndGates
           \/ CompletionAccepted
           \/ CompletionRejected
           \/ AppendEvent
           \/ CountTransition
           \/ Crash
           \/ Elsewhere
<1>1. CASE Transition
  BY <1>1 DEF Transition
<1>2. CASE Crash
  BY <1>2
<1>3. CASE Gate \/ Record \/ (Environment /\ ~Crash)
  BY <1>3, OtherSteps
<1>4. CASE UNCHANGED vars
  BY <1>4, StutterElsewhere
<1> QED
  BY <1>1, <1>2, <1>3, <1>4 DEF Next

-----------------------------------------------------------------------------
(* Approvals.                                                              *)

\* What the first conjunct of ApprovedBeforeWork says.
Signed == status \in BeyondApproval => Concrete(approvedBy)

\* Beyond "approved" the approver is somebody, after every step.
LEMMA SignedPreserved ==
    ASSUME TypeInv, Signed, [Next]_vars
    PROVE  Signed'
<1> USE DEF Signed, BeyondApproval, Final, statusVars
<1>1. ASSUME NEW to \in Statuses, NEW actor \in Actors,
             BeginTransition(to, actor)
      PROVE  Signed'
  BY <1>1 DEF BeginTransition, Targets, TypeInv, TypeOK, Statuses, Concrete
<1>2. CASE CompletionRejected
  <2>1. move.from \in {"in_progress", "completed"} /\ status \in Final
    BY <1>2 DEF CompletionRejected, TypeInv, Underway, Checking, TypeOK, Move,
                Targets, Statuses
  <2> QED
    BY <1>2, <2>1 DEF CompletionRejected, Concrete
<1>3. CASE CheckPlanAndGates \/ CompletionAccepted \/ AppendEvent
              \/ CountTransition \/ Crash
  BY <1>3 DEF CheckPlanAndGates, CompletionAccepted, AppendEvent,
              CountTransition, Crash, Concrete
<1>4. CASE Elsewhere
  BY <1>4 DEF Elsewhere, Concrete
<1> QED
  BY <1>1, <1>2, <1>3, <1>4, StepCases

\* After an accepted completion only a delivery can follow, and nobody signs.
LEMMA CertifiedApprovedPreserved ==
    ASSUME TypeInv, CertifiedApproved, CheckedGatesStand, [Next]_vars
    PROVE  CertifiedApproved'
<1> USE DEF CertifiedApproved, Checking, Done, statusVars, boundVars
<1>1. ASSUME NEW to \in Statuses, NEW actor \in Actors,
             BeginTransition(to, actor)
      PROVE  CertifiedApproved'
  <2>1. move'.from = status
    BY <1>1 DEF BeginTransition
  <2>2. certified # {} => to \in Final /\ to # "approved"
    BY <1>1 DEF BeginTransition, Targets, Final
  <2> QED
    BY <1>1, <2>1, <2>2 DEF BeginTransition
<1>2. CASE CheckPlanAndGates
  <2>1. move'.from = move.from
    BY <1>2 DEF CheckPlanAndGates, TypeInv, TypeOK, Move
  <2> QED
    BY <1>2, <2>1 DEF CheckPlanAndGates
<1>3. CASE CompletionAccepted
  <2>1. status \in Final
    BY <1>3 DEF CompletionAccepted, TypeInv, Underway
  <2>2. Concrete(ReadBack(approvedBy))
    BY <1>3 DEF CompletionAccepted, CheckedGatesStand
  <2> QED
    BY <1>3, <2>1, <2>2 DEF CompletionAccepted
<1>4. CASE CompletionRejected
  BY <1>4 DEF CompletionRejected
<1>5. CASE AppendEvent \/ CountTransition \/ Crash
  BY <1>5 DEF AppendEvent, CountTransition, Crash
<1>6. CASE Elsewhere
  BY <1>6 DEF Elsewhere, TransitionSteps
<1> QED
  BY <1>1, <1>2, <1>3, <1>4, <1>5, <1>6, StepCases

\* Work is approved before and after every step.
LEMMA ApprovalPreserved ==
    ASSUME TypeInv, ApprovedBeforeWork, CertifiedApproved, CheckedGatesStand,
           [Next]_vars
    PROVE  ApprovedBeforeWork' /\ CertifiedApproved'
<1>1. Signed'
  BY SignedPreserved DEF ApprovedBeforeWork, Signed
<1>2. CertifiedApproved'
  BY CertifiedApprovedPreserved
<1> QED
  BY <1>1, <1>2 DEF ApprovedBeforeWork, Signed, CertifiedApproved

-----------------------------------------------------------------------------
(* The audit trail.                                                        *)

\* What is counted is a number.
LEMMA CountersCount ==
    ASSUME TypeInv
    PROVE  /\ metrics \in [Counters -> Nat] /\ "transitions" \in Counters
           /\ events \in Nat /\ crashes \in Nat
<1>1. /\ metrics \in [Counters -> Nat]
      /\ events \in 0 .. MaxEvents /\ crashes \in 0 .. MaxCrashes
  BY DEF TypeInv, TypeOK
<1>2. "transitions" \in Counters
  BY DEF Counters
<1> QED
  BY <1>1, <1>2

\* Lines, counts and deaths stay in step.
LEMMA TrailPreserved ==
    ASSUME TypeInv, TrailCounted, AuditTrail, [Next]_vars
    PROVE  TrailCounted' /\ AuditTrail'
<1> USE DEF TrailCounted, AuditTrail, Checking, Done, statusVars, trailVars,
            boundVars
<1>1. /\ metrics \in [Counters -> Nat] /\ "transitions" \in Counters
      /\ events \in Nat /\ crashes \in Nat
  BY CountersCount
<1>2. ASSUME NEW to \in Statuses, NEW actor \in Actors,
             BeginTransition(to, actor)
      PROVE  TrailCounted' /\ AuditTrail'
  <2>1. move'.from = status
    BY <1>2 DEF BeginTransition
  <2> QED
    BY <1>1, <1>2, <2>1 DEF BeginTransition
<1>3. CASE CheckPlanAndGates
  <2>1. move'.from = move.from
    BY <1>3 DEF CheckPlanAndGates, TypeInv, TypeOK, Move
  <2> QED
    BY <1>1, <1>3, <2>1 DEF CheckPlanAndGates
<1>4. CASE CompletionAccepted
  BY <1>1, <1>4 DEF CompletionAccepted
<1>5. CASE CompletionRejected
  BY <1>1, <1>5 DEF CompletionRejected
<1>6. CASE AppendEvent
  BY <1>1, <1>6 DEF AppendEvent, TypeInv, Underway
<1>7. CASE CountTransition
  <2>1. metrics'["transitions"] = metrics["transitions"] + 1
    BY <1>1, <1>7 DEF CountTransition, Count
  <2> QED
    BY <1>1, <1>7, <2>1 DEF CountTransition
<1>8. CASE Crash
  BY <1>1, <1>8 DEF Crash
<1>9. CASE Elsewhere
  BY <1>1, <1>9 DEF Elsewhere, TransitionSteps
<1> QED
  BY <1>2, <1>3, <1>4, <1>5, <1>6, <1>7, <1>8, <1>9, StepCases

-----------------------------------------------------------------------------
(* Certified completions.                                                  *)

\* Without deaths, a completion at rest and one a delivery starts from are
\* certified.
LEMMA CertifiedPreserved ==
    ASSUME TypeInv, CompletionCertified, DeliveryOfCertified, [Next]_vars
    PROVE  CompletionCertified' /\ DeliveryOfCertified'
<1> USE DEF CompletionCertified, DeliveryOfCertified, Checking, Done,
            statusVars, boundVars
<1>1. crashes \in Nat
  BY CountersCount
<1>2. ASSUME NEW to \in Statuses, NEW actor \in Actors,
             BeginTransition(to, actor)
      PROVE  CompletionCertified' /\ DeliveryOfCertified'
  <2>1. move'.from = status
    BY <1>2 DEF BeginTransition
  <2> QED
    BY <1>2, <2>1 DEF BeginTransition
<1>3. CASE CheckPlanAndGates
  <2>1. move'.from = move.from
    BY <1>3 DEF CheckPlanAndGates, TypeInv, TypeOK, Move
  <2> QED
    BY <1>3, <2>1 DEF CheckPlanAndGates
<1>4. CASE CompletionAccepted
  <2>1. status = move.to
    BY <1>4 DEF CompletionAccepted, TypeInv, Underway
  <2> QED
    BY <1>4, <2>1 DEF CompletionAccepted
<1>5. CASE CompletionRejected
  BY <1>5 DEF CompletionRejected
<1>6. CASE AppendEvent \/ CountTransition
  BY <1>6 DEF AppendEvent, CountTransition
<1>7. CASE Crash
  BY <1>1, <1>7 DEF Crash
<1>8. CASE Elsewhere
  BY <1>8 DEF Elsewhere, TransitionSteps
<1> QED
  BY <1>2, <1>3, <1>4, <1>5, <1>6, <1>7, <1>8, StepCases

-----------------------------------------------------------------------------
(* The commit point of a completion.                                       *)

\* A valid plan has standing gates.
LEMMA ValidGatesStand ==
    ASSUME TypeInv, PlanAndGatesValid
    PROVE  GatesStand
<1>1. ReceiptsValid
  BY DEF PlanAndGatesValid
<1>2. \A g \in Required : ReceiptValid(g)
  BY <1>1 DEF ReceiptsValid
<1>3. ASSUME NEW g \in Required
      PROVE  /\ gates[g].state = "passed"
             /\ g \in TechnicalGates =>
                   gates[g].execution = "run-gate" /\ gates[g].exit = "zero"
             /\ g = "user_approval" => gates[g].actor = "user"
             /\ Concrete(gates[g].actor)
  BY <1>2 DEF ReceiptValid
<1>4. risk = "high" => "independent_review" \in Required
  BY DEF Required, RequiredGates
<1>5. risk = "high" =>
         gates["independent_review"].actor \notin {"pending", implementer}
  BY <1>1, <1>3, <1>4 DEF ReceiptsValid, ReviewIndependent, Concrete
<1> QED
  BY <1>3, <1>5 DEF GatesStand

\* Edits and the transition that counts them.
LEMMA SincePreserved ==
    ASSUME TypeInv, SinceCounted, [Next]_vars
    PROVE  SinceCounted'
<1> USE DEF SinceCounted, Done, boundVars
<1>1. edits \in Nat /\ move.since \in Nat /\ NoMove.since = 0
  <2>1. edits \in 0 .. MaxEdits /\ move.since \in 0 .. MaxEdits
    BY DEF TypeInv, TypeOK, Move
  <2> QED
    BY <2>1, Bounds DEF NoMove
<1>2. ASSUME NEW to \in Statuses, NEW actor \in Actors,
             BeginTransition(to, actor)
      PROVE  SinceCounted'
  <2>1. move'.since = edits /\ edits' = edits
    BY <1>2 DEF BeginTransition
  <2> QED
    BY <1>1, <2>1
<1>3. CASE CheckPlanAndGates
  <2>1. move'.since = move.since
    BY <1>3 DEF CheckPlanAndGates, TypeInv, TypeOK, Move
  <2> QED
    BY <1>3, <2>1 DEF CheckPlanAndGates
<1>4. CASE CompletionAccepted \/ AppendEvent
  BY <1>4 DEF CompletionAccepted, AppendEvent
<1>5. CASE CompletionRejected \/ CountTransition \/ Crash
  <2>1. move'.since = 0 /\ edits' = edits
    BY <1>1, <1>5 DEF CompletionRejected, CountTransition, Crash
  <2> QED
    BY <1>1, <2>1
<1>6. CASE Elsewhere
  <2>1. move' = move \/ move' = NoMove
    BY <1>6 DEF Elsewhere
  <2>2. edits' \in {edits, edits + 1}
    BY <1>6 DEF Elsewhere
  <2> QED
    BY <1>1, <2>1, <2>2
<1> QED
  BY <1>2, <1>3, <1>4, <1>5, <1>6, StepCases

\* The receipts a validation accepted, and the rest of what it saw, at the
\* moments between the acceptance and the count.
Standing ==
    /\ GatesStand
    /\ risk # "low" => implementer # ""
                       /\ (gitBinding.bound \/ fileBinding.bound)
    /\ edits = move.since => PlanAndGatesValid /\ BindingsValid

\* A step that changes nothing a validation reads keeps its verdict.
LEMMA SameVerdict ==
    ASSUME UNCHANGED <<risk, status, approvedBy, gates, implementer, gitBinding,
                       fileBinding, present, openTasks, stale, repo>>
    PROVE  PlanAndGatesValid' = PlanAndGatesValid
           /\ BindingsValid' = BindingsValid
<1>1. Required' = Required
  BY DEF Required
<1>2. ReceiptsValid' = ReceiptsValid
  BY <1>1 DEF ReceiptsValid, ReceiptValid, ReviewIndependent
<1>3. PlanAndGatesValid' = PlanAndGatesValid
  BY <1>2 DEF PlanAndGatesValid
<1>4. BindingsValid' = BindingsValid
  BY DEF BindingsValid, GitBindingValid, FileBindingValid
<1> QED
  BY <1>3, <1>4

\* What was validated stands until the transition is over.
LEMMA CommitPointPreserved ==
    ASSUME TypeInv, SinceCounted, CheckedGatesStand, CommitPointIsGated,
           [Next]_vars
    PROVE  CheckedGatesStand' /\ CommitPointIsGated'
<1> USE DEF Checking, Done, statusVars, bindVars, workVars, boundVars
<1>1. ASSUME NEW to \in Statuses, NEW actor \in Actors,
             BeginTransition(to, actor)
      PROVE  CheckedGatesStand' /\ CommitPointIsGated'
  <2>1. move'.to = to
    BY <1>1 DEF BeginTransition
  <2> QED
    BY <1>1, <2>1 DEF BeginTransition, CheckedGatesStand, CommitPointIsGated
<1>2. CASE CheckPlanAndGates
  <2>1. move'.errors = ~PlanAndGatesValid
    BY <1>2 DEF CheckPlanAndGates, TypeInv, TypeOK, Move
  <2>2. ASSUME ~move'.errors
        PROVE  /\ GatesStand' /\ Concrete(ReadBack(approvedBy))'
               /\ PlanAndGatesValid'
    <3>1. PlanAndGatesValid /\ GatesStand
      BY <2>1, <2>2, ValidGatesStand
    <3>2. PlanAndGatesValid'
      BY <1>2, <3>1, SameVerdict DEF CheckPlanAndGates
    <3>3. Concrete(ReadBack(approvedBy))'
      BY <1>2, <3>1 DEF CheckPlanAndGates, PlanAndGatesValid
    <3> QED
      BY <1>2, <3>1, <3>2, <3>3 DEF CheckPlanAndGates, GatesStand, Required
  <2>3. step' = "check_bindings"
    BY <1>2 DEF CheckPlanAndGates
  <2> QED
    BY <2>2, <2>3 DEF CheckedGatesStand, CommitPointIsGated
<1>3. CASE CompletionAccepted
  <2>1. GatesStand /\ (edits = move.since => PlanAndGatesValid)
    BY <1>3 DEF CompletionAccepted, CheckedGatesStand
  <2>2. risk # "low" => implementer # ""
                        /\ (gitBinding.bound \/ fileBinding.bound)
    <3>1. risk \in {"low", "medium", "high"}
      BY ControlAssumption DEF TypeInv, TypeOK, Risks
    <3> QED
      BY <1>3, <3>1 DEF CompletionAccepted, BindingsValid
  <2>3. UNCHANGED <<risk, gates, implementer, gitBinding, fileBinding, move,
                    edits>>
    BY <1>3 DEF CompletionAccepted
  <2>4. /\ PlanAndGatesValid' = PlanAndGatesValid
        /\ BindingsValid' = BindingsValid
    BY <1>3, SameVerdict DEF CompletionAccepted
  <2>5. BindingsValid
    BY <1>3 DEF CompletionAccepted
  <2>6. Standing'
    BY <2>1, <2>2, <2>3, <2>4, <2>5 DEF Standing, GatesStand, Required
  <2>7. CommitPointIsGated'
    BY <2>6 DEF CommitPointIsGated, Standing, GatesStand
  <2>8. CheckedGatesStand'
    BY <1>3 DEF CompletionAccepted, CheckedGatesStand
  <2> QED
    BY <2>7, <2>8
<1>4. CASE CompletionRejected
  BY <1>4 DEF CompletionRejected, CheckedGatesStand, CommitPointIsGated
<1>5. CASE AppendEvent
  <2>1. /\ PlanAndGatesValid' = PlanAndGatesValid
        /\ BindingsValid' = BindingsValid
    BY <1>5, SameVerdict DEF AppendEvent
  <2>2. UNCHANGED <<risk, gates, implementer, gitBinding, fileBinding, move,
                    edits>>
    BY <1>5 DEF AppendEvent
  <2>3. Standing => Standing'
    BY <2>1, <2>2 DEF Standing, GatesStand, Required
  <2>4. step = "append_event" /\ step' = "count_transition"
    BY <1>5 DEF AppendEvent
  <2> QED
    BY <2>2, <2>3, <2>4 DEF CheckedGatesStand, CommitPointIsGated, Standing,
                            GatesStand
<1>6. CASE CountTransition
  BY <1>6 DEF CountTransition, CheckedGatesStand, CommitPointIsGated
<1>7. CASE Crash
  BY <1>7 DEF Crash, CheckedGatesStand, CommitPointIsGated
<1>8. CASE Elsewhere
  <2>1. CASE step' \notin TransitionSteps
    BY <2>1 DEF TransitionSteps, CheckedGatesStand, CommitPointIsGated
  <2>2. CASE step \in TransitionSteps
    <3>1. UNCHANGED <<risk, status, approvedBy, step, move, gates, implementer,
                      gitBinding, fileBinding>>
      BY <1>8, <2>2 DEF Elsewhere
    <3>2. ASSUME edits' = move.since
          PROVE  edits = move.since /\ edits' = edits
      <4>1. edits \in Nat /\ move.since \in Nat
        <5>1. edits \in 0 .. MaxEdits /\ move.since \in 0 .. MaxEdits
          BY DEF TypeInv, TypeOK, Move
        <5> QED
          BY <5>1, Bounds
      <4>2. edits' \in {edits, edits + 1} /\ move.since <= edits
        BY <1>8 DEF Elsewhere, SinceCounted
      <4> QED
        BY <3>2, <4>1, <4>2
    <3>3. ASSUME edits' = move.since
          PROVE  /\ PlanAndGatesValid' = PlanAndGatesValid
                 /\ BindingsValid' = BindingsValid
      <4>1. UNCHANGED <<present, openTasks, stale, repo>>
        BY <1>8, <2>2, <3>2, <3>3 DEF Elsewhere
      <4> QED
        BY <3>1, <4>1, SameVerdict
    <3>4. Standing => Standing'
      BY <3>1, <3>2, <3>3 DEF Standing, GatesStand, Required
    <3>5. CommitPointIsGated'
      BY <3>1, <3>4 DEF CommitPointIsGated, Standing, GatesStand
    <3>6. CheckedGatesStand'
      BY <3>1, <3>2, <3>3 DEF CheckedGatesStand, GatesStand, Required
    <3> QED
      BY <3>5, <3>6
  <2> QED
    BY <1>8, <2>1, <2>2 DEF Elsewhere
<1> QED
  BY <1>1, <1>2, <1>3, <1>4, <1>5, <1>6, <1>7, <1>8, StepCases

-----------------------------------------------------------------------------
(* The invariant, and the theorems that follow from it.                    *)

LEMMA ControlInvInit == Init => ControlInv
<1> SUFFICES ASSUME Init PROVE ControlInv
  OBVIOUS
<1>1. TypeInv
  BY TypeInvInit
<1>2. step = "idle" /\ status = StartAt /\ lastEvent = StartAt
  BY DEF Init
<1>3. events = 0 /\ crashes = 0 /\ metrics["transitions"] = 0
  BY DEF Init, Counters
<1>4. ApprovedBeforeWork /\ CertifiedApproved /\ SinceCounted
  <2>1. approvedBy \in (IF StartAt \in BeyondApproval THEN Approvers
                        ELSE {"pending"})
    BY DEF Init
  <2>2. certified = {} /\ edits = 0 /\ move.since = 0
    BY DEF Init, NoMove
  <2> QED
    BY <1>2, <2>1, <2>2
    DEF ApprovedBeforeWork, CertifiedApproved, SinceCounted, Approvers
<1>5. TrailCounted /\ AuditTrail
  BY <1>2, <1>3 DEF TrailCounted, AuditTrail, Checking
<1>6. CompletionCertified /\ DeliveryOfCertified
  BY <1>2, ControlAssumption
  DEF CompletionCertified, DeliveryOfCertified, Checking
<1>7. CheckedGatesStand /\ CommitPointIsGated
  BY <1>2 DEF CheckedGatesStand, CommitPointIsGated
<1> QED
  BY <1>1, <1>4, <1>5, <1>6, <1>7 DEF ControlInv

LEMMA ControlInvPreserved == ControlInv /\ [Next]_vars => ControlInv'
  BY TypeInvPreserved, ApprovalPreserved, TrailPreserved, CertifiedPreserved,
     SincePreserved, CommitPointPreserved
  DEF ControlInv

LEMMA ControlInvariant == Spec => []ControlInv
  BY ControlInvInit, ControlInvPreserved, PTL DEF Spec

\* Whatever fails or dies, work happens only on a workspace somebody approved.
THEOREM WorkIsApproved == Spec => []ApprovedBeforeWork
  BY ControlInvariant, PTL DEF ControlInv

\* The audit trail is complete and in order but for commands that died.
THEOREM TrailIsComplete == Spec => []AuditTrail
  BY ControlInvariant, PTL DEF ControlInv

\* Without deaths no completion is in force that validation did not accept.
THEOREM CompletionIsCertified == Spec => []CompletionCertified
  BY ControlInvariant, PTL DEF ControlInv

\* An accepted completion stands on passed gates, an independent review of
\* high-risk work and the user's approval, whatever is edited meanwhile.
THEOREM CommitIsGated == Spec => []CommitPointIsGated
  BY ControlInvariant, PTL DEF ControlInv

-----------------------------------------------------------------------------
(* The commands implement the lifecycle.                                   *)

\* The instance of ControlRules in WorkspaceLifecycle is this module's.
LEMMA SameRules ==
    /\ Lifecycle!Statuses = Statuses
    /\ Lifecycle!Final = Final
    /\ \A s : Lifecycle!Targets(s) = Targets(s)
  BY DEF Statuses, Final, Targets, Lifecycle!Statuses, Lifecycle!Final,
         Lifecycle!Targets

\* Every step maps to a step of WorkspaceLifecycle or changes none of its
\* variables.
LEMMA LifecycleStep ==
    ASSUME TypeInv, TypeInv', [Next]_vars
    PROVE  [Lifecycle!LifecycleNext]_(Lifecycle!lifecycleVars)
<1> USE SameRules DEF Checking, Done, statusVars, Lifecycle!lifecycleVars
<1>1. ASSUME NEW to \in Statuses, NEW actor \in Actors,
             BeginTransition(to, actor)
      PROVE  [Lifecycle!LifecycleNext]_(Lifecycle!lifecycleVars)
  <2>1. move'.from = status /\ step = "idle"
    BY <1>1 DEF BeginTransition
  <2>2. CASE to \in Final
    BY <1>1, <2>1, <2>2 DEF BeginTransition, Final
  <2>3. CASE to = "approved"
    <3>1. actor \in Approvers
      BY <1>1, <2>3 DEF BeginTransition, Approvers
    <3>2. Lifecycle!Approve(actor)
      BY <1>1, <2>1, <2>3 DEF BeginTransition, Final, Lifecycle!Approve
    <3> QED
      BY <3>1, <3>2 DEF Lifecycle!LifecycleNext
  <2>4. CASE to \notin Final \union {"approved"}
    <3>1. Lifecycle!Advance(to)
      BY <1>1, <2>1, <2>4 DEF BeginTransition, Final, Lifecycle!Advance
    <3> QED
      BY <3>1 DEF Lifecycle!LifecycleNext
  <2> QED
    BY <2>2, <2>3, <2>4
<1>2. CASE CheckPlanAndGates
  <2>1. move'.from = move.from
    BY <1>2 DEF CheckPlanAndGates, TypeInv, TypeOK, Move
  <2> QED
    BY <1>2, <2>1 DEF CheckPlanAndGates
<1>3. CASE CompletionAccepted
  <2>1. status \in Statuses /\ status \in Targets(move.from) \intersect Final
    BY <1>3 DEF CompletionAccepted, TypeInv, TypeOK, Underway
  <2>2. status = move.to
    BY <1>3 DEF CompletionAccepted, TypeInv, Underway
  <2>3. Lifecycle!Certify(status)
    BY <1>3, <2>1, <2>2 DEF CompletionAccepted, Lifecycle!Certify
  <2> QED
    BY <2>1, <2>3 DEF Lifecycle!LifecycleNext
<1>4. CASE CompletionRejected
  BY <1>4 DEF CompletionRejected
<1>5. CASE AppendEvent \/ CountTransition
  BY <1>5 DEF AppendEvent, CountTransition
<1>6. CASE Crash
  <2>1. CASE step \in Checking
    <3>1. status \in Statuses /\ status \in Targets(move.from) \intersect Final
      BY <2>1 DEF TypeInv, TypeOK, Underway
    <3>2. Lifecycle!Interrupt(status)
      BY <1>6, <2>1, <3>1 DEF Crash, Lifecycle!Interrupt
    <3> QED
      BY <3>1, <3>2 DEF Lifecycle!LifecycleNext
  <2>2. CASE step \notin Checking
    BY <1>6, <2>2 DEF Crash
  <2> QED
    BY <2>1, <2>2
<1>7. CASE Elsewhere
  BY <1>7 DEF Elsewhere, TransitionSteps
<1> QED
  BY <1>1, <1>2, <1>3, <1>4, <1>5, <1>6, <1>7, StepCases

\* The commands of the control plane, with everything that may happen between
\* their writes, implement the lifecycle a reader is promised.
THEOREM LifecycleImplemented == Spec => ImplementsLifecycle
<1>1. Init => Lifecycle!LifecycleInit
  BY DEF Init, Lifecycle!LifecycleInit, Checking
<1>2. TypeInv /\ TypeInv' /\ [Next]_vars
         => [Lifecycle!LifecycleNext]_(Lifecycle!lifecycleVars)
  BY LifecycleStep
<1> QED
  BY <1>1, <1>2, TypeInvInit, TypeInvPreserved, PTL
  DEF Spec, ImplementsLifecycle, Lifecycle!LifecycleSpec
=============================================================================
