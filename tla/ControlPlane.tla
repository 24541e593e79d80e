---------------------------- MODULE ControlPlane ----------------------------
(***************************************************************************)
(* One workspace of the control plane: its status, gate receipts,          *)
(* bindings, audit trail and metrics, and the commands of control.py that  *)
(* change them (control_actions.py, control_bindings.py), with the         *)
(* validation a completion goes through (control_validation.py,            *)
(* control_binding_validation.py).                                         *)
(*                                                                         *)
(* Commands hold the workspace lock for their whole duration; the lock is  *)
(* taken as exclusive here, and module WorkspaceLock shows when it is.  So *)
(* at most one command is under way, at the step "step", and its writes    *)
(* to separate files are separate actions.  Between them the process may   *)
(* die or raise (Crash), and the agents that do the work edit the plan,    *)
(* the artifacts, the evidence and the sources, which no lock protects.    *)
(***************************************************************************)
EXTENDS ControlRules, Naturals

CONSTANTS
    RisksInUse,     \* the risks a workspace may be created with
    Workflow,       \* the workflow in status.md
    Actors,         \* what commands are given as --actor
    StartAt,        \* the status at which the workspace is first looked at
    Recorded,       \* the gates that have passed by then
    Runnable,       \* the gates run-gate is asked to run, required or not
    Commands,       \* the commands run-gate is given: a test suite, a no-op
    Binders,        \* the binding commands in use: bind_git, bind_files
    Artifacts,      \* the files of the workspace that come and go
    MaxEvents,      \* bound on the transitions begun
    MaxRuns,        \* bound on the run-gate commands begun
    MaxCheckpoints, \* bound on the checkpoints begun
    MaxEdits,       \* bound on the edits nobody locks
    MaxCrashes      \* bound on the commands that die half-way

ASSUME ControlAssumption ==
    /\ RisksInUse \subseteq Risks
    /\ Workflow \in Workflows
    /\ \E a \in Actors : Concrete(a)
    /\ Runnable \subseteq GateNames
    /\ Commands \subseteq {"suite", "true"}
    /\ Binders \subseteq {"git", "files"}
    /\ Artifacts \subseteq AllFiles
    /\ StartAt \in Statuses \ Final
    /\ \A r \in RisksInUse : Recorded \subseteq RequiredGates(r)
    /\ Recorded \intersect TechnicalGates # {} => "suite" \in Commands
    /\ {MaxEvents, MaxRuns, MaxCheckpoints, MaxEdits, MaxCrashes} \subseteq Nat

Names == Actors \union {"", "pending"}

\* Those an approval is accepted from; blanks are among them.
Approvers == {a \in Actors : Concrete(a)}

VARIABLES
    risk,         \* status.md: the risk field, which no command changes
    status,       \* status.md: the status field
    approvedBy,   \* status.md: the approved_by field
    gates,        \* control/gates.json: the receipt of each gate
    implementer,  \* control/implementation.json: its actor, or ""
    gitBinding,   \* control/git-binding.json
    fileBinding,  \* control/file-binding.json
    lastEvent,    \* the "to" of the last line of control/events.jsonl
    events,       \* the number of lines of control/events.jsonl
    metrics,      \* the counters of control/metrics.json
    present,      \* the artifacts in the workspace
    openTasks,    \* plan.md has an unchecked task
    stale,        \* gates whose evidence no longer hashes to their receipt
    repo,         \* the repository: HEAD, source content, out-of-scope change
    scan,         \* hashes bind_files took before it asked for the lock
    step,         \* what the command under way does next, or "idle"
    move,         \* the transition under way
    run,          \* the gate command under way
    edits,        \* edits made
    crashes,      \* commands that died
    certified     \* history: the final statuses entered by a validation

statusVars == <<risk, status, approvedBy>>
trailVars  == <<lastEvent, events>>
bindVars   == <<gitBinding, fileBinding>>
workVars   == <<present, openTasks, repo>>
boundVars  == <<edits, crashes>>
vars == <<risk, status, approvedBy, gates, implementer, gitBinding, fileBinding,
          lastEvent, events, metrics, present, openTasks, stale, repo, scan,
          step, move, run, edits, crashes, certified>>

-----------------------------------------------------------------------------
(* The shape of the files.                                                 *)

\* A receipt; "content" (the sources its command ran on) is history.
Receipt == [state : {"missing", "passed", "failed"}, actor : Names,
            command : Commands \union {""},
            execution : {"", "manual", "run-gate"},
            exit : {"none", "zero", "nonzero"}, content : 0 .. MaxEdits]

NoReceipt == [state |-> "missing", actor |-> "", command |-> "",
              execution |-> "", exit |-> "none", content |-> 0]

\* The receipt of a gate that passed before the first look.
Passed(g, actor) ==
    IF g \in TechnicalGates
    THEN [state |-> "passed", actor |-> actor, command |-> "suite",
          execution |-> "run-gate", exit |-> "zero", content |-> 0]
    ELSE [state |-> "passed", actor |-> actor, command |-> "",
          execution |-> "manual", exit |-> "none", content |-> 0]

Repo == [head : 0 .. MaxEdits, content : 0 .. MaxEdits, outside : BOOLEAN]

\* "first" (the sources of the first binding) is history.
GitBinding  == [bound : BOOLEAN, at : Repo, first : 0 .. MaxEdits]
FileBinding == [bound : BOOLEAN, content : 0 .. MaxEdits]

Untouched == [head |-> 0, content |-> 0, outside |-> FALSE]
NoGitBinding  == [bound |-> FALSE, at |-> Untouched, first |-> 0]
NoFileBinding == [bound |-> FALSE, content |-> 0]

\* "since" (the edits made when the transition began) is history.
Move == [from : Statuses, to : Statuses, actor : Names, errors : BOOLEAN,
         since : 0 .. MaxEdits]
Run  == [gate : GateNames, actor : Names, command : Commands \union {""},
         exit : {"none", "zero", "nonzero"}, content : 0 .. MaxEdits]

NoMove == [from |-> "draft", to |-> "draft", actor |-> "pending",
           errors |-> FALSE, since |-> 0]
NoRun  == [gate |-> "tests", actor |-> "pending", command |-> "",
           exit |-> "none", content |-> 0]

Counters == {"transitions", "gate_runs", "failed_gate_runs", "checkpoints"}

Checking == {"check_gates", "check_bindings"}
Steps == {"idle", "append_event", "count_transition", "gate_running",
          "record_receipt", "count_run", "count_failure", "count_checkpoint",
          "read_worktree"} \union Checking

Required == RequiredGates(risk)

Init ==
    /\ risk \in RisksInUse
    /\ status = StartAt
    /\ approvedBy \in IF StartAt \in BeyondApproval THEN Approvers
                      ELSE {"pending"}
    /\ \E actor \in Approvers :
          gates = [g \in GateNames |-> IF g \in Recorded THEN Passed(g, actor)
                                      ELSE NoReceipt]
    /\ implementer = ""
    /\ gitBinding = NoGitBinding
    /\ fileBinding = NoFileBinding
    /\ lastEvent = StartAt
    /\ events = 0
    /\ metrics = [c \in Counters |-> 0]
    /\ present = Artifacts
    /\ openTasks \in BOOLEAN
    /\ stale = {}
    /\ repo = Untouched
    /\ scan = NoFileBinding
    /\ step = "idle"
    /\ move = NoMove
    /\ run = NoRun
    /\ edits = 0
    /\ crashes = 0
    /\ certified = {}

\* The command returns or raises ControlError, and the lock is free.
Done ==
    /\ step' = "idle"
    /\ move' = NoMove
    /\ run' = NoRun

\* record_metric
Count(c) == metrics' = [metrics EXCEPT ![c] = @ + 1]

-----------------------------------------------------------------------------
(* Mutated forms of the definitions below, used to test the properties.    *)

BeginWithoutActor(to, actor) ==
    /\ step = "idle"
    /\ events < MaxEvents
    /\ to \in Targets(status)
    /\ status' = to
    /\ approvedBy' = IF to = "approved" THEN actor ELSE approvedBy
    /\ move' = [from |-> status, to |-> to, actor |-> actor, errors |-> FALSE,
                 since |-> edits]
    /\ step' = IF to \in Final THEN "check_gates" ELSE "append_event"
    /\ UNCHANGED <<risk, gates, implementer, bindVars, trailVars, metrics,
                   workVars, stale, scan, run, boundVars, certified>>

BeginSignsAlways(to, actor) ==
    /\ step = "idle"
    /\ events < MaxEvents
    /\ to \in Targets(status)
    /\ to = "approved" => Concrete(actor)
    /\ status' = to
    /\ approvedBy' = actor
    /\ move' = [from |-> status, to |-> to, actor |-> actor, errors |-> FALSE,
                 since |-> edits]
    /\ step' = IF to \in Final THEN "check_gates" ELSE "append_event"
    /\ UNCHANGED <<risk, gates, implementer, bindVars, trailVars, metrics,
                   workVars, stale, scan, run, boundVars, certified>>

BeginDeliversUnchecked(to, actor) ==
    /\ step = "idle"
    /\ events < MaxEvents
    /\ to \in Targets(status)
    /\ to = "approved" => Concrete(actor)
    /\ status' = to
    /\ approvedBy' = IF to = "approved" THEN actor ELSE approvedBy
    /\ move' = [from |-> status, to |-> to, actor |-> actor, errors |-> FALSE,
                 since |-> edits]
    /\ step' = IF to = "completed" THEN "check_gates" ELSE "append_event"
    /\ UNCHANGED <<risk, gates, implementer, bindVars, trailVars, metrics,
                   workVars, stale, scan, run, boundVars, certified>>

RejectKeepsStatus ==
    /\ step = "check_bindings"
    /\ move.errors
    /\ Done
    /\ UNCHANGED <<statusVars, gates, implementer, bindVars, trailVars, metrics,
                   workVars, stale, scan, boundVars, certified>>

ImplementationOutsideLock(actor) ==
    /\ implementer' = actor
    /\ UNCHANGED <<statusVars, gates, bindVars, trailVars, metrics, workVars,
                   stale, scan, step, move, run, boundVars, certified>>

-----------------------------------------------------------------------------
(* validate_workspace.                                                     *)

\* validate_gate_receipts, for one required gate.
ReceiptValid(g) ==
    /\ gates[g].state = "passed"
    /\ Concrete(gates[g].actor)
    /\ g \notin stale
    /\ g \in TechnicalGates =>
          /\ gates[g].exit = "zero"
          /\ gates[g].command # ""
          /\ gates[g].execution = "run-gate"
          /\ gates[g].command \notin ForbiddenCommands
    /\ g = "user_approval" => gates[g].actor = "user"

\* The independent_review receipt of a high-risk workspace is somebody else's.
ReviewIndependent ==
    risk = "high" => gates["independent_review"].actor # implementer

ReceiptsValid == (\A g \in Required : ReceiptValid(g)) /\ ReviewIndependent

\* The first half of validate_workspace: approval, artifacts, tasks, gates.
PlanAndGatesValid ==
    /\ Concrete(ReadBack(approvedBy))
    /\ LET files == present \union (AllFiles \ Artifacts)
       IN  RequiredArtifacts(Workflow, status, files) \subseteq files
    /\ ~openTasks
    /\ ReceiptsValid

\* validate_git_binding: same HEAD, same changed files with the same hashes,
\* and none of them outside the allowed paths.
GitBindingValid ==
    gitBinding.bound => gitBinding.at = repo /\ ~repo.outside

\* validate_file_binding: no bound file changed or went missing, none is new.
FileBindingValid ==
    fileBinding.bound => fileBinding.content = repo.content

\* The second half: the bindings, and who implemented what.
BindingsValid ==
    /\ GitBindingValid
    /\ FileBindingValid
    /\ risk \in {"medium", "high"} =>
          implementer # "" /\ (gitBinding.bound \/ fileBinding.bound)

-----------------------------------------------------------------------------
(* transition_workspace.                                                   *)

\* The guards, and the write of status.md, which comes before validation.
BeginTransition(to, actor) ==
    /\ step = "idle"
    /\ events < MaxEvents
    /\ to \in Targets(status)
    /\ to = "approved" => Concrete(actor)
    /\ status' = to
    /\ approvedBy' = IF to = "approved" THEN actor ELSE approvedBy
    /\ move' = [from |-> status, to |-> to, actor |-> actor, errors |-> FALSE,
                 since |-> edits]
    /\ step' = IF to \in Final THEN "check_gates" ELSE "append_event"
    /\ UNCHANGED <<risk, gates, implementer, bindVars, trailVars, metrics,
                   workVars, stale, scan, run, boundVars, certified>>

\* The first half of validate_workspace; its errors are kept for the end.
CheckPlanAndGates ==
    /\ step = "check_gates"
    /\ step' = "check_bindings"
    /\ move' = [move EXCEPT !.errors = ~PlanAndGatesValid]
    /\ UNCHANGED <<statusVars, gates, implementer, bindVars, trailVars, metrics,
                   workVars, stale, scan, run, boundVars, certified>>

\* The second half, without an error anywhere: the completion stands.
CompletionAccepted ==
    /\ step = "check_bindings"
    /\ ~move.errors /\ BindingsValid
    /\ step' = "append_event"
    /\ certified' = certified \union {move.to}
    /\ UNCHANGED <<statusVars, gates, implementer, bindVars, trailVars, metrics,
                   workVars, stale, scan, move, run, boundVars>>

\* An error: status.md gets its original text back and ControlError is raised.
CompletionRejected ==
    /\ step = "check_bindings"
    /\ move.errors \/ ~BindingsValid
    /\ status' = move.from
    /\ Done
    /\ UNCHANGED <<risk, approvedBy, gates, implementer, bindVars, trailVars,
                   metrics, workVars, stale, scan, boundVars, certified>>

\* append_jsonl
AppendEvent ==
    /\ step = "append_event"
    /\ lastEvent' = move.to
    /\ events' = events + 1
    /\ step' = "count_transition"
    /\ UNCHANGED <<statusVars, gates, implementer, bindVars, metrics, workVars,
                   stale, scan, move, run, boundVars, certified>>

\* record_metric(workspace, "transitions", 1)
CountTransition ==
    /\ step = "count_transition"
    /\ Count("transitions")
    /\ Done
    /\ UNCHANGED <<statusVars, gates, implementer, bindVars, trailVars,
                   workVars, stale, scan, boundVars, certified>>

-----------------------------------------------------------------------------
(* record_gate and run_gate.                                               *)

\* record_gate's guards.
MayRecord(gate, actor, executed) ==
    /\ gate \in Required
    /\ gate \in TechnicalGates => executed
    /\ Concrete(actor)

\* record_gate by itself: a review or an approval with its evidence file.
RecordGate(gate, actor) ==
    /\ step = "idle"
    /\ MayRecord(gate, actor, FALSE)
    /\ gates' = [gates EXCEPT ![gate] =
                    [state |-> "passed", actor |-> actor, command |-> "",
                     execution |-> "manual", exit |-> "none", content |-> 0]]
    /\ stale' = stale \ {gate}
    /\ UNCHANGED <<statusVars, implementer, bindVars, trailVars, metrics,
                   workVars, scan, step, move, run, boundVars, certified>>

\* run_gate starts its command; no guard looks at the gate's risk yet.
StartGate(gate, actor, command) ==
    /\ step = "idle"
    /\ metrics["gate_runs"] < MaxRuns
    /\ run' = [gate |-> gate, actor |-> actor, command |-> command,
               exit |-> "none", content |-> repo.content]
    /\ step' = "gate_running"
    /\ UNCHANGED <<statusVars, gates, implementer, bindVars, trailVars, metrics,
                   workVars, stale, scan, move, boundVars, certified>>

\* The command ends and its output replaces the gate's log, on which an older
\* receipt of the gate may rest.  A no-op always succeeds.
GateEnds(exit, sameOutput) ==
    /\ step = "gate_running"
    /\ run.command \in ForbiddenCommands => exit = "zero"
    /\ run' = [run EXCEPT !.exit = exit]
    /\ stale' = CASE gates[run.gate].execution # "run-gate" -> stale
                  [] sameOutput -> stale \ {run.gate}
                  [] OTHER      -> stale \union {run.gate}
    /\ step' = "record_receipt"
    /\ UNCHANGED <<statusVars, gates, implementer, bindVars, trailVars, metrics,
                   workVars, scan, move, boundVars, certified>>

\* record_gate(..., executed=True) inside run_gate writes the receipt.
RecordRun ==
    /\ step = "record_receipt"
    /\ MayRecord(run.gate, run.actor, TRUE)
    /\ gates' = [gates EXCEPT ![run.gate] =
                    [state |-> IF run.exit = "zero" THEN "passed" ELSE "failed",
                     actor |-> run.actor, command |-> run.command,
                     execution |-> "run-gate", exit |-> run.exit,
                     content |-> run.content]]
    /\ stale' = stale \ {run.gate}
    /\ step' = "count_run"
    /\ UNCHANGED <<statusVars, implementer, bindVars, trailVars, metrics,
                   workVars, scan, move, run, boundVars, certified>>

\* ... or refuses, after the command ran and its log was replaced.
RefuseRun ==
    /\ step = "record_receipt"
    /\ ~MayRecord(run.gate, run.actor, TRUE)
    /\ Done
    /\ UNCHANGED <<statusVars, gates, implementer, bindVars, trailVars, metrics,
                   workVars, stale, scan, boundVars, certified>>

\* record_metric(workspace, "gate_runs", 1)
CountRun ==
    /\ step = "count_run"
    /\ Count("gate_runs")
    /\ IF run.exit = "zero"
       THEN Done
       ELSE step' = "count_failure" /\ UNCHANGED <<move, run>>
    /\ UNCHANGED <<statusVars, gates, implementer, bindVars, trailVars,
                   workVars, stale, scan, boundVars, certified>>

\* record_metric(workspace, "failed_gate_runs", 1)
CountFailure ==
    /\ step = "count_failure"
    /\ Count("failed_gate_runs")
    /\ Done
    /\ UNCHANGED <<statusVars, gates, implementer, bindVars, trailVars,
                   workVars, stale, scan, boundVars, certified>>

-----------------------------------------------------------------------------
(* create_checkpoint, record_implementation, bind_git, bind_files.         *)

\* create_checkpoint writes checkpoints/<task>.json, which nothing reads ...
BeginCheckpoint ==
    /\ step = "idle"
    /\ metrics["checkpoints"] < MaxCheckpoints
    /\ step' = "count_checkpoint"
    /\ UNCHANGED <<statusVars, gates, implementer, bindVars, trailVars, metrics,
                   workVars, stale, scan, move, run, boundVars, certified>>

\* ... and counts it.
CountCheckpoint ==
    /\ step = "count_checkpoint"
    /\ Count("checkpoints")
    /\ Done
    /\ UNCHANGED <<statusVars, gates, implementer, bindVars, trailVars,
                   workVars, stale, scan, boundVars, certified>>

\* record_implementation, at any status and with any name, "" and "pending"
\* included.
RecordImplementation(actor) ==
    /\ step = "idle"
    /\ implementer' = actor
    /\ UNCHANGED <<statusVars, gates, bindVars, trailVars, metrics, workVars,
                   stale, scan, step, move, run, boundVars, certified>>

\* bind_git, inside the lock: "git rev-parse HEAD" comes first ...
BindGitHead ==
    /\ step = "idle"
    /\ "git" \in Binders
    /\ step' = "read_worktree"
    /\ run' = [NoRun EXCEPT !.content = repo.head]
    /\ UNCHANGED <<statusVars, gates, implementer, bindVars, trailVars, metrics,
                   workVars, stale, scan, move, boundVars, certified>>

\* ... then the hashes of the changed files, and the binding is written.
BindGitFiles ==
    /\ step = "read_worktree"
    /\ gitBinding' = [bound |-> TRUE,
                      at |-> [repo EXCEPT !.head = run.content],
                      first |-> IF gitBinding.bound THEN gitBinding.first
                                ELSE repo.content]
    /\ Done
    /\ UNCHANGED <<statusVars, gates, implementer, fileBinding, trailVars,
                   metrics, workVars, stale, scan, boundVars, certified>>

\* bind_files hashes the sources before it asks for the lock.
ScanFiles ==
    /\ ~scan.bound
    /\ "files" \in Binders
    /\ scan' = [bound |-> TRUE, content |-> repo.content]
    /\ UNCHANGED <<statusVars, gates, implementer, bindVars, trailVars, metrics,
                   workVars, stale, step, move, run, boundVars, certified>>

\* bind_files writes, under the lock, what it hashed.
BindFiles ==
    /\ step = "idle"
    /\ scan.bound
    /\ fileBinding' = scan
    /\ scan' = NoFileBinding
    /\ UNCHANGED <<statusVars, gates, implementer, gitBinding, trailVars,
                   metrics, workVars, stale, step, move, run, boundVars,
                   certified>>

-----------------------------------------------------------------------------
(* The environment: edits that take no lock, and failures.                 *)

Edit == edits < MaxEdits /\ edits' = edits + 1

\* A source file changes, inside the allowed paths or outside them.
EditSource(inside) ==
    /\ Edit
    /\ repo' = [repo EXCEPT !.content = @ + 1, !.outside = @ \/ ~inside]
    /\ UNCHANGED <<statusVars, gates, implementer, bindVars, trailVars, metrics,
                   present, openTasks, stale, scan, step, move, run, crashes,
                   certified>>

\* git commit: HEAD moves and the working tree is clean.
Commit ==
    /\ Edit
    /\ repo' = [repo EXCEPT !.head = @ + 1, !.outside = FALSE]
    /\ UNCHANGED <<statusVars, gates, implementer, bindVars, trailVars, metrics,
                   present, openTasks, stale, scan, step, move, run, crashes,
                   certified>>

\* The evidence of a receipt is changed or deleted.
EditEvidence(gate) ==
    /\ Edit
    /\ gates[gate].state # "missing"
    /\ stale' = stale \union {gate}
    /\ UNCHANGED <<statusVars, gates, implementer, bindVars, trailVars, metrics,
                   workVars, scan, step, move, run, crashes, certified>>

\* A task of the plan is ticked off or reopened.
EditPlan ==
    /\ Edit
    /\ openTasks' = ~openTasks
    /\ UNCHANGED <<statusVars, gates, implementer, bindVars, trailVars, metrics,
                   present, repo, stale, scan, step, move, run, crashes,
                   certified>>

\* An artifact is deleted or written.
EditArtifact(file) ==
    /\ Edit
    /\ present' = IF file \in present THEN present \ {file}
                  ELSE present \union {file}
    /\ UNCHANGED <<statusVars, gates, implementer, bindVars, trailVars, metrics,
                   openTasks, repo, stale, scan, step, move, run, crashes,
                   certified>>

\* The process dies (its lock is cleared later) or an OSError ends it (its
\* lock is released): what was written stays, what was not never is.
Crash ==
    /\ step # "idle"
    /\ crashes < MaxCrashes
    /\ crashes' = crashes + 1
    /\ Done
    /\ UNCHANGED <<statusVars, gates, implementer, bindVars, trailVars, metrics,
                   workVars, stale, scan, edits, certified>>

-----------------------------------------------------------------------------

Transition ==
    \/ \E to \in Statuses, actor \in Actors : BeginTransition(to, actor)
    \/ CheckPlanAndGates
    \/ CompletionAccepted
    \/ CompletionRejected
    \/ AppendEvent
    \/ CountTransition

Gate ==
    \/ \E gate \in Required, actor \in Actors : RecordGate(gate, actor)
    \/ \E gate \in Runnable, actor \in Actors, command \in Commands :
          StartGate(gate, actor, command)
    \/ \E exit \in {"zero", "nonzero"}, same \in BOOLEAN : GateEnds(exit, same)
    \/ RecordRun
    \/ RefuseRun
    \/ CountRun
    \/ CountFailure

Record ==
    \/ BeginCheckpoint
    \/ CountCheckpoint
    \/ \E actor \in Actors : RecordImplementation(actor)
    \/ BindGitHead
    \/ BindGitFiles
    \/ ScanFiles
    \/ BindFiles

Environment ==
    \/ \E inside \in BOOLEAN : EditSource(inside)
    \/ Commit
    \/ \E gate \in Required : EditEvidence(gate)
    \/ EditPlan
    \/ \E file \in Artifacts : EditArtifact(file)
    \/ Crash

Next == Transition \/ Gate \/ Record \/ Environment

Spec == Init /\ [][Next]_vars

-----------------------------------------------------------------------------
(* Properties.                                                             *)

\* Every variable stays in its type.
TypeOK ==
    /\ risk \in RisksInUse
    /\ status \in Statuses
    /\ approvedBy \in Names
    /\ gates \in [GateNames -> Receipt]
    /\ implementer \in Names
    /\ gitBinding \in GitBinding
    /\ fileBinding \in FileBinding
    /\ lastEvent \in Statuses
    /\ events \in 0 .. MaxEvents
    /\ metrics \in [Counters -> Nat]
    /\ present \subseteq Artifacts
    /\ openTasks \in BOOLEAN
    /\ stale \subseteq GateNames
    /\ repo \in Repo
    /\ scan \in FileBinding
    /\ step \in Steps
    /\ move \in Move
    /\ run \in Run
    /\ edits \in 0 .. MaxEdits
    /\ crashes \in 0 .. MaxCrashes
    /\ certified \subseteq Final

\* Work never happens on an unapproved workspace: whatever fails, is undone or
\* dies half-way, a workspace beyond "approved" was approved under a name, and
\* one that was completed or delivered by a validation has an approver whom
\* read_frontmatter still reads.
ApprovedBeforeWork ==
    /\ status \in BeyondApproval => Concrete(approvedBy)
    /\ status \in certified => Concrete(ReadBack(approvedBy))

\* When a validated completion or delivery is entered in the audit trail, the
\* receipts it was validated on still stand, whatever is edited meanwhile:
\* every required gate passed, the technical ones by a command that ran and
\* succeeded, the reviewer of high-risk work is not its implementer, and the
\* approval is the user's.  And if nobody edited the plan, the artifacts, the
\* evidence or the sources since the transition began, all that was validated
\* holds still: no other command can have undone it.
CommitPointIsGated ==
    step \in {"append_event", "count_transition"} /\ move.to \in Final =>
        /\ \A g \in Required :
              /\ gates[g].state = "passed"
              /\ g \in TechnicalGates =>
                    gates[g].execution = "run-gate" /\ gates[g].exit = "zero"
              /\ g = "user_approval" => gates[g].actor = "user"
        /\ risk = "high" =>
              gates["independent_review"].actor \notin {"pending", implementer}
        /\ risk # "low" => implementer # ""
                           /\ (gitBinding.bound \/ fileBinding.bound)
        /\ edits = move.since => PlanAndGatesValid /\ BindingsValid

\* The audit trail is complete and in order: its last line leads to the status
\* in force (or to the one the command under way started from), lines are
\* never fewer than the transitions counted, and only a command that died may
\* leave a difference.
AuditTrail ==
    /\ metrics["transitions"] <= events
    /\ events <= metrics["transitions"] + crashes
                 + (IF step = "count_transition" THEN 1 ELSE 0)
    /\ crashes = 0 => lastEvent = IF step \in Checking \union {"append_event"}
                                  THEN move.from ELSE status

\* A workspace at rest in "completed" or "delivered" got into that very status
\* through a validation without errors, the delivery through one of its own,
\* unless a command died on the way.
CompletionCertified ==
    step \notin Checking /\ status \in Final /\ crashes = 0
        => status \in certified

\* Completion requires validation, whatever dies: the code violates it, as it
\* writes the status before it validates.
CompletionSurvivesCrash ==
    step \notin Checking /\ status \in Final => status \in certified

\* Sources that change after the workspace was bound cost it its gates
\* ("gates must be renewed", say the errors of validate_git_binding): a
\* completion accepted on a renewed binding has its technical gates from the
\* sources bound last.  The code violates it: renewing the binding is enough.
GatesRenewedOnRebind ==
    /\ step = "append_event" /\ move.to \in Final
    /\ gitBinding.bound /\ gitBinding.first # gitBinding.at.content
    => \A g \in Required \intersect TechnicalGates :
          gates[g].content = gitBinding.at.content

\* The lifecycle a reader of the promise sees: a completion counts from the
\* moment it is accepted (or its command dies), not from the write.
Lifecycle == INSTANCE WorkspaceLifecycle WITH
    Start <- StartAt, approver <- approvedBy,
    state <- IF step \in Checking THEN move.from ELSE status,
    certificate <- certified

\* The commands implement the lifecycle of module WorkspaceLifecycle.
ImplementsLifecycle == Lifecycle!LifecycleSpec
=============================================================================
