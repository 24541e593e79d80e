---------------------------- MODULE ControlRules ----------------------------
(***************************************************************************)
(* The tables and pure rules of the control plane: statuses and their      *)
(* transitions, required artifacts (.codex/scripts/control_io.py) and the  *)
(* gates of each risk (.codex/scripts/control_config.py; this repository's *)
(* .codex/config.json repeats the defaults).                               *)
(***************************************************************************)

Statuses == {"draft", "awaiting_approval", "approved", "in_progress",
             "blocked", "completed", "delivered", "cancelled"}

Workflows == {"audit", "think", "forge", "test", "pr", "ship"}

Risks == {"low", "medium", "high"}

\* TRANSITIONS
Targets(status) ==
    CASE status = "draft"             -> {"awaiting_approval", "cancelled"}
      [] status = "awaiting_approval" -> {"approved", "draft", "cancelled"}
      [] status = "approved"          -> {"in_progress", "cancelled"}
      [] status = "in_progress"       -> {"blocked", "completed", "cancelled"}
      [] status = "blocked"           -> {"in_progress", "cancelled"}
      [] status = "completed"         -> {"delivered"}
      [] OTHER                        -> {}

\* The statuses transition_workspace validates on entry.
Final == {"completed", "delivered"}

\* The statuses a workspace reaches only through "approved".
BeyondApproval == {"approved", "in_progress", "blocked"} \union Final

\* The configured gates of each risk.
RequiredGates(risk) ==
    CASE risk = "low"    -> {"consistency"}
      [] risk = "medium" -> {"tests", "review"}
      [] risk = "high"   -> {"threat_model", "tests", "integration",
                             "independent_review", "user_approval"}

\* The gates that only run_gate may record.
TechnicalGates == {"consistency", "integration", "tests"}

GateNames == UNION {RequiredGates(r) : r \in Risks}

\* forbidden_gate_commands, one of which stands for all.
ForbiddenCommands == {"true"}

\* What the guards accept as somebody's name.
Concrete(actor) == actor \notin {"", "pending"}

\* The approver read_frontmatter finds where "actor" was written: it strips
\* blanks, and " " stands for the names that consist of them.
ReadBack(actor) == IF actor = " " THEN "" ELSE actor

DesignFiles == {"investigation.md", "design.md", "plan.md"}

AuditFiles == {"1-guidelines-findings.md", "2-security-findings.md",
               "3-architecture-findings.md", "audit-report.md"}

AllFiles == DesignFiles \union AuditFiles
                \union {"implementation.md", "test-matrix.md"}

\* required_artifacts, for a workspace that holds the files "present"
\* (status.md is always there).
RequiredArtifacts(workflow, status, present) ==
    CASE workflow = "think" ->
           IF status \in {"awaiting_approval", "approved", "in_progress"}
                         \union Final
           THEN DesignFiles ELSE {}
      [] workflow = "forge" ->
           DesignFiles \union
           (IF status \in {"in_progress", "blocked"} \union Final
            THEN {"implementation.md"} ELSE {})
      [] workflow = "test" ->
           IF present \intersect {"test-matrix.md", "plan.md"} = {}
           THEN {"test-matrix.md"}
           ELSE IF status \in Final THEN {"implementation.md"} ELSE {}
      [] workflow = "audit" /\ status \in Final -> AuditFiles
      [] OTHER -> {}
=============================================================================
