SPECIFICATION Spec
CONSTANTS
    RisksInUse = {"high"}
    Workflow = "forge"
    Actors = {"user", "dev"}
    StartAt = "in_progress"
    Recorded = {"threat_model", "tests", "integration", "user_approval"}
    Runnable = {"tests"}
    Commands = {"suite"}
    Binders = {"files"}
    Artifacts = {"implementation.md"}
    MaxEvents = 2
    MaxRuns = 1
    MaxCheckpoints = 0
    MaxEdits = 1
    MaxCrashes = 0
INVARIANT CommitPointIsGated
