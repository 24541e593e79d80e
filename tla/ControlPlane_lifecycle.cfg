SPECIFICATION Spec
CONSTANTS
    RisksInUse = {"low"}
    Workflow = "forge"
    Actors = {"user", "pending", " "}
    StartAt = "awaiting_approval"
    Recorded = {}
    Runnable = {"consistency"}
    Commands = {"suite"}
    Binders = {"git"}
    Artifacts = {}
    MaxEvents = 6
    MaxRuns = 1
    MaxCheckpoints = 1
    MaxEdits = 0
    MaxCrashes = 2
INVARIANT ApprovedBeforeWork
INVARIANT AuditTrail
INVARIANT CompletionCertified
PROPERTY ImplementsLifecycle
