SPECIFICATION Spec
CONSTANTS
    RisksInUse = {"medium"}
    Workflow = "forge"
    Actors = {"user"}
    StartAt = "in_progress"
    Recorded = {}
    Runnable = {"tests"}
    Commands = {"suite"}
    Binders = {"git"}
    Artifacts = {}
    MaxEvents = 1
    MaxRuns = 1
    MaxCheckpoints = 0
    MaxEdits = 1
    MaxCrashes = 0
INVARIANT GatesRenewedOnRebind
