SPECIFICATION Spec
CONSTANTS
    RisksInUse = {"low"}
    Workflow = "forge"
    Actors = {"user"}
    StartAt = "in_progress"
    Recorded = {}
    Runnable = {"consistency"}
    Commands = {"suite", "true"}
    Binders = {"git", "files"}
    Artifacts = {"implementation.md"}
    MaxEvents = 2
    MaxRuns = 1
    MaxCheckpoints = 0
    MaxEdits = 0
    MaxCrashes = 1
INVARIANT CompletionSurvivesCrash
