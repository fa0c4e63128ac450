SPECIFICATION Spec
CONSTANTS
    WorkNames = {"staged", "container", "aside"}
    Lower <- MCLower
    Blocks = 4
    Batch = 1
    Fresh <- MCFresh
    Renames <- MCRenames
    Starts <- MCStarts
    MaxCalls = 2
    MaxFaults = 2
INVARIANTS
    UpperWhole
    RecordsInPlace
    FailedCallChangesNothing
    RefusedOnlyByHost
CHECK_DEADLOCK FALSE
