SPECIFICATION Spec
CONSTANTS
    kept = kept
    perCall = perCall
    remote = remote
    Sources <- OneSource
    Singletons <- LocalSingletons
    Remotes <- NoSource
    MaxCalls = 2
    MaxNotes = 0
    Overlong = FALSE
CHECK_DEADLOCK FALSE
INVARIANTS OwnAnswer
