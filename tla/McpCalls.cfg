SPECIFICATION FairSpec
CONSTANTS
    kept = kept
    perCall = perCall
    remote = remote
    Sources <- AllSources
    Singletons <- AllSingletons
    Remotes <- RemoteSources
    MaxCalls = 2
    MaxNotes = 1
    Overlong = TRUE
CHECK_DEADLOCK FALSE
INVARIANTS TypeOK OneServerPerSource ProcessesOwned AnswersAccountedFor
PROPERTIES CallsEnd
