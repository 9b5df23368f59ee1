SPECIFICATION MCSpec
CONSTANTS
    Subjects = {"store", "artifacts", "calls"}
    Kinds = {chat, speech}
    Readers = {senser, suggester}
    CacheSize = 2
    MaxAppends = 4
    MaxErrors = 1
    MaxCrashes = 2
    Runs = {1, 2, 3}
    Keep = 2
    reactor = reactor
    summarizer = summarizer
    Callers <- MCCallers
    Prompts <- MCPrompts
    Others = {1, 7}
    Retention = 2
    MaxBytes = 8
    MarkerBytes = 2
    BareBytes = 2
    MaxCalls = 3
    MaxFaults = 1
INVARIANTS
    LogIsReadAsWritten
    LossIsBounded
    PruningIsSafe
    CapturesTellTheCalls
CHECK_DEADLOCK FALSE
