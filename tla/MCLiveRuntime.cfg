SPECIFICATION FairLiveSpec
CONSTANTS
    Reactors = {r1}
    Summarizer = summarizer
    Setups <- MCSetups
INVARIANTS
    NothingLeftRunning
    NoErrorIsLost
PROPERTIES
    EndsTogether
CHECK_DEADLOCK FALSE
