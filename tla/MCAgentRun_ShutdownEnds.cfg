SPECIFICATION FairSpec
CONSTANTS
    Reactors = {r1}
    Summarizer = summarizer
    Setups <- MCSetups
PROPERTIES
    ShutdownEnds
CHECK_DEADLOCK FALSE
