SPECIFICATION MCSpec
CONSTANTS
    Subjects = {"audio"}
    Channels = {video, audio}
    Video = video
    Capacity = 1
    MaxEvents = 2
    FrameUnits = 2
    Padding = 2
    Threshold = 2
    MaxUtterance = 5
    MinUpdate = 4
    Warmup = 8
    ChunkSizes = {3, 10}
    MaxHeard = 9
    MaxLost = 0
    SampleEvery = 2
    Change = 1
    MaxEdge = 3
    MaxPixels = 6
    MaxFrames = 6
    MaxScene = 3
INVARIANTS
    OperatorsChoiceWins
CHECK_DEADLOCK FALSE
