SPECIFICATION MCSpec
CONSTANTS
    Subjects = {"queue", "audio", "video"}
    Channels = {video, audio}
    Video = video
    Capacity = 1
    MaxEvents = 2
    FrameUnits = 2
    Padding = 2
    Threshold = 2
    MaxUtterance = 5
    MinUpdate = 4
    Warmup = 4
    ChunkSizes = {3, 10}
    MaxHeard = 9
    MaxLost = 4
    SampleEvery = 2
    Change = 1
    MaxEdge = 3
    MaxPixels = 6
    MaxFrames = 6
    MaxScene = 3
INVARIANTS
    EveryEventAccounted
    FreshAndInOrder
    SpeechIsAccounted
    FramesAreDescribed
PROPERTIES
    StopIsBounded
CHECK_DEADLOCK FALSE
