SPECIFICATION MCSpec
CONSTANTS
    chat = chat
    video = video
    Channels <- MCChannels
    Priority <- MCPriority
    QueueSize = 2
    MaxEvents <- MCEvents
    Chats = {c1, c2}
    ChatLength = 3
    Replay = 2
    DedupCapacity = 2
    MaxRetries = 1
    PollIntervals = {0, 2}
    RetryBase = 1
    RetryMax = 3
INVARIANTS
    EventsAccounted
    NoReaderForgotten
    EachMessageOnce
    TargetIsRead
PROPERTIES
    PriorityIsKept
    NobodyWaitsForEver
    PollsPolitely
CHECK_DEADLOCK FALSE
