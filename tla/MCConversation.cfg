SPECIFICATION MCSpec
CONSTANTS
    Viewers = {viewer}
    Streamer = streamer
    Guest = guest
    Bot = bot
    Texts = {a, b}
    NoText = noText
    IdleInterval = 2
    WindowTTL = 2
    ContinuationWindow = 1
    Period = 2
    SelfHistory = 2
    MaxTalk = 3
    MaxLog = 2
PROPERTIES
    NoRepetition
    SpeaksOnCue
    EveryMentionIsConsidered
CHECK_DEADLOCK FALSE
