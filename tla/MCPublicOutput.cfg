SPECIFICATION MCSpec
CONSTANTS
    own = own
    foreign = foreign
    Subjects = {"policy", "run", "startup", "prompts", "audit"}
    Targets <- MCTargets
    AllowedTargets <- MCAllowed
    Channel = own
    MaxPerMinute = 2
    MaxPerHour = 3
    FailureThreshold = 2
    MinuteWindow = 1
    HourWindow = 2
    MaxClock = 3
    MaxRunClock = 2
    MaxAuditClock = 1
    MaxFailures = 3
    MaxTurns = 4
    MaxMissing = 1
    Window = 1
    MaxSeen = 3
    Audience = own
    ConfirmWindow = 1
    PanelSize = 1
    MaxReplies = 2
    MaxCommands = 2
    MaxFaults = 1
INVARIANTS
    BothBudgets
    PromotionIsArmed
    RevocationIsPermanent
    OneStragglerAtMost
    MarkersFollowTheTurn
    StartupIsSound
    PromptsAreSound
    ReplayTellsTheRun
PROPERTIES
    NoSendBeginsDisarmed
    ImplementsGate
CHECK_DEADLOCK FALSE
