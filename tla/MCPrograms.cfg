SPECIFICATION AnySpec
CONSTANTS
    Chosen = {"storage", "touch", "mapping", "text", "display", "application", "game", "board", "timer", "manager", "objects"}
    Records = {r1, r2}
    Values <- SmallAndLarge
    Size <- SizeOf
    MaxFiles = 2
    MaxBytes = 3
    MaxCalls = 2
    MaxFaults = 1
    TouchFingers = {"f1", "f2", "f3"}
    TouchContacts = {0, 1}
    TouchCapacity = 2
    TouchMaxSequence = 4
    TouchMaxSwitches = 1
    TouchMaxFaults = 1
    MappingSizes <- SmallSizes
    MappingOffsets = {0, 1}
    MappingRanges <- SmallRanges
    MappingScreen <- SmallScreen
    MappingDisplayOffset = 1
    MappingTouchOffset = 2
    MappingMaxUnread = 1
    DisplayMaxPrograms = 2
    DisplayMaxFrames = 4
    DisplayMaxRecoveries = 1
    RuntimeHeight = 2
    RuntimeMaxBoxes = 2
    RuntimeMaxSendFaults = 1
    GameRows = 1
    GameColumns = 3
    GameWinValue = 8
    GameMaxTile = 65535
    GameEarlier = {}
    GameMaxMoves = 2
    GameMaxScore = 20
    GameMaxStarts = 2
    GameMaxFaults = 1
    TimerPresets = {1, 2, 3}
    TimerDefaultPreset = 2
    TimerTicksPerSecond = 3
    TimerMaxPauses = 2
    ManagerReleases = {1, 2}
    ManagerNodeLimit = 1
    ManagerMaxShows = 2
    ManagerMaxSessions = 1
    ManagerMaxRequests = 3
    ManagerMaxPending = 2
    ManagerMaxFaults = 1
    ObjectsTopics = {"t", "u"}
    ObjectsFunctions = {"f"}
    ObjectsMaxObjects = 2
    ObjectsMaxTokens = 2
    ObjectsMaxMessages = 2
    ObjectsMaxDepth = 2
INVARIANTS
    AckedWriteSurvives
    LeftoversAreRemoved
    GesturesHeal
    TouchIsWhereDrawn
    TextIsRead
    OneTextPerManifest
    NeverDrawOnScreen
    PictureHasOwner
    ReadyThenOneRequest
    SavedIsRestorable
    MotionsMatch
    RoundIsHonest
    PlatformAsShown
    NothingLeftBehind
PROPERTIES
    ReadsWhatWasWritten
    BestSurvives
    RemovalSparesSession
CHECK_DEADLOCK FALSE
