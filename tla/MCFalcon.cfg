SPECIFICATION FairAnySpec
CONSTANTS
    Chosen = {"session", "launcher", "calls"}
    Desktop = desktop
    Installer = installer
    Apps = {app}
    BuiltInApps = {}
    Packages <- OneRelease
    Installed <- First
    TouchCapacity = 1
    Faults = {"io", "crash"}
    MaxFaults = 1
    MaxGeneration = 2
    LauncherSameNames = {TRUE}
    LauncherMaxStarts = 2
    LauncherMaxShows = 2
    LauncherMaxSwitches = 1
    LauncherMaxFaults = 1
    CallsMaxCalls = 3
INVARIANTS
    OneChain
    AnswersInOrder
PROPERTIES
    ScreenProgress
    StopEndsSession
    DeadHoleDisappears
    EveryCallSettles
CHECK_DEADLOCK FALSE
