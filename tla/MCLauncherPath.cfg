SPECIFICATION FairAnySpec
CONSTANTS
    Chosen = {"launcher"}
    Desktop = desktop
    Installer = installer
    Apps = {app}
    BuiltInApps = {}
    Packages <- OneRelease
    Installed <- First
    TouchCapacity = 1
    Faults = {"io", "crash"}
    MaxFaults = 1
    MaxGeneration = 2
    LauncherSameNames = {FALSE}
    LauncherMaxStarts = 2
    LauncherMaxShows = 2
    LauncherMaxSwitches = 1
    LauncherMaxFaults = 1
    CallsMaxCalls = 3
PROPERTIES
    ReadySessionRecognised
CHECK_DEADLOCK FALSE
