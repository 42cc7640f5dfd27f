SPECIFICATION FairSpec
CONSTANTS
    Desktop = desktop
    Installer = installer
    Apps = {app}
    BuiltInApps = {}
    Packages <- TwoReleases
    Installed <- Upgraded
    TouchCapacity = 1
    Faults = {"hang"}
    MaxFaults = 1
    MaxGeneration = 3
PROPERTY StopEndsSession
CHECK_DEADLOCK FALSE
