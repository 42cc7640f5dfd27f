SPECIFICATION Spec
CONSTANTS
    Desktop = desktop
    Installer = installer
    Apps = {app}
    BuiltInApps = {}
    Packages <- TwoReleases
    Installed <- Upgraded
    TouchCapacity = 1
    Faults = {}
    MaxFaults = 0
    MaxGeneration = 3
PROPERTY OnlyFailuresRollBack
