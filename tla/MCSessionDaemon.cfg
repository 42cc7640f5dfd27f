SPECIFICATION Spec
CONSTANTS
    Desktop = desktop
    Installer = installer
    Apps = {app}
    BuiltInApps = {app}
    Packages <- TwoReleases
    Installed <- Upgraded
    TouchCapacity = 1
    Faults = {"io", "crash", "hang", "rogue"}
    MaxFaults = 2
    MaxGeneration = 3
INVARIANTS
    NoStrayChild
    HoleMeansPresented
    StoppedMeansAsked
PROPERTIES
    QuarantinesWhatRan
CHECK_DEADLOCK FALSE
