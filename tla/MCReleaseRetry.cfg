SPECIFICATION FairSpec
CONSTANTS
    MaxGeneration = 2
    Packages <- OneRelease
    Faults = {"power"}
    MaxFaults = 1
PROPERTIES
    RetriedInstallSucceeds
