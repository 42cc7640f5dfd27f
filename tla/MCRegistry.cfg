SPECIFICATION AnySpec
CONSTANTS
    Chosen = {"registry"}
    MaxGeneration = 4
    Packages <- Adversarial
    Faults = {"io", "sync", "kill", "power"}
    MaxFaults = 2
    InstallerApps = {"app"}
    InstallerFiles <- TwoReleases
    InstallerNodes = 2
    InstallerNodeLimit = 1
    InstallerMaxRequests = 8
    InstallerMaxChanges = 1
    InstallerFaults = {"io", "timeout", "replay"}
    InstallerMaxFaults = 1
    InstallerMaxGeneration = 4
    RegistryDesktop = "desktop"
    RegistryGame = "game"
    RegistryInstaller = "installer"
    RegistryApps = {"game", "a", "b"}
    RegistryUid <- Uids
    RegistryNames = {"plain"}
    RegistryMaxApplications = 3
    RegistryMaxCounter = 2
    RegistryMaxInstalls = 4
    RegistryMaxSessions = 1
    RegistryMaxDamage = 1
    PackageKeys = {"official", "dev"}
    PackageOfficial = "official"
    PackageProjects <- SomeProjects
    PackageMaxDamage = 2
    FilesWriters = {"slot", "record", "status", "release"}
    FilesPieces = 2
    FilesMaxRuns = 2
    FilesMaxFaults = 1
    FilesMaxLosses = 1
INVARIANT DesktopIsServed
CHECK_DEADLOCK FALSE
