SPECIFICATION AnySpec
CONSTANTS
    Chosen = {"release", "installer", "registry", "package", "files"}
    MaxGeneration = 4
    Packages <- Adversarial
    Faults = {"io", "sync", "kill", "power"}
    MaxFaults = 2
    InstallerApps = {"app"}
    InstallerFiles <- TwoReleases
    InstallerNodes = 2
    InstallerNodeLimit = 1
    InstallerMaxRequests = 8
    InstallerMaxChanges = 1
    InstallerFaults = {"io", "timeout", "replay"}
    InstallerMaxFaults = 1
    InstallerMaxGeneration = 4
    RegistryDesktop = "desktop"
    RegistryGame = "game"
    RegistryInstaller = "installer"
    RegistryApps = {"game", "a", "b", "c"}
    RegistryUid <- Uids
    RegistryNames = {"plain", "control"}
    RegistryMaxApplications = 3
    RegistryMaxCounter = 2
    RegistryMaxInstalls = 4
    RegistryMaxSessions = 1
    RegistryMaxDamage = 1
    PackageKeys = {"official", "dev"}
    PackageOfficial = "official"
    PackageProjects <- SomeProjects
    PackageMaxDamage = 2
    FilesWriters = {"slot", "record", "status", "release"}
    FilesPieces = 2
    FilesMaxRuns = 2
    FilesMaxFaults = 1
    FilesMaxLosses = 1
INVARIANTS
    TypeOK
    NoSplitBrain
    AckedPolicySurvives
    QuarantineIsForever
    ApprovedByUser
    SuccessMeansDone
    DesktopLostOnlyToLimits
    VerifiedMeansAsSigned
    ToolAndDeviceAgree
    OldOrNew
PROPERTIES
    ImplementsRegister
    CleanupProgresses
    LaunchesWhatWasListed
CHECK_DEADLOCK FALSE
