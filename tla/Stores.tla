------------------------------- MODULE Stores -------------------------------
(***************************************************************************)
(* What the platform keeps on the disk besides the release state, side by  *)
(* side: each component has constants and variables of its own and is an   *)
(* instance of its module.                                                 *)
(***************************************************************************)
EXTENDS Integers

CONSTANTS
    InstallerApps, InstallerFiles, InstallerNodes, InstallerNodeLimit,
    InstallerMaxRequests, InstallerMaxChanges, InstallerFaults, InstallerMaxFaults,
    InstallerMaxGeneration,
    RegistryDesktop, RegistryGame, RegistryInstaller, RegistryApps, RegistryUid,
    RegistryNames, RegistryMaxApplications, RegistryMaxCounter, RegistryMaxInstalls,
    RegistryMaxSessions, RegistryMaxDamage,
    PackageKeys, PackageOfficial, PackageProjects, PackageMaxDamage,
    FilesWriters, FilesPieces, FilesMaxRuns, FilesMaxFaults, FilesMaxLosses

VARIABLES
    ibInbox, ibPolicy, ibPayload, ibDir, ibDebris, ibUnreadable, ibRequests,
    ibResponses, ibWaiting, ibNextId, ibFetched, ibMode, ibList, ibSelected, ibPending,
    ibConfirming, ibBusy, ibResult, ibAlive, ibChanges, ibFaults, ibApproved, ibEffects,
    drPlatform, drStore, drHigh, drPhase, drForeground, drRunning, drRegistry,
    drResult, drSessions, drDamage,
    pfBuilt, pfSigned, pfSignings, pfDelivered, pfDamage, pfCrypto, pfVerdict,
    fwWriter, fwRun, fwPc, fwMade, fwEntry, fwDisk, fwFile, fwAcked, fwMissed,
    fwFaults, fwLosses

I == INSTANCE InstallerBroker WITH
    Apps <- InstallerApps, Files <- InstallerFiles, Nodes <- InstallerNodes,
    NodeLimit <- InstallerNodeLimit, MaxRequests <- InstallerMaxRequests,
    MaxChanges <- InstallerMaxChanges, Faults <- InstallerFaults,
    MaxFaults <- InstallerMaxFaults, MaxGeneration <- InstallerMaxGeneration,
    inbox <- ibInbox, policy <- ibPolicy, payload <- ibPayload, dir <- ibDir,
    debris <- ibDebris, unreadable <- ibUnreadable, requests <- ibRequests,
    responses <- ibResponses, waiting <- ibWaiting, nextId <- ibNextId,
    fetched <- ibFetched, mode <- ibMode, list <- ibList, selected <- ibSelected,
    pending <- ibPending, confirming <- ibConfirming, busy <- ibBusy,
    result <- ibResult, alive <- ibAlive, changes <- ibChanges, faults <- ibFaults,
    approved <- ibApproved, effects <- ibEffects

R == INSTANCE DesktopRegistry WITH
    Desktop <- RegistryDesktop, Game <- RegistryGame, Installer <- RegistryInstaller,
    Apps <- RegistryApps, Uid <- RegistryUid, Names <- RegistryNames,
    MaxApplications <- RegistryMaxApplications, MaxCounter <- RegistryMaxCounter,
    MaxInstalls <- RegistryMaxInstalls, MaxSessions <- RegistryMaxSessions,
    MaxDamage <- RegistryMaxDamage, platform <- drPlatform, store <- drStore,
    high <- drHigh, phase <- drPhase, foreground <- drForeground, running <- drRunning,
    registry <- drRegistry, result <- drResult, sessions <- drSessions,
    damage <- drDamage

P == INSTANCE PackageFormat WITH
    Keys <- PackageKeys, Official <- PackageOfficial, Projects <- PackageProjects,
    MaxDamage <- PackageMaxDamage, built <- pfBuilt, signed <- pfSigned,
    signings <- pfSignings, delivered <- pfDelivered, damage <- pfDamage,
    crypto <- pfCrypto, verdict <- pfVerdict

F == INSTANCE FileWrites WITH
    Writers <- FilesWriters, Pieces <- FilesPieces, MaxRuns <- FilesMaxRuns,
    MaxFaults <- FilesMaxFaults, MaxLosses <- FilesMaxLosses, writer <- fwWriter,
    run <- fwRun, pc <- fwPc, made <- fwMade, entry <- fwEntry, disk <- fwDisk,
    file <- fwFile, acked <- fwAcked, missed <- fwMissed, faults <- fwFaults,
    losses <- fwLosses

\* The constants of each component as its module assumes them.
ASSUME InstallerInstance == I!InstallerAssumption /\ InstallerMaxGeneration \in Nat \ {0}
ASSUME RegistryInstance == R!RegistryAssumption
ASSUME PackageInstance == P!PackageAssumption
ASSUME FilesInstance == F!FilesAssumption

-----------------------------------------------------------------------------
(* What each of them promises, stated in the module of its component.      *)

\* What the broker carries out is what the user approved (TokenMatches).
ApprovedByUser == I!ApprovedByUser

\* The installer reports only what was carried out (mutate).
SuccessMeansDone == I!SuccessMeansDone

\* Refused requests bring unfinished removals nearer to their end.
CleanupProgresses == I!CleanupProgresses

\* The desktop is lost only to the registry's limits (build_desktop_registry).
DesktopLostOnlyToLimits == R!DesktopLostOnlyToLimits

\* A launch runs the release that was listed (open_verified_program).
LaunchesWhatWasListed == R!LaunchesWhatWasListed

\* docs/architecture/overview.md:48: the desktop is served a registry.
DesktopIsServed == R!DesktopIsServed

\* The device accepts only what was signed (verify_package).
VerifiedMeansAsSigned == P!VerifiedMeansAsSigned

\* lvapp verify and the device agree (parsePackage, verify_package).
ToolAndDeviceAgree == P!ToolAndDeviceAgree

\* A file is whole, and as new as the last success (write_slot).
OldOrNew == F!OldOrNew
=============================================================================
