--------------------------- MODULE DesktopRegistry ---------------------------
(***************************************************************************)
(* How lvgl-sessiond finds out what can be started, and what the desktop   *)
(* shows: the check of its own release, the verification of the installed  *)
(* applications, the registry that is encoded into one sealed file and     *)
(* decoded by the desktop, and the choice of the executable of a launch.   *)
(*                                                                         *)
(* Over several sessions the user installs and removes applications with   *)
(* the installer program, packages may carry a name the registry cannot    *)
(* hold, and files of a release may be damaged at any time.                *)
(***************************************************************************)
EXTENDS FiniteSets, Naturals, Sequences, Functions

CONSTANTS
    Desktop, Game, Installer,    \* the programs of the platform release
    Apps,                        \* ids of applications that can be installed; may hold Game
    Uid,                         \* application_uid, a hash of the id
    Names,                       \* kinds of application names: "plain", "control"
    MaxApplications,             \* kMaximumRegistryApplications
    MaxCounter, MaxInstalls, MaxSessions, MaxDamage    \* bounds of the model

RegistryAssumption ==
    /\ Desktop # Game /\ Desktop # Installer /\ Game # Installer
    /\ IsFiniteSet(Apps)
    /\ MaxApplications \in Nat /\ MaxCounter \in Nat

VARIABLES
    platform,      \* the release lvgl-sessiond is started from
    store,         \* the releases of each application, current first
    high,          \* the highest counter an application ever had (kept by its policy)
    phase,         \* "down", "starting" or "running"
    foreground,    \* main: the program to run
    running,       \* counter of the release whose entry was opened, 0: the built-in one
    registry,      \* application.registry of the last desktop
    result,        \* the exit status of lvgl-sessiond
    sessions, damage    \* bounds

vars == <<platform, store, high, phase, foreground, running, registry, result, sessions, damage>>

BuiltIn  == {Desktop, Game, Installer}
Reserved == {Desktop, Installer}    \* of the ids modelled; top.lvgl.platform is no program

Release  == [counter : 1..MaxCounter, name : Names, whole : BOOLEAN]
Entry    == [app : Apps \cup BuiltIn, name : Names, counter : 0..MaxCounter]

TypeOK ==
    /\ platform \in [linked : BOOLEAN, whole : BOOLEAN, supported : BOOLEAN, bound : BOOLEAN]
    /\ store \in [Apps -> Seq(Release)]
    /\ phase \in {"down", "starting", "running"}
    /\ foreground \in Apps \cup BuiltIn
    /\ registry \subseteq Entry

-----------------------------------------------------------------------------
(* What is installed, and what of it can be verified.                      *)

InstalledIds == {a \in Apps \ Reserved : store[a] # <<>>}

\* More directories than the registry can hold give no list at all.
installed_application_ids ==
    IF Cardinality(InstalledIds) > MaxApplications THEN {} ELSE InstalledIds

\* Every file the signed table names is there with its size, mode and digest.
installed_files_match(release) == release.whole

\* The signed package beside the release verifies, belongs to this id and
\* counter, suits the device, and every file on disk is the one it describes.
verify_application_release(a, n) ==
    /\ a \notin Reserved
    /\ Len(store[a]) >= n
    /\ installed_files_match(store[a][n])

verify_installed_application(a) == a \in Apps /\ verify_application_release(a, 1)

application_uid_is_unique(a) ==
    \A b \in (BuiltIn \cup installed_application_ids) \ {a} : Uid[b] # Uid[a]

\* The counter of the release whose entry is opened; 0 is the built-in program.
\* A built-in program that was installed as well falls back to the built-in one.
Openable(a) ==
    IF verify_installed_application(a) THEN {store[a][1].counter}
    ELSE IF a \in BuiltIn THEN {0} ELSE {}

\* A personal profile runs every program as root and needs no uid of its own.
open_verified_program(a) ==
    IF platform.bound => application_uid_is_unique(a) THEN Openable(a) ELSE {}

-----------------------------------------------------------------------------
(* The registry.                                                           *)

InstalledEntries ==
    {[app |-> a, name |-> store[a][1].name, counter |-> store[a][1].counter] :
        a \in {b \in installed_application_ids : verify_installed_application(b)}}

BuiltInEntry(a) == [app |-> a, name |-> "plain", counter |-> 0]

\* Wrong variant: the built-in game is listed beside an installed one.
RegistryEntries_GameTwice ==
    InstalledEntries \cup {BuiltInEntry(a) : a \in {Game, Installer}}

RegistryEntries ==
    InstalledEntries
      \cup {BuiltInEntry(a) : a \in {Game, Installer} \ {e.app : e \in InstalledEntries}}

\* encode_application_registry sorts nothing and drops nothing: one entry it
\* cannot hold, one id twice or one entry too many, and there is no registry.
valid_application(e) == e.name # "control"

encode_application_registry(entries) ==
    /\ Cardinality(entries) \in 1..MaxApplications
    /\ \A e \in entries : valid_application(e)
    /\ \A e, f \in entries : e.app = f.app => e = f

\* load_registry: the desktop decodes by the same rules and shows itself first.
Shown == {Desktop} \cup {e.app : e \in registry}

-----------------------------------------------------------------------------
(* lvgl-sessiond.                                                          *)

Init ==
    /\ platform \in [linked : BOOLEAN, whole : BOOLEAN, supported : BOOLEAN, bound : BOOLEAN]
    /\ store = [a \in Apps |-> <<>>]
    /\ high = [a \in Apps |-> 0]
    /\ phase = "down"
    /\ foreground = Desktop
    /\ running = 0
    /\ registry = {}
    /\ result = 0
    /\ sessions = 0
    /\ damage = 0

\* The executable is the one in the release the link `current` points to.
resolve_self_release == platform.linked

\* The signed session profile names this machine and platform version.
package_supports_session_profile == platform.supported

\* verify_active_release: the executable lies in the release `current` points
\* to, and that release, its signed profile and this machine fit together.
verify_active_release ==
    resolve_self_release /\ platform.whole /\ package_supports_session_profile

Start ==
    /\ phase = "down"
    /\ sessions < MaxSessions
    /\ sessions' = sessions + 1
    /\ foreground' = Desktop
    /\ IF verify_active_release
       THEN phase' = "starting" /\ result' = 0
       ELSE phase' = phase /\ result' = 71
    /\ UNCHANGED <<platform, store, high, running, registry, damage>>

End(status) ==
    /\ phase' = "down"
    /\ result' = status
    /\ UNCHANGED <<platform, store, high, foreground, running, registry, sessions, damage>>

Runs(counter) ==
    /\ phase' = "running"
    /\ running' = counter
    /\ UNCHANGED <<platform, store, high, foreground, result, sessions, damage>>

\* Wrong variant: the registry of the first desktop serves the whole session.
Registered_Once(entries) == IF registry = {} THEN entries ELSE registry

\* The file is written anew and renamed over the old one for every desktop.
Registered(entries) == entries

\* build_desktop_registry and atomic_registry; without a registry no desktop.
ServeDesktop ==
    /\ phase = "starting"
    /\ foreground = Desktop
    /\ open_verified_program(Desktop) # {}
    /\ IF encode_application_registry(RegistryEntries)
       THEN registry' = Registered(RegistryEntries) /\ Runs(0)
       ELSE End(85)

DesktopUnavailable ==
    /\ phase = "starting"
    /\ foreground = Desktop
    /\ open_verified_program(Desktop) = {}
    /\ End(75)

RunProgram ==
    /\ phase = "starting"
    /\ foreground # Desktop
    /\ \E counter \in open_verified_program(foreground) : Runs(counter)
    /\ UNCHANGED registry

\* rollback_application_after_failure: if the previous release verifies, it
\* becomes the current one and the failed one is quarantined.
RolledBack(a) ==
    IF a \in Apps /\ verify_application_release(a, 2)
    THEN [store EXCEPT ![a] = <<@[2]>>] ELSE store

BackToDesktop(newStore) ==
    /\ store' = newStore
    /\ foreground' = Desktop
    /\ phase' = "starting"
    /\ UNCHANGED <<platform, high, running, registry, result, sessions, damage>>

ProgramUnavailable ==
    /\ phase = "starting"
    /\ foreground # Desktop
    /\ open_verified_program(foreground) = {}
    /\ BackToDesktop(RolledBack(foreground))

\* The desktop launches what it shows; it cannot launch itself.
Launch(a) ==
    /\ phase = "running"
    /\ foreground = Desktop
    /\ a \in Shown \ {Desktop}
    /\ foreground' = a
    /\ phase' = "starting"
    /\ UNCHANGED <<platform, store, high, running, registry, result, sessions, damage>>

Home == phase = "running" /\ foreground # Desktop /\ BackToDesktop(store)

Crash == phase = "running" /\ foreground # Desktop /\ BackToDesktop(RolledBack(foreground))

ExitSession == phase = "running" /\ End(0)

-----------------------------------------------------------------------------
(* What changes the store: the installer program (InstallerBroker models   *)
(* its requests) and damage.                                               *)

Changed(newStore) ==
    /\ store' = newStore
    /\ UNCHANGED <<platform, phase, foreground, running, registry, result, sessions>>

\* A newer release becomes the current one and the old one the previous one.
\* The policy outlives removals and rollbacks: no counter is installed again.
InstallRelease(a, name) ==
    /\ phase = "running"
    /\ foreground = Installer
    /\ high[a] < MaxCounter
    /\ FoldFunction(+, 0, high) < MaxInstalls
    /\ high' = [high EXCEPT ![a] = @ + 1]
    /\ LET new == [counter |-> high[a] + 1, name |-> name, whole |-> TRUE]
       IN Changed([store EXCEPT ![a] = IF @ = <<>> THEN <<new>> ELSE <<new, @[1]>>])
    /\ UNCHANGED damage

RemoveRelease(a) ==
    /\ phase = "running"
    /\ foreground = Installer
    /\ store[a] # <<>>
    /\ Changed([store EXCEPT ![a] = <<>>])
    /\ UNCHANGED <<high, damage>>

Damage(a) ==
    /\ damage < MaxDamage
    /\ store[a] # <<>>
    /\ store[a][1].whole
    /\ damage' = damage + 1
    /\ Changed([store EXCEPT ![a][1].whole = FALSE])
    /\ UNCHANGED high

Next ==
    \/ Start \/ ServeDesktop \/ DesktopUnavailable \/ RunProgram \/ ProgramUnavailable
    \/ Home \/ Crash \/ ExitSession
    \/ \E a \in Apps \cup BuiltIn : Launch(a)
    \/ \E a \in Apps, name \in Names : InstallRelease(a, name)
    \/ \E a \in Apps : RemoveRelease(a) \/ Damage(a)

Spec == Init /\ [][Next]_vars

-----------------------------------------------------------------------------
(* Properties.                                                             *)

\* Whatever is installed, removed, rolled back or damaged: a session that had
\* a verified platform release ends for want of a registry (status 85) only
\* when a name or the number of applications is beyond what the registry holds.
DesktopLostOnlyToLimits ==
    result = 85 =>
      \/ \E a \in InstalledIds : store[a][1].name = "control"
      \/ Cardinality(InstalledIds \cup {Game, Installer}) > MaxApplications

\* A launch runs the release the desktop listed. It fails, or falls back to
\* the built-in program, only when that release is damaged or the uid is not
\* the application's own (build_desktop_registry against open_verified_program).
\* When more applications are installed than a list can hold, none of them is
\* listed, and what the built-in game's entry starts is the installed one.
LaunchAsListed ==
    phase = "starting" /\ foreground # Desktop
      /\ (phase' = "running" \/ foreground' = Desktop) =>
    \E e \in registry :
      /\ e.app = foreground
      /\ \/ phase' = "running" /\ running' = e.counter
         \/ foreground \in InstalledIds /\ ~store[foreground][1].whole
         \/ foreground = Game /\ Cardinality(InstalledIds) > MaxApplications
         \/ ~application_uid_is_unique(foreground)

LaunchesWhatWasListed == [][LaunchAsListed]_vars

\* Between the listing and the launch the current release of an entry stays what it
\* was: only the installer program changes it, and that one ends in a new desktop.
Listed ==
    \/ phase = "running" /\ foreground = Desktop
    \/ phase = "starting" /\ foreground # Desktop

StillCurrent(e) ==
    \/ /\ e.app \in Apps \ Reserved /\ store[e.app] # <<>>
       /\ store[e.app][1].counter = e.counter
    \/ /\ e.app \in {Game, Installer} /\ e.counter = 0
       /\ verify_installed_application(e.app) =>
            e.app = Game /\ Cardinality(InstalledIds) > MaxApplications

RegistryInv ==
    /\ store \in [Apps -> Seq(Release)]
    /\ high \in [Apps -> 0..MaxCounter]
    /\ Listed => \A e \in registry : StillCurrent(e)
    /\ phase = "starting" /\ foreground # Desktop => \E e \in registry : e.app = foreground
    /\ result = 85 => phase = "down"
    /\ DesktopLostOnlyToLimits

\* docs/architecture/overview.md:48: the session makes a registry of at most
\* 64 applications and hands it to the desktop. Of what the installer accepts,
\* nothing keeps the desktop from being served.
DesktopIsServed == result # 85

=============================================================================
