# TLA+ models of the LVGL pen platform

This directory holds TLA+ modules for the platform's own logic, TLC
configurations that check them on small instances, and TLAPS proofs. Everything
is modelled from the source; file names below are relative to the repository.

## 1. The system

A dictionary pen runs a mini-program host (Falcon). A Falcon page (*launcher*)
starts `lvgl-sessiond`, which shows one native program at a time in a hole of the
page, forwards touches to it and serves its storage and installer requests. A
second page (*manager*) installs the platform itself.

| Component | Source | State | Operations | Talks to |
|---|---|---|---|---|
| Release state, install policy | `platform/src/storage/release_state.cpp`, `platform/src/package/rollback_policy.cpp` | none (pure) | select, activate, roll back, evaluate policy | everything below |
| State store | `platform/src/storage/state_store.cpp` | two slots per application, their directories | persist, load | installer, session daemon, manager |
| Installer, staging | `platform/src/package/package_installer.cpp`, `platform/src/storage/safe_path.cpp` | release directories | install | state store |
| Session daemon | `platform/src/session/session_daemon.cpp` | foreground, desktop failures, `session.status`, child | main loop, `run_foreground` | child (four sockets), Falcon pages (status file), state store |
| Storage broker, `AppStorage` | the same, `platform/src/ipc/storage_protocol.cpp`, `src/runtime/app_storage.cpp` | records, run's directory descriptor, request ids | read, write_atomic | socket pair |
| Installer broker, inbox, installer program | the same, `platform/src/services`, `platform/src/ipc/installer_protocol.cpp`, `src/runtime/installer_client.cpp`, `apps/installer` | tombstones, tokens, lists on the screen | scan, install, roll back, remove | socket pair, state store |
| Application registry, desktop | `platform/src/session/application_registry.cpp`, `src/session/app_registry.cpp`, `apps/launcher` | sealed registry of a session | build, decode, launch | daemon, desktop |
| Package format | `tools/lvapp`, `platform/src/package/package_verifier.cpp`, `platform/src/trust`, `platform/src/crypto` | packages | build, sign, verify | installer |
| Touch path | page, `Launcher::sendTouch`, `platform/src/session/touch_router.cpp`, `src/platform/input` | contacts in four places, nonce, sequence | press, move, release, cancel | `touch.sock`, child |
| Screen mapping | `platform/src/profile`, `src/platform/device_profile`, `src/tools/evdev_inject.cpp` | profile | map and unmap coordinates | touch path, display |
| Display, sandbox | `src/platform/drm`, `src/runtime/runtime_sandbox.cpp` | buffers, plane or CRTC | open, present, recover, close | kernel |
| Runtime and shell | `src/runtime`, `src/shell` | loop, panel, dialogs | ready, home, launch, exit | control socket |
| Falcon launcher | `launcher/src`, `launcher/native/src` | page state, session pid | start, poll, stop, touch | `session.status`, `/proc` |
| Falcon manager | `manager/src`, `manager/native/src` | platform directory, page state | inspect, install, remove | package installer, `session.status` |
| Applications | `apps/game-2048`, `apps/focus_timer` | board, best score, undo; timer | user input | storage |
| Mini-program SDK | `launcher/native/iot-miniapp-sdk` | promises, worker threads, templates, subscriptions | call, publish, JSON | page, native modules |

What is hard in it:

* **Power loss and kills** between any two system calls of an install, a
  rollback, a removal or a record write; `fsync` that fails after the rename it
  follows; short writes; directories found already made and never synced.
* **Interleaving** of the single-threaded daemon with the child it supervises;
  of a page, which may be hidden, shown or unloaded between any two steps, with
  its native calls; of a worker thread that expires with the call queued on it.
* **Blocking**: `send()` without a timeout on threads that nothing replaces.
* **Late answers** on sockets whose client gave up waiting, and to pages that
  have begun another life.
* **State remembered on both sides**: contacts in the page, the native module,
  the router and the program, across switches of the foreground.
* **Shared state behind descriptors**: `dup()` shares a directory position; the
  framebuffers of a program belong to an open file that the daemon holds too.
* **Limits**: registry entries, tombstone nodes, touch queue, storage quota.
* **Two implementations of one thing**: the tool and the device read the same
  package format, the test tool and the device the same coordinates.
* **Long legal sequences** of install, rollback, remove that must not bring back
  a quarantined release.

`PROJECT.json` lists each of them, with its line, under `hazards`.

## 2. Modules

| Module | Models | Run |
|---|---|---|
| `ReleaseState` | the pure decisions on a release state | `release_store` |
| `ReleaseRegister` | abstract specification: one crash-safe register | `release_store` |
| `ReleaseStore` | the two-slot store, staging, install, rollback, removal | `release_*` |
| `FileWrites` | the system calls of one file write, in pieces | `release_store` |
| `InstallerBroker` | inbox, broker, client and screens of the installer | `release_store`, `installer_damaged` |
| `DesktopRegistry` | building and reading the registry, launching from it | `release_store`, `registry` |
| `PackageFormat` | packages from `lvapp` to `verify_package` | `release_store` |
| `SessionDaemon` | `main`, `run_foreground`, the child, signals, the deadline | `session*`, `falcon` |
| `StorageBroker` | `AppStorage`, socket, broker, record files | `programs`, `storage_quota` |
| `TouchPath` | a touch from the page to the program | `programs` |
| `ScreenMapping` | coordinates: profile, pixel and touch | `programs` |
| `JsonText` | values, JSON text and canonical JSON | `programs` |
| `DisplayPath` | `DrmBackend`, the daemon's descriptor, the filter | `programs` |
| `AppRuntime` | the loop of a program, shell, desktop page | `programs` |
| `Game2048`, `FocusTimer` | the two applications | `programs` |
| `FalconManager` | the manager page and its native module | `programs` |
| `JsObjects` | life of script objects, publishing | `programs` |
| `FalconLauncher` | the launcher page and its native module | `falcon`, `launcher_path` |
| `JsCalls` | asynchronous native calls of a page | `falcon` |
| `Programs`, `Stores`, `Falcon` | the components of one run side by side, each an instance | the runs of that name |
| `MC*` | the values of the constants, and which component runs | |
| `Queues` | lemmas on sequences used as queues | TLAPS |
| `ReleaseStateProofs`, `ReleaseStoreProofs`, `SessionDaemonProofs`, `StorageBrokerProofs` | theorems about one module | TLAPS |
| `StoresProofs`, `ProgramsProofs`, `FalconProofs` | theorems about the instances in `Stores`, `Programs`, `Falcon` | TLAPS |

Modules meet at what one leaves for the other: `SessionDaemon` and
`InstallerBroker` extend `ReleaseState` and use its transitions, and that a
persist either installs the new state or keeps the old one is what `ReleaseStore`
shows; `FalconManager` commits a release in one step for the same reason;
`FalconLauncher` and `FalconManager` see a session through `session.status`, as
`SessionDaemon` writes it; `TouchPath` and `ScreenMapping` split a touch into its
order and its place. Operators named `X_Something` before a definition `X` are
deliberately wrong variants: each property is shown to fail with one of them in
place of the right definition.

### 2.1 ReleaseStore

One application's policy directory (`dir`, `slot`) and payloads (`payload`). Each
variable has a twin `...Disk`, the set of values that a power loss can leave: a
rename or mkdir adds to it, a successful `fsync` of the directory narrows it.
Operations run one system call per action (`pc`): `Install` checks trust, state
and policy in the order of the code; `StageRename`/`StageSync` or `StageExisting`;
`Activate`; `EnsureDirectory`/`SyncDirectory` for the two policy directories;
`WriteFirst`, `SyncFirst`, `WriteSecond`, `SyncSecond`, `SyncParents`. Every call
may fail (`io`, `sync`), and the process may be killed or the power lost at any
label. That a slot is never torn is shown in `FileWrites`; `.stage-` directories
and slot temporaries that a failure leaves are never read again (nor removed).

Only one process operates on an application: the daemon holds `session.lock` and
the manager installs the platform id, which the daemon refuses.

### 2.2 FileWrites

Five writers (slot, record, status, registry, release) as sequences of calls
(`Calls`), under the same fault model one level down: a file has pieces, and a
power loss keeps any prefix of an unsynced one and any subset of unsynced entries.
`ensure_directory_at`, `ensure_private_storage` and `stage_verified_release` skip
the `fsync` of something that an interrupted attempt left; `missed` records that,
and `OldOrNew` makes that exception for records and releases, not for slots. A
directory that an attempt makes is empty, whatever the disk had under that name.

### 2.3 SessionDaemon

Daemon control is `dpc`: startup, publish, open, fork, then the loop of
`run_foreground` (poll, serve, terminate), settle, final, ended. `polled` is what
`poll()` reported; sockets are served in the order of the code, one action each,
and the child moves in between. The deadline test and `waitpid(WNOHANG)` at the
end of an iteration are one action: they look at different things, so a child
step between them can be moved before or after both. The child starts, presents
(`ready`), reads touch frames, calls a broker, asks for something and exits; with
faults it crashes, hangs, or sends any control message at any time. Exit codes
are 0 or 1 ("any other"). Every application is taken to have the storage
capability, so that a hang-up of that socket is always seen. Verification of a
release is membership in `payload`, chosen freely at start. Broker requests are
served whole in one action; what they do in detail is `StorageBroker`,
`InstallerBroker` and `ReleaseStore`.

### 2.4 StorageBroker

A run is one stay of the application in the foreground: `ensure_private_storage`
opens the directory once and `scan_storage` iterates over a `dup()` of that
descriptor. `scanned` and `unread` model the shared position: the first scan of a
run sees every entry, later ones none of those, and perhaps (this depends on the
file system) entries made since. `requests` and `responses` are the two
directions of the socket; a client that times out leaves its request and the
answer to come in them. `durable` is what each record may hold after a power loss.
A failure of `unlinkat` or `fstatat` in the middle of a scan is not modelled.

### 2.5 InstallerBroker

The installer program has two lists (inbox, installed), a selection, a dialog and
one request under way; `InstallerClient` numbers requests and gives up after 30 s;
the broker answers one request per action. Tokens are what they hash: a package's
digest, or an application's id, directory and state. `debris` counts the nodes of
unfinished removals, `NodeLimit` what one cleanup may remove. The inbox changes at
any time, and a datagram may be answered late or twice (`replay`). `approved` and
`effects` are history: what the user confirmed and what the broker did.
The audit log is written and never read, and left out.

### 2.6 DesktopRegistry and PackageFormat

`DesktopRegistry` follows sessions: `resolve_self_release`, verification of every
installed application, `build_desktop_registry`, the encoding, what the desktop
decodes, and `open_verified_program`. Applications are installed and removed
between and during sessions, packages carry names the registry refuses, releases
are damaged. User ids are hashes, and two ids of the instance collide.

`PackageFormat` builds a package from a project as `lvapp` does (normalised paths,
limits, header, manifest, file table, payload, envelope), damages any part of it
on its way and verifies it as `verify_package` does, in its order. A signature is
the value it was made over, and the key.

### 2.7 Falcon launcher, manager and their SDK

A page is one thread: an action is what runs from one `await` to the next. Calls
carry the `generation` they were made in; `answers` are results that have not
resumed the page. In `FalconLauncher` the daemon is what the module can see of it
(`/proc`, `session.status`, the platform link). In `FalconManager` the native
thread executes an operation step by step (`pc`: inspect, prepare, stage, commit,
activate, clean up; look for a session, isolate, delete), each of which may fail, and
the application may be killed between two. A step that fails may have done its work: a
rename stands when the `fsync` after it fails. The session is forked, looks for its
release and publishes its status in steps of its own, also between a removal's look at
`session.status` and its rename; `late` remembers a session that did. `JsCalls` is what both rely on: `JQNamedThread` with its
queue and keep-alive, `JQAsyncExecutor` and the looper that settles promises.
`JsObjects` follows one address through the life of the objects that are made
there: template maps, executor and subscriptions, and a delivery whose callbacks
subscribe, unsubscribe, publish, throw or drop the object. The subscriptions are a
set: their tokens give the order the code keeps them in.

### 2.8 Touch, screen, display

`TouchPath`: fingers touch the transparent layer; the page gives them contact ids,
`sendTouch` numbers the frames under the nonce of the session, the router drops
what is stale, out of order or unknown, the program follows contact 0. The
foreground, the session and the visibility of the page change between any two of
these. `ScreenMapping` has every conversion with its rounding and clamping, on screens
small enough to try each pixel, and the kernel's filtering of events that change
nothing. A profile has a transform for the display and another for the touch panel,
which the parser compares with nothing. What the panel reports is scaled from its own
range to the screen (`Scaled`, which rounds toward zero); `evdev_inject` writes pixels,
so a tap is exact where the panel counts pixels (`InPixels`) and on the screen
elsewhere. The panel has not been touched before it is opened, and the 32-bit overflow
of a scaled value is left out. `DisplayPath` has two ways to the screen, plane (`overlay`) and CRTC,
with the descriptor shared between daemon and program, flips that time out and may
still complete, and the system call filter.

### 2.9 Programs and text

`AppRuntime` is `run_platform_application` with shell and desktop: one transition
of the pointer per round, dialogs that stack, sends that fail. `Game2048` has the
rules with tiles of 16 bits that saturate, the two animation phases, the queued swipe,
undo and the record. Its board is a row of three in `game`, for long games, and the
4x4 one of the code in `board`, for one move of 27 boards with gaps, runs of three and
four, two merges in a line and tiles that cannot be doubled. `FocusTimer` counts ticks
below a second and lets events come before the refresh, but no time pass once the
refresh is due: the loop draws before it sleeps again. `JsonText` reads and writes text symbol by symbol and is the one place
where characters matter: escapes, surrogates, numbers, comments, and the canonical
form that a signature covers. A number has two types that disagree: the SDK sends the
tag it has in JavaScript (int32 or float64), the reader goes by the length of its
text. `TextIsRead` says that a page reads back what it sent, as `===` sees it, and that
`Bson::operator==` holds exactly where the two types agree.

## 3. Runs

| Run | Expect | Question |
|---|---|---|
| `release_store` | pass | Release store: do the slots split, lose a reported state, or revive a quarantined release, and is it one register? Installer: is what is done and reported what was approved, and does removal progress? Registry, package format, file writes. |
| `release_payload_killed` | violation | Is the active release's payload on the disk after a kill? Finding 2. |
| `release_retry` | violation | Does an interrupted install succeed when repeated? Finding 1. |
| `session` | pass | Children, published status and quarantine under errors, crashes, hangs and rogue programs. |
| `session_home_race` | violation | Is only a failure rolled back? Finding 3. |
| `session_stop_hung` | violation | Does the session end when a program hangs? Finding 4. |
| `programs` | pass | Ten components: records, touches, coordinates, text, display, loop, game (on two boards), timer, manager, objects. |
| `storage_quota` | violation | Is the quota enforced on every write? Finding 5. |
| `falcon` | pass | Liveness of session, launcher and native calls. |
| `launcher_path` | violation | Is a ready session recognised? Finding 6. |
| `installer_damaged` | violation | Does the broker answer when a package is damaged? Finding 7. |
| `registry` | violation | Is the desktop served whatever is installed? Finding 8. |

**One component at a time.** `MCStores`, `MCPrograms` and `MCFalcon` put several
independent components into one run: the initial state chooses one of `Chosen`
(`turn`), which runs alone while the others keep their first state. The states
explored are the sum, not the product, of the components, and each is explored as
if alone. `MCStores` extends `ReleaseStore` and `Stores`, `MCPrograms` extends
`StorageBroker` and `Programs`, `MCFalcon` extends `SessionDaemon` and `Falcon`.
`Stores`, `Programs` and `Falcon` declare constants and variables for each component
(with a prefix of its own), instantiate the component with them and assume of the
constants what its module assumes; the cfg gives them their values, TLC evaluates
the assumptions, and the proofs are about the same instances with the constants left
open.

**Bounds.**
Releases: three packages (two to activate, one to go on after a rollback), further
ones with a foreign key, a stale epoch, a reused counter, no trust or no
compatibility, and two faults; `MaxGeneration` is small so that the refusal at the
last generation is reached. Files: two pieces, two attempts, one failure, one power
loss: an attempt that relies on what another left behind. Installer: two packages
of one application, of which none, one or two are installed at the start, eight
requests (to install, upgrade, roll back, remove and clean up), one change of the
inbox, one fault; a removed release has one node more
than a cleanup removes. Registry: four applications, 2048 among them, where three
entries are the limit: the list of installed applications as well as the registry can
be too long, with and without the built-in game; four installs, one damage. Packages: two projects, two keys, two changes on
the way.
Session: one application with two releases, which also has a copy in the platform
release (`BuiltInApps`), two faults, touch capacity 1 (a full
queue is reached after one frame); the ready deadline and the signal are not faults
and always possible, so three desktop failures in a row are reached. Storage: two
records, contents of two sizes, two calls per run, any number of runs, one fault.
Touch: three fingers and two contacts (a third finger finds none free, and one
contact is not the one the program follows), two frames in a queue, four frames: a
contact that is left over, the start that is refused for it, its end, and a start
that is accepted; one switch of the foreground, one fault. Manager: two releases, one session, three
operations: an installation, a removal that leaves more than a cleanup may delete (a
removed platform has two nodes at least, its releases and the rest, a cleanup deletes
one), and an installation that meets what is left. Mapping: panels that count pixels
with both ends in use, one that is finer and does not begin at 0, one without a range.
The remaining
components: three to four steps of
what the user does, one or two faults, and the smallest sizes at which a property
can fail (a row of three cells, screens of two to four pixels, presets of one to
three seconds, three calls of a page); the full board of 2048 makes one move and can
undo it, with tiles of up to 15 in place of 65535. `MaxScore` of `Game2048` is above any score its
moves can reach. States contain no counter other than the
bounded ones, so more steps add no new kinds of state.

**Deadlock** is not checked in runs of bounded components, which stop at their
bounds, nor in `session`, where a hung program with a full touch queue stops the
daemon: that is finding 4. In the liveness runs stopping is what is checked.

**Fairness.** Session: the daemon takes a step when it can (one thread, poll
timeout 100 ms, SIGTERM then SIGKILL with a second's grace); time passes; a program
that is neither hung nor dead reads its touch socket each frame (`input_read`), and
one that left its loop exits. Nothing is assumed of a program becoming ready: the
deadline takes care of that. Launcher: a native call returns, its result resumes
the page, a timer fires. Calls: each worker thread runs and the looper executes its
tasks; nothing is assumed of the keep-alive. As one component runs, `FairAnySpec`
states conditions of different modules as one. In `release_retry` the running
operation goes on and the package is presented again.

## 4. Findings

1. **A first install can be blocked for ever** (`release_retry`).
   `persist_release_state` makes the policy directory durable before the first
   slot; an interruption between leaves a directory without state, which
   `install_official_package_with_state_root` refuses as uninitialized.
2. **An active release without payload** (`release_payload_killed`).
   `stage_verified_release` takes a release directory that is already there
   without syncing its parent.
3. **A healthy application is quarantined** (`session_home_race`). HOME and exit
   between `poll()` and `waitpid` count as a failure. A hang-up of the storage
   socket can also end the loop before a queued HOME is read.
4. **A hung program cannot be stopped** (`session_stop_hung`). The blocking
   `send()` of a touch frame; `std::signal` restarts it after SIGTERM.
5. **The storage quota is not enforced** (`storage_quota`) after the first request
   of a run: `scan_storage` finds the shared directory position at the end. For the
   same reason replacing a record is refused with `quota_exceeded`, and the first
   read of the next run may find more than the quota and answer `storage_corrupt`.
6. **The launcher recognises no session** (`launcher_path`): it expects the
   executable's path below the link `current`, the kernel reports the resolved one.
7. **A damaged package ends the installer** (`installer_damaged`): a candidate that
   failed verification has no identity, the answer that should name it cannot be
   encoded, the broker sends none, and `run_foreground` ends the installer with 91.
   (A file that cannot even be read is passed over.)
8. **One application too many ends every session** (`registry`): the registry is
   encoded as a whole or not at all, and the desktop that could remove one is not
   started.

Each is quoted against the documentation in `PROJECT.json`. Smaller observations,
met while modelling and not stated as runs:

* `launcher/src/pages/index/index.vue`: leaving the page during a launch leaves
  `requestActive` set until the page is unloaded; `onHide` does not stop the
  session, which design 2026-08-24 line 165 asks for. The manager page has the
  same pattern with `busy`.
* A session that a signal ends publishes `STATE=error`, and the manager then
  refuses to remove the platform until the next session has stopped.
* A removal looks at `session.status` (`Manager.cpp:378`) some calls before it renames
  the platform (`:402`): a session that publishes in between, or that is forked and has
  not yet published, loses the files it runs from. Design 2026-08-24 line 146 says that
  removal stops the session; the code only refuses where it sees one.
* `parse_device_profile` does not compare the touch transform with the display's: a
  profile whose touches mean other pixels than the ones under the finger is accepted.
* SDK: an int32 of ten digits, a whole float64 and -0 do not come back from text as
  they were sent: `Bson::operator==` tells int and double apart.
* An application is quarantined at its first failed start (design 2026-08-24
  lines 250-252 speak of repeated ones); when 2048 falls back to the built-in copy,
  a failure may roll back a release that did not run.
* The installer calls an operation that timed out "not committed"
  (`apps/installer/installer_ui.cpp:158`); it may be carried out later.
* `lvapp` limits a name by UTF-16 units, the device by bytes; the device accepts an
  application id that begins with `-`, the tool does not.
* `AppStorage` errors at the start of 2048 let the next save overwrite the record.
* A focus timer paused between its deadline and the next refresh shows 00:00 and
  stays paused.
* SDK: typed-array views are sent with their whole buffer, strings and keys end at
  a NUL; `Thread::start` that fails leaves a dead worker in the map of named
  threads; a subscription that throws for a non-function is kept and stops later
  deliveries; `attempt_refStrong` (`REF.h`) increments before it looks, so two
  concurrent promotions of a dead object can both succeed; `_setProperty` keeps the
  first of two properties; `~JQBaseObject` on a worker reads template maps without a
  lock.

## 5. Proofs

The theorems hold for every value of the constants that the assumptions allow: any
number of packages, applications, records, fingers, contacts, releases, any sizes and
any number of faults. Every invariant below was checked by TLC on the instance of its
run before it was proved. The assumptions are named `...Assumption` (in `Stores`,
`Programs` and `Falcon`: `...Instance`), say what the code's types and constants say,
and are evaluated by TLC in the passing runs.

| Module | Theorem | States |
|---|---|---|
| `ReleaseStoreProofs` | `TypeCorrectness`, `StoreInvariance` | `TypeOK`, `StoreInv` |
| | `SlotsNeverSplit`, `ReportedStateSurvives`, `QuarantineHolds` | `NoSplitBrain`, `AckedPolicySurvives`, `QuarantineIsForever` |
| | `StoreImplementsRegister` | `ImplementsRegister` |
| `SessionDaemonProofs` | `TypeCorrectness`, `SessionInvariance` | `TypeOK`, `SessionInv` |
| | `NoChildOutlivesItsTurn`, `HoleIsTrue`, `StoppedIsTrue`, `RollbackHitsWhatRan` | `NoStrayChild`, `HoleMeansPresented`, `StoppedMeansAsked`, `QuarantinesWhatRan` |
| `StorageBrokerProofs` | `StorageTypes`, `StorageInvariance` | `TypeOK`, `StorageInv` |
| | `ReportedWriteSurvives`, `NoLeftovers`, `ReadIsTrue` | `AckedWriteSurvives`, `LeftoversAreRemoved`, `ReadsWhatWasWritten` |
| `StoresProofs` | `DesktopLostToLimits`, `LaunchIsAsListed` | `DesktopLostOnlyToLimits`, `LaunchesWhatWasListed` |
| | `BrokerDoesWhatWasApproved`, `DoneIsTrue` | `ApprovedByUser`, `SuccessMeansDone` |
| | `RemovalsComeToAnEnd` | `CleanupProgresses` |
| | `AcceptedAsSigned`, `ToolAgreesWithDevice` | `VerifiedMeansAsSigned`, `ToolAndDeviceAgree` |
| | `FilesAreOldOrNew` | `OldOrNew` |
| `ProgramsProofs` | `FrameTearsNothing`, `ScreenIsGivenBack` | `NeverDrawOnScreen`, `PictureHasOwner` |
| | `RoundsAreHonest`, `OneRequestAfterReady` | `RoundIsHonest`, `ReadyThenOneRequest` |
| | `ManagerIsTrue`, `SessionKeepsPlatform` | `PlatformAsShown`, `RemovalSparesSession` |
| | `GesturesAreHealed`, `TouchesAreWhereDrawn` | `GesturesHeal`, `TouchIsWhereDrawn` |
| | `GamesAreRestorable`, `BestIsKept` | `SavedIsRestorable`, `BestSurvives` |
| | `ObjectsLeaveNothing` | `NothingLeftBehind` |
| `FalconProofs` | `AnswersKeepOrder`, `OneLaunchOnePoll` | `AnswersInOrder`, `OneChain` |

None of these properties is inductive as it stands. What each argument adds:

* **Release store** (`StoreInv`). Every value a slot may come back with is absent or
  sound and can be replaced by (`Older`) the visible state, two of the same generation
  being equal (`SlotsInv`); the state being persisted follows the visible one and,
  until its first rename, has a generation no slot has yet (`TargetInv`); directories
  exist in the order they are made (`DirsInv`); the last reported state is durable in
  the slot its generation is written to first, and everything newer is above its
  high-water marks (`AckedInv`); a quarantined counter is clean (`Clean`) in every
  value on disk from the report on, and in the state being persisted
  (`QuarantineInv`). It rests on lemmas about the pure operators: what activation and
  rollback return is sound, follows the state it was computed from, and keeps clean
  counters clean (`ActivationFollows`, `RollbackFollows`), and selection from a chain
  returns its newest member (`SelectNewest`).
* **The register.** From `StoreInv` and `TargetIsNext` (the state being persisted is
  what one of the operations makes of the state that was loaded), each step of the
  store is a step of `ReleaseRegister` or leaves its variables alone: the first rename
  is the moment a state may survive, `SyncParents` the one at which it must.
* **Session daemon** (`SessionInv`). By the control label: which sockets and which
  child there are, what the child has said that is still in a socket, and what
  `session.status` may hold; `ran` is the release of the foreground except where the
  built-in copy of an application ran. That exception is the code's: after
  `open_verified_program` has fallen back, a failure rolls back the release that is
  current (`session_daemon.cpp:1949`), although another one failed.
* **Storage broker** (`StorageInv`). What the broker is doing with which request, what
  waits in both directions of the socket under which id, and what the disk may hold of
  each record, in terms of what the client may expect. That a late answer is not taken
  for another needs that ids only grow, in the socket as in the client.
* **Registry** (`RegistryInv`). Between listing and launch the current release of an
  entry stays what it was. The exception for more installed applications than the list
  can hold is the code's too (`session_daemon.cpp:704`): the list comes back empty, the
  built-in game is offered in its place, and what it starts is the installed one.
* **Installer** (`BrokerInv`). A mutation on the way carries an approved token, an
  answer on the way that says "ready" tells of an effect, and between approval and
  request the selection stays (`OneAtATime`). That refusals bring removals to an end
  needs `DebrisInv`: only the broker adds an answer, one for each request, and what an
  application has on the disk is finite.
* **Packages** (`PackageInv`, `AgreementInv`). Wherever a package is, its envelope was
  made for something signed; what nobody changed satisfies every check of the device.
* **File writes** (`FilesInv`). The invariant follows the calls of each writer, along
  both what the names lead to and all that a power loss may leave of them. What the
  disk may have under a final name is whole (`Whole`), because the file is written in
  full and synced before its rename (`CreatedInv`, `SingleInv`), and a release
  directory gets its name only after everything in it is settled (`Sealed`,
  `ReleaseInv`). A directory above is settled after the call that syncs its parent
  (`Standing`), unless an attempt found it made by another and went on: the exception
  `missed`. What was reported is settled from the root down, and nothing older is left
  under its name (`ReportedInv`).
* **Display, loop, timer** (`DisplayInv`, `RuntimeInv`, `TimerInv`). A program that may
  draw has no flip in flight; touches of the first iteration cannot end on a button;
  what has run and what is left make up the duration up to the rounding.
* **Manager** (`ManagerInv`). Of the calls and answers under way at most one changes
  the platform, and unless a result is being shown the last of them, or the snapshot,
  says what is there. A removal goes on only when no session has said that it is there
  (`SaidSo`); one that says so while the removal is between its look and its rename is
  `late`, the exception that `RemovalSparesSession` makes, since nothing in the code
  excludes it. A session that has not said so yet is not spared either.
* **Touches** (`TouchInv`). `OrderInv` puts the numbers in the socket between what the
  router has seen and what the native module has given. `GestureInv` follows each
  contact: its frames in the socket alternate between gestures (`Alternating`), what
  the page holds down is what the last of them left (`Held`), and what router and
  program still have of it is ended by the first of them (`Follows`, `EndFirst`,
  `Loose`), unless an end was lost.
* **Mapping** (`MappingInv`, `CornersSuffice`). A rotation takes a point between where
  it takes the corners, so that the corner check of `parse_device_profile` is enough
  for every pixel of every screen, and `inverse_rotate` undoes it where nothing is
  clamped, for the touch transform by itself as for the display's. A value is scaled
  one too far at most where the panel counts pixels, and the clamp takes that back; any
  other range ends on the screen. For the tap: what is left to write is the end of the tap, the kernel has
  what was written so far, and the pointer will have it when the queue is read
  (`Leaves`). That on the fixed screen every logical pixel has a place on the touch
  panel is part of `MappingAssumption`; `kY01Profile` satisfies it.
* **Native calls** (`CallsInv`), **launcher** (`LauncherInv`). A call is in one place
  at a time and the places follow each other in order, and a named thread that leaves
  has nothing queued; a launch under way holds `requestActive`, and what carries an
  older generation changes nothing.

* **2048** (`GameInv`). The game and the one that undo goes back to have the phase of
  their board and no more than the best score, and so has the record (`Restorable`);
  while the program runs the record's best score is not above the one shown, unless a
  start could not read it. That a new game goes on needs a cell that neither of its
  two tiles takes, hence three cells in `GameAssumption`. How a move adds up its score
  is not needed: it is bounded by `MaxScore`, as the number of moves is, and a tile
  that is full is not doubled.
* **Script objects** (`MembersInv`, `ReferencesInv`). A detached object is given no
  member that only an attached one gives back. Tokens only grow while an object has
  subscriptions, so that a new one is not lost among them; the deliveries under way
  begin and end innermost (`LastDelivery`), and each gives back what it took, whatever
  was subscribed, dropped or detached in between.

Only model-checked:

* liveness (`ScreenProgress`, `StopEndsSession`, `DeadHoleDisappears`,
  `EveryCallSettles`): liveness under fairness is out of the prover's reach;
* `TextIsRead`, `OneTextPerManifest`: `JsonText` reads text with recursive operators;
* `MotionsMatch`: it compares what two folds over the lines of a board compute, which
  would need induction over data (it is checked on both boards);
* the violated properties of the findings.

## 6. Not modelled

* Drawing: fonts, layout, colours, LVGL itself; QuickJS (its headers are part of
  the repository) and the SDK's iterators, properties, caches, loopers and atomics,
  which the two native modules do not use or which are primitives here.
* Hash and signature arithmetic: a digest is the value it is taken of.
* Diagnostics and probes, which print what a device reports.
* Build and release scripts other than `lvapp`: offline steps without shared state.
* The audit log: written, never read.
