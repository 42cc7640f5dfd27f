---------------------------- MODULE FalconManager ---------------------------
(***************************************************************************)
(* The Falcon manager that installs, repairs, upgrades and removes the     *)
(* platform: its page (manager/src/pages/index/index.vue with              *)
(* services/manager.js and manager-state.js) and its native module         *)
(* (Manager.cpp, JSManager.cpp), next to a session that the launcher may   *)
(* start at any time.                                                      *)
(*                                                                         *)
(* A transaction is executed by one native thread in steps; it can be      *)
(* killed with the application between two of them.  A step that fails may *)
(* have done its work: what was renamed is there when its fsync fails.     *)
(* Committing a release is one step, as ReleaseStore shows.                *)
(***************************************************************************)
EXTENDS Integers, Sequences, FiniteSets, FiniteSetsExt

CONSTANTS
    Releases,      \* release counters, 1..n
    NodeLimit,     \* kRemovalNodeLimit: a release is one node, all the rest (0) is one
    MaxShows,      \* bound on how often the page is shown
    MaxSessions,   \* bound on the sessions started
    MaxRequests,   \* bound on the operations asked for
    MaxPending,    \* bound on the calls and answers under way
    MaxFaults      \* bound on failed steps and kills

VARIABLES
    root,          \* /userdisk/apps/lvgl-platform is there
    releases, link,\* its releases, and the release `current` leads to, or 0
    stored,        \* current_release of the policy state, or 0
    degraded,      \* the policy state has one good slot only
    debris,        \* nodes of each .lvgl-platform-removed- directory
    bundled,       \* the release this manager carries
    session, file, \* lvgl-sessiond and the state in session.status
    late,          \* history: it said so after a removal had looked, before that was done
    calls, answers, pc,                                   \* the native module
    loaded, active, busy, overlay, confirmingRemove, snapshot,   \* the page
    shows, sessions, requests, faults

disk    == <<root, releases, link, stored, degraded, debris>>
daemon  == <<session, file, late, sessions>>
native  == <<calls, answers, pc>>
page    == <<loaded, active, busy, overlay, confirmingRemove, snapshot>>
bounds  == <<shows, requests, faults>>
vars    == <<disk, bundled, daemon, native, page, bounds>>

Nothing == [available |-> FALSE, installed |-> FALSE, repairRequired |-> FALSE,
            updateAvailable |-> FALSE]

Init ==
    /\ root = FALSE /\ releases = {} /\ link = 0 /\ stored = 0 /\ degraded = FALSE /\ debris = {}
    /\ bundled = 1
    /\ session = "none" /\ file = "none" /\ late = FALSE /\ sessions = 0
    /\ calls = <<>> /\ answers = <<>> /\ pc = "idle"
    /\ loaded = FALSE /\ active = FALSE /\ busy = FALSE
    /\ overlay = FALSE /\ confirmingRemove = FALSE /\ snapshot = Nothing
    /\ shows = 0 /\ requests = 0 /\ faults = 0

Fault == faults < MaxFaults /\ faults' = faults + 1

-----------------------------------------------------------------------------
(* Manager.cpp: one call at a time, under mutex_ *)

Installed == stored \in releases

inspectUnlocked ==
    [available |-> TRUE,
     installed |-> Installed,
     repairRequired |-> stored # 0 /\ (degraded \/ ~Installed \/ link # stored),
     updateAvailable |-> stored # 0 /\ bundled > stored]

Call == Head(calls)

Answer(result) ==
    /\ pc' = "idle"
    /\ calls' = Tail(calls)
    /\ answers' = Append(answers, [kind |-> Call.kind, current |-> Call.current,
                                   outcome |-> result])

Goto(label) == pc' = label /\ UNCHANGED <<calls, answers>>

NativeInspects ==
    /\ pc = "idle" /\ calls # <<>> /\ Call.kind = "inspect"
    /\ Answer(inspectUnlocked)
    /\ UNCHANGED <<disk, bundled, daemon, page, bounds>>

\* What a failed installation answers knows nothing of what is installed.
InstallFails == Answer(Nothing)

\* cleanupRemovalTombstones, and the roots.  The limit is for all tombstones together.
InstallPrepares ==
    /\ pc = "idle" /\ calls # <<>> /\ Call.kind \in {"install", "repair", "upgrade"}
    /\ \/ /\ Cardinality(debris) <= NodeLimit
          /\ debris' = {} /\ root' = TRUE
          /\ Goto("stage")
          /\ UNCHANGED faults
       \/ /\ Cardinality(debris) > NodeLimit
          /\ \E rest \in kSubset(Cardinality(debris) - NodeLimit, debris) : debris' = rest
          /\ InstallFails
          /\ UNCHANGED <<root, faults>>
       \/ /\ Fault
          /\ \E rest \in SUBSET debris :
                /\ Cardinality(debris \ rest) <= NodeLimit
                /\ debris' = rest
                /\ root' = root \/ (rest = {} /\ root' = TRUE)      \* mkdirat, then fsync
          /\ InstallFails
    /\ UNCHANGED <<releases, link, stored, degraded, bundled, daemon, page, shows, requests>>

\* install_official_package_with_state_root: the payload, then the state.
InstallStages ==
    /\ pc = "stage"
    /\ \/ /\ bundled >= stored
          /\ releases' = releases \cup {bundled}
          /\ \/ Goto("commit") /\ UNCHANGED faults
             \/ Fault /\ InstallFails
       \/ bundled < stored /\ InstallFails /\ UNCHANGED <<releases, faults>>
       \/ Fault /\ InstallFails /\ UNCHANGED releases
    /\ UNCHANGED <<root, link, stored, degraded, debris, bundled, daemon, page, shows, requests>>

InstallCommits ==
    /\ pc = "commit"
    /\ \/ /\ stored' = bundled
          /\ degraded' = FALSE
          /\ Goto("activate")
          /\ UNCHANGED faults
       \/ /\ Fault
          /\ stored' = bundled
          /\ degraded' = TRUE                  \* the second slot, or the sync of the first
          /\ Goto("activate") \/ InstallFails
       \/ Fault /\ InstallFails /\ UNCHANGED <<stored, degraded>>
    /\ UNCHANGED <<root, releases, link, debris, bundled, daemon, page, shows, requests>>

activateRelease ==
    /\ pc = "activate"
    /\ \/ /\ link' = stored
          /\ Answer([inspectUnlocked EXCEPT !.repairRequired = degraded])
          /\ UNCHANGED faults
       \/ Fault /\ InstallFails /\ link' \in {link, stored}
    /\ UNCHANGED <<root, releases, stored, degraded, debris, bundled, daemon, page, shows, requests>>

\* Wrong variant: only a session on the screen keeps the platform.
sessionRemovalAllowed_NotReady == file # "ready"

sessionRemovalAllowed == file \in {"none", "stopped"}

\* Wrong variant: the releases are removed where they are.
Isolated_InPlace ==
    /\ releases' = {}
    /\ UNCHANGED <<root, link, debris>>

\* The platform's directory gets another name at once.
Isolated ==
    /\ root' = FALSE /\ releases' = {} /\ link' = 0
    /\ debris' = debris \cup {<<requests, node>> : node \in releases \cup {0}}

\* removeUnlocked looks whether there is a platform and a session,
RemoveChecks ==
    /\ pc = "idle" /\ calls # <<>> /\ Call.kind = "remove"
    /\ IF Installed /\ sessionRemovalAllowed THEN Goto("isolate") ELSE Answer(inspectUnlocked)
    /\ UNCHANGED <<disk, bundled, daemon, page, bounds>>

\* and, after some more calls, renames the platform without looking again.
RemoveIsolates ==
    /\ pc = "isolate"
    /\ \/ Isolated /\ Goto("erase") /\ UNCHANGED faults
       \/ /\ Fault
          /\ Answer(inspectUnlocked)
          /\ Isolated \/ UNCHANGED <<root, releases, link, debris>>
    /\ UNCHANGED <<stored, degraded, bundled, daemon, page, shows, requests>>

RemoveErases ==
    LET mine == {d \in debris : d[1] = requests}
    IN /\ pc = "erase"
       /\ \/ /\ Cardinality(mine) <= NodeLimit
             /\ debris' = debris \ mine
             /\ Answer([inspectUnlocked EXCEPT !.installed = FALSE, !.repairRequired = FALSE])
             /\ UNCHANGED faults
          \/ /\ IF Cardinality(mine) > NodeLimit THEN UNCHANGED faults ELSE Fault
             /\ \E some \in SUBSET mine :
                   /\ Cardinality(some) <= NodeLimit
                   /\ debris' = debris \ some
             /\ Answer([inspectUnlocked EXCEPT !.installed = FALSE, !.repairRequired = TRUE])
       /\ UNCHANGED <<root, releases, link, stored, degraded, bundled, daemon, page, shows, requests>>

\* A manager that carries another release replaces this one.
ManagerUpdated ==
    /\ ~loaded /\ calls = <<>>
    /\ \E r \in Releases : r # bundled /\ bundled' = r
    /\ UNCHANGED <<disk, daemon, native, page, bounds>>

-----------------------------------------------------------------------------
(* The session: the launcher forks lvgl-sessiond, which says so in its file later *)

SessionForks ==
    /\ session = "none" /\ root /\ link # 0
    /\ sessions < MaxSessions
    /\ sessions' = sessions + 1
    /\ session' = "forked"
    /\ UNCHANGED <<disk, bundled, file, late, native, page, bounds>>

\* verify_active_release: the release that `current` leads to is still there, or not.
SessionVerifies ==
    /\ session = "forked"
    /\ session' = IF root THEN "verified" ELSE "none"
    /\ UNCHANGED <<disk, bundled, file, late, sessions, native, page, bounds>>

\* The first status, and then one for each program that starts and is ready.
SessionPublishes ==
    /\ \/ /\ session = "verified"
          /\ session' = "up" /\ file' = "starting" /\ late' = (pc = "isolate")
       \/ /\ session = "up"
          /\ file' \in {"starting", "ready"} /\ UNCHANGED <<session, late>>
    /\ UNCHANGED <<disk, bundled, sessions, native, page, bounds>>

SessionEnds ==
    /\ session = "up"
    /\ session' = "none"
    /\ \/ file' \in {"stopped", "error"} /\ UNCHANGED faults
       \/ Fault /\ UNCHANGED file
    /\ UNCHANGED <<disk, bundled, late, sessions, native, page, shows, requests>>

-----------------------------------------------------------------------------
(* The page *)

\* The generation goes up: whatever is on its way belongs to an earlier one.
Outdated(s) == [i \in DOMAIN s |-> [s[i] EXCEPT !.current = FALSE]]
NewGeneration(more) ==
    /\ calls' = Outdated(calls) \o more
    /\ answers' = Outdated(answers)

Request(kind) == <<[kind |-> kind, current |-> TRUE]>>

refresh ==
    /\ Len(calls) + Len(answers) < MaxPending
    /\ NewGeneration(Request("inspect"))

onShow ==
    /\ ~active /\ shows < MaxShows
    /\ shows' = shows + 1
    /\ loaded' = TRUE /\ active' = TRUE
    /\ refresh
    /\ UNCHANGED <<disk, bundled, daemon, pc, busy, overlay, confirmingRemove, snapshot,
                   requests, faults>>

onHide ==
    /\ active
    /\ active' = FALSE
    /\ NewGeneration(<<>>)
    /\ confirmingRemove' = FALSE
    /\ UNCHANGED <<disk, bundled, daemon, pc, loaded, busy, overlay, snapshot, bounds>>

\* The application is killed, or left: what the page knew is gone.  A kill takes the
\* native thread with it; a page that is left lets it finish.
onUnload ==
    /\ loaded
    /\ loaded' = FALSE /\ active' = FALSE /\ busy' = FALSE
    /\ overlay' = FALSE /\ confirmingRemove' = FALSE /\ snapshot' = Nothing
    /\ \/ Fault /\ calls' = <<>> /\ answers' = <<>> /\ pc' = "idle"
       \/ NewGeneration(<<>>) /\ UNCHANGED <<pc, faults>>
    /\ UNCHANGED <<disk, bundled, daemon, shows, requests>>

operationEnabled(operation) ==
    /\ ~busy
    /\ CASE operation = "remove"  -> snapshot.installed
         [] operation = "install" -> snapshot.available /\ ~snapshot.installed
                                         /\ ~snapshot.repairRequired
         [] operation = "repair"  -> snapshot.available
                                         /\ (snapshot.installed \/ snapshot.repairRequired)
         [] operation = "upgrade" -> snapshot.available /\ snapshot.installed
                                         /\ snapshot.updateAvailable

execute(operation) ==
    /\ requests < MaxRequests
    /\ requests' = requests + 1
    /\ busy' = TRUE /\ overlay' = TRUE /\ confirmingRemove' = FALSE
    /\ NewGeneration(Request(operation))

selectOperation ==
    /\ active /\ ~overlay
    /\ \E operation \in {"install", "repair", "upgrade", "remove"} :
          /\ operationEnabled(operation)
          /\ \/ /\ operation = "remove"
                /\ confirmingRemove' = TRUE /\ overlay' = TRUE
                /\ UNCHANGED <<busy, calls, answers, requests>>
             \/ operation # "remove" /\ execute(operation)
    /\ UNCHANGED <<disk, bundled, daemon, pc, loaded, active, snapshot, shows, faults>>

confirmRemove ==
    /\ active /\ confirmingRemove /\ ~busy
    /\ execute("remove")
    /\ UNCHANGED <<disk, bundled, daemon, pc, loaded, active, snapshot, shows, faults>>

\* Wrong variant: the page keeps what the operation answered.
closeOverlay_NoRefresh ==
    /\ active /\ overlay /\ ~busy
    /\ overlay' = FALSE /\ confirmingRemove' = FALSE
    /\ UNCHANGED <<disk, bundled, daemon, native, loaded, active, busy, snapshot, bounds>>

closeOverlay ==
    /\ active /\ overlay /\ ~busy
    /\ overlay' = FALSE /\ confirmingRemove' = FALSE
    /\ refresh
    /\ UNCHANGED <<disk, bundled, daemon, pc, loaded, active, busy, snapshot, bounds>>

\* What follows the await in refresh and execute.
Resume ==
    /\ answers # <<>>
    /\ answers' = Tail(answers)
    /\ LET answer == Head(answers)
       IN /\ snapshot' = IF active /\ answer.current
                         THEN answer.outcome ELSE snapshot
          /\ busy' = IF answer.kind # "inspect" /\ answer.current THEN FALSE ELSE busy
    /\ UNCHANGED <<disk, bundled, daemon, calls, pc, loaded, active, overlay,
                   confirmingRemove, bounds>>

Native  == NativeInspects \/ InstallPrepares \/ InstallStages \/ InstallCommits \/ activateRelease
              \/ RemoveChecks \/ RemoveIsolates \/ RemoveErases
Session == SessionForks \/ SessionVerifies \/ SessionPublishes \/ SessionEnds
Page    == onShow \/ onHide \/ onUnload \/ selectOperation \/ confirmRemove \/ closeOverlay \/ Resume

Next == Native \/ Session \/ Page \/ ManagerUpdated

Spec == Init /\ [][Next]_vars

-----------------------------------------------------------------------------
(* Properties *)

\* The platform is removed from a session that has said it is there only if it said so
\* after the removal had looked for one: removeUnlocked looks at session.status once, some
\* calls before its rename, and lvgl-sessiond holds nothing that would stop it.
RemovalSparesSession ==
    [][releases' \subseteq releases /\ releases' # releases => session # "up" \/ late]_vars

\* `current` never leads to a release that is not there, whatever step of an
\* installation or a removal is the last one: the launcher would start nothing.  And
\* with nothing under way and no result on the screen, the page shows whether the
\* platform is installed: hiding, failures and answers nobody waits for included.
PlatformAsShown ==
    /\ link # 0 => root /\ link \in releases
    /\ active /\ ~overlay /\ calls = <<>> /\ answers = <<>> => snapshot.installed = Installed

-----------------------------------------------------------------------------
(* The inductive invariant behind both.                                    *)

Kinds == {"inspect", "install", "repair", "upgrade", "remove"}
Changing == Kinds \ {"inspect", "remove"}

QueueTypes ==
    /\ calls \in Seq([kind : Kinds, current : BOOLEAN])
    /\ answers \in Seq([kind : Kinds, current : BOOLEAN, outcome : [installed : BOOLEAN,
                         available : BOOLEAN, repairRequired : BOOLEAN,
                         updateAvailable : BOOLEAN]])

\* What the transaction under way has done so far is still there.
UnderWay ==
    /\ pc \in {"idle", "stage", "commit", "activate", "isolate", "erase"}
    /\ pc # "idle" => calls # <<>>
    /\ pc \in {"stage", "commit", "activate"} => root /\ Call.kind \in Changing
    /\ pc \in {"isolate", "erase"} => Call.kind = "remove"
    /\ pc = "commit" => bundled \in releases
    /\ pc = "activate" => stored \in releases
    /\ link # 0 => root /\ link \in releases

\* A running session has said so, until it ends, and while a removal goes on after its
\* look, since then.
SaidSo == session = "up" => file \in {"starting", "ready"} /\ (pc = "isolate" => late)

\* A page without a result on it has asked after everything else, or has the
\* answer, or shows it: nothing that changes the platform comes after the question.
Asked(s) == s # <<>> /\ s[Len(s)].kind = "inspect" /\ s[Len(s)].current = TRUE
LastAsked ==
    active /\ ~overlay =>
        \/ Asked(calls)
        \/ calls = <<>> /\ Asked(answers) /\ answers[Len(answers)].outcome.installed = Installed
        \/ calls = <<>> /\ answers = <<>> /\ snapshot.installed = Installed

ManagerInv == QueueTypes /\ degraded \in BOOLEAN /\ UnderWay /\ SaidSo /\ LastAsked
=============================================================================
