---------------------------- MODULE SessionDaemon ---------------------------
(***************************************************************************)
(* lvgl-sessiond, platform/src/session/session_daemon.cpp: the main loop   *)
(* that keeps exactly one foreground program running and run_foreground,   *)
(* the event loop that supervises it.  The daemon is single threaded; its  *)
(* steps interleave with those of the foreground child, of the touch       *)
(* source and of whoever sends it a termination signal.  The child is the  *)
(* SDK runtime (src/runtime) or any program that may crash, hang or send   *)
(* anything; what it does is modelled from how the daemon sees it.         *)
(*                                                                         *)
(* Release states are the values of ReleaseState; that persisting one      *)
(* either succeeds or leaves the old value is what ReleaseStore shows.     *)
(* Of an exit code only whether it is 0 matters: 1 stands for every other. *)
(***************************************************************************)
EXTENDS ReleaseState, Integers, Sequences, FiniteSets

CONSTANTS
    Desktop, Installer,   \* top.lvgl.desktop and top.lvgl.installer, reserved and built in
    Apps,                 \* installable application ids
    BuiltInApps,          \* those with a built-in fallback (top.lvgl.game2048)
    Packages,             \* packages of every application
    Installed,            \* the release state of each application at start
    TouchCapacity,        \* frames the child's touch socket queues before send() blocks
    Faults,               \* which faults occur: a subset of FaultKinds
    MaxFaults             \* bound on their number

FaultKinds == {"io", "crash", "hang", "rogue"}
Programs   == {Desktop, Installer} \cup Apps
Counters   == {p.counter : p \in Packages}

ASSUME SessionAssumption ==
    /\ Desktop # Installer /\ Desktop \notin Apps /\ Installer \notin Apps
    /\ BuiltInApps \subseteq Apps
    /\ Packages \subseteq PackageRecords
    /\ Installed \in [Apps -> ReleaseStates]
    /\ TouchCapacity \in Nat \ {0}
    /\ Faults \subseteq FaultKinds
    /\ MaxFaults \in Nat

VARIABLES
    dpc,               \* where the daemon is
    foreground,        \* the program to run
    desktopFailures,   \* consecutive failures of the desktop
    exitRequested,
    result,            \* exit code so far
    outcome,           \* run_foreground's ForegroundOutcome
    ready, exited,     \* run_foreground's flags
    polled,            \* descriptors the last poll() found readable
    status,            \* the published session.status
    gStop,             \* g_stop: a termination signal arrived
    late,              \* the ready deadline has passed
    child,             \* the foreground process
    control,           \* its messages on the control socket
    requests,          \* its pending requests to the storage and installer brokers
    touchQueue,        \* frames queued for the child
    policy,            \* each application's persisted release state
    payload,           \* the releases of each application that verify
    faults,
    ran,               \* history: the release run_foreground was given, 0 if built in
    blame,             \* history: the child has done something wrong
    asked,             \* history: what the foreground program last asked for
    presented          \* history: it has put a frame on the screen

daemonVars == <<dpc, foreground, desktopFailures, exitRequested, result>>
runVars    == <<outcome, ready, exited, polled>>
childVars  == <<child, control, requests, touchQueue>>
storeVars  == <<policy, payload>>
history    == <<ran, blame, asked, presented>>
vars == <<daemonVars, runVars, status, gStop, late, childVars, storeVars, faults, history>>

Message(command, app) == [command |-> command, app |-> app]
Messages == {Message("launch", p) : p \in Programs}
                \cup {Message(c, Desktop) : c \in {"ready", "home", "exit", "garbage"}}
NoMessage == Message("none", Desktop)
NoOutcome == [action |-> "failure", app |-> Desktop, result |-> 0]
NoChild   == [phase |-> "none", code |-> 0]
Running   == {"poll", "serve", "terminate"}
Sockets   == {"control", "touch", "storage", "installer"}

\* Wrong variant: hole_ready is not reset when the next program starts.
Starting_KeepsHole == [state |-> "starting", result |-> 0, hole |-> status.hole]

Starting == [state |-> "starting", result |-> 0, hole |-> FALSE]

ReadyStatus == [state |-> "ready", result |-> 0, hole |-> TRUE]

FinalStatus ==
    [state |-> IF result = 0 THEN "stopped" ELSE "error", result |-> result, hole |-> FALSE]

\* atomic_status fails before its rename, or in the fsync after it.
MayPublish(new) == status' \in {status, new}

DesktopFailureLimit == 3

Alive == child.phase \in {"starting", "running", "leaving", "hung"}

Init ==
    /\ dpc = "startup"
    /\ foreground = Desktop
    /\ desktopFailures = 0
    /\ exitRequested = FALSE
    /\ result = 0
    /\ outcome = NoOutcome
    /\ ready = FALSE /\ exited = FALSE /\ polled = {}
    /\ status = [state |-> "absent", result |-> 0, hole |-> FALSE]
    /\ gStop = FALSE
    /\ late = FALSE
    /\ child = NoChild /\ control = <<>> /\ requests = {} /\ touchQueue = 0
    /\ policy = Installed
    /\ payload \in [Apps -> SUBSET Counters]   \* a damaged release does not verify
    /\ faults = 0
    /\ ran = 0 /\ blame = FALSE /\ asked = NoMessage /\ presented = FALSE

Fault(kind) ==
    /\ kind \in Faults
    /\ faults < MaxFaults
    /\ faults' = faults + 1

-----------------------------------------------------------------------------
(* main() *)

\* Verification of the own release, session.lock, touch.sock, nonce, first status.
Startup ==
    /\ dpc = "startup"
    /\ \/ dpc' = "publish" /\ status' = Starting /\ UNCHANGED faults
       \/ Fault("io") /\ dpc' = "ended" /\ MayPublish(Starting)
    /\ UNCHANGED <<foreground, desktopFailures, exitRequested, result, runVars, gStop, late,
                   childVars, storeVars, history>>

\* Wrong variant: the loop is left and the error code is not recorded.
EndWith_KeepsResult(code) ==
    /\ dpc' = "final"
    /\ UNCHANGED <<foreground, desktopFailures, exitRequested, result>>

EndWith(code) ==
    /\ dpc' = "final"
    /\ result' = code
    /\ UNCHANGED <<foreground, desktopFailures, exitRequested>>

GoHome ==
    /\ dpc' = "publish"
    /\ foreground' = Desktop
    /\ UNCHANGED <<exitRequested, result>>

\* Head of the main loop.
Publish ==
    /\ dpc = "publish"
    /\ \/ /\ gStop \/ exitRequested
          /\ EndWith(result)
          /\ UNCHANGED <<status, faults>>
       \/ /\ ~gStop /\ ~exitRequested
          /\ status' = Starting
          /\ dpc' = "open"
          /\ UNCHANGED <<foreground, desktopFailures, exitRequested, result, faults>>
       \/ /\ ~gStop /\ ~exitRequested
          /\ Fault("io")
          /\ EndWith(1)
          /\ MayPublish(Starting)
    /\ UNCHANGED <<runVars, gStop, late, childVars, storeVars, history>>

\* Wrong variant: the previous release is run when the current one does not verify.
open_verified_program_FallsBack(p) ==
    IF p \in Apps /\ policy[p] # NoState /\ policy[p].current \in payload[p]
    THEN policy[p].current
    ELSE IF p \in Apps /\ policy[p].previous \in payload[p] THEN policy[p].previous
    ELSE IF p \in {Desktop, Installer} \cup BuiltInApps THEN 0 ELSE -1

\* open_verified_program: which release of the program can be run, 0 for the
\* one built into the platform release, -1 for none.
open_verified_program(p) ==
    IF p \in Apps /\ policy[p] # NoState /\ policy[p].current \in payload[p]
    THEN policy[p].current
    ELSE IF p \in {Desktop, Installer} \cup BuiltInApps THEN 0 ELSE -1

\* rollback_application_after_failure: the states it can leave.  Nothing changes
\* when there is no verified release to go back to or the state cannot be rolled
\* back, nor when persisting fails.
rollback_application_after_failure(p) ==
    IF /\ p \in Apps
       /\ policy[p].previous \in payload[p]
       /\ rollback_release(policy[p], TRUE) # NoState
    THEN {[policy EXCEPT ![p] = rollback_release(policy[p], TRUE)]}
            \cup (IF "io" \in Faults THEN {policy} ELSE {})
    ELSE {policy}

\* The program is opened and, for the desktop, the registry written; an
\* application gets its private storage.
Open ==
    /\ dpc = "open"
    /\ \/ /\ open_verified_program(foreground) # -1
          /\ ran' = open_verified_program(foreground)
          /\ dpc' = "fork"
          /\ UNCHANGED <<foreground, desktopFailures, exitRequested, result, policy, faults>>
       \/ /\ foreground = Desktop         \* no executable, no registry
          /\ Fault("io")
          /\ EndWith(1)
          /\ UNCHANGED <<policy, ran>>
       \/ /\ foreground # Desktop         \* no executable
          /\ \/ open_verified_program(foreground) = -1 /\ UNCHANGED faults
             \/ open_verified_program(foreground) # -1 /\ Fault("io")
          /\ policy' \in rollback_application_after_failure(foreground)
          /\ GoHome
          /\ UNCHANGED <<desktopFailures, ran>>
       \/ /\ foreground \in Apps          \* no private storage
          /\ open_verified_program(foreground) # -1
          /\ Fault("io")
          /\ GoHome
          /\ UNCHANGED <<desktopFailures, policy, ran>>
    /\ UNCHANGED <<runVars, status, gStop, late, childVars, payload, blame, asked, presented>>

\* After run_foreground.
Settle ==
    /\ dpc = "settle"
    /\ \/ /\ gStop
          /\ EndWith(1)
          /\ UNCHANGED policy
       \/ /\ ~gStop
          /\ outcome.action = "exit"
          /\ exitRequested' = TRUE
          /\ result' = 0
          /\ dpc' = "publish"
          /\ UNCHANGED <<foreground, desktopFailures, policy>>
       \/ /\ ~gStop
          /\ outcome.action = "launch"
          /\ foreground' = outcome.app
          /\ desktopFailures' = 0
          /\ dpc' = "publish"
          /\ UNCHANGED <<exitRequested, result, policy>>
       \/ /\ ~gStop
          /\ outcome.action = "home"
          /\ GoHome
          /\ desktopFailures' = 0
          /\ UNCHANGED policy
       \/ /\ ~gStop
          /\ outcome.action = "failure"
          /\ foreground # Desktop
          /\ policy' \in rollback_application_after_failure(foreground)
          /\ GoHome
          /\ desktopFailures' = 0
       \/ /\ ~gStop
          /\ outcome.action = "failure"
          /\ foreground = Desktop
          /\ result' = 1
          /\ desktopFailures' = desktopFailures + 1
          /\ dpc' = IF desktopFailures' >= DesktopFailureLimit THEN "final" ELSE "publish"
          /\ UNCHANGED <<foreground, exitRequested, policy>>
    /\ UNCHANGED <<runVars, status, gStop, late, childVars, payload, faults, history>>

\* The last status; that it could not be written is ignored.
Final ==
    /\ dpc = "final"
    /\ dpc' = "ended"
    /\ \/ status' = FinalStatus /\ UNCHANGED faults
       \/ Fault("io") /\ MayPublish(FinalStatus)
    /\ UNCHANGED <<foreground, desktopFailures, exitRequested, result, runVars, gStop, late,
                   childVars, storeVars, history>>

-----------------------------------------------------------------------------
(* run_foreground *)

Goto(label) ==
    /\ dpc' = label
    /\ UNCHANGED <<foreground, desktopFailures, exitRequested, result>>

\* Socket pairs, DRM device, fork.  The ready deadline starts with the child.
Start ==
    /\ dpc = "fork"
    /\ ready' = FALSE /\ exited' = FALSE /\ polled' = {}
    /\ control' = <<>> /\ requests' = {} /\ touchQueue' = 0
    /\ late' = FALSE
    /\ blame' = FALSE
    /\ asked' = NoMessage
    /\ presented' = FALSE
    /\ \/ /\ outcome' = NoOutcome
          /\ child' = [NoChild EXCEPT !.phase = "starting"]
          /\ Goto("poll")
          /\ UNCHANGED faults
       \/ /\ Fault("io")
          /\ outcome' = [NoOutcome EXCEPT !.result = 1]
          /\ child' = NoChild
          /\ Goto("settle")
    /\ UNCHANGED <<status, gStop, storeVars, ran>>

\* Leave the loop with an error.
Break ==
    /\ outcome' = [outcome EXCEPT !.result = 1]
    /\ Goto("terminate")

\* What poll() reports: a socket whose peer is gone is readable.  Besides, a touch
\* frame may be waiting at any time; one that TouchRouter::route drops changes
\* nothing here and counts as none.
Readable ==
    {d \in Sockets :
        \/ d = "control" /\ (control # <<>> \/ ~Alive)
        \/ d = "storage" /\ foreground \in Apps /\ (d \in requests \/ ~Alive)
        \/ d = "installer" /\ foreground = Installer /\ (d \in requests \/ ~Alive)}

\* Wrong variant: the loop does not look at g_stop.
Polls_IgnoresStop == ~exited /\ outcome.action = "failure"

Polls == ~exited /\ ~gStop /\ outcome.action = "failure"

Poll ==
    /\ dpc = "poll"
    /\ \/ ~Polls /\ Goto("terminate") /\ UNCHANGED <<outcome, polled, faults>>
       \/ /\ Polls
          /\ polled' \in {Readable} \cup (IF ready THEN {Readable \cup {"touch"}} ELSE {})
          /\ Goto("serve")
          /\ UNCHANGED <<outcome, faults>>
       \/ Polls /\ Fault("io") /\ Break /\ UNCHANGED polled
    /\ UNCHANGED <<ready, exited, status, gStop, late, childVars, storeVars, history>>

\* The sockets poll() reported are served in the order of the code.
Serves(d) ==
    /\ dpc = "serve"
    /\ d \in polled
    /\ \A e \in polled \ {d} :
           CASE d = "control"   -> TRUE
             [] d = "touch"     -> e # "control"
             [] d = "storage"   -> e \notin {"control", "touch"}
             [] d = "installer" -> FALSE
    /\ polled' = polled \ {d}

Accepts(m) ==
    /\ ready
    /\ \/ m.command = "exit"
       \/ m.command = "launch" /\ foreground = Desktop /\ m.app # Desktop
       \/ m.command = "home" /\ foreground # Desktop

IsFirstReady(m) == m.command = "ready" /\ ~ready

Control ==
    /\ Serves("control")
    /\ \/ control = <<>> /\ Break /\ UNCHANGED <<ready, status, control, faults, asked>>
       \/ /\ control # <<>>
          /\ control' = Tail(control)
          /\ LET m == Head(control)
             IN \/ /\ IsFirstReady(m)
                   /\ ready' = TRUE
                   /\ \/ /\ status' = ReadyStatus
                         /\ Goto("serve")
                         /\ UNCHANGED <<outcome, faults>>
                      \/ Fault("io") /\ Break /\ MayPublish(ReadyStatus)
                   /\ UNCHANGED asked
                \/ /\ Accepts(m)
                   /\ outcome' = [outcome EXCEPT !.action = m.command, !.app = m.app]
                   /\ asked' = m
                   /\ Goto("serve")
                   /\ UNCHANGED <<ready, status, faults>>
                \/ /\ ~IsFirstReady(m) /\ ~Accepts(m)
                   /\ Break
                   /\ UNCHANGED <<ready, status, faults, asked>>
    /\ UNCHANGED <<exited, gStop, late, child, requests, touchQueue, storeVars, ran, blame,
                   presented>>

\* send() waits while the child's queue is full.
Touch ==
    /\ Serves("touch")
    /\ \/ /\ Alive /\ touchQueue < TouchCapacity
          /\ touchQueue' = touchQueue + 1
          /\ Goto("serve")
          /\ UNCHANGED outcome
       \/ ~Alive /\ Break /\ UNCHANGED touchQueue
    /\ UNCHANGED <<ready, exited, status, gStop, late, child, control, requests, storeVars, faults,
                   history>>

\* A request that a program left behind is still served; only the answer fails.
Served(d) ==
    /\ Serves(d)
    /\ requests' = requests \ {d}
    /\ IF Alive THEN Goto("serve") /\ UNCHANGED outcome ELSE Break

Storage ==
    /\ Served("storage")
    /\ UNCHANGED <<ready, exited, status, gStop, late, child, control, touchQueue, storeVars, faults,
                   history>>

\* What a lifecycle request can do to application p: install a package, roll
\* back to the previous release, or remove the releases and keep the state.
Installs(p) ==
    \E q \in Packages :
        /\ evaluate_install_policy(q, policy[p])
        /\ activation_state_for(q, policy[p]) # NoState
        /\ policy' = [policy EXCEPT ![p] = activation_state_for(q, policy[p])]
        /\ payload' = [payload EXCEPT ![p] = @ \cup {q.counter}]

RollsBack(p) ==
    /\ policy[p].previous \in payload[p]
    /\ rollback_release(policy[p], FALSE) # NoState
    /\ policy' = [policy EXCEPT ![p] = rollback_release(policy[p], FALSE)]
    /\ UNCHANGED payload

Removes(p) ==
    /\ payload' = [payload EXCEPT ![p] = {}]
    /\ UNCHANGED policy

ServeInstaller ==
    /\ Served("installer")
    /\ \/ "installer" \in requests /\ \E p \in Apps : Installs(p) \/ RollsBack(p) \/ Removes(p)
       \/ UNCHANGED storeVars               \* a query, refused, or nothing was asked
    /\ UNCHANGED <<ready, exited, status, gStop, late, child, control, touchQueue, faults, history>>

\* Wrong variant: there is no ready deadline.
Overdue_Never == FALSE

Overdue == ~ready /\ late

\* The end of an iteration: the ready deadline, then waitpid(WNOHANG).
Reap ==
    /\ dpc = "serve" /\ polled = {}
    /\ \/ Overdue /\ Break /\ UNCHANGED <<exited, child>>
       \/ ~Overdue /\ Alive /\ Goto("poll") /\ UNCHANGED <<outcome, exited, child>>
       \/ /\ ~Overdue /\ ~Alive
          /\ exited' = TRUE
          /\ outcome' = [outcome EXCEPT !.result = 1]
          /\ child' = NoChild
          /\ Goto("poll")
    /\ UNCHANGED <<ready, polled, status, gStop, late, control, requests, touchQueue, storeVars,
                   faults, history>>

\* Wrong variant: no SIGKILL for a child that ignores SIGTERM.
AfterTermination_SigtermOnly == IF child.phase = "hung" THEN child ELSE NoChild

AfterTermination == NoChild

\* SIGTERM, a second's grace, SIGKILL: a child that does not react is killed.
\* The code that waitpid() returns counts only if nothing else was decided.
Terminate ==
    /\ dpc = "terminate"
    /\ Goto("settle")
    /\ child' = AfterTermination
    /\ exited' = TRUE
    /\ \E code \in (IF child.phase = "dead" THEN {child.code}
                    ELSE IF child.phase = "hung" THEN {1} ELSE {0, 1}) :
          outcome' = [outcome EXCEPT !.result =
                         IF \/ gStop
                            \/ ~exited /\ outcome.action = "failure" /\ code = 1
                         THEN 1 ELSE outcome.result]
    /\ UNCHANGED <<ready, polled, status, gStop, late, control, requests, touchQueue, storeVars,
                   faults, history>>

Daemon ==
    \/ Startup \/ Publish \/ Open \/ Start \/ Poll \/ Control \/ Touch \/ Storage
    \/ ServeInstaller \/ Reap \/ Terminate \/ Settle \/ Final

-----------------------------------------------------------------------------
(* The foreground child: src/runtime/platform_runtime.cpp, app_control.cpp. *)

Says(m) ==
    /\ Len(control) < 2
    /\ control' = Append(control, m)

\* The first frame is on the screen.
ChildReady ==
    /\ child.phase = "starting"
    /\ Says(Message("ready", Desktop))
    /\ child' = [child EXCEPT !.phase = "running"]
    /\ presented' = TRUE
    /\ UNCHANGED <<requests, touchQueue, blame, faults>>

\* What the shell lets the user ask for; the program then leaves its loop.
Choices ==
    IF foreground = Desktop
    THEN {Message("launch", p) : p \in Programs \ {Desktop}} \cup {Message("exit", Desktop)}
    ELSE {Message("home", Desktop), Message("exit", Desktop)}

ChildAsks ==
    /\ child.phase = "running"
    /\ \E m \in Choices : Says(m)
    /\ child' = [child EXCEPT !.phase = "leaving"]
    /\ UNCHANGED <<requests, touchQueue, blame, faults, presented>>

ChildExits ==
    /\ child.phase = "leaving"
    /\ child' = [child EXCEPT !.phase = "dead"]
    /\ UNCHANGED <<control, requests, touchQueue, blame, faults, presented>>

\* A crash, or an exit without a command.
ChildCrashes ==
    /\ child.phase \in {"starting", "running", "leaving"}
    /\ Fault("crash")
    /\ \E code \in {0, 1} : child' = [child EXCEPT !.phase = "dead", !.code = code]
    /\ blame' = TRUE
    /\ UNCHANGED <<control, requests, touchQueue, presented>>

ChildHangs ==
    /\ child.phase \in {"starting", "running"}
    /\ Fault("hang")
    /\ child' = [child EXCEPT !.phase = "hung"]
    /\ blame' = TRUE
    /\ UNCHANGED <<control, requests, touchQueue, presented>>

\* A program that does not follow the protocol.
ChildGoesRogue ==
    /\ child.phase \in {"starting", "running"}
    /\ Fault("rogue")
    /\ \E m \in Messages : Says(m)
    /\ blame' = TRUE
    /\ UNCHANGED <<child, requests, touchQueue, presented>>

ChildReadsTouch ==
    /\ child.phase = "running"
    /\ touchQueue > 0
    /\ touchQueue' = touchQueue - 1
    /\ UNCHANGED <<child, control, requests, blame, faults, presented>>

ChildCallsBroker ==
    /\ child.phase = "running"
    /\ requests = {}
    /\ \/ foreground \in Apps /\ requests' = {"storage"}
       \/ foreground = Installer /\ requests' = {"installer"}
    /\ UNCHANGED <<child, control, touchQueue, blame, faults, presented>>

OnlyChild ==
    UNCHANGED <<daemonVars, runVars, status, gStop, late, storeVars, ran, asked>>

Child ==
    /\ \/ ChildReady \/ ChildAsks \/ ChildExits \/ ChildCrashes \/ ChildHangs \/ ChildGoesRogue
       \/ ChildReadsTouch \/ ChildCallsBroker
    /\ OnlyChild

-----------------------------------------------------------------------------
(* The rest of the world.                                                  *)

\* The ready deadline passes; a program not ready by now is at fault.
TimePasses ==
    /\ ~late /\ ~ready /\ dpc \in Running
    /\ late' = TRUE
    /\ blame' = TRUE
    /\ UNCHANGED <<daemonVars, runVars, status, gStop, childVars, storeVars, faults, ran,
                   asked, presented>>

StopSignal ==
    /\ ~gStop /\ dpc # "ended"
    /\ gStop' = TRUE
    /\ UNCHANGED <<daemonVars, runVars, status, late, childVars, storeVars, faults, history>>

\* The session is over.
Ended == dpc = "ended" /\ UNCHANGED vars

Next == Daemon \/ Child \/ TimePasses \/ StopSignal \/ Ended

Spec == Init /\ [][Next]_vars

\* The daemon and the clock run on; a program that is alive and not hung reads
\* its touch frames (input_read polls them every frame), and one that has left
\* its loop exits.
FairSpec ==
    /\ Spec
    /\ WF_vars(Daemon)
    /\ WF_vars(TimePasses)
    /\ WF_vars(ChildReadsTouch /\ OnlyChild)
    /\ WF_vars(ChildExits /\ OnlyChild)

-----------------------------------------------------------------------------
(* Properties *)

\* Every variable keeps its type.
TypeOK ==
    /\ dpc \in Running \cup {"startup", "publish", "open", "fork", "settle", "final", "ended"}
    /\ foreground \in Programs
    /\ desktopFailures \in 0..3
    /\ exitRequested \in BOOLEAN
    /\ result \in {0, 1}
    /\ outcome \in [action: {"failure", "exit", "launch", "home"}, app: Programs, result: {0, 1}]
    /\ ready \in BOOLEAN /\ exited \in BOOLEAN /\ gStop \in BOOLEAN /\ late \in BOOLEAN
    /\ polled \subseteq Sockets
    /\ status \in [state: {"absent", "starting", "ready", "error", "stopped"},
                   result: {0, 1}, hole: BOOLEAN]
    /\ child \in [phase: {"none", "starting", "running", "leaving", "hung", "dead"},
                  code: {0, 1}]
    /\ control \in Seq(Messages) /\ Len(control) <= 2
    /\ requests \subseteq {"storage", "installer"}
    /\ touchQueue \in 0..TouchCapacity
    /\ policy \in [Apps -> ReleaseStates]
    /\ payload \in [Apps -> SUBSET Counters]
    /\ faults \in 0..MaxFaults
    /\ ran \in Counters \cup {0}
    /\ blame \in BOOLEAN
    /\ asked \in Messages \cup {NoMessage}
    /\ presented \in BOOLEAN

\* Before the next program is opened, and before the daemon ends, the child that
\* ran is gone and reaped: there is never a second foreground process, nor one
\* that outlives the session.
NoStrayChild == dpc \notin Running => child = NoChild

\* session.status says HOLE_READY=1 only while the program it was published for
\* has put a frame on the screen (unless the program itself misbehaved), never
\* for the one that replaces it.
HoleMeansPresented == status.hole => presented \/ blame

\* STATE=stopped, which lets the manager replace the platform, is published only
\* when the running program asked for the end of the session or a signal did.
StoppedMeansAsked == status.state = "stopped" => asked.command = "exit" \/ gStop

\* When run_foreground's failure makes the daemon roll an application back, the
\* release it quarantines is the one that was run.  The exception: of an application
\* with a fallback in the platform release, that fallback may be what ran and failed.
QuarantinesWhatRan ==
    [][dpc = "settle" /\ policy' # policy
          => \/ policy'[foreground].quarantined = ran
             \/ ran = 0 /\ foreground \in BuiltInApps]_vars

\* The screen never stays dark for ever: again and again a program reports that
\* it is on the screen, or the session is over and Falcon gets the screen back.
SessionProgress == []<>(status.hole \/ dpc = "ended")

\* A session that is told to stop does.
StopEndsSession == gStop ~> (dpc = "ended")

\* docs/architecture/overview.md: a dynamic application is rolled back, and its
\* release quarantined, when it failed to start or crashed.
OnlyFailuresRollBack == [][dpc = "settle" /\ policy' # policy => blame]_vars

=============================================================================
