--------------------------- MODULE FalconLauncher ---------------------------
(***************************************************************************)
(* The Falcon side of a session: the launcher page                         *)
(* (launcher/src/pages/index/index.vue with services/launcher.js and       *)
(* base-page.js), its native module (Launcher.cpp, JSLauncher.cpp) and, as *)
(* far as it is visible to them, lvgl-sessiond: its processes and what     *)
(* they write into session.status.                                         *)
(*                                                                         *)
(* The page is single-threaded; a call of the native module is executed on *)
(* another thread, one at a time, and its result resumes the page later.   *)
(* Whatever happens in between, the page may have been hidden, shown again *)
(* or unloaded.  A call carries the generation of the page it belongs to.  *)
(***************************************************************************)
EXTENDS Integers, Sequences

CONSTANTS
    SameNames,     \* whether the path of a running daemon may be the one expected
    MaxStarts,     \* bound on the sessions started
    MaxShows,      \* bound on how often the page is shown
    MaxSwitches,   \* bound on the foreground switches
    MaxFaults      \* bound on crashes, removals of the platform and failed forks

LauncherAssumption == MaxStarts \in Nat

VARIABLES
    proc,          \* forked processes: "none", "forked", "up", "gone"
    file,          \* session.status
    release,       \* the platform's files are there and safe
    sameName,      \* /proc/<pid>/exe of a daemon equals kSessiond
    lastStarted,   \* lastStartedPid_
    calls, answers,                                  \* JQAsyncInfo
    loaded, active, requestActive, hole, phase, generation, timer, shown,    \* the page
    shows, switches, faults

world  == <<proc, file, release, sameName, switches>>
page   == <<loaded, active, requestActive, hole, phase, generation, timer, shown>>
vars   == <<world, lastStarted, calls, answers, page, shows, faults>>

Pids   == 1..MaxStarts
NoFile == [pid |-> 0, state |-> "none", hole |-> FALSE]
Nobody == 0      \* the generation of calls whose page has been unloaded

Init ==
    /\ proc = [p \in Pids |-> "none"]
    /\ file = NoFile
    /\ release = TRUE
    /\ sameName \in SameNames
    /\ lastStarted = 0
    /\ calls = <<>> /\ answers = <<>>
    /\ loaded = FALSE /\ active = FALSE /\ requestActive = FALSE /\ hole = FALSE
    /\ phase = "starting" /\ generation = 1 /\ timer = 0 /\ shown = 0
    /\ shows = 0 /\ switches = 0 /\ faults = 0

Fault == faults < MaxFaults /\ faults' = faults + 1

-----------------------------------------------------------------------------
(* Launcher.cpp *)

\* A process that has not executed lvgl-sessiond yet still has Falcon's executable.
validSessionProcess(p) == p # 0 /\ proc[p] = "up" /\ sameName

Status(state, pid, isHole) ==
    [state |-> state, pid |-> pid, hole |-> isHole, available |-> TRUE, accepted |-> FALSE]
Unavailable == [Status("idle", 0, FALSE) EXCEPT !.available = FALSE]

readStatus ==
    IF validSessionProcess(file.pid)
    THEN Status(IF file.state \in {"starting", "ready", "error"} THEN file.state ELSE "idle",
                file.pid, file.state = "ready" /\ file.hole)
    ELSE IF validSessionProcess(lastStarted)
         THEN Status("launching", lastStarted, FALSE)
         ELSE Status("idle", 0, FALSE)

\* readStatus forgets a start whose process is not there (yet).
LastStartedAfterRead ==
    IF validSessionProcess(file.pid) \/ validSessionProcess(lastStarted) THEN lastStarted ELSE 0

Answer(status) ==
    /\ calls' = Tail(calls)
    /\ answers' = Append(answers, [kind |-> Head(calls).kind, gen |-> Head(calls).gen,
                                   status |-> status])

\* probe and status
NativeStatus ==
    /\ calls # <<>> /\ Head(calls).kind \in {"probe", "status"}
    /\ Answer(IF release THEN readStatus ELSE Unavailable)
    /\ lastStarted' = IF release THEN LastStartedAfterRead ELSE lastStarted
    /\ UNCHANGED <<world, page, shows, faults>>

NativeStart ==
    /\ calls # <<>> /\ Head(calls).kind = "start"
    /\ \/ /\ ~release
          /\ Answer(Unavailable)
          /\ UNCHANGED <<proc, lastStarted, faults>>
       \/ /\ release
          /\ readStatus.pid # 0 /\ readStatus.state \in {"launching", "starting", "ready"}
          /\ Answer([readStatus EXCEPT !.state = IF readStatus.hole THEN "ready" ELSE "launching"])
          /\ lastStarted' = LastStartedAfterRead
          /\ UNCHANGED <<proc, faults>>
       \/ /\ release
          /\ readStatus.pid = 0 \/ readStatus.state \notin {"launching", "starting", "ready"}
          /\ \/ \E p \in Pids :
                   /\ proc[p] = "none" /\ \A q \in 1..(p - 1) : proc[q] # "none"
                   /\ proc' = [proc EXCEPT ![p] = "forked"]
                   /\ lastStarted' = p
                   /\ Answer([Status("launching", p, FALSE) EXCEPT !.accepted = TRUE])
                   /\ UNCHANGED faults
             \/ /\ Fault                    \* fork fails
                /\ Answer(readStatus)
                /\ lastStarted' = LastStartedAfterRead
                /\ UNCHANGED proc
    /\ UNCHANGED <<file, release, sameName, page, shows, switches>>

-----------------------------------------------------------------------------
(* lvgl-sessiond, as SessionDaemon has it *)

Running == {p \in Pids : proc[p] = "up"}

\* The second daemon does not get the lock of the run directory.
SessionExecutes ==
    \E p \in Pids :
        /\ proc[p] = "forked"
        /\ \/ /\ Running = {} /\ release
              /\ proc' = [proc EXCEPT ![p] = "up"]
           \/ /\ Running # {} \/ ~release
              /\ proc' = [proc EXCEPT ![p] = "gone"]
        /\ UNCHANGED <<file, release, sameName, lastStarted, calls, answers, page, shows,
                       switches, faults>>

\* The daemon publishes its state: starting, ready, and so on with every program.
SessionPublishes ==
    \E p \in Running :
        /\ \/ /\ file.pid # p
              /\ file' = [pid |-> p, state |-> "starting", hole |-> FALSE]
              /\ UNCHANGED switches
           \/ /\ file.pid = p /\ file.state = "starting"
              /\ file' = [pid |-> p, state |-> "ready", hole |-> TRUE]
              /\ UNCHANGED switches
           \/ /\ file.pid = p /\ file.state = "ready" /\ switches < MaxSwitches
              /\ file' = [pid |-> p, state |-> "starting", hole |-> FALSE]
              /\ switches' = switches + 1
        /\ UNCHANGED <<proc, release, sameName, lastStarted, calls, answers, page, shows, faults>>

\* It ends with a last status, or is killed and leaves the one it had.
SessionEnds ==
    \E p \in Running :
        /\ proc' = [proc EXCEPT ![p] = "gone"]
        /\ \/ /\ \E s \in {"stopped", "error"} :
                    file' = [pid |-> p, state |-> s, hole |-> FALSE]
              /\ UNCHANGED faults
           \/ Fault /\ UNCHANGED file
        /\ UNCHANGED <<release, sameName, lastStarted, calls, answers, page, shows, switches>>

ReleaseChanges ==
    /\ Fault
    /\ release' = ~release
    /\ UNCHANGED <<proc, file, sameName, lastStarted, calls, answers, page, shows, switches>>

-----------------------------------------------------------------------------
(* The page *)

\* Wrong variant: a request that is still on its way does not keep the next one back.
beginLaunch_Always ==
    /\ requestActive' = TRUE
    /\ hole' = FALSE /\ phase' = "starting" /\ timer' = 0
    /\ generation' = generation + 1
    /\ calls' = Append(calls, [kind |-> "probe", gen |-> generation + 1])

beginLaunch ==
    IF requestActive
    THEN UNCHANGED <<requestActive, hole, phase, timer, generation, calls>>
    ELSE /\ requestActive' = TRUE
         /\ hole' = FALSE /\ phase' = "starting" /\ timer' = 0
         /\ generation' = generation + 1
         /\ calls' = Append(calls, [kind |-> "probe", gen |-> generation + 1])

onShow ==
    /\ ~active
    /\ shows < MaxShows
    /\ shows' = shows + 1
    /\ loaded' = TRUE /\ active' = TRUE
    /\ beginLaunch
    /\ UNCHANGED <<world, lastStarted, answers, shown, faults>>

onHide ==
    /\ active
    /\ active' = FALSE
    /\ timer' = 0
    /\ generation' = generation + 1
    /\ hole' = FALSE
    /\ UNCHANGED <<world, lastStarted, calls, answers, loaded, requestActive, phase, shown, shows,
                   faults>>

\* The page is destroyed; a new one starts with its own data.
onUnload ==
    LET Orphaned(s) == [i \in DOMAIN s |-> [s[i] EXCEPT !.gen = Nobody]]
    IN /\ loaded
       /\ loaded' = FALSE /\ active' = FALSE /\ requestActive' = FALSE /\ hole' = FALSE
       /\ phase' = "starting" /\ timer' = 0
       /\ generation' = generation + 1
       /\ calls' = Orphaned(calls) /\ answers' = Orphaned(answers)
       /\ UNCHANGED <<world, lastStarted, shown, shows, faults>>

retry ==
    /\ active /\ phase = "error" /\ ~hole
    /\ ~requestActive
    /\ shows < MaxShows
    /\ shows' = shows + 1
    /\ beginLaunch
    /\ UNCHANGED <<world, lastStarted, answers, loaded, active, shown, faults>>

TimerFires ==
    /\ timer # 0
    /\ timer' = 0
    /\ calls' = Append(calls, [kind |-> "status", gen |-> timer])
    /\ UNCHANGED <<world, lastStarted, answers, loaded, active, requestActive, hole, phase,
                   generation, shown, shows, faults>>

\* Wrong variant: only whether the page is shown, not for which request it is.
Stale_AnyGeneration(answer) == ~active

Stale(answer) == ~active \/ answer.gen # generation

applyStatus(status) ==
    /\ hole' = status.hole
    /\ shown' = status.pid
    /\ phase' = IF status.hole THEN "ready" ELSE IF status.state = "error" THEN "error" ELSE "starting"

showError(status) ==
    /\ hole' = FALSE /\ phase' = "error" /\ shown' = status.pid
    /\ timer' = 0

\* Wrong variant: once the session is shown, it is not looked at again.
schedulePoll_UntilReady(answer) == timer' = IF answer.status.hole THEN 0 ELSE answer.gen

schedulePoll(answer) == timer' = answer.gen

\* What follows an await, up to the next one.
Resume ==
    /\ answers # <<>>
    /\ answers' = Tail(answers)
    /\ LET answer == Head(answers)
           status == answer.status
           Started == status.accepted \/ status.state \in {"launching", "starting", "ready"}
       IN \/ /\ Stale(answer)
             /\ UNCHANGED <<calls, requestActive, hole, phase, timer, shown>>
          \/ /\ ~Stale(answer) /\ answer.kind = "status"
             /\ applyStatus(status) /\ schedulePoll(answer)
             /\ UNCHANGED <<calls, requestActive>>
          \/ /\ ~Stale(answer) /\ answer.kind = "probe" /\ status.available /\ ~status.hole
             /\ applyStatus(status)
             /\ calls' = Append(calls, [kind |-> "start", gen |-> answer.gen])
             /\ UNCHANGED <<timer, requestActive>>
          \/ /\ ~Stale(answer)
             /\ \/ answer.kind = "probe" /\ status.available /\ status.hole
                \/ answer.kind = "start" /\ Started
             /\ applyStatus(status) /\ schedulePoll(answer)
             /\ requestActive' = FALSE
             /\ UNCHANGED calls
          \/ /\ ~Stale(answer)
             /\ \/ answer.kind = "probe" /\ ~status.available
                \/ answer.kind = "start" /\ ~Started
             /\ showError(status)
             /\ requestActive' = FALSE
             /\ UNCHANGED calls
    /\ UNCHANGED <<world, lastStarted, loaded, active, generation, shows, faults>>

Native  == NativeStatus \/ NativeStart
Session == SessionExecutes \/ SessionPublishes \/ SessionEnds \/ ReleaseChanges
User    == onShow \/ onHide \/ onUnload \/ retry

Next == Native \/ Session \/ User \/ TimerFires \/ Resume

Spec == Init /\ [][Next]_vars

\* The native thread, the page's event loop and its timers run; a session, the
\* user and the Falcon system may do nothing for ever.
FairSpec == Spec /\ WF_vars(Native) /\ WF_vars(Resume) /\ WF_vars(TimerFires)

-----------------------------------------------------------------------------
(* Properties *)

\* Requests of the page that the native thread or the page has not come to yet.
Of(c, kinds, gens) == c.kind \in kinds /\ c.gen \in gens
NoneOf(s, kinds, gens) == \A i \in DOMAIN s : ~Of(s[i], kinds, gens)
OneOf(s, kinds, gens) ==
    \A i, j \in DOMAIN s : Of(s[i], kinds, gens) /\ Of(s[j], kinds, gens) => i = j
NoneInFlight(kinds, gens) == NoneOf(calls, kinds, gens) /\ NoneOf(answers, kinds, gens)
OneInFlight(kinds, gens) ==
    /\ OneOf(calls, kinds, gens) /\ OneOf(answers, kinds, gens)
    /\ NoneOf(calls, kinds, gens) \/ NoneOf(answers, kinds, gens)

Kinds == {"probe", "start", "status"}
Launches == {"probe", "start"}
Somebody == Nat \ {Nobody}

\* A page has at most one launch under way, however often it is hidden, shown and
\* retried meanwhile: its probes and starts never overlap.
OneLaunch == OneInFlight(Launches, Somebody)

\* There is one chain of status polls: a timer, a call or an answer that belongs to
\* the present generation, never two of them.
OnePollLoop ==
    /\ OneInFlight(Kinds, {generation})
    /\ timer # 0 => NoneInFlight(Kinds, {generation})

\* Neither hiding, showing nor retrying (beginLaunch, schedulePoll) makes the page
\* launch twice at a time or poll twice as often.
OneChain == OneLaunch /\ OnePollLoop

\* What makes it so: a launch under way holds requestActive, which beginLaunch and
\* retry look at, and everything older than a change of the generation is stale.
States == {"none", "idle", "launching", "starting", "ready", "stopped", "error"}
Statuses == [state : States, pid : Nat, hole : BOOLEAN, available : BOOLEAN,
             accepted : BOOLEAN]

TypeInv ==
    /\ proc \in [Pids -> {"none", "forked", "up", "gone"}]
    /\ file \in [pid : Nat, state : States, hole : BOOLEAN]
    /\ lastStarted \in Nat
    /\ requestActive \in BOOLEAN
    /\ generation \in Somebody /\ timer \in {0, generation}
    /\ calls \in Seq([kind : Kinds, gen : Nat])
    /\ answers \in Seq([kind : Kinds, gen : Nat, status : Statuses])

LaunchIsMarked == ~requestActive => NoneInFlight(Launches, Somebody)

NoneFromLater ==
    /\ \A i \in DOMAIN calls : calls[i].gen <= generation
    /\ \A i \in DOMAIN answers : answers[i].gen <= generation

LauncherInv == TypeInv /\ LaunchIsMarked /\ NoneFromLater /\ OneChain

\* The hole over a session that has ended is taken away.
DeadHoleDisappears ==
    \A p \in Pids : (hole /\ shown = p /\ proc[p] = "gone") ~> ~(hole /\ shown = p)

\* docs/superpowers/specs/2026-08-24-lvgl-commercial-platform-design.md:155: when the
\* platform session is ready the launcher shows the hole.  It must recognise the
\* session for that.
ReadySessionRecognised ==
    [][(/\ Len(answers') > Len(answers) /\ release
        /\ file.pid \in Running /\ file.state = "ready" /\ file.hole)
          => answers'[Len(answers')].status.hole]_vars

=============================================================================
