------------------------------- MODULE Falcon -------------------------------
(***************************************************************************)
(* What Falcon runs next to the session daemon: the launcher's page and    *)
(* the calls of a native module, each an instance of its module.           *)
(***************************************************************************)
EXTENDS Integers

CONSTANTS
    LauncherSameNames, LauncherMaxStarts, LauncherMaxShows, LauncherMaxSwitches,
    LauncherMaxFaults,
    CallsMaxCalls

VARIABLES
    flProc, flFile, flRelease, flSameName, flLastStarted, flCalls, flAnswers, flLoaded,
    flActive, flRequestActive, flHole, flPhase, flGeneration, flTimer, flShown,
    flShows, flSwitches, flFaults,
    jcCalls, jcPending, jcNamed, jcThread, jcPosted, jcSettled, jcContext, jcAttached,
    jcHolder

L == INSTANCE FalconLauncher WITH
    SameNames <- LauncherSameNames, MaxStarts <- LauncherMaxStarts,
    MaxShows <- LauncherMaxShows, MaxSwitches <- LauncherMaxSwitches,
    MaxFaults <- LauncherMaxFaults, proc <- flProc, file <- flFile,
    release <- flRelease, sameName <- flSameName, lastStarted <- flLastStarted,
    calls <- flCalls, answers <- flAnswers, loaded <- flLoaded, active <- flActive,
    requestActive <- flRequestActive, hole <- flHole, phase <- flPhase,
    generation <- flGeneration, timer <- flTimer, shown <- flShown, shows <- flShows,
    switches <- flSwitches, faults <- flFaults

J == INSTANCE JsCalls WITH
    MaxCalls <- CallsMaxCalls, calls <- jcCalls, pending <- jcPending, named <- jcNamed,
    thread <- jcThread, posted <- jcPosted, settled <- jcSettled, context <- jcContext,
    attached <- jcAttached, holder <- jcHolder

\* The constants of each component as its module assumes them.
ASSUME LauncherInstance == L!LauncherAssumption
ASSUME CallsInstance == J!CallsAssumption

-----------------------------------------------------------------------------
(* What each of them promises, stated in the module of its component.      *)

\* A page has one launch and one chain of polls (beginLaunch, schedulePoll).
OneChain == L!OneChain

\* A hole whose session is gone disappears (poll).
DeadHoleDisappears == L!DeadHoleDisappears

\* design.md:155: a ready session is recognised (validSessionProcess).
ReadySessionRecognised == L!ReadySessionRecognised

\* Answers come in the order of the calls (JQNamedThread, onCallback).
AnswersInOrder == J!AnswersInOrder

\* Every call of an open page is answered (JQAsyncExecutor).
EveryCallSettles == J!EveryCallSettles
=============================================================================
