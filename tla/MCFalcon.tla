------------------------------ MODULE MCFalcon ------------------------------
(***************************************************************************)
(* Model-checking instance for what must eventually happen: the session    *)
(* daemon, the Falcon launcher and the calls of a native module, one of    *)
(* them, chosen in the initial state, running on its own under the         *)
(* fairness of its module.                                                 *)
(***************************************************************************)
EXTENDS MCSessionDaemon, Falcon

CONSTANT Chosen       \* the components to check

VARIABLE
    turn           \* the component that runs in this behaviour

LVars ==
    <<flProc, flFile, flRelease, flSameName, flLastStarted, flCalls, flAnswers, flLoaded,
    flActive, flRequestActive, flHole, flPhase, flGeneration, flTimer, flShown, flShows,
    flSwitches, flFaults>>
JVars ==
    <<jcCalls, jcPending, jcNamed, jcThread, jcPosted, jcSettled, jcContext, jcAttached,
    jcHolder>>

any == <<turn, vars, LVars, JVars>>

\* One component runs, the others keep their first state.
AnyInit ==
    /\ turn \in Chosen
    /\ Init /\ (turn # "session" => payload = [a \in Apps |-> Counters])
    /\ L!Init /\ (turn # "launcher" => flSameName)
    /\ J!Init

AnyNext ==
    \/ /\ turn = "session" /\ Next
       /\ UNCHANGED <<turn, LVars, JVars>>
    \/ /\ turn = "launcher" /\ L!Next
       /\ UNCHANGED <<turn, vars, JVars>>
    \/ /\ turn = "calls" /\ J!Next
       /\ UNCHANGED <<turn, vars, LVars>>

AnySpec == AnyInit /\ [][AnyNext]_any

\* The fairness of FairSpec in each of the three modules, for the one that runs.
SessionSteps(A) == turn = "session" /\ A /\ UNCHANGED <<turn, LVars, JVars>>
LauncherSteps(A) == turn = "launcher" /\ A /\ UNCHANGED <<turn, vars, JVars>>
CallSteps(A) == turn = "calls" /\ A /\ UNCHANGED <<turn, vars, LVars>>

\* As only one of them runs, conditions of different modules can share a WF.
FairAnySpec ==
    /\ AnySpec
    /\ WF_any(SessionSteps(Daemon) \/ LauncherSteps(L!Native) \/ CallSteps(J!JsTask))
    /\ WF_any(SessionSteps(TimePasses) \/ LauncherSteps(L!Resume) \/ CallSteps(J!Serve(1)))
    /\ WF_any(\/ SessionSteps(ChildReadsTouch /\ OnlyChild)
              \/ LauncherSteps(L!TimerFires) \/ CallSteps(J!Serve(2)))
    /\ WF_any(SessionSteps(ChildExits /\ OnlyChild) \/ CallSteps(J!Serve(3)))

-----------------------------------------------------------------------------
\* A program comes on the screen again and again (the loop of main).
ScreenProgress == turn = "session" => SessionProgress
=============================================================================
