------------------------- MODULE SessionDaemonProofs ------------------------
(***************************************************************************)
(* For every set of applications, packages and faults: the session daemon  *)
(* keeps its types, leaves no child behind, publishes HOLE_READY and       *)
(* STATE=stopped only when they are true, and quarantines what it ran.     *)
(***************************************************************************)
EXTENDS SessionDaemon, ReleaseStateProofs, SequenceTheorems

-----------------------------------------------------------------------------
(* The inductive invariant *)

\* The loop is left with the third failure of the desktop, and with the first
\* iteration after "exit".
LoopInv ==
    /\ dpc \notin {"final", "ended"} => desktopFailures < DesktopFailureLimit
    /\ exitRequested => dpc \in {"publish", "final", "ended"} /\ asked.command = "exit"
    /\ outcome.action = "exit" /\ dpc \in Running \cup {"settle"} => asked.command = "exit"
    /\ dpc = "final" /\ result = 0 => asked.command = "exit" \/ gStop

\* A status that says "stopped" is the last one.
StatusInv ==
    /\ status.state = "stopped" => dpc = "ended"
    /\ dpc \in {"startup", "open", "fork"} => ~status.hole

\* READY is on the way only from a program that has drawn, or from a rogue one.
ReadyInv ==
    \A i \in 1..Len(control) : control[i].command = "ready" => presented \/ blame

\* Between open_verified_program and the rollback the policy of the foreground
\* application stands still: only the installer changes policies.
RanInv ==
    /\ dpc = "serve" /\ "installer" \in polled => foreground = Installer
    /\ dpc \in Running \cup {"fork", "settle"} /\ foreground \in Apps =>
          ran = policy[foreground].current \/ (ran = 0 /\ foreground \in BuiltInApps)

SessionInv ==
    /\ TypeOK
    /\ LoopInv
    /\ StatusInv
    /\ ReadyInv
    /\ RanInv
    /\ NoStrayChild
    /\ HoleMeansPresented
    /\ StoppedMeansAsked

-----------------------------------------------------------------------------
(* Types *)

DaemonTypes ==
    /\ dpc \in Running \cup {"startup", "publish", "open", "fork", "settle", "final", "ended"}
    /\ foreground \in Programs
    /\ desktopFailures \in 0..3
    /\ exitRequested \in BOOLEAN
    /\ result \in {0, 1}
RunTypes ==
    /\ outcome \in [action: {"failure", "exit", "launch", "home"}, app: Programs, result: {0, 1}]
    /\ ready \in BOOLEAN /\ exited \in BOOLEAN
    /\ polled \subseteq Sockets
Statuses ==
    [state: {"absent", "starting", "ready", "error", "stopped"}, result: {0, 1}, hole: BOOLEAN]
ChildTypes ==
    /\ child \in [phase: {"none", "starting", "running", "leaving", "hung", "dead"},
                  code: {0, 1}]
    /\ requests \subseteq {"storage", "installer"}
    /\ touchQueue \in 0..TouchCapacity
ControlTypes == control \in Seq(Messages) /\ Len(control) <= 2
StoreTypes ==
    /\ policy \in [Apps -> ReleaseStates]
    /\ payload \in [Apps -> SUBSET Counters]
HistoryTypes ==
    /\ ran \in Counters \cup {0}
    /\ blame \in BOOLEAN
    /\ asked \in Messages \cup {NoMessage}
    /\ presented \in BOOLEAN
SignalTypes == gStop \in BOOLEAN /\ late \in BOOLEAN
FaultTypes == faults \in 0..MaxFaults

\* TypeOK, grouped as the actions change it.
LEMMA TypeParts ==
    TypeOK <=> /\ DaemonTypes /\ RunTypes /\ status \in Statuses /\ ChildTypes
               /\ ControlTypes /\ StoreTypes /\ HistoryTypes /\ SignalTypes /\ FaultTypes
BY DEF TypeOK, DaemonTypes, RunTypes, Statuses, ChildTypes, ControlTypes, StoreTypes,
       HistoryTypes, SignalTypes, FaultTypes

\* A step that leaves a group of variables alone keeps their types.
LEMMA UnchangedTypes ==
    /\ DaemonTypes /\ UNCHANGED daemonVars => DaemonTypes'
    /\ RunTypes /\ UNCHANGED runVars => RunTypes'
    /\ ChildTypes /\ UNCHANGED <<child, requests, touchQueue>> => ChildTypes'
    /\ ControlTypes /\ UNCHANGED control => ControlTypes'
    /\ StoreTypes /\ UNCHANGED storeVars => StoreTypes'
    /\ HistoryTypes /\ UNCHANGED history => HistoryTypes'
    /\ SignalTypes /\ UNCHANGED <<gStop, late>> => SignalTypes'
    /\ FaultTypes /\ UNCHANGED faults => FaultTypes'
BY DEF DaemonTypes, RunTypes, ChildTypes, ControlTypes, StoreTypes, HistoryTypes, SignalTypes,
       FaultTypes, daemonVars, runVars, storeVars, history

\* A fault is counted once and only within the bound.
LEMMA FaultStep ==
    ASSUME NEW kind, FaultTypes, Fault(kind)
    PROVE  FaultTypes'
BY SessionAssumption DEF Fault, FaultTypes

\* The statuses the daemon writes, whole or not, are statuses.
LEMMA StatusTypes ==
    /\ Starting \in Statuses /\ ReadyStatus \in Statuses
    /\ DaemonTypes => FinalStatus \in Statuses
    /\ \A new \in Statuses : status \in Statuses /\ MayPublish(new) => status' \in Statuses
BY DEF Starting, ReadyStatus, FinalStatus, MayPublish, Statuses, DaemonTypes

\* Moving to a label, home, or out of the loop keeps the loop's types.
LEMMA LoopMoves ==
    ASSUME DaemonTypes
    PROVE  /\ \A label \in Running \cup {"settle"} : Goto(label) => DaemonTypes'
           /\ \A code \in {0, 1} : EndWith(code) => DaemonTypes'
           /\ GoHome /\ desktopFailures' \in 0..3 => DaemonTypes'
<1>1. ASSUME NEW label \in Running \cup {"settle"}, Goto(label) PROVE DaemonTypes'
  BY <1>1 DEF Goto, DaemonTypes
<1>2. ASSUME NEW code \in {0, 1}, EndWith(code) PROVE DaemonTypes'
  BY <1>2 DEF EndWith, DaemonTypes
<1>3. ASSUME GoHome, desktopFailures' \in 0..3 PROVE DaemonTypes'
  BY <1>3 DEF GoHome, DaemonTypes, Programs
<1> QED BY <1>1, <1>2, <1>3

\* The messages a program sends, and what is left of them after one is read.
LEMMA ControlSteps ==
    ASSUME ControlTypes
    PROVE  /\ \A m \in Messages : Says(m) => ControlTypes'
           /\ control # <<>> /\ control' = Tail(control) => ControlTypes' /\ Head(control) \in Messages
           /\ control' = <<>> => ControlTypes'
<1>1. ASSUME NEW m \in Messages, Says(m) PROVE ControlTypes'
  BY <1>1, AppendProperties DEF Says, ControlTypes
<1>2. ASSUME control # <<>>, control' = Tail(control)
      PROVE  ControlTypes' /\ Head(control) \in Messages
  BY <1>2, HeadTailProperties, LenProperties DEF ControlTypes
<1>3. ASSUME control' = <<>> PROVE ControlTypes'
  BY <1>3, EmptySeq DEF ControlTypes
<1> QED BY <1>1, <1>2, <1>3

\* A message is a command and a program.
LEMMA MessageTypes ==
    /\ \A m \in Messages : m.app \in Programs
    /\ \A m \in Messages : m.command \in {"launch", "ready", "home", "exit", "garbage"}
    /\ \A c \in {"ready", "home", "exit", "garbage"} : Message(c, Desktop) \in Messages
    /\ \A p \in Programs : Message("launch", p) \in Messages
    /\ Desktop \in Programs
BY DEF Messages, Message, Programs

\* What a failure or a lifecycle request leaves is a store.
LEMMA StoreSteps ==
    ASSUME StoreTypes
    PROVE  /\ \A p \in Programs :
                 policy' \in rollback_application_after_failure(p) /\ UNCHANGED payload
                    => StoreTypes'
           /\ \A p \in Apps : Installs(p) \/ RollsBack(p) \/ Removes(p) => StoreTypes'
           /\ \A p \in Programs : open_verified_program(p) # -1 =>
                 open_verified_program(p) \in Counters \cup {0}
<1>1. \A p \in Apps, b \in BOOLEAN :
         policy[p] \in ReleaseStates /\ rollback_release(policy[p], b) \in ReleaseStates
  BY TransitionTypes DEF StoreTypes
<1>2. \A q \in Packages, p \in Apps : activation_state_for(q, policy[p]) \in ReleaseStates
  BY <1>1, TransitionTypes, SessionAssumption
<1>3. ASSUME NEW p \in Programs, policy' \in rollback_application_after_failure(p),
             UNCHANGED payload
      PROVE  StoreTypes'
  <2>1. policy' = policy \/ (p \in Apps /\ policy' = [policy EXCEPT ![p] = rollback_release(policy[p], TRUE)])
    BY <1>3 DEF rollback_application_after_failure
  <2> QED BY <1>1, <1>3, <2>1 DEF StoreTypes
<1>4. ASSUME NEW p \in Apps, Installs(p) PROVE StoreTypes'
  <2>1. PICK q \in Packages :
           /\ policy' = [policy EXCEPT ![p] = activation_state_for(q, policy[p])]
           /\ payload' = [payload EXCEPT ![p] = @ \cup {q.counter}]
    BY <1>4 DEF Installs
  <2>2. q.counter \in Counters
    BY DEF Counters
  <2> QED BY <1>2, <2>1, <2>2 DEF StoreTypes
<1>5. ASSUME NEW p \in Apps, RollsBack(p) PROVE StoreTypes'
  BY <1>1, <1>5 DEF RollsBack, StoreTypes
<1>6. ASSUME NEW p \in Apps, Removes(p) PROVE StoreTypes'
  BY <1>6 DEF Removes, StoreTypes
<1>7. ASSUME NEW p \in Programs, open_verified_program(p) # -1
      PROVE  open_verified_program(p) \in Counters \cup {0}
  BY <1>7 DEF open_verified_program, StoreTypes
<1> QED BY <1>3, <1>4, <1>5, <1>6, <1>7

\* A session starts well typed.
LEMMA InitTypeOK == Init => TypeOK
<1> SUFFICES ASSUME Init PROVE TypeOK
  OBVIOUS
<1>1. DaemonTypes
  <2>1. foreground \in Programs /\ exitRequested \in BOOLEAN
    BY DEF Init, Programs
  <2>2. dpc = "startup" /\ desktopFailures = 0 /\ result = 0
    BY DEF Init
  <2> QED BY <2>1, <2>2 DEF DaemonTypes
<1>2. RunTypes
  BY DEF Init, RunTypes, NoOutcome, Programs
<1>3. status \in Statuses
  BY DEF Init, Statuses
<1>4. ChildTypes
  BY SessionAssumption DEF Init, ChildTypes, NoChild
<1>5. ControlTypes
  BY EmptySeq DEF Init, ControlTypes
<1>6. StoreTypes
  BY SessionAssumption DEF Init, StoreTypes
<1>7. HistoryTypes
  BY DEF Init, HistoryTypes
<1>8. SignalTypes
  BY DEF Init, SignalTypes
<1>9. FaultTypes
  <2>1. faults = 0 /\ MaxFaults \in Nat
    BY SessionAssumption DEF Init
  <2> QED BY <2>1 DEF FaultTypes
<1> QED BY <1>1, <1>2, <1>3, <1>4, <1>5, <1>6, <1>7, <1>8, <1>9, TypeParts

\* Every step of the daemon, its child and the world keeps the types.
LEMMA NextTypeOK ==
    ASSUME TypeOK, LoopInv, [Next]_vars
    PROVE  TypeOK'
<1>0. /\ DaemonTypes /\ RunTypes /\ status \in Statuses /\ ChildTypes
      /\ ControlTypes /\ StoreTypes /\ HistoryTypes /\ SignalTypes /\ FaultTypes
  BY TypeParts
<1> DEFINE Typed == /\ DaemonTypes' /\ RunTypes' /\ status' \in Statuses /\ ChildTypes'
                    /\ ControlTypes' /\ StoreTypes' /\ HistoryTypes' /\ SignalTypes' /\ FaultTypes'
<1> SUFFICES Typed
  <2>1. Statuses' = Statuses
    BY DEF Statuses
  <2>2. TypeOK' <=> /\ DaemonTypes' /\ RunTypes' /\ (status \in Statuses)' /\ ChildTypes'
                    /\ ControlTypes' /\ StoreTypes' /\ HistoryTypes' /\ SignalTypes' /\ FaultTypes'
    BY TypeParts, PTL
  <2> QED BY <2>1, <2>2
<1>h. UNCHANGED childVars => UNCHANGED <<child, requests, touchQueue>> /\ UNCHANGED control
  BY DEF childVars
<1>s. StoreTypes /\ UNCHANGED storeVars => StoreTypes'
  BY UnchangedTypes
<1>1. CASE Startup
  <2>1. DaemonTypes'
    BY <1>0, <1>1 DEF Startup, DaemonTypes
  <2> QED BY <1>0, <1>1, <1>h, <2>1, UnchangedTypes, FaultStep, StatusTypes DEF Startup
<1>2. CASE Publish
  <2>1. DaemonTypes'
    <3>1. CASE EndWith(result)
      BY <1>0, <3>1, LoopMoves DEF DaemonTypes
    <3>2. CASE EndWith(1)
      BY <1>0, <3>2, LoopMoves
    <3>3. CASE ~EndWith(result) /\ ~EndWith(1)
      BY <1>0, <1>2, <3>3 DEF Publish, DaemonTypes
    <3> QED BY <3>1, <3>2, <3>3
  <2> QED BY <1>0, <1>2, <1>h, <2>1, UnchangedTypes, FaultStep, StatusTypes DEF Publish
<1>3. CASE Open
  <2>1. DaemonTypes'
    <3>1. CASE EndWith(1)
      BY <1>0, <3>1, LoopMoves
    <3>2. CASE GoHome /\ UNCHANGED desktopFailures
      BY <1>0, <3>2, LoopMoves DEF DaemonTypes
    <3>3. CASE UNCHANGED <<foreground, desktopFailures, exitRequested, result>> /\ dpc' = "fork"
      BY <1>0, <3>3 DEF DaemonTypes
    <3> QED BY <1>3, <3>1, <3>2, <3>3 DEF Open
  <2>2. foreground \in Programs
    BY <1>0 DEF DaemonTypes
  <2>3. StoreTypes'
    <3>1. CASE UNCHANGED policy
      BY <1>0, <1>3, <3>1, <1>s DEF Open, storeVars
    <3>2. CASE policy' \in rollback_application_after_failure(foreground)
      BY <1>0, <1>3, <2>2, <3>2, StoreSteps DEF Open
    <3> QED BY <1>3, <3>1, <3>2 DEF Open
  <2>4. HistoryTypes'
    <3>1. CASE UNCHANGED ran
      BY <1>0, <1>3, <3>1, UnchangedTypes DEF Open, history
    <3>2. CASE ran' = open_verified_program(foreground) /\ open_verified_program(foreground) # -1
      <4>1. ran' \in Counters \cup {0}
        BY <1>0, <2>2, <3>2, StoreSteps
      <4>2. UNCHANGED <<blame, asked, presented>>
        BY <1>3 DEF Open
      <4> QED BY <1>0, <4>1, <4>2 DEF HistoryTypes
    <3> QED BY <1>3, <3>1, <3>2 DEF Open
  <2>5. FaultTypes'
    BY <1>0, <1>3, FaultStep, UnchangedTypes DEF Open
  <2> QED BY <1>0, <1>3, <1>h, <2>1, <2>3, <2>4, <2>5, UnchangedTypes DEF Open
<1>4. CASE Settle
  <2>1. foreground \in Programs /\ outcome.app \in Programs /\ desktopFailures \in 0..3
    BY <1>0 DEF DaemonTypes, RunTypes
  <2>2. StoreTypes'
    <3>1. CASE UNCHANGED policy
      BY <1>0, <1>4, <3>1, <1>s DEF Settle, storeVars
    <3>2. CASE policy' \in rollback_application_after_failure(foreground)
      BY <1>0, <1>4, <2>1, <3>2, StoreSteps DEF Settle
    <3> QED BY <1>4, <3>1, <3>2 DEF Settle
  <2>l. desktopFailures < DesktopFailureLimit
    BY <1>4 DEF LoopInv, Settle
  <2>3. DaemonTypes'
    <3>1. CASE EndWith(1)
      BY <1>0, <3>1, LoopMoves
    <3>2. CASE GoHome /\ (desktopFailures' = 0 \/ UNCHANGED desktopFailures)
      BY <1>0, <2>1, <3>2, LoopMoves
    <3>3. CASE ~EndWith(1) /\ ~(GoHome /\ (desktopFailures' = 0 \/ UNCHANGED desktopFailures))
      <4>1. outcome.action \in {"exit", "launch"} \/ (outcome.action = "failure" /\ foreground = Desktop)
        BY <1>4, <3>3 DEF Settle
      <4>2. CASE outcome.action = "exit"
        BY <1>0, <1>4, <3>3, <4>2 DEF Settle, DaemonTypes
      <4>3. CASE outcome.action = "launch"
        BY <1>0, <1>4, <2>1, <3>3, <4>3 DEF Settle, DaemonTypes
      <4>4. CASE outcome.action = "failure" /\ foreground = Desktop
        BY <1>0, <1>4, <2>1, <3>3, <4>4, <2>l DEF Settle, DaemonTypes, DesktopFailureLimit
      <4> QED BY <4>1, <4>2, <4>3, <4>4
    <3> QED BY <1>4, <3>1, <3>2, <3>3 DEF Settle
  <2> QED BY <1>0, <1>4, <1>h, <2>2, <2>3, UnchangedTypes DEF Settle
<1>5. CASE Final
  <2>1. DaemonTypes'
    BY <1>0, <1>5 DEF Final, DaemonTypes
  <2> QED BY <1>0, <1>5, <1>h, <2>1, UnchangedTypes, FaultStep, StatusTypes DEF Final
<1>6. CASE Start
  <2>1. RunTypes'
    <3>1. outcome' \in [action: {"failure", "exit", "launch", "home"}, app: Programs, result: {0, 1}]
      BY <1>6 DEF Start, NoOutcome, Programs
    <3>2. ready' = FALSE /\ exited' = FALSE /\ polled' = {}
      BY <1>6 DEF Start
    <3> QED BY <3>1, <3>2 DEF RunTypes
  <2>2. ChildTypes'
    BY <1>6, SessionAssumption DEF Start, ChildTypes, NoChild
  <2>3. ControlTypes'
    BY <1>0, <1>6, ControlSteps DEF Start
  <2>4. HistoryTypes'
    BY <1>0, <1>6 DEF Start, HistoryTypes
  <2>5. SignalTypes'
    BY <1>0, <1>6 DEF Start, SignalTypes
  <2>6. DaemonTypes'
    BY <1>0, <1>6, LoopMoves DEF Start, Running
  <2>7. FaultTypes'
    BY <1>0, <1>6, UnchangedTypes, FaultStep DEF Start
  <2> QED BY <1>0, <1>6, <2>1, <2>2, <2>3, <2>4, <2>5, <2>6, <2>7, <1>s DEF Start
<1>b. Break => DaemonTypes'
  BY <1>0, LoopMoves DEF Break, Running
<1>r. ASSUME Break \/ UNCHANGED outcome, ready' \in BOOLEAN, exited' \in BOOLEAN, polled' \subseteq Sockets
      PROVE  RunTypes'
  BY <1>0, <1>r DEF Break, RunTypes
<1>7. CASE Poll
  <2>1. DaemonTypes'
    BY <1>0, <1>7, <1>b, LoopMoves DEF Poll, Running
  <2>2. polled' \subseteq Sockets
    BY <1>0, <1>7 DEF Poll, Readable, Sockets, RunTypes
  <2>3. ready' \in BOOLEAN /\ exited' \in BOOLEAN
    BY <1>0, <1>7 DEF Poll, RunTypes
  <2>4. RunTypes'
    BY <1>7, <1>r, <2>2, <2>3 DEF Poll
  <2> QED BY <1>0, <1>7, <1>h, <2>1, <2>4, UnchangedTypes, FaultStep DEF Poll
<1>p. ASSUME NEW d, Serves(d) PROVE polled' \subseteq Sockets
  BY <1>0, <1>p DEF Serves, RunTypes
<1>8. CASE Control
  <2>1. DaemonTypes'
    BY <1>0, <1>8, <1>b, LoopMoves DEF Control, Running
  <2>2. ControlTypes' /\ (control # <<>> => Head(control) \in Messages)
    BY <1>0, <1>8, ControlSteps, UnchangedTypes DEF Control
  <2>3. polled' \subseteq Sockets /\ exited' \in BOOLEAN /\ ready' \in BOOLEAN
    BY <1>0, <1>8, <1>p DEF Control, RunTypes
  <2>4. RunTypes'
    <3>1. CASE Break \/ UNCHANGED outcome
      BY <1>r, <2>3, <3>1
    <3>2. CASE ~Break /\ outcome' # outcome
      <4>1. /\ control # <<>> /\ Accepts(Head(control))
            /\ outcome' = [outcome EXCEPT !.action = Head(control).command, !.app = Head(control).app]
        BY <1>8, <3>2 DEF Control
      <4>2. Head(control).app \in Programs /\ Head(control).command \in {"exit", "launch", "home"}
        BY <2>2, <4>1, MessageTypes DEF Accepts
      <4> QED BY <1>0, <2>3, <4>1, <4>2 DEF RunTypes
    <3> QED BY <3>1, <3>2
  <2>5. HistoryTypes'
    BY <1>0, <1>8, <2>2 DEF Control, HistoryTypes
  <2>6. ChildTypes' /\ StoreTypes' /\ SignalTypes'
    BY <1>0, <1>8, <1>s, UnchangedTypes DEF Control
  <2>7. status' \in Statuses /\ FaultTypes'
    BY <1>0, <1>8, StatusTypes, FaultStep, UnchangedTypes DEF Control
  <2> QED BY <2>1, <2>2, <2>4, <2>5, <2>6, <2>7
<1>9. CASE Touch
  <2>1. DaemonTypes'
    BY <1>0, <1>9, <1>b, LoopMoves DEF Touch, Running
  <2>2. RunTypes'
    <3>1. polled' \subseteq Sockets /\ exited' \in BOOLEAN /\ ready' \in BOOLEAN
      BY <1>0, <1>9, <1>p DEF Touch, RunTypes
    <3> QED BY <1>9, <1>r, <3>1 DEF Touch
  <2>3. ChildTypes'
    BY <1>0, <1>9, SessionAssumption DEF Touch, ChildTypes
  <2> QED BY <1>0, <1>9, <1>s, <2>1, <2>2, <2>3, UnchangedTypes DEF Touch
<1>10. ASSUME NEW d, Served(d), UNCHANGED <<ready, exited, child, touchQueue>>
       PROVE  DaemonTypes' /\ RunTypes' /\ ChildTypes'
  <2>1. DaemonTypes'
    BY <1>0, <1>10, <1>b, LoopMoves DEF Served, Running
  <2>2. RunTypes'
    <3>1. polled' \subseteq Sockets /\ exited' \in BOOLEAN /\ ready' \in BOOLEAN
      BY <1>0, <1>10, <1>p DEF Served, RunTypes
    <3> QED BY <1>10, <1>r, <3>1 DEF Served
  <2>3. ChildTypes'
    BY <1>0, <1>10 DEF Served, ChildTypes
  <2> QED BY <2>1, <2>2, <2>3
<1>11. CASE Storage
  BY <1>0, <1>10, <1>11, <1>s, UnchangedTypes DEF Storage
<1>12. CASE ServeInstaller
  <2>1. StoreTypes'
    BY <1>0, <1>12, <1>s, StoreSteps DEF ServeInstaller
  <2> QED BY <1>0, <1>10, <1>12, <2>1, UnchangedTypes DEF ServeInstaller
<1>13. CASE Reap
  <2>1. DaemonTypes'
    BY <1>0, <1>13, <1>b, LoopMoves DEF Reap, Running
  <2>2. RunTypes'
    BY <1>0, <1>13 DEF Reap, RunTypes, Break
  <2>3. ChildTypes'
    BY <1>0, <1>13 DEF Reap, ChildTypes, NoChild
  <2> QED BY <1>0, <1>13, <1>s, <2>1, <2>2, <2>3, UnchangedTypes DEF Reap
<1>14. CASE Terminate
  <2>1. DaemonTypes'
    BY <1>0, <1>14, LoopMoves DEF Terminate, Running
  <2>2. RunTypes'
    <3>1. PICK r \in {1, outcome.result} : outcome' = [outcome EXCEPT !.result = r]
      BY <1>14 DEF Terminate
    <3> QED BY <1>0, <1>14, <3>1 DEF Terminate, RunTypes
  <2>3. ChildTypes'
    BY <1>0, <1>14 DEF Terminate, AfterTermination, ChildTypes, NoChild
  <2> QED BY <1>0, <1>14, <1>s, <2>1, <2>2, <2>3, UnchangedTypes DEF Terminate
<1>15. CASE Child
  <2>1. DaemonTypes' /\ RunTypes' /\ status' \in Statuses /\ StoreTypes' /\ SignalTypes'
    BY <1>0, <1>15, <1>s, UnchangedTypes DEF Child, OnlyChild
  <2>2. UNCHANGED <<ran, asked>>
    BY <1>15 DEF Child, OnlyChild
  <2>3. HistoryTypes'
    BY <1>0, <1>15, <2>2 DEF Child, HistoryTypes, ChildReady, ChildAsks, ChildExits, ChildCrashes,
       ChildHangs, ChildGoesRogue, ChildReadsTouch, ChildCallsBroker
  <2>4. ChildTypes'
    <3>1. CASE ChildReady \/ ChildAsks \/ ChildExits \/ ChildHangs
      BY <1>0, <3>1 DEF ChildTypes, ChildReady, ChildAsks, ChildExits, ChildHangs
    <3>2. CASE ChildCrashes
      <4>1. PICK code \in {0, 1} : child' = [child EXCEPT !.phase = "dead", !.code = code]
        BY <3>2 DEF ChildCrashes
      <4> QED BY <1>0, <3>2, <4>1 DEF ChildCrashes, ChildTypes
    <3>3. CASE ChildGoesRogue
      BY <1>0, <3>3 DEF ChildGoesRogue, ChildTypes
    <3>4. CASE ChildReadsTouch
      BY <1>0, <3>4, SessionAssumption DEF ChildReadsTouch, ChildTypes
    <3>5. CASE ChildCallsBroker
      BY <1>0, <3>5 DEF ChildCallsBroker, ChildTypes
    <3> QED BY <1>15, <3>1, <3>2, <3>3, <3>4, <3>5 DEF Child
  <2>5. ControlTypes'
    <3>1. \A m \in Choices : m \in Messages
      BY MessageTypes DEF Choices
    <3> QED BY <1>0, <1>15, <3>1, ControlSteps, MessageTypes, UnchangedTypes
            DEF Child, ChildReady, ChildAsks, ChildExits, ChildCrashes,
                ChildHangs, ChildGoesRogue, ChildReadsTouch, ChildCallsBroker
  <2>6. FaultTypes'
    BY <1>0, <1>15, FaultStep, UnchangedTypes
       DEF Child, ChildReady, ChildAsks, ChildExits, ChildCrashes,
           ChildHangs, ChildGoesRogue, ChildReadsTouch, ChildCallsBroker
  <2> QED BY <2>1, <2>3, <2>4, <2>5, <2>6
<1>16. CASE TimePasses
  <2>1. HistoryTypes' /\ SignalTypes'
    BY <1>0, <1>16 DEF TimePasses, HistoryTypes, SignalTypes
  <2> QED BY <1>0, <1>16, <1>h, <1>s, <2>1, UnchangedTypes DEF TimePasses
<1>17. CASE StopSignal
  <2>1. SignalTypes'
    BY <1>0, <1>17 DEF StopSignal, SignalTypes
  <2> QED BY <1>0, <1>17, <1>h, <1>s, <2>1, UnchangedTypes DEF StopSignal
<1>18. CASE UNCHANGED vars
  BY <1>0, <1>18, <1>h, <1>s, UnchangedTypes DEF vars
<1> HIDE DEF Typed
<1> QED
  BY <1>1, <1>2, <1>3, <1>4, <1>5, <1>6, <1>7, <1>8, <1>9, <1>11, <1>12, <1>13, <1>14, <1>15,
     <1>16, <1>17, <1>18 DEF Next, Daemon, Ended

-----------------------------------------------------------------------------
(* Safety *)

\* No step of the child, nor the passing of time or a signal, moves the daemon.
LEMMA WorldSteps ==
    ASSUME Child \/ TimePasses \/ StopSignal
    PROVE  /\ UNCHANGED <<daemonVars, runVars, status, storeVars, ran, asked>>
           /\ gStop => gStop'
           /\ blame => blame'
           /\ presented => presented'
BY DEF Child, OnlyChild, TimePasses, StopSignal, history, childVars, ChildReady, ChildAsks,
       ChildExits, ChildCrashes, ChildHangs, ChildGoesRogue, ChildReadsTouch, ChildCallsBroker

\* LoopInv is kept.
LEMMA LoopStep ==
    ASSUME SessionInv, [Next]_vars
    PROVE  LoopInv'
<1> USE DEF LoopInv, DesktopFailureLimit, Running
<1>1. CASE Startup
  BY <1>1 DEF SessionInv, Startup, history, runVars
<1>2. CASE Publish
  BY <1>2 DEF SessionInv, Publish, EndWith, history, runVars
<1>3. CASE Open
  BY <1>3 DEF SessionInv, Open, EndWith, GoHome, runVars
<1>4. CASE Settle
  <2>1. /\ dpc = "settle" /\ ~exitRequested /\ desktopFailures \in 0..3 /\ desktopFailures < 3
        /\ UNCHANGED <<outcome, gStop, asked>>
    BY <1>4 DEF SessionInv, TypeOK, Settle, runVars, history
  <2>2. CASE EndWith(1)
    BY <2>1, <2>2 DEF SessionInv, EndWith
  <2>3. CASE outcome.action = "exit" /\ ~EndWith(1)
    BY <1>4, <2>1, <2>3 DEF SessionInv, Settle
  <2>4. CASE outcome.action # "exit" /\ ~EndWith(1)
    BY <1>4, <2>1, <2>4 DEF SessionInv, Settle, GoHome
  <2> QED BY <2>2, <2>3, <2>4
<1>5. CASE Final
  BY <1>5 DEF SessionInv, Final, history, runVars
<1>6. CASE Start
  BY <1>6 DEF SessionInv, Start, Goto, NoOutcome
<1>7. CASE Poll \/ Touch \/ Storage \/ ServeInstaller \/ Reap
  <2>1. dpc \in {"poll", "serve"} /\ dpc' \in {"poll", "serve", "terminate"}
    BY <1>7 DEF Poll, Touch, Storage, ServeInstaller, Reap, Served, Serves, Break, Goto
  <2>2. UNCHANGED <<desktopFailures, exitRequested, asked, gStop>>
    BY <1>7 DEF Poll, Touch, Storage, ServeInstaller, Reap, Served, Break, Goto, history
  <2>3. outcome'.action = outcome.action
    BY <1>7 DEF SessionInv, TypeOK, Poll, Touch, Storage, ServeInstaller, Reap, Served, Break
  <2> QED BY <2>1, <2>2, <2>3 DEF SessionInv
<1>8. CASE Control
  <2>1. dpc = "serve" /\ dpc' \in {"serve", "terminate"}
    BY <1>8 DEF Control, Serves, Break, Goto
  <2>2. UNCHANGED <<desktopFailures, exitRequested, gStop>>
    BY <1>8 DEF Control, Break, Goto
  <2>3. \/ outcome'.action = outcome.action /\ asked' = asked
        \/ outcome'.action = asked'.command
    BY <1>8 DEF SessionInv, TypeOK, Control, Break
  <2> QED BY <2>1, <2>2, <2>3 DEF SessionInv
<1>9. CASE Terminate
  BY <1>9 DEF SessionInv, TypeOK, Terminate, Goto, history
<1>10. CASE Child \/ TimePasses \/ StopSignal
  BY <1>10, WorldSteps DEF SessionInv, daemonVars, runVars
<1>11. CASE UNCHANGED vars
  BY <1>11 DEF SessionInv, vars, daemonVars, runVars, history
<1> QED
  BY <1>1, <1>2, <1>3, <1>4, <1>5, <1>6, <1>7, <1>8, <1>9, <1>10, <1>11 DEF Next, Daemon, Ended

\* StatusInv is kept.
LEMMA StatusStep ==
    ASSUME SessionInv, [Next]_vars
    PROVE  StatusInv'
<1> USE DEF StatusInv, Running
<1>1. CASE Startup \/ Publish \/ Final
  BY <1>1 DEF SessionInv, Startup, Publish, Final, EndWith, MayPublish, Starting, FinalStatus
<1>2. CASE Open
  BY <1>2 DEF SessionInv, Open, EndWith, GoHome
<1>3. CASE Settle
  BY <1>3 DEF SessionInv, Settle, EndWith, GoHome
<1>4. CASE Control
  BY <1>4 DEF SessionInv, Control, Serves, Break, Goto, MayPublish, ReadyStatus
<1>5. CASE Start \/ Poll \/ Touch \/ Storage \/ ServeInstaller \/ Reap \/ Terminate
  BY <1>5 DEF SessionInv, Start, Poll, Touch, Storage, ServeInstaller, Reap, Terminate, Served, Serves, Break, Goto
<1>6. CASE Child \/ TimePasses \/ StopSignal
  BY <1>6, WorldSteps DEF SessionInv, daemonVars
<1>7. CASE UNCHANGED vars
  BY <1>7 DEF SessionInv, vars, daemonVars
<1> QED
  BY <1>1, <1>2, <1>3, <1>4, <1>5, <1>6, <1>7 DEF Next, Daemon, Ended

\* There is never a child outside run_foreground.
LEMMA NoStrayStep ==
    ASSUME SessionInv, [Next]_vars
    PROVE  NoStrayChild'
<1> USE DEF NoStrayChild, Running
<1>1. CASE Startup \/ Publish \/ Final
  BY <1>1 DEF SessionInv, Startup, Publish, Final, EndWith, childVars
<1>2. CASE Open
  BY <1>2 DEF SessionInv, Open, EndWith, GoHome, childVars
<1>3. CASE Settle
  BY <1>3 DEF SessionInv, Settle, EndWith, GoHome, childVars
<1>4. CASE Start \/ Terminate
  BY <1>4 DEF SessionInv, Start, Terminate, AfterTermination, Goto
<1>5. CASE Control
  BY <1>5 DEF SessionInv, Control, Serves, Break, Goto
<1>6. CASE Poll \/ Touch \/ Storage \/ ServeInstaller \/ Reap
  BY <1>6 DEF SessionInv, Poll, Touch, Storage, ServeInstaller, Reap, Served, Serves, Break, Goto, childVars
<1>7. CASE Child
  <2>1. dpc' = dpc
    BY <1>7, WorldSteps DEF daemonVars
  <2>2. child.phase # "none" \/ UNCHANGED child
    BY <1>7 DEF Child, ChildReady, ChildAsks, ChildExits, ChildCrashes, ChildHangs, ChildGoesRogue,
                ChildReadsTouch, ChildCallsBroker
  <2> QED BY <2>1, <2>2 DEF SessionInv, NoChild
<1>8. CASE TimePasses \/ StopSignal \/ UNCHANGED vars
  BY <1>8 DEF SessionInv, TimePasses, StopSignal, vars, daemonVars, childVars
<1> QED
  BY <1>1, <1>2, <1>3, <1>4, <1>5, <1>6, <1>7, <1>8 DEF Next, Daemon, Ended

\* READY is sent with the first frame, or by a program that breaks the rules.
LEMMA ReadyStep ==
    ASSUME SessionInv, [Next]_vars
    PROVE  ReadyInv'
<1> USE DEF ReadyInv
<1>0. control \in Seq(Messages) /\ Len(control) \in Nat
  BY LenProperties DEF SessionInv, TypeOK
<1>1. CASE UNCHANGED control /\ (presented \/ blame => presented' \/ blame')
  BY <1>1 DEF SessionInv
<1>2. CASE control' = <<>>
  BY <1>2
<1>3. CASE control # <<>> /\ control' = Tail(control) /\ UNCHANGED <<presented, blame>>
  <2>1. /\ Len(Tail(control)) = Len(control) - 1
        /\ \A i \in 1..Len(Tail(control)) : Tail(control)[i] = control[i + 1]
    BY <1>0, <1>3, HeadTailProperties
  <2> QED BY <1>0, <1>3, <2>1 DEF SessionInv
<1>4. ASSUME NEW m \in Messages, Says(m), presented' \/ blame' \/ m.command # "ready",
             presented => presented', blame => blame'
      PROVE  ReadyInv'
  <2>1. /\ Len(control') = Len(control) + 1
        /\ \A i \in 1..Len(control) : control'[i] = control[i]
        /\ control'[Len(control) + 1] = m
    BY <1>0, <1>4, AppendProperties DEF Says
  <2> QED BY <1>0, <1>4, <2>1 DEF SessionInv
<1>5. CASE Daemon
  BY <1>1, <1>2, <1>3, <1>5 DEF Daemon, Startup, Publish, Open, Settle, Final, Start, Poll, Control,
     Touch, Storage, ServeInstaller, Served, Reap, Terminate, childVars, history
<1>6. CASE Child
  <2>1. CASE ChildReady
    BY <1>4, <1>6, <2>1, WorldSteps, MessageTypes DEF ChildReady
  <2>2. CASE ChildAsks
    <3>1. PICK m \in Choices : Says(m)
      BY <2>2 DEF ChildAsks
    <3>2. m \in Messages /\ m.command # "ready"
      BY <3>1, MessageTypes DEF Choices, Message
    <3> QED BY <1>4, <1>6, <3>1, <3>2, WorldSteps
  <2>3. CASE ChildGoesRogue
    BY <1>4, <1>6, <2>3, WorldSteps DEF ChildGoesRogue
  <2>4. CASE ChildExits \/ ChildCrashes \/ ChildHangs \/ ChildReadsTouch \/ ChildCallsBroker
    BY <1>1, <2>4 DEF ChildExits, ChildCrashes, ChildHangs, ChildReadsTouch, ChildCallsBroker
  <2> QED BY <1>6, <2>1, <2>2, <2>3, <2>4 DEF Child
<1>7. CASE TimePasses \/ StopSignal \/ UNCHANGED vars
  BY <1>1, <1>7 DEF TimePasses, StopSignal, vars, childVars, history
<1> QED
  BY <1>5, <1>6, <1>7 DEF Next, Ended

\* The release that run_foreground was given stays the current one.
LEMMA RanStep ==
    ASSUME SessionInv, [Next]_vars
    PROVE  RanInv'
<1> USE DEF RanInv, Running
<1>0. foreground \in Programs /\ Installer \notin Apps /\ Desktop \notin Apps
  BY SessionAssumption DEF SessionInv, TypeOK
<1>1. CASE Startup \/ Publish \/ Final
  BY <1>1 DEF SessionInv, Startup, Publish, Final, EndWith, runVars, storeVars, history
<1>2. CASE Open
  <2>1. CASE dpc' = "fork"
    <3>1. /\ UNCHANGED <<foreground, policy>> /\ ran' = open_verified_program(foreground)
          /\ open_verified_program(foreground) # -1
      BY <1>2, <2>1 DEF Open, EndWith, GoHome
    <3> QED BY <1>0, <2>1, <3>1 DEF open_verified_program
  <2>2. CASE dpc' # "fork"
    BY <1>2, <2>2 DEF Open, EndWith, GoHome
  <2> QED BY <2>1, <2>2
<1>3. CASE Settle
  BY <1>3 DEF SessionInv, Settle, EndWith, GoHome, runVars
<1>4. CASE Start \/ Terminate
  BY <1>4 DEF SessionInv, Start, Terminate, Goto, storeVars, history
<1>5. CASE Poll
  BY <1>5, <1>0 DEF SessionInv, Poll, Goto, Break, Readable, storeVars, history
<1>6. CASE Control \/ Touch \/ Storage \/ Reap
  BY <1>6 DEF SessionInv, Control, Touch, Storage, Reap, Served, Serves, Break, Goto, storeVars, history
<1>7. CASE ServeInstaller
  <2>1. /\ dpc = "serve" /\ "installer" \in polled /\ polled' \subseteq polled
        /\ UNCHANGED <<foreground, ran>>
    BY <1>7 DEF ServeInstaller, Served, Serves, Break, Goto, history
  <2>2. foreground = Installer
    BY <2>1 DEF SessionInv
  <2> QED BY <1>0, <2>1, <2>2
<1>8. CASE Child \/ TimePasses \/ StopSignal
  BY <1>8, WorldSteps DEF SessionInv, daemonVars, runVars, storeVars
<1>9. CASE UNCHANGED vars
  BY <1>9 DEF SessionInv, vars, daemonVars, runVars, storeVars, history
<1> QED
  BY <1>1, <1>2, <1>3, <1>4, <1>5, <1>6, <1>7, <1>8, <1>9 DEF Next, Daemon, Ended

\* HOLE_READY is withdrawn before the next program starts.
LEMMA HoleStep ==
    ASSUME SessionInv, [Next]_vars
    PROVE  HoleMeansPresented'
<1> USE DEF HoleMeansPresented
<1>1. CASE Startup \/ Publish \/ Final
  BY <1>1 DEF SessionInv, Startup, Publish, Final, MayPublish, Starting, FinalStatus, history
<1>2. CASE Start
  BY <1>2 DEF SessionInv, StatusInv, Start
<1>3. CASE Control
  <2>1. CASE ~(control # <<>> /\ IsFirstReady(Head(control)))
    BY <1>3, <2>1 DEF SessionInv, Control, IsFirstReady
  <2>2. CASE control # <<>> /\ IsFirstReady(Head(control))
    <3>1. Len(control) \in Nat \ {0} /\ Head(control) = control[1]
      BY <2>2, EmptySeq DEF SessionInv, TypeOK
    <3>2. presented \/ blame
      BY <2>2, <3>1 DEF SessionInv, ReadyInv, IsFirstReady
    <3> QED BY <1>3, <3>2 DEF Control
  <2> QED BY <2>1, <2>2
<1>4. CASE Open \/ Settle \/ Poll \/ Touch \/ Storage \/ ServeInstaller \/ Reap \/ Terminate
  BY <1>4 DEF SessionInv, Open, Settle, Poll, Touch, Storage, ServeInstaller, Reap, Terminate, history
<1>5. CASE Child \/ TimePasses \/ StopSignal
  BY <1>5, WorldSteps DEF SessionInv
<1>6. CASE UNCHANGED vars
  BY <1>6 DEF SessionInv, vars, history
<1> QED
  BY <1>1, <1>2, <1>3, <1>4, <1>5, <1>6 DEF Next, Daemon, Ended

\* "stopped" is written once, at the end, after "exit" or a signal.
LEMMA StoppedStep ==
    ASSUME SessionInv, [Next]_vars
    PROVE  StoppedMeansAsked'
<1> USE DEF StoppedMeansAsked
<1>1. CASE Final
  BY <1>1 DEF SessionInv, TypeOK, LoopInv, StatusInv, Final, MayPublish, FinalStatus, history
<1>2. CASE Child \/ TimePasses \/ StopSignal
  BY <1>2, WorldSteps DEF SessionInv
<1>3. CASE UNCHANGED vars
  BY <1>3 DEF SessionInv, vars, history
<1>4. CASE Daemon /\ ~Final
  <2>1. dpc # "ended"
    BY <1>4 DEF Daemon, Running, Startup, Publish, Open, Settle, Start, Poll, Control,
     Touch, Storage, ServeInstaller, Served, Serves, Reap, Terminate
  <2>2. status' = status \/ status'.state # "stopped"
    BY <1>4 DEF Daemon, Startup, Publish, Open, Settle, Start, Poll, Control, MayPublish, Starting,
       ReadyStatus, Touch, Storage, ServeInstaller, Reap, Terminate
  <2> QED BY <2>1, <2>2 DEF SessionInv, StatusInv
<1> QED BY <1>1, <1>2, <1>3, <1>4 DEF Next, Ended

\* The state in which a session starts.
LEMMA InitSessionInv == Init => SessionInv
<1> SUFFICES ASSUME Init PROVE SessionInv
  OBVIOUS
<1>1. LoopInv
  BY DEF Init, LoopInv, NoOutcome, DesktopFailureLimit
<1>2. StatusInv /\ RanInv
  BY DEF Init, StatusInv, RanInv, Running
<1>3. ReadyInv
  BY DEF Init, ReadyInv
<1>4. NoStrayChild /\ HoleMeansPresented /\ StoppedMeansAsked
  BY DEF Init, NoStrayChild, HoleMeansPresented, StoppedMeansAsked
<1> QED BY <1>1, <1>2, <1>3, <1>4, InitTypeOK DEF SessionInv

\* SessionInv is inductive: it holds in every reachable state of every session.
THEOREM SessionInvariance == Spec => []SessionInv
<1>1. SessionInv /\ [Next]_vars => SessionInv'
  <2> SUFFICES ASSUME SessionInv, [Next]_vars PROVE SessionInv'
    OBVIOUS
  <2>1. TypeOK'
    BY NextTypeOK DEF SessionInv
  <2> QED BY <2>1, LoopStep, StatusStep, ReadyStep, RanStep, NoStrayStep, HoleStep, StoppedStep
          DEF SessionInv
<1> QED BY <1>1, InitSessionInv, PTL DEF Spec

\* The variables of the daemon (main, run_foreground) keep their types.
THEOREM TypeCorrectness == Spec => []TypeOK
<1>1. SessionInv => TypeOK
  BY DEF SessionInv
<1> QED BY <1>1, SessionInvariance, PTL

\* terminate_child and the reaping in run_foreground: outside it no child is left, so
\* there is never a second foreground process nor one that outlives the session.
THEOREM NoChildOutlivesItsTurn == Spec => []NoStrayChild
<1>1. SessionInv => NoStrayChild
  BY DEF SessionInv
<1> QED BY <1>1, SessionInvariance, PTL

\* HOLE_READY=1 in session.status is about the program on the screen: main withdraws it
\* before the next program is started.
THEOREM HoleIsTrue == Spec => []HoleMeansPresented
<1>1. SessionInv => HoleMeansPresented
  BY DEF SessionInv
<1> QED BY <1>1, SessionInvariance, PTL

\* STATE=stopped, on which the manager removes the platform, is published only when
\* the program asked for the end or a signal did.
THEOREM StoppedIsTrue == Spec => []StoppedMeansAsked
<1>1. SessionInv => StoppedMeansAsked
  BY DEF SessionInv
<1> QED BY <1>1, SessionInvariance, PTL

\* The rollback after a failure in main quarantines the release that was run, except
\* when what ran was the fallback built into the platform.
THEOREM RollbackHitsWhatRan == Spec => QuarantinesWhatRan
<1>1. SessionInv /\ [Next]_vars =>
         (dpc = "settle" /\ policy' # policy
            => \/ policy'[foreground].quarantined = ran
               \/ ran = 0 /\ foreground \in BuiltInApps)
  <2> SUFFICES ASSUME SessionInv, [Next]_vars, dpc = "settle", policy' # policy
               PROVE  \/ policy'[foreground].quarantined = ran
                      \/ ran = 0 /\ foreground \in BuiltInApps
    OBVIOUS
  <2>1. Settle
    BY WorldSteps DEF Next, Daemon, Ended, Startup, Publish, Open, Final, Start, Poll, Control,
       Touch, Storage, ServeInstaller, Served, Serves, Reap, Terminate, storeVars, vars
  <2>2. policy' \in rollback_application_after_failure(foreground)
    BY <2>1 DEF Settle
  <2>3. /\ foreground \in Apps
        /\ rollback_release(policy[foreground], TRUE) # NoState
        /\ policy' = [policy EXCEPT ![foreground] = rollback_release(policy[foreground], TRUE)]
    BY <2>2 DEF rollback_application_after_failure
  <2>4. policy'[foreground] = rolled_back(policy[foreground], TRUE)
    BY <2>3 DEF rollback_release, SessionInv, TypeOK
  <2>5. policy'[foreground].quarantined = policy[foreground].current
    BY <2>4 DEF rolled_back
  <2> QED BY <2>3, <2>5 DEF SessionInv, RanInv
<1> QED BY <1>1, SessionInvariance, PTL DEF Spec, QuarantinesWhatRan

=============================================================================
