----------------------------- MODULE AppRuntime -----------------------------
(***************************************************************************)
(* The process lvgl-sessiond runs in the foreground: run_platform_         *)
(* application with the display and input back ends, the sandbox, the      *)
(* control channel (AppControl), the pull-down shell every application has *)
(* (AppShell) and, in the desktop, the page of applications (LauncherUi).  *)
(*                                                                         *)
(* The loop calls lv_timer_handler, which delivers at most one touch       *)
(* transition and then refreshes what is dirty (everything, the first      *)
(* time); then it reports readiness, checks its limits and starts over.    *)
(* What the daemon does with the messages is in SessionDaemon.             *)
(***************************************************************************)
EXTENDS Integers, Sequences

CONSTANTS Height,           \* panel_height in steps: y runs from -Height to 0
          MaxBoxes,         \* bound: exit questions open at once
          MaxSendFaults     \* bound: sends on the control channel that fail

VARIABLES isLauncher,       \* the desktop: tiles to launch, no home button
          session,          \* LVGL_SESSION_CONTROL_FD is set
          pc, result,       \* place in run_platform_application, exit code
          gStop,            \* g_stop, set by the signal handler
          failed,           \* display_context.failed
          presented,        \* has_presented_frame
          readyReported,    \* readiness_reported
          stop,             \* stop_requested of the shell or the page
          sent,             \* messages sent to the daemon
          faults,           \* failed sends so far
          pressed,          \* what the finger is on, or "nothing"
          panel,            \* PanelState
          y, startY,        \* position of the panel, and at the press
          target,           \* where the running animation goes
          scrim,            \* the scrim is visible
          boxes             \* exit questions open

vars == <<isLauncher, session, pc, result, gStop, failed, presented, readyReported, stop,
          sent, faults, pressed, panel, y, startY, target, scrim, boxes>>
process == <<isLauncher, session, result, gStop, failed, presented, readyReported>>
shell == <<panel, y, startY, target, scrim, boxes>>

Targets == {"strip", "scrim", "home", "exit", "tile", "confirm", "cancel"}

Init == /\ isLauncher \in BOOLEAN /\ session \in BOOLEAN
        /\ pc = "drm" /\ result = 0
        /\ gStop = FALSE /\ failed = FALSE /\ presented = FALSE /\ readyReported = FALSE
        /\ stop = FALSE /\ sent = <<>> /\ faults = 0 /\ pressed = "nothing"
        /\ panel = "closed" /\ y = -Height /\ startY = -Height /\ target = -Height
        /\ scrim = FALSE /\ boxes = 0

Exit(code) == pc' = "exited" /\ result' = code

\* The display, the input and the sandbox, in this order; each has its code.
FailCode == [drm |-> 2, input |-> 3, sandbox |-> 6]
After == [drm |-> "input", input |-> "sandbox", sandbox |-> "loop"]

Prepare ==
    /\ pc \in DOMAIN FailCode
    /\ \/ pc' = After[pc] /\ UNCHANGED result
       \/ Exit(FailCode[pc])
    /\ UNCHANGED <<isLauncher, session, gStop, failed, presented, readyReported, stop, sent,
                   faults, pressed, shell>>

-----------------------------------------------------------------------------
(* The loop.                                                                *)

\* Wrong variant: the application's request to stop is not part of the condition.
LoopEnds_IgnoresApplication == gStop \/ failed
LoopEnds == gStop \/ stop \/ failed

Loop ==
    /\ pc = "loop"
    /\ IF LoopEnds THEN Exit(IF failed THEN 4 ELSE result)
       ELSE pc' = "input_read" /\ UNCHANGED result
    /\ UNCHANGED <<isLauncher, session, gStop, failed, presented, readyReported, stop, sent,
                   faults, pressed, shell>>

\* The refresh of lv_timer_handler: display_flush presents the frame.
Refresh ==
    /\ pc = "refresh"
    /\ pc' = "report"
    /\ \/ presented' = TRUE /\ UNCHANGED failed
       \/ failed' = TRUE /\ UNCHANGED presented
       \/ presented /\ UNCHANGED <<presented, failed>>
    /\ UNCHANGED <<isLauncher, session, result, gStop, readyReported, stop, sent, faults,
                   pressed, shell>>

\* send_control: one message, or the channel fails.  Without a descriptor home
\* and exit fail in send_session_message.
Send(message, ok) ==
    /\ ok => session
    /\ ~ok /\ session => faults < MaxSendFaults
    /\ sent' = IF ok THEN Append(sent, message) ELSE sent
    /\ faults' = IF ~ok /\ session THEN faults + 1 ELSE faults

\* signal_ready after the first presented frame; true without a daemon.
ReportReady ==
    /\ pc = "report"
    /\ IF presented /\ ~readyReported
       THEN \/ session /\ Send("ready", TRUE) /\ readyReported' = TRUE
               /\ pc' = "limits" /\ UNCHANGED result
            \/ session /\ Send("ready", FALSE) /\ Exit(IF failed THEN 4 ELSE 5)
               /\ UNCHANGED readyReported
            \/ ~session /\ readyReported' = TRUE /\ pc' = "limits"
               /\ UNCHANGED <<sent, faults, result>>
       ELSE pc' = "limits" /\ UNCHANGED <<sent, faults, readyReported, result>>
    /\ UNCHANGED <<isLauncher, session, gStop, failed, presented, stop, pressed, shell>>

\* The injected failure and the time limit of development runs.
Limits ==
    /\ pc = "limits"
    /\ \/ pc' = "loop" /\ UNCHANGED result
       \/ ~session /\ Exit(IF failed THEN 4 ELSE 42)
       \/ ~session /\ Exit(IF failed THEN 4 ELSE 0)
    /\ UNCHANGED <<isLauncher, session, gStop, failed, presented, readyReported, stop, sent,
                   faults, pressed, shell>>

Signal ==
    /\ pc # "exited" /\ ~gStop
    /\ gStop' = TRUE
    /\ UNCHANGED <<isLauncher, session, pc, result, failed, presented, readyReported, stop,
                   sent, faults, pressed, shell>>

-----------------------------------------------------------------------------
(* Touch: input_read delivers one transition, callbacks run inside it.      *)

Delivered == pc = "input_read" /\ pc' = "refresh"

NoTouch ==
    /\ Delivered
    /\ UNCHANGED <<process, stop, sent, faults, pressed, shell>>

PanelVisible == y > -Height

\* What the finger can be put on; the question has the top layer as its parent
\* and does not shut out the rest.
Reachable(t) ==
    CASE t = "strip" -> TRUE
      [] t = "scrim" -> scrim
      [] t = "home"  -> PanelVisible /\ ~isLauncher
      [] t = "exit"  -> PanelVisible
      [] t = "tile"  -> isLauncher /\ ~scrim /\ ~PanelVisible
      [] t \in {"confirm", "cancel"} -> boxes > 0

\* begin_gesture remembers where the panel was.
Press(t) ==
    /\ Delivered /\ pressed = "nothing" /\ Reachable(t)
    /\ pressed' = t
    /\ startY' = IF t = "strip" THEN y ELSE startY
    /\ UNCHANGED <<process, stop, sent, faults, panel, y, target, scrim, boxes>>

\* update_gesture: a closed panel is claimed downwards, an open one upwards; a
\* settling one is left to its animation.
Drag(delta) ==
    LET clamped == IF startY + delta > 0 THEN 0
                   ELSE IF startY + delta < -Height THEN -Height ELSE startY + delta
        claims == \/ panel = "closed" /\ delta > 0
                  \/ panel = "open" /\ delta < 0
                  \/ panel = "dragging"
    IN  /\ Delivered /\ pressed = "strip" /\ claims
        /\ panel' = "dragging" /\ y' = clamped
        /\ scrim' = (scrim \/ panel = "closed")
        /\ UNCHANGED <<process, stop, sent, faults, pressed, startY, target, boxes>>

\* settle(): the old animation is deleted and a new one runs from here.
Settle(open) ==
    /\ panel' = "settling"
    /\ target' = IF open THEN 0 ELSE -Height
    /\ scrim' = (scrim \/ open)

\* end_gesture, on release or when the press is lost.
EndGesture ==
    /\ Delivered /\ pressed = "strip"
    /\ pressed' = "nothing"
    /\ IF panel = "dragging" THEN Settle(2 * y > -Height)
       ELSE UNCHANGED <<panel, target, scrim>>
    /\ UNCHANGED <<process, stop, sent, faults, y, startY, boxes>>

\* The finger leaves a button: its click runs if it is still there.
Click(t) == Delivered /\ pressed = t /\ t # "strip" /\ pressed' = "nothing"

Slide(t) == Click(t) /\ UNCHANGED <<process, stop, sent, faults, shell>>

ScrimClick ==
    /\ Click("scrim") /\ Reachable("scrim")
    /\ Settle(FALSE)
    /\ UNCHANGED <<process, stop, sent, faults, y, startY, boxes>>

\* request_home: the answer of the channel is not looked at.
HomeClick(ok) ==
    /\ Click("home") /\ Reachable("home")
    /\ Send("home", ok)
    /\ stop' = TRUE
    /\ UNCHANGED <<process, shell>>

ExitClick ==
    /\ Click("exit") /\ Reachable("exit") /\ boxes < MaxBoxes
    /\ boxes' = boxes + 1
    /\ UNCHANGED <<process, stop, sent, faults, panel, y, startY, target, scrim>>

ConfirmExit(ok) ==
    /\ Click("confirm") /\ Reachable("confirm")
    /\ Send("exit", ok)
    /\ stop' = TRUE /\ boxes' = boxes - 1
    /\ UNCHANGED <<process, panel, y, startY, target, scrim>>

CancelExit ==
    /\ Click("cancel") /\ Reachable("cancel")
    /\ boxes' = boxes - 1
    /\ UNCHANGED <<process, stop, sent, faults, panel, y, startY, target, scrim>>

\* LauncherUi::launch: the page stops only when the message went out.
LaunchClick(ok) ==
    /\ Click("tile") /\ Reachable("tile")
    /\ Send("launch", ok)
    /\ stop' = ok
    /\ UNCHANGED <<process, shell>>

\* A step of the panel's animation; the last one decides by the position.
Animate ==
    LET step == IF y < target THEN y + 1 ELSE IF y > target THEN y - 1 ELSE y
    IN  /\ Delivered /\ panel = "settling"
        /\ y' = step
        /\ panel' = IF step # target THEN panel ELSE IF step = 0 THEN "open" ELSE "closed"
        /\ scrim' = (scrim /\ ~(step = target /\ step # 0))
        /\ UNCHANGED <<process, stop, sent, faults, pressed, startY, target, boxes>>

Touch == \/ NoTouch \/ EndGesture \/ ScrimClick \/ ExitClick \/ CancelExit \/ Animate
         \/ \E t \in Targets : Press(t) \/ Slide(t)
         \/ \E delta \in {-Height, -1, 1, Height} : Drag(delta)
         \/ \E ok \in BOOLEAN : HomeClick(ok) \/ ConfirmExit(ok) \/ LaunchClick(ok)

Next == Prepare \/ Loop \/ Refresh \/ ReportReady \/ Limits \/ Signal \/ Touch

Spec == Init /\ [][Next]_vars

-----------------------------------------------------------------------------
\* What the daemon may rely on: the first message of a program is that it has
\* a frame on the screen, a request follows at most once, and the process ends
\* with 0 only when it was asked to stop, by a signal, by the user or by its
\* time limit (the loop of run_platform_application with AppShell's and
\* LauncherUi's requests).
ReadyThenOneRequest ==
    /\ sent # <<>> => presented /\ sent[1] = "ready"
    /\ Len(sent) <= 2
    /\ pc = "exited" /\ result = 0 /\ session => gStop \/ stop

-----------------------------------------------------------------------------
\* The inductive invariant.  A touch reaches the program only in an iteration
\* that found nothing to stop for; none of the first iteration's touches can end
\* on a button, because the finger has to be put down first, and no second
\* iteration starts without a frame on the screen that was reported.
Messages == {"ready", "home", "exit", "launch"}

RuntimeInv ==
    /\ sent \in Seq(Messages)
    /\ ~session \/ ~readyReported => sent = <<>>
    /\ session /\ readyReported => sent # <<>> /\ sent[1] = "ready"
    /\ readyReported => presented
    /\ Len(sent) <= 2 /\ (Len(sent) = 2 => stop)
    /\ pc \in {"drm", "input", "sandbox", "loop", "input_read"} =>
          failed \/ readyReported \/ pressed = "nothing"
    /\ pc = "input_read" => ~stop /\ ~failed
    /\ pc = "report" => presented \/ failed
    /\ pc = "limits" => readyReported \/ failed
    /\ pc = "exited" /\ result = 0 /\ session => gStop \/ stop
=============================================================================
