---------------------------- MODULE FocusTimer ----------------------------
(***************************************************************************)
(* The focus timer application: FocusTimerModel (the countdown) driven by  *)
(* the events and the 100 ms refresh timer of FocusTimerUi.  The model     *)
(* works with a deadline on the steady clock; a pause keeps only a whole   *)
(* number of seconds, so every pause rounds.  Time advances in ticks, with *)
(* TicksPerSecond of them in a second; an event may come after the clock   *)
(* advanced and before the refresh timer ran.                              *)
(***************************************************************************)
EXTENDS Integers

CONSTANTS Presets,          \* the durations of the three buttons, in seconds
          DefaultPreset,    \* the one selected at start
          TicksPerSecond,   \* resolution of the steady clock
          MaxPauses         \* bound on the pauses of one round

VARIABLES state,            \* "idle", "running", "paused" or "completed"
          duration,         \* duration_seconds_
          paused,           \* paused_remaining_seconds_
          left,             \* deadline_ - now, in ticks (while running)
          refreshDue,       \* the refresh timer has not run since the clock moved
          ran,              \* history: ticks this round has been running
          pauses            \* history: pauses of this round

vars == <<state, duration, paused, left, refreshDue, ran, pauses>>

Ceil(ticks) == (ticks + TicksPerSecond - 1) \div TicksPerSecond

Init == /\ state = "idle" /\ left = 0 /\ refreshDue = FALSE /\ ran = 0 /\ pauses = 0
        /\ duration = DefaultPreset
        /\ paused = duration

\* Wrong variant: the seconds are truncated.
remaining_seconds_Down(s, p, l) ==
    IF s # "running" THEN p
    ELSE IF l <= 0 THEN 0 ELSE l \div TicksPerSecond

\* remaining_seconds(): a running timer rounds what is left up.
remaining_seconds(s, p, l) ==
    IF s # "running" THEN p
    ELSE IF l <= 0 THEN 0 ELSE Ceil(l)

\* refresh() calls update(): a running timer with nothing left is completed.
Refreshed(s, p, l) ==
    LET over == s = "running" /\ remaining_seconds(s, p, l) = 0
    IN  /\ state' = IF over THEN "completed" ELSE s
        /\ paused' = IF over THEN 0 ELSE p
        /\ left' = l

\* preset_event: the buttons are disabled while the timer runs, and the model
\* refuses as well.
SelectMinutes(preset) ==
    /\ state # "running"
    /\ duration' = preset
    /\ Refreshed("idle", preset, left)
    /\ ran' = 0 /\ pauses' = 0
    /\ UNCHANGED refreshDue

Pause ==
    /\ state = "running" /\ pauses < MaxPauses
    /\ Refreshed("paused", remaining_seconds(state, paused, left), left)
    /\ pauses' = pauses + 1
    /\ UNCHANGED <<duration, refreshDue, ran>>

\* toggle() from idle, paused or completed: the deadline is set from the whole
\* seconds kept; a completed round starts again from the full duration.
Start ==
    LET seconds == IF state = "completed" THEN duration ELSE paused
        again == state = "paused"
    IN  /\ state # "running"
        /\ Refreshed("running", seconds, seconds * TicksPerSecond)
        /\ ran' = IF again THEN ran ELSE 0
        /\ pauses' = IF again THEN pauses ELSE 0
        /\ UNCHANGED <<duration, refreshDue>>

Reset ==
    /\ Refreshed("idle", duration, left)
    /\ ran' = 0 /\ pauses' = 0
    /\ UNCHANGED <<duration, refreshDue>>

\* refresh_timer.
Refresh ==
    /\ refreshDue
    /\ refreshDue' = FALSE
    /\ Refreshed(state, paused, left)
    /\ UNCHANGED <<duration, ran, pauses>>

\* The steady clock advances; the refresh timer runs before it does so again.  That is an
\* assumption on the loop of the program: a loop that is held up for longer lets a round
\* run on, and it ends at the next refresh.
Tick ==
    /\ ~refreshDue
    /\ refreshDue' = TRUE
    /\ left' = IF state = "running" THEN left - 1 ELSE left
    /\ ran' = IF state = "running" THEN ran + 1 ELSE ran
    /\ UNCHANGED <<state, duration, paused, pauses>>

Next == \/ \E preset \in Presets : SelectMinutes(preset)
        \/ Pause
        \/ Start
        \/ Reset
        \/ Refresh
        \/ Tick

Spec == Init /\ [][Next]_vars

-----------------------------------------------------------------------------
\* A round that is reported as completed has run its whole duration however
\* often it was paused, and each pause lengthened it by less than a second
\* (remaining_seconds rounds up, toggle stores whole seconds).
RoundIsHonest ==
    state = "completed" =>
        /\ ran >= duration * TicksPerSecond
        /\ ran <= duration * TicksPerSecond + pauses * (TicksPerSecond - 1)

-----------------------------------------------------------------------------
\* The durations of the application are whole, positive numbers of seconds.
TimerAssumption ==
    /\ TicksPerSecond \in Nat \ {0}
    /\ Presets \subseteq Nat \ {0} /\ DefaultPreset \in Nat \ {0}

\* What has run so far and what is still to run make up the duration, and at
\* most what the pauses rounded up.
WithinRounding(ticks) ==
    /\ ticks >= duration * TicksPerSecond
    /\ ticks <= duration * TicksPerSecond + pauses * (TicksPerSecond - 1)

\* The inductive invariant: the sum of what ran and what is left is kept in
\* every state, so that it is right when nothing is left; a running timer
\* without time left is seen by the next refresh, so none runs below zero.
TimerInv ==
    /\ state \in {"idle", "running", "paused", "completed"}
    /\ duration \in Nat \ {0} /\ paused \in Nat /\ left \in Int
    /\ ran \in Nat /\ pauses \in Nat
    /\ state = "idle" => paused = duration /\ ran = 0 /\ pauses = 0
    /\ state = "running" => left >= 0 /\ (left = 0 => refreshDue) /\ WithinRounding(ran + left)
    /\ state = "paused" => WithinRounding(ran + paused * TicksPerSecond)
    /\ state = "completed" => WithinRounding(ran)
=============================================================================
