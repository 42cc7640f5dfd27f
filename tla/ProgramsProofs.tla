--------------------------- MODULE ProgramsProofs ---------------------------
(***************************************************************************)
(* Theorems about the programs and what serves them.  Each component's     *)
(* inductive invariant is defined in its module; here are its proofs, one  *)
(* step for each action.                                                   *)
(***************************************************************************)
EXTENDS Programs, Queues, FiniteSetTheorems, WellFoundedInduction, TLAPS

-----------------------------------------------------------------------------
(* The picture of a program (DisplayPath).                                 *)

\* Pictures are told apart: what a program shows is not Falcon's picture, nor
\* a dark CRTC, and its two buffers are different pictures.
LEMMA PicturesDiffer ==
    ASSUME dpProgram \in Nat, dpProgram # 0
    PROVE  /\ D!Fb(0) # D!Fb(1) /\ D!Fb(-1) # D!Fb(0) /\ D!Fb(-1) # D!Fb(1)
           /\ \A b \in {0, 1} : D!Fb(b) # D!Before /\ D!Fb(b) # D!Black /\ D!Fb(b) # D!None
           /\ D!Before # D!Black /\ D!None # D!Before /\ D!None # D!Black
  BY DEF D!Fb, D!Before, D!Black, D!None

\* What is not of this program stays when the kernel removes its framebuffers.
LEMMA RemovedPicture ==
    ASSUME dpProgram \in Nat, dpProgram # 0, dpOverlay \in BOOLEAN,
           dpShown \in {D!Before, D!Black, D!Fb(0), D!Fb(1)},
           dpOverlay => dpShown # D!Black
    PROVE  D!Removed(dpShown) \in {D!Before, D!Black}
           /\ (dpOverlay => D!Removed(dpShown) = D!Before)
  BY DEF D!Removed, D!Fb, D!Before, D!Black

\* A step of a program, the kernel or the daemon keeps what is known of the picture
\* (drm_backend.cpp, restore_display).
LEMMA DisplayStep == D!DisplayInv /\ dpOverlay \in BOOLEAN /\ [D!Next]_(D!vars) => D!DisplayInv'
<1> SUFFICES ASSUME D!DisplayInv, dpOverlay \in BOOLEAN, [D!Next]_(D!vars) PROVE D!DisplayInv'
  OBVIOUS
<1>1. CASE D!StartProgram
  BY <1>1 DEF D!StartProgram, D!DisplayInv, D!Fb, D!Before, D!Black, D!None, D!Phases
<1>2. CASE D!RunProgramReturns
  BY <1>2, RemovedPicture DEF D!RunProgramReturns, D!LastClose, D!DisplayInv, D!Fb, D!Before, D!Black, D!None, D!Phases
<1>3. CASE D!OpenSucceeds
  BY <1>3 DEF D!OpenSucceeds, D!DisplayInv, D!Fb, D!Phases
<1>4. CASE D!OpenFails
  BY <1>4, RemovedPicture DEF D!OpenFails, D!LastClose, D!DisplayInv, D!Fb, D!Phases
<1>5. CASE D!Draw
  BY <1>5 DEF D!Draw, D!DisplayInv, D!Fb, D!Phases, D!NextBuffer
<1>p. CASE dpPhase = "drawn" /\ D!Presented
  <2>1. dpDrawing \in {0, 1} /\ dpProgram \in Nat /\ dpProgram # 0
    BY <1>p DEF D!DisplayInv, D!NextBuffer
  <2>2. dpShown' = D!Fb(dpDrawing) /\ D!Fb(dpDrawing) # D!Black
    BY <1>p, <2>1, PicturesDiffer DEF D!Presented
  <2> QED
    BY <1>p, <2>1, <2>2 DEF D!Presented, D!DisplayInv, D!Fb, D!Phases
<1>f. CASE dpPhase \in {"drawn", "waiting"} /\ D!PresentFails
  BY <1>f DEF D!PresentFails, D!DisplayInv, D!Fb, D!Phases
<1>6. CASE D!SubmitOverlay
  BY <1>6, <1>p, <1>f DEF D!SubmitOverlay
<1>7. CASE D!SubmitFirst
  BY <1>7, <1>p, <1>f DEF D!SubmitFirst
<1>8. CASE D!SubmitFlip
  <2>1. dpDrawing \in {0, 1} /\ ~dpOverlay /\ dpPhase = "drawn" /\ ~dpFlipEvent
    BY <1>8 DEF D!SubmitFlip, D!DisplayInv, D!NextBuffer
  <2>2. CASE D!PresentFails
    BY <2>1, <2>2, <1>f
  <2>3. CASE ~D!PresentFails
    <3>1. /\ dpPhase' = "waiting" /\ dpQueued' = D!Fb(dpDrawing)
          /\ UNCHANGED <<dpOverlay, dpProgram, dpActive, dpDrawing, dpShown, dpFlipEvent>>
      BY <1>8, <2>3 DEF D!SubmitFlip
    <3>2. ~dpFlipEvent' /\ ~dpOverlay'
      BY <2>1, <3>1
    <3>3. dpQueued' \in {D!Fb(0), D!Fb(1)}
      BY <2>1, <3>1
    <3>4. (dpQueued = D!Fb(dpDrawing))' /\ (dpDrawing # -1)'
      BY <2>1, <3>1 DEF D!Fb
    <3> QED
      BY <2>1, <3>1, <3>2, <3>3, <3>4 DEF D!DisplayInv, D!Fb, D!Phases
  <2> QED
    BY <2>2, <2>3
<1>9. CASE D!RecoverFlip
  BY <1>9, <1>p DEF D!RecoverFlip
<1>10. CASE D!FlipDone
  BY <1>10 DEF D!FlipDone, D!DisplayInv, D!Fb, D!Phases
<1>11. CASE D!FlipTimeout
  BY <1>11, <1>f DEF D!FlipTimeout
<1>12. CASE D!Stop
  BY <1>12 DEF D!Stop, D!DisplayInv, D!Fb, D!Phases
<1>13. CASE \E ok \in BOOLEAN : D!Close(ok)
  <2>0. PICK ok \in BOOLEAN : D!Close(ok)
    BY <1>13
  <2>1. dpPhase = "closing" /\ dpProgram \in Nat /\ dpProgram # 0
        /\ dpShown \in {D!Before, D!Black, D!Fb(0), D!Fb(1)} /\ (dpOverlay => dpShown # D!Black)
    BY <2>0 DEF D!Close, D!DisplayInv
  <2>2. D!GivenBack(ok) \in {D!Before, D!Black} /\ (dpOverlay => D!GivenBack(ok) = D!Before)
    BY <2>1, RemovedPicture DEF D!GivenBack
  <2>3. /\ dpShown' \in {D!Before, D!Black, D!Fb(0), D!Fb(1)}
        /\ dpOverlay => dpShown' # D!Black
    <3>1. D!Before # D!Black
      BY <2>1, PicturesDiffer
    <3>2. dpShown' = dpShown \/ dpShown' = D!GivenBack(ok)
      BY <2>0 DEF D!Close
    <3> QED
      BY <2>1, <2>2, <3>1, <3>2
  <2>4. UNCHANGED <<dpOverlay, dpProgram, dpActive, dpDrawing>> /\ dpPhase' = "gone"
        /\ dpQueued' = D!None
    BY <2>0 DEF D!Close
  <2> QED
    BY <2>1, <2>3, <2>4 DEF D!DisplayInv, D!Fb, D!Before, D!Black, D!Phases
<1>14. CASE D!Kill
  <2>1. dpProgram \in Nat /\ dpProgram # 0 /\ dpOverlay' = dpOverlay /\ dpProgram' = dpProgram
        /\ dpShown \in {D!Before, D!Black, D!Fb(0), D!Fb(1)} /\ (dpOverlay => dpShown # D!Black)
    BY <1>14 DEF D!Kill, D!DisplayInv, D!Phases
  <2>2. D!Before # D!Black
    BY <2>1, PicturesDiffer
  <2>3. /\ dpShown' \in {D!Before, D!Black, D!Fb(0), D!Fb(1)}
        /\ dpOverlay => dpShown' # D!Black
    BY <1>14, <2>1, <2>2, RemovedPicture DEF D!Kill, D!LastClose
  <2>4. dpQueued' \in {dpQueued, D!None} /\ UNCHANGED <<dpActive, dpDrawing>> /\ dpPhase' = "gone"
    BY <1>14 DEF D!Kill, D!LastClose
  <2> QED
    BY <2>1, <2>3, <2>4 DEF D!DisplayInv, D!Fb, D!Before, D!Black, D!None, D!Phases
<1>15. CASE D!VBlank
  BY <1>15, PicturesDiffer DEF D!VBlank, D!DisplayInv, D!Fb, D!Phases
<1>16. CASE UNCHANGED D!vars
  BY <1>16 DEF D!vars, D!DisplayInv, D!Fb, D!NextBuffer, D!Phases
<1> QED
  BY <1>1, <1>2, <1>3, <1>4, <1>5, <1>6, <1>7, <1>8, <1>9, <1>10, <1>11, <1>12, <1>13,
     <1>14, <1>15, <1>16 DEF D!Next

\* So every state of the display has it.
LEMMA DisplayInvariant == D!Spec => []D!DisplayInv
<1>1. D!Init => D!DisplayInv /\ dpOverlay \in BOOLEAN
  BY DEF D!Init, D!DisplayInv, D!Phases, D!Before, D!Black, D!None
<1>2. dpOverlay \in BOOLEAN /\ [D!Next]_(D!vars) => (dpOverlay \in BOOLEAN)'
  BY DEF D!Next, D!vars, D!StartProgram, D!RunProgramReturns, D!OpenSucceeds, D!OpenFails,
     D!Draw, D!SubmitOverlay, D!SubmitFirst, D!SubmitFlip, D!RecoverFlip, D!FlipDone,
     D!FlipTimeout, D!Stop, D!Close, D!Kill, D!VBlank, D!Presented, D!PresentFails
<1> QED
  BY <1>1, <1>2, DisplayStep, PTL DEF D!Spec

\* A frame is never copied into the buffer the screen shows or is about to show,
\* for any number of programs, frames and recovered flips (present_logical,
\* recover_page_flip, wait_for_flip).
THEOREM FrameTearsNothing == D!Spec => []NeverDrawOnScreen
<1>1. D!DisplayInv => NeverDrawOnScreen
  <2> SUFFICES ASSUME D!DisplayInv, dpPhase = "drawn"
               PROVE  D!Fb(dpDrawing) \notin {dpShown, dpQueued}
    BY DEF NeverDrawOnScreen, D!NeverDrawOnScreen
  <2> QED
    BY DEF D!DisplayInv, D!Fb, D!NextBuffer, D!Before, D!Black, D!None
<1> QED
  BY <1>1, DisplayInvariant, PTL

\* Between programs the screen is Falcon's (or a dark CRTC without the plane),
\* however the program ended (DrmBackend::close, the descriptor of run_program).
THEOREM ScreenIsGivenBack == D!Spec => []PictureHasOwner
<1>1. D!DisplayInv => PictureHasOwner
  BY DEF D!DisplayInv, PictureHasOwner, D!PictureHasOwner
<1> QED
  BY <1>1, DisplayInvariant, PTL

-----------------------------------------------------------------------------
(* The focus timer (FocusTimer).                                           *)

\* Rounding up to whole seconds adds less than a second (remaining_seconds).
LEMMA CeilRoundsUp ==
    ASSUME NEW ticks \in Nat
    PROVE  /\ T!Ceil(ticks) \in Nat
           /\ T!Ceil(ticks) * TimerTicksPerSecond >= ticks
           /\ T!Ceil(ticks) * TimerTicksPerSecond <= ticks + (TimerTicksPerSecond - 1)
           /\ T!Ceil(ticks) = 0 <=> ticks = 0
<1> DEFINE k == TimerTicksPerSecond
<1> DEFINE sum == ticks + k - 1
<1> DEFINE q == sum \div k
<1> DEFINE r == sum % k
<1>1. k \in Nat \ {0} /\ sum \in Nat
  BY TimerInstance DEF T!TimerAssumption
<1> HIDE DEF k, sum
<1>2. q \in Nat /\ r \in 0 .. (k - 1) /\ sum = k * q + r
  BY <1>1
<1>3. T!Ceil(ticks) = q
  BY DEF T!Ceil, sum, k
<1>4. sum = ticks + k - 1
  BY DEF sum
<1> HIDE DEF q, r
<1>5. q * k >= ticks /\ q * k <= ticks + (k - 1)
  BY <1>1, <1>2, <1>4
<1>6. q = 0 => ticks = 0
  BY <1>1, <1>2, <1>4
<1>7. ticks = 0 => q = 0
  BY <1>1, <1>2, <1>4
<1> QED
  BY <1>2, <1>3, <1>5, <1>6, <1>7 DEF k

\* update() in a state that keeps the sum completes a round only when all of it
\* has run.
LEMMA TimerStep == T!TimerInv /\ [T!Next]_(T!vars) => T!TimerInv'
<1> DEFINE k == TimerTicksPerSecond
<1>0. k \in Nat \ {0} /\ TimerPresets \subseteq Nat \ {0}
  BY TimerInstance DEF T!TimerAssumption
<1> SUFFICES ASSUME T!TimerInv, [T!Next]_(T!vars) PROVE T!TimerInv'
  OBVIOUS
<1>t. /\ ftState \in {"idle", "running", "paused", "completed"}
      /\ ftDuration \in Nat \ {0} /\ ftPaused \in Nat /\ ftLeft \in Int
      /\ ftRan \in Nat /\ ftPauses \in Nat
  BY DEF T!TimerInv
<1>k. \A n \in Nat : n * k \in Nat
  BY <1>0
<1> HIDE DEF k
<1>1. CASE \E preset \in TimerPresets : T!SelectMinutes(preset)
  BY <1>0, <1>1, <1>t DEF T!SelectMinutes, T!Refreshed, T!TimerInv
<1>2. CASE T!Pause
  <2> DEFINE c == T!Ceil(ftLeft)
  <2>1. ftState = "running" /\ ftLeft \in Nat /\ T!WithinRounding(ftRan + ftLeft)
    BY <1>2, <1>t DEF T!Pause, T!TimerInv
  <2>2. c \in Nat /\ c * k >= ftLeft /\ c * k <= ftLeft + (k - 1) /\ (c = 0 <=> ftLeft = 0)
    BY <2>1, CeilRoundsUp DEF k
  <2>3. T!remaining_seconds(ftState, ftPaused, ftLeft) = c
    BY <2>1, <2>2 DEF T!remaining_seconds
  <2>4. /\ ftState' = "paused" /\ ftPaused' = c /\ ftLeft' = ftLeft /\ ftPauses' = ftPauses + 1
        /\ UNCHANGED <<ftDuration, ftRefreshDue, ftRan>>
    BY <1>2, <2>3 DEF T!Pause, T!Refreshed
  <2> HIDE DEF c
  <2>5. T!WithinRounding(ftRan + ftPaused * k)'
    <3>1. /\ ftRan + ftLeft >= ftDuration * k
          /\ ftRan + ftLeft <= ftDuration * k + ftPauses * (k - 1)
      BY <2>1 DEF T!WithinRounding, k
    <3>2. (ftPauses + 1) * (k - 1) = ftPauses * (k - 1) + (k - 1)
      BY <1>0, <1>t
    <3>3. ftRan + c * k >= ftDuration * k
      BY <1>0, <1>t, <1>k, <2>1, <2>2, <3>1
    <3>4. ftPauses * (k - 1) \in Nat
      BY <1>0, <1>t
    <3>5. ftRan + c * k <= ftDuration * k + (ftPauses + 1) * (k - 1)
      BY <1>0, <1>t, <1>k, <2>1, <2>2, <3>1, <3>2, <3>4
    <3> QED
      BY <2>4, <3>3, <3>5 DEF T!WithinRounding, k
  <2> QED
    BY <1>t, <2>2, <2>4, <2>5 DEF T!TimerInv, k
<1>3. CASE T!Start
  <2> DEFINE seconds == IF ftState = "completed" THEN ftDuration ELSE ftPaused
  <2>1. seconds \in Nat /\ seconds * k \in Nat /\ (seconds * k = 0 <=> seconds = 0)
    BY <1>0, <1>t, <1>k
  <2> DEFINE over == T!remaining_seconds("running", seconds, seconds * k) = 0
  <2>2. over <=> seconds = 0
    BY <2>1, CeilRoundsUp DEF T!remaining_seconds
  <2>3. /\ ftState # "running" /\ ftState' = (IF over THEN "completed" ELSE "running")
        /\ ftPaused' = (IF over THEN 0 ELSE seconds) /\ ftLeft' = seconds * k
        /\ ftRan' = (IF ftState = "paused" THEN ftRan ELSE 0)
        /\ ftPauses' = (IF ftState = "paused" THEN ftPauses ELSE 0)
        /\ UNCHANGED <<ftDuration, ftRefreshDue>>
    BY <1>3 DEF T!Start, T!Refreshed, k
  <2> HIDE DEF over
  <2>4. /\ ftRan' + seconds * k >= ftDuration * k
        /\ ftRan' + seconds * k <= ftDuration * k + ftPauses' * (k - 1)
    <3>1. CASE ftState = "paused"
      BY <2>3, <3>1 DEF T!WithinRounding, T!TimerInv, k
    <3>2. CASE ftState # "paused"
      <4>1. seconds = ftDuration
        BY <1>t, <2>3, <3>2 DEF T!TimerInv
      <4>2. 0 * (k - 1) = 0 /\ ftDuration * k \in Nat
        BY <1>0, <1>t, <1>k
      <4>3. ftRan' = 0 /\ ftPauses' = 0
        BY <2>3, <3>2
      <4> HIDE DEF seconds
      <4> QED
        BY <4>1, <4>2, <4>3
    <3> QED
      BY <3>1, <3>2
  <2> HIDE DEF seconds
  <2>5. CASE over
    <3>1. seconds * k = 0 /\ ftState' = "completed" /\ ftPaused' = 0 /\ ftDuration' = ftDuration
          /\ ftLeft' = 0 /\ ftRan' \in Nat /\ ftPauses' \in Nat
      BY <1>t, <2>1, <2>2, <2>3, <2>5
    <3>2. T!WithinRounding(ftRan)'
      BY <2>4, <3>1 DEF T!WithinRounding, k
    <3> QED
      BY <1>t, <3>1, <3>2 DEF T!TimerInv
  <2>6. CASE ~over
    <3>1. ftState' = "running" /\ ftPaused' = seconds /\ ftDuration' = ftDuration
          /\ ftLeft' = seconds * k /\ ftLeft' \in Nat /\ ftLeft' # 0
          /\ ftRan' \in Nat /\ ftPauses' \in Nat
      BY <1>t, <2>1, <2>2, <2>3, <2>6
    <3>2. T!WithinRounding(ftRan + ftLeft)'
      BY <2>4, <3>1 DEF T!WithinRounding, k
    <3> QED
      BY <1>t, <2>1, <3>1, <3>2 DEF T!TimerInv
  <2> QED
    BY <2>5, <2>6
<1>4. CASE T!Reset
  BY <1>4, <1>t DEF T!Reset, T!Refreshed, T!TimerInv
<1>5. CASE T!Refresh
  <2>1. CASE ftState # "running"
    BY <1>5, <1>t, <2>1 DEF T!Refresh, T!Refreshed, T!TimerInv, T!WithinRounding
  <2>2. CASE ftState = "running"
    <3> DEFINE over == T!remaining_seconds(ftState, ftPaused, ftLeft) = 0
    <3>1. ftLeft \in Nat /\ T!WithinRounding(ftRan + ftLeft)
      BY <1>t, <2>2 DEF T!TimerInv
    <3>2. over <=> ftLeft = 0
      BY <2>2, <3>1, CeilRoundsUp DEF T!remaining_seconds
    <3>3. /\ ftState' = (IF over THEN "completed" ELSE ftState)
          /\ ftPaused' = (IF over THEN 0 ELSE ftPaused) /\ ftLeft' = ftLeft
          /\ ftRefreshDue' = FALSE /\ UNCHANGED <<ftDuration, ftRan, ftPauses>>
      BY <1>5, <2>2 DEF T!Refresh, T!Refreshed
    <3> HIDE DEF over
    <3>4. T!WithinRounding(ftRan + ftLeft)'
      BY <3>1, <3>3 DEF T!WithinRounding
    <3>5. CASE over
      BY <1>t, <2>2, <3>1, <3>2, <3>3, <3>4, <3>5 DEF T!TimerInv, T!WithinRounding
    <3>6. CASE ~over
      BY <1>t, <2>2, <3>1, <3>2, <3>3, <3>4, <3>6 DEF T!TimerInv
    <3> QED
      BY <3>5, <3>6
  <2> QED
    BY <2>1, <2>2
<1>6. CASE T!Tick
  BY <1>6, <1>t DEF T!Tick, T!TimerInv, T!WithinRounding
<1>7. CASE UNCHANGED T!vars
  BY <1>7 DEF T!vars, T!TimerInv, T!WithinRounding
<1> QED
  BY <1>1, <1>2, <1>3, <1>4, <1>5, <1>6, <1>7 DEF T!Next

\* A completed round has run its whole duration, and less than a second more for
\* each pause, for all durations, any resolution of the clock and any number of
\* pauses (remaining_seconds, update, pause).
THEOREM RoundsAreHonest == T!Spec => []RoundIsHonest
<1>1. T!Init => T!TimerInv
  BY TimerInstance DEF T!TimerAssumption, T!Init, T!TimerInv
<1>2. T!TimerInv => RoundIsHonest
  BY DEF T!TimerInv, T!WithinRounding, RoundIsHonest, T!RoundIsHonest
<1> QED
  BY <1>1, <1>2, TimerStep, PTL DEF T!Spec

-----------------------------------------------------------------------------
(* The loop of a program (AppRuntime).                                     *)

\* What a message appended to the channel leaves in front of it.
LEMMA MessageAdded ==
    ASSUME NEW message \in A!Messages, arSent \in Seq(A!Messages), NEW s, s = Append(arSent, message)
    PROVE  /\ s \in Seq(A!Messages) /\ s # <<>> /\ Len(s) = Len(arSent) + 1
           /\ arSent = <<>> => s[1] = message
           /\ arSent # <<>> => s[1] = arSent[1]
<1>1. Len(arSent) \in Nat /\ (arSent = <<>> <=> Len(arSent) = 0)
  BY EmptySeq, LenProperties
<1>2. s \in Seq(A!Messages) /\ Len(s) = Len(arSent) + 1 /\ s[Len(arSent) + 1] = message
      /\ \A i \in 1 .. Len(arSent) : s[i] = arSent[i]
  BY AppendProperties
<1>3. s # <<>>
  BY <1>1, <1>2, EmptySeq
<1> QED
  BY <1>1, <1>2, <1>3

\* A touch that sends nothing ends in the refresh and leaves the process alone.
LEMMA QuietTouch ==
    ASSUME A!RuntimeInv, A!Delivered, UNCHANGED <<A!process, arStop, arSent>>
    PROVE  A!RuntimeInv'
BY DEF A!RuntimeInv, A!Delivered, A!process

\* A request is made by a program that has reported ready and was not asked to
\* stop; it is the last one when the program stops for it.
LEMMA RequestTouch ==
    ASSUME A!RuntimeInv, A!Delivered, UNCHANGED A!process, arPressed # "nothing",
           NEW message \in A!Messages, NEW ok \in BOOLEAN, A!Send(message, ok), ok => arStop'
    PROVE  A!RuntimeInv'
<1>0. arReadyReported /\ ~arStop /\ arSent \in Seq(A!Messages)
      /\ Len(arSent) <= 2 /\ (Len(arSent) = 2 => arStop)
  BY DEF A!RuntimeInv, A!Delivered
<1>l. Len(arSent) # 2 /\ Len(arSent) <= 2
  BY <1>0
<1>n. Len(arSent) \in Nat
  BY <1>0, LenProperties
<1>m. \A n \in Nat : n <= 2 /\ n # 2 => n <= 1
  OBVIOUS
<1>1. arSent \in Seq(A!Messages) /\ Len(arSent) <= 1 /\ Len(arSent) \in Nat
  BY <1>0, <1>l, <1>m, <1>n
<1>2. CASE ok
  <2>1. arSession /\ arSent' = Append(arSent, message) /\ arStop'
    BY <1>2 DEF A!Send
  <2>2. arSent # <<>> /\ arSent[1] = "ready"
    BY <1>0, <2>1 DEF A!RuntimeInv
  <2>3. arSent' \in Seq(A!Messages) /\ arSent' # <<>> /\ Len(arSent') <= 2 /\ arSent'[1] = "ready"
    BY <1>1, <2>1, <2>2, MessageAdded
  <2>4. arPc' = "refresh" /\ arSession' = arSession /\ arReadyReported' = arReadyReported
        /\ arPresented' = arPresented
    BY DEF A!Delivered, A!process
  <2> QED
    BY <1>0, <2>1, <2>3, <2>4 DEF A!RuntimeInv
<1>3. CASE ~ok
  <2>1. arSent' = arSent
    BY <1>3 DEF A!Send
  <2>2. Len(arSent') # 2
    BY <1>1, <2>1
  <2> QED
    BY <1>0, <2>1, <2>2 DEF A!RuntimeInv, A!Delivered, A!process
<1> QED
  BY <1>2, <1>3

\* A round of the loop, and what happens around it, keeps the order of the control
\* messages (run_platform_application).
LEMMA RuntimeStep == A!RuntimeInv /\ [A!Next]_(A!vars) => A!RuntimeInv'
<1> SUFFICES ASSUME A!RuntimeInv, [A!Next]_(A!vars) PROVE A!RuntimeInv'
  OBVIOUS
<1>1. CASE A!Prepare
  <2>1. arPc \in {"drm", "input", "sandbox"} /\ UNCHANGED <<arSession, arGStop, arFailed,
            arPresented, arReadyReported, arStop, arSent, arPressed>>
    BY <1>1 DEF A!Prepare, A!FailCode
  <2>2. \/ arPc' \in {"input", "sandbox", "loop"}
        \/ arPc' = "exited" /\ arResult' \in {2, 3, 6}
    BY <1>1, <2>1 DEF A!Prepare, A!FailCode, A!After, A!Exit
  <2> QED
    BY <2>1, <2>2 DEF A!RuntimeInv
<1>2. CASE A!Loop
  BY <1>2 DEF A!Loop, A!LoopEnds, A!Exit, A!RuntimeInv
<1>3. CASE A!Refresh
  <2>1. arPc' = "report" /\ (arPresented' \/ arFailed') /\ (arPresented => arPresented')
        /\ UNCHANGED <<arSession, arGStop, arReadyReported, arStop, arSent, arPressed, arResult>>
    BY <1>3 DEF A!Refresh
  <2> QED
    BY <2>1 DEF A!RuntimeInv
<1>4. CASE A!ReportReady
  <2>0. UNCHANGED <<arSession, arGStop, arFailed, arPresented, arStop, arPressed>>
        /\ arPc = "report"
    BY <1>4 DEF A!ReportReady
  <2>1. CASE arPresented /\ ~arReadyReported /\ arSession /\ A!Send("ready", TRUE)
             /\ arReadyReported' = TRUE /\ arPc' = "limits"
    <3>1. arSent = <<>> /\ arSent \in Seq(A!Messages) /\ arSent' = Append(arSent, "ready")
          /\ "ready" \in A!Messages
      BY <2>1 DEF A!RuntimeInv, A!Send, A!Messages
    <3>2. arSent' \in Seq(A!Messages) /\ arSent' # <<>> /\ Len(arSent') = 1 /\ arSent'[1] = "ready"
      BY <3>1, MessageAdded, EmptySeq
    <3> QED
      BY <2>0, <2>1, <3>2 DEF A!RuntimeInv
  <2>2. CASE arSession /\ A!Send("ready", FALSE) /\ A!Exit(IF arFailed THEN 4 ELSE 5)
             /\ UNCHANGED arReadyReported
    <3>1. arPc' = "exited" /\ arResult' \in {4, 5} /\ arSent' = arSent
      BY <2>2 DEF A!Send, A!Exit
    <3> QED
      BY <2>0, <2>2, <3>1 DEF A!RuntimeInv
  <2>3. CASE arPc' = "limits" /\ arSent' = arSent /\ arReadyReported'
             /\ (~arReadyReported => arPresented /\ ~arSession)
    BY <2>0, <2>3 DEF A!RuntimeInv
  <2>4. CASE arPc' = "limits" /\ UNCHANGED <<arSent, arReadyReported>>
             /\ ~(arPresented /\ ~arReadyReported)
    BY <2>0, <2>4 DEF A!RuntimeInv
  <2> QED
    BY <1>4, <2>1, <2>2, <2>3, <2>4 DEF A!ReportReady
<1>5. CASE A!Limits
  <2>1. UNCHANGED <<arSession, arGStop, arFailed, arPresented, arReadyReported, arStop, arSent,
                    arPressed>> /\ arPc = "limits"
    BY <1>5 DEF A!Limits
  <2>2. arPc' = "loop" \/ (arPc' = "exited" /\ ~arSession)
    BY <1>5 DEF A!Limits, A!Exit
  <2> QED
    BY <2>1, <2>2 DEF A!RuntimeInv
<1>6. CASE A!Signal
  <2>1. UNCHANGED <<arSession, arFailed, arPresented, arReadyReported, arStop, arSent,
                    arPressed, arPc>> /\ arPc # "exited"
    BY <1>6 DEF A!Signal
  <2> QED
    BY <2>1 DEF A!RuntimeInv
<1>7. CASE A!Touch
  <2>0. "home" \in A!Messages /\ "exit" \in A!Messages /\ "launch" \in A!Messages
    BY DEF A!Messages
  <2>1. CASE A!NoTouch \/ A!EndGesture \/ A!ScrimClick \/ A!ExitClick \/ A!CancelExit \/ A!Animate
    BY <2>1, QuietTouch DEF A!NoTouch, A!EndGesture, A!ScrimClick, A!ExitClick, A!CancelExit,
       A!Animate, A!Click
  <2>2. CASE \E t \in A!Targets : A!Press(t) \/ A!Slide(t)
    BY <2>2, QuietTouch DEF A!Press, A!Slide, A!Click
  <2>3. CASE \E delta \in {-RuntimeHeight, -1, 1, RuntimeHeight} : A!Drag(delta)
    BY <2>3, QuietTouch DEF A!Drag
  <2>4. ASSUME NEW ok \in BOOLEAN, A!HomeClick(ok) PROVE A!RuntimeInv'
    BY <2>0, <2>4, RequestTouch DEF A!HomeClick, A!Click
  <2>5. ASSUME NEW ok \in BOOLEAN, A!ConfirmExit(ok) PROVE A!RuntimeInv'
    BY <2>0, <2>5, RequestTouch DEF A!ConfirmExit, A!Click
  <2>6. ASSUME NEW ok \in BOOLEAN, A!LaunchClick(ok) PROVE A!RuntimeInv'
    BY <2>0, <2>6, RequestTouch DEF A!LaunchClick, A!Click
  <2> QED
    BY <1>7, <2>1, <2>2, <2>3, <2>4, <2>5, <2>6 DEF A!Touch
<1>8. CASE UNCHANGED A!vars
  BY <1>8 DEF A!vars, A!RuntimeInv
<1> QED
  BY <1>1, <1>2, <1>3, <1>4, <1>5, <1>6, <1>7, <1>8 DEF A!Next

\* A program's first message says that its picture is there, one request follows at
\* most, and it ends with 0 only when it was asked to, whatever the finger does and
\* however often the channel fails (run_platform_application, AppShell, LauncherUi).
THEOREM OneRequestAfterReady == A!Spec => []ReadyThenOneRequest
<1>1. A!Init => A!RuntimeInv
  BY EmptySeq DEF A!Init, A!RuntimeInv
<1>2. A!RuntimeInv => ReadyThenOneRequest
  BY DEF A!RuntimeInv, ReadyThenOneRequest, A!ReadyThenOneRequest
<1> QED
  BY <1>1, <1>2, RuntimeStep, PTL DEF A!Spec

-----------------------------------------------------------------------------
(* The Falcon manager (FalconManager).                                     *)

CallRecords == [kind : M!Kinds, current : BOOLEAN]
Outcomes == [installed : BOOLEAN, available : BOOLEAN, repairRequired : BOOLEAN,
             updateAvailable : BOOLEAN]
AnswerRecords == [kind : M!Kinds, current : BOOLEAN, outcome : Outcomes]

\* A new generation keeps the calls in their order and says of each that the
\* page does not wait for it any more.
LEMMA OutdatedQueue ==
    ASSUME NEW C, NEW s \in Seq(C),
           \A x \in C : [x EXCEPT !.current = FALSE] \in C
    PROVE  /\ M!Outdated(s) \in Seq(C) /\ Len(M!Outdated(s)) = Len(s)
           /\ s # <<>> => M!Outdated(s) # <<>> /\ M!Outdated(s)[1] = [s[1] EXCEPT !.current = FALSE]
           /\ s = <<>> => M!Outdated(s) = <<>>
<1>1. Len(s) \in Nat /\ DOMAIN s = 1..Len(s) /\ \A i \in 1..Len(s) : s[i] \in C
  BY LenProperties, ElementOfSeq
<1>2. M!Outdated(s) = [i \in 1..Len(s) |-> [s[i] EXCEPT !.current = FALSE]]
  BY <1>1 DEF M!Outdated
<1> DEFINE n == Len(s)
<1> DEFINE t == [i \in 1..n |-> [s[i] EXCEPT !.current = FALSE]]
<1>3. t \in [1..n -> C]
  BY <1>1
<1>4. t \in Seq(C) /\ Len(t) = n
  <2> HIDE DEF t
  <2>1. t \in Seq(C)
    BY <1>1, <1>3, SeqDef
  <2>2. DOMAIN t = 1..Len(t) /\ DOMAIN t = 1..n /\ Len(t) \in Nat
    BY <1>3, <2>1, LenProperties
  <2>3. \A k \in Nat : k \in 1..Len(t) <=> k \in 1..n
    BY <2>2
  <2> HIDE DEF n
  <2>4. n \in Nat
    BY <1>1 DEF n
  <2>5. (Len(t) # 0 => Len(t) <= n) /\ (n # 0 => n <= Len(t))
    BY <2>2, <2>3, <2>4
  <2>6. Len(t) = n
    BY <2>2, <2>4, <2>5
  <2> QED
    BY <2>1, <2>6
<1>5. s # <<>> => n # 0
  BY EmptySeq
<1>6. s # <<>> => t[1] = [s[1] EXCEPT !.current = FALSE] /\ t # <<>>
  <2>1. s # <<>> => 1 \in 1..n
    BY <1>1, <1>5
  <2> QED
    BY <1>4, <1>5, <2>1, EmptySeq
<1>7. s = <<>> => t = <<>>
  <2>1. s = <<>> => n = 0
    BY EmptySeq
  <2> HIDE DEF t
  <2> QED
    BY <1>4, <2>1, EmptySeq
<1> QED
  BY <1>2, <1>4, <1>6, <1>7

\* The types of the page's two queues, with their records named.
LEMMA QueueTypesDef ==
    M!QueueTypes <=> fmCalls \in Seq(CallRecords) /\ fmAnswers \in Seq(AnswerRecords)
BY DEF M!QueueTypes, CallRecords, AnswerRecords, Outcomes

\* What the records in those queues hold, and what becomes of one when the page
\* starts another life.
LEMMA RecordFields ==
    /\ \A c \in CallRecords : /\ [c EXCEPT !.current = FALSE] \in CallRecords
                              /\ [c EXCEPT !.current = FALSE].kind = c.kind
    /\ \A a \in AnswerRecords : [a EXCEPT !.current = FALSE] \in AnswerRecords
    /\ \A k \in M!Kinds : [kind |-> k, current |-> TRUE] \in CallRecords
    /\ \A c \in CallRecords, o \in Outcomes :
          [kind |-> c.kind, current |-> c.current, outcome |-> o] \in AnswerRecords
    /\ \A a \in AnswerRecords : a.outcome \in Outcomes /\ a.outcome.installed \in BOOLEAN
BY DEF CallRecords, AnswerRecords, Outcomes

\* What the native module answers is an outcome that says whether the platform is
\* installed.
LEMMA InspectedOutcome ==
    /\ M!inspectUnlocked \in Outcomes /\ M!Nothing \in Outcomes
    /\ M!inspectUnlocked.installed = M!Installed
    /\ \A b \in BOOLEAN : [M!inspectUnlocked EXCEPT !.repairRequired = b] \in Outcomes
    /\ [M!inspectUnlocked EXCEPT !.installed = FALSE, !.repairRequired = FALSE] \in Outcomes
    /\ [M!inspectUnlocked EXCEPT !.installed = FALSE, !.repairRequired = TRUE] \in Outcomes
<1> DEFINE r == M!inspectUnlocked
<1>1. M!Nothing \in Outcomes
  BY DEF M!Nothing, Outcomes
<1>2. r \in Outcomes /\ r.installed = M!Installed
  <2>1. M!Installed \in BOOLEAN
    BY DEF M!Installed
  <2>2. (fmStored # 0 /\ (fmDegraded \/ ~M!Installed \/ fmLink # fmStored)) \in BOOLEAN
    OBVIOUS
  <2>3. (fmStored # 0 /\ fmBundled > fmStored) \in BOOLEAN
    OBVIOUS
  <2> QED
    BY <2>1, <2>2, <2>3 DEF M!inspectUnlocked, Outcomes
<1> HIDE DEF r
<1>3. \A b \in BOOLEAN : [r EXCEPT !.repairRequired = b] \in Outcomes
  BY <1>2 DEF Outcomes
<1>4. [r EXCEPT !.installed = FALSE, !.repairRequired = FALSE] \in Outcomes
  BY <1>2 DEF Outcomes
<1>5. [r EXCEPT !.installed = FALSE, !.repairRequired = TRUE] \in Outcomes
  BY <1>2 DEF Outcomes
<1> QED
  BY <1>1, <1>2, <1>3, <1>4, <1>5 DEF r

\* The next generation: the call under way stays first, the new one comes last.
LEMMA NextGeneration ==
    ASSUME M!QueueTypes, NEW more, M!NewGeneration(more),
           more = <<>> \/ \E k \in M!Kinds : more = M!Request(k)
    PROVE  /\ (M!QueueTypes)'
           /\ fmCalls # <<>> => fmCalls' # <<>> /\ Head(fmCalls').kind = Head(fmCalls).kind
           /\ \A k \in M!Kinds : more = M!Request(k) =>
                 fmCalls' # <<>> /\ fmCalls'[Len(fmCalls')] = [kind |-> k, current |-> TRUE]
<1> DEFINE old == M!Outdated(fmCalls)
<1>1. fmCalls \in Seq(CallRecords) /\ fmAnswers \in Seq(AnswerRecords)
  BY QueueTypesDef
<1>2. /\ old \in Seq(CallRecords) /\ Len(old) = Len(fmCalls)
      /\ fmCalls # <<>> => old # <<>> /\ old[1] = [fmCalls[1] EXCEPT !.current = FALSE]
  BY <1>1, RecordFields, OutdatedQueue
<1>3. fmAnswers' \in Seq(AnswerRecords)
  BY <1>1, RecordFields, OutdatedQueue DEF M!NewGeneration
<1>4. fmCalls' = old \o more
  BY DEF M!NewGeneration
<1>5. more \in Seq(CallRecords)
  <2>1. CASE more = <<>>
    BY <2>1, EmptySeq
  <2>2. ASSUME NEW k \in M!Kinds, more = M!Request(k) PROVE more \in Seq(CallRecords)
    BY <2>2, RecordFields, EmptySeq DEF M!Request
  <2> QED
    BY <2>1, <2>2
<1> HIDE DEF old
<1>6. /\ fmCalls' \in Seq(CallRecords) /\ Len(fmCalls') = Len(old) + Len(more)
      /\ Len(old) \in Nat /\ Len(more) \in Nat
      /\ \A i \in 1..Len(old) : fmCalls'[i] = old[i]
      /\ \A i \in 1..Len(more) : fmCalls'[Len(old) + i] = more[i]
  <2>0. old \in Seq(CallRecords)
    BY <1>2
  <2>1. /\ old \o more \in Seq(CallRecords) /\ Len(old \o more) = Len(old) + Len(more)
        /\ Len(old) \in Nat /\ Len(more) \in Nat
        /\ \A i \in 1..Len(old) : (old \o more)[i] = old[i]
        /\ \A i \in 1..Len(more) : (old \o more)[Len(old) + i] = more[i]
    BY <1>5, <2>0, QueuesJoined
  <2> QED
    BY <1>4, <2>1
<1>7. (M!QueueTypes)'
  <2>1. (fmCalls \in Seq(CallRecords) /\ fmAnswers \in Seq(AnswerRecords))'
    BY <1>3, <1>6 DEF CallRecords, AnswerRecords, Outcomes, M!Kinds
  <2> QED
    BY <2>1, QueueTypesDef, PTL
<1>8. ASSUME fmCalls # <<>>
      PROVE  fmCalls' # <<>> /\ Head(fmCalls').kind = Head(fmCalls).kind
  <2>1. Len(old) \in Nat \ {0} /\ 1 \in 1..Len(old)
    BY <1>2, <1>6, <1>8, EmptySeq
  <2>2. Len(fmCalls') # 0
    BY <1>6, <2>1
  <2>3. fmCalls' # <<>>
    BY <1>6, <2>2, EmptySeq
  <2>4. fmCalls'[1] = [fmCalls[1] EXCEPT !.current = FALSE]
    BY <1>2, <1>6, <1>8, <2>1
  <2>5. Head(fmCalls') = fmCalls'[1] /\ Head(fmCalls) = fmCalls[1] /\ Head(fmCalls) \in CallRecords
    BY <1>1, <1>6, <1>8, <2>3, TailOf
  <2> QED
    BY <2>3, <2>4, <2>5, RecordFields
<1>9. ASSUME NEW k \in M!Kinds, more = M!Request(k)
      PROVE  fmCalls' # <<>> /\ fmCalls'[Len(fmCalls')] = [kind |-> k, current |-> TRUE]
  <2>1. Len(more) = 1 /\ more[1] = [kind |-> k, current |-> TRUE]
    BY <1>9 DEF M!Request
  <2>2. Len(fmCalls') = Len(old) + 1 /\ 1 \in 1..Len(more)
    BY <1>6, <2>1
  <2>3. fmCalls'[Len(old) + 1] = more[1]
    BY <1>6, <2>2
  <2>4. Len(fmCalls') # 0
    BY <1>6, <2>2
  <2>5. fmCalls' # <<>>
    BY <1>6, <2>4, EmptySeq
  <2> QED
    BY <2>1, <2>2, <2>3, <2>5
<1> QED
  BY <1>7, <1>8, <1>9

\* An answer: the first call leaves the queue, the last one stays the last.
LEMMA CallAnswered ==
    ASSUME M!QueueTypes, fmCalls # <<>>, NEW result \in Outcomes, M!Answer(result)
    PROVE  /\ (M!QueueTypes)' /\ fmPc' = "idle"
           /\ fmAnswers' # <<>> /\ fmAnswers'[Len(fmAnswers')].outcome = result
           /\ fmAnswers'[Len(fmAnswers')].kind = M!Call.kind
           /\ fmAnswers'[Len(fmAnswers')].current = M!Call.current
           /\ fmCalls' = <<>> => M!Call = fmCalls[Len(fmCalls)]
           /\ fmCalls' # <<>> => fmCalls'[Len(fmCalls')] = fmCalls[Len(fmCalls)]
<1> DEFINE answer == [kind |-> M!Call.kind, current |-> M!Call.current, outcome |-> result]
<1>1. fmCalls \in Seq(CallRecords) /\ fmAnswers \in Seq(AnswerRecords)
  BY QueueTypesDef
<1>2. M!Call \in CallRecords /\ M!Call = fmCalls[1] /\ fmCalls' = Tail(fmCalls)
      /\ fmCalls' \in Seq(CallRecords) /\ Len(fmCalls') = Len(fmCalls) - 1 /\ Len(fmCalls) \in Nat \ {0}
      /\ \A i \in 1..Len(fmCalls') : fmCalls'[i] = fmCalls[i + 1]
  BY <1>1, TailOf DEF M!Answer, M!Call
<1>3. answer \in AnswerRecords
  BY <1>2, RecordFields
<1>4. fmAnswers' = Append(fmAnswers, answer) /\ fmPc' = "idle"
  BY DEF M!Answer
<1>5. /\ fmAnswers' \in Seq(AnswerRecords) /\ fmAnswers' # <<>>
      /\ fmAnswers'[Len(fmAnswers')] = answer
  <2> HIDE DEF answer
  <2> QED
    BY <1>1, <1>3, <1>4, AppendTo
<1>6. (M!QueueTypes)'
  <2>1. (fmCalls \in Seq(CallRecords) /\ fmAnswers \in Seq(AnswerRecords))'
    BY <1>2, <1>5 DEF CallRecords, AnswerRecords, Outcomes, M!Kinds
  <2> QED
    BY <2>1, QueueTypesDef, PTL
<1>7. ASSUME fmCalls' = <<>> PROVE M!Call = fmCalls[Len(fmCalls)]
  <2>1. Len(fmCalls') = 0
    BY <1>7
  <2>2. Len(fmCalls) = 1
    BY <1>2, <2>1
  <2> QED
    BY <1>2, <2>2
<1>8. ASSUME fmCalls' # <<>> PROVE fmCalls'[Len(fmCalls')] = fmCalls[Len(fmCalls)]
  <2>1. Len(fmCalls') \in Nat \ {0}
    BY <1>2, <1>8, EmptySeq
  <2>2. Len(fmCalls') \in 1..Len(fmCalls') /\ Len(fmCalls') + 1 = Len(fmCalls)
    BY <1>2, <2>1
  <2> QED
    BY <1>2, <2>2
<1> QED
  BY <1>4, <1>5, <1>6, <1>7, <1>8

\* A step of the page that starts a new generation leaves the transaction alone.
LEMMA PageKeepsTransaction ==
    ASSUME M!QueueTypes, M!UnderWay, NEW more, M!NewGeneration(more),
           more = <<>> \/ \E k \in M!Kinds : more = M!Request(k),
           UNCHANGED <<M!disk, fmBundled, fmPc>>
    PROVE  (M!QueueTypes)' /\ (M!UnderWay)'
<1>1. (M!QueueTypes)'
  BY NextGeneration
<1>2. fmCalls # <<>> => fmCalls' # <<>> /\ Head(fmCalls').kind = Head(fmCalls).kind
  BY NextGeneration
<1> QED
  BY <1>1, <1>2 DEF M!UnderWay, M!Call, M!disk

\* An answer to anything but the page's last question leaves that question last; an
\* answer to it says what is installed.
LEMMA AnswerKeepsAsked ==
    ASSUME M!QueueTypes, M!LastAsked, fmCalls # <<>>, NEW result \in Outcomes, M!Answer(result),
           UNCHANGED <<fmActive, fmOverlay>>,
           M!Call.kind # "inspect" \/ result.installed = (M!Installed)'
    PROVE  (M!LastAsked)'
<1> SUFFICES ASSUME fmActive', ~fmOverlay'
             PROVE  \/ M!Asked(fmCalls')
                    \/ fmCalls' = <<>> /\ M!Asked(fmAnswers')
                       /\ fmAnswers'[Len(fmAnswers')].outcome.installed = (M!Installed)'
  BY DEF M!LastAsked, M!Asked
<1>1. M!Asked(fmCalls)
  BY DEF M!LastAsked
<1>2. CASE fmCalls' # <<>>
  BY <1>1, <1>2, CallAnswered DEF M!Asked
<1>3. CASE fmCalls' = <<>>
  <2>1. M!Call.kind = "inspect" /\ M!Call.current = TRUE
    BY <1>1, <1>3, CallAnswered DEF M!Asked
  <2> QED
    BY <1>3, <2>1, CallAnswered DEF M!Asked
<1> QED
  BY <1>2, <1>3

\* The native module's steps.
LEMMA NativeStep ==
    ASSUME M!ManagerInv, M!Native
    PROVE  (M!QueueTypes)' /\ (M!UnderWay)' /\ (M!LastAsked)'
<1>0. M!QueueTypes /\ M!UnderWay /\ M!LastAsked
  BY DEF M!ManagerInv
<1>p. UNCHANGED <<fmActive, fmOverlay>>
  BY DEF M!Native, M!NativeInspects, M!InstallPrepares, M!InstallStages, M!InstallCommits,
     M!activateRelease, M!RemoveChecks, M!RemoveIsolates, M!RemoveErases, M!page
<1>c. fmCalls # <<>>
  BY <1>0 DEF M!Native, M!NativeInspects, M!InstallPrepares, M!InstallStages, M!InstallCommits,
     M!activateRelease, M!RemoveChecks, M!RemoveIsolates, M!RemoveErases, M!UnderWay
<1>g. ASSUME NEW label, M!Goto(label)
      PROVE  /\ (M!QueueTypes)' /\ (M!LastAsked)'
             /\ fmPc' = label /\ fmCalls' # <<>> /\ (M!Call)' = M!Call
  <2>1. UNCHANGED <<fmCalls, fmAnswers>> /\ fmPc' = label
    BY <1>g DEF M!Goto
  <2>2. (M!QueueTypes)'
    BY <1>0, <2>1 DEF M!QueueTypes, M!Kinds
  <2>3. (M!LastAsked)'
    BY <1>0, <1>p, <1>c, <2>1 DEF M!LastAsked, M!Asked
  <2> QED
    BY <1>c, <2>1, <2>2, <2>3 DEF M!Call
<1>a. ASSUME NEW result \in Outcomes, M!Answer(result),
             M!Call.kind # "inspect" \/ result.installed = (M!Installed)',
             fmLink' # 0 => fmRoot' /\ fmLink' \in fmReleases'
      PROVE  (M!QueueTypes)' /\ (M!UnderWay)' /\ (M!LastAsked)'
  <2>1. (M!QueueTypes)' /\ fmPc' = "idle"
    BY <1>0, <1>a, <1>c, CallAnswered
  <2>2. (M!LastAsked)'
    BY <1>0, <1>a, <1>c, <1>p, AnswerKeepsAsked
  <2>3. (M!UnderWay)'
    BY <1>a, <2>1 DEF M!UnderWay
  <2> QED
    BY <2>1, <2>2, <2>3
<1>o. /\ M!inspectUnlocked \in Outcomes /\ M!Nothing \in Outcomes
      /\ M!inspectUnlocked.installed = M!Installed
  BY InspectedOutcome
<1>l. fmLink # 0 => fmRoot /\ fmLink \in fmReleases
  BY <1>0 DEF M!UnderWay
<1>1. CASE M!NativeInspects
  <2>1. M!Answer(M!inspectUnlocked) /\ UNCHANGED M!disk
    BY <1>1 DEF M!NativeInspects
  <2>2. (M!Installed)' = M!Installed
    BY <2>1 DEF M!Installed, M!disk
  <2> QED
    BY <1>a, <1>l, <1>o, <2>1, <2>2 DEF M!disk
<1>2. CASE M!InstallPrepares
  <2>1. /\ M!Call.kind \in M!Changing /\ M!Call.kind # "inspect"
        /\ UNCHANGED <<fmReleases, fmLink, fmStored, fmDegraded, fmBundled>>
    BY <1>2 DEF M!InstallPrepares, M!Changing, M!Kinds
  <2>2. CASE M!Goto("stage") /\ fmRoot' = TRUE
    <3>1. (M!UnderWay)'
      BY <1>g, <1>l, <2>1, <2>2 DEF M!UnderWay, M!Changing, M!Kinds
    <3> QED
      BY <1>g, <2>2, <3>1
  <2>3. CASE M!InstallFails /\ (fmRoot => fmRoot')
    BY <1>a, <1>l, <1>o, <2>1, <2>3 DEF M!InstallFails
  <2>4. \/ M!Goto("stage") /\ fmRoot' = TRUE
        \/ M!InstallFails /\ (fmRoot' = fmRoot \/ fmRoot' = TRUE)
    BY <1>2 DEF M!InstallPrepares
  <2> QED
    BY <2>2, <2>3, <2>4
<1>3. CASE M!InstallStages
  <2>1. /\ fmRoot /\ M!Call.kind \in M!Changing /\ M!Call.kind # "inspect" /\ fmPc = "stage"
        /\ UNCHANGED <<fmRoot, fmLink, fmStored, fmBundled>>
    BY <1>0, <1>3 DEF M!InstallStages, M!UnderWay, M!Changing, M!Kinds
  <2>2. CASE M!Goto("commit") /\ fmReleases' = fmReleases \cup {fmBundled}
    <3>1. (M!UnderWay)'
      BY <1>g, <1>l, <2>1, <2>2 DEF M!UnderWay, M!Changing, M!Kinds
    <3> QED
      BY <1>g, <2>2, <3>1
  <2>3. CASE M!InstallFails /\ fmReleases \subseteq fmReleases'
    BY <1>a, <1>l, <1>o, <2>1, <2>3 DEF M!InstallFails
  <2> QED
    BY <1>3, <2>2, <2>3 DEF M!InstallStages
<1>4. CASE M!InstallCommits
  <2>1. /\ fmRoot /\ M!Call.kind \in M!Changing /\ M!Call.kind # "inspect"
        /\ fmBundled \in fmReleases
        /\ UNCHANGED <<fmRoot, fmReleases, fmLink, fmBundled>>
    BY <1>0, <1>4 DEF M!InstallCommits, M!UnderWay, M!Changing, M!Kinds
  <2>2. CASE M!Goto("activate") /\ fmStored' = fmBundled
    <3>1. (M!UnderWay)'
      BY <1>g, <1>l, <2>1, <2>2 DEF M!UnderWay, M!Changing, M!Kinds
    <3> QED
      BY <1>g, <2>2, <3>1
  <2>3. CASE M!InstallFails
    BY <1>a, <1>l, <1>o, <2>1, <2>3 DEF M!InstallFails
  <2> QED
    BY <1>4, <2>2, <2>3 DEF M!InstallCommits
<1>5. CASE M!activateRelease
  <2>1. /\ fmRoot /\ M!Call.kind \in M!Changing /\ M!Call.kind # "inspect"
        /\ fmStored \in fmReleases
        /\ UNCHANGED <<fmRoot, fmReleases, fmStored>>
    BY <1>0, <1>5 DEF M!activateRelease, M!UnderWay, M!Changing, M!Kinds
  <2>2. CASE fmLink' = fmStored /\ M!Answer([M!inspectUnlocked EXCEPT !.repairRequired = fmDegraded])
    <3>1. [M!inspectUnlocked EXCEPT !.repairRequired = fmDegraded] \in Outcomes
      BY <1>o DEF M!ManagerInv, Outcomes
    <3> QED
      BY <1>a, <2>1, <2>2, <3>1
  <2>3. CASE M!InstallFails /\ fmLink' \in {fmLink, fmStored}
    BY <1>a, <1>l, <1>o, <2>1, <2>3 DEF M!InstallFails
  <2> QED
    BY <1>5, <2>2, <2>3 DEF M!activateRelease
<1>6. CASE M!RemoveChecks
  <2>1. M!Call.kind = "remove" /\ UNCHANGED <<fmRoot, fmReleases, fmLink, fmStored, fmBundled>>
    BY <1>6 DEF M!RemoveChecks, M!disk
  <2>2. CASE M!Goto("isolate")
    <3>1. (M!UnderWay)'
      BY <1>g, <1>l, <2>1, <2>2 DEF M!UnderWay
    <3> QED
      BY <1>g, <2>2, <3>1
  <2>3. CASE M!Answer(M!inspectUnlocked)
    BY <1>a, <1>l, <1>o, <2>1, <2>3
  <2> QED
    BY <1>6, <2>2, <2>3 DEF M!RemoveChecks
<1>7. CASE M!RemoveIsolates
  <2>1. M!Call.kind = "remove"
    BY <1>0, <1>7 DEF M!RemoveIsolates, M!UnderWay
  <2>2. CASE M!Goto("erase") /\ M!Isolated
    <3>1. (M!UnderWay)'
      BY <1>g, <2>1, <2>2 DEF M!UnderWay, M!Isolated
    <3> QED
      BY <1>g, <2>2, <3>1
  <2>3. CASE M!Answer(M!inspectUnlocked) /\ (M!Isolated \/ UNCHANGED <<fmRoot, fmReleases, fmLink>>)
    <3>1. fmLink' # 0 => fmRoot' /\ fmLink' \in fmReleases'
      BY <1>l, <2>3 DEF M!Isolated
    <3> QED
      BY <1>a, <1>o, <2>1, <2>3, <3>1
  <2> QED
    BY <1>7, <2>2, <2>3 DEF M!RemoveIsolates
<1>8. CASE M!RemoveErases
  <2>1. M!Call.kind = "remove" /\ UNCHANGED <<fmRoot, fmReleases, fmLink>>
    BY <1>0, <1>8 DEF M!RemoveErases, M!UnderWay
  <2>2. PICK result \in Outcomes : M!Answer(result)
    BY <1>8, InspectedOutcome DEF M!RemoveErases
  <2> QED
    BY <1>a, <1>l, <2>1, <2>2
<1> QED
  BY <1>1, <1>2, <1>3, <1>4, <1>5, <1>6, <1>7, <1>8 DEF M!Native

\* The page's steps.
LEMMA PageStep ==
    ASSUME M!ManagerInv, M!Page
    PROVE  (M!QueueTypes)' /\ (M!UnderWay)' /\ (M!LastAsked)'
<1>0. M!QueueTypes /\ M!UnderWay /\ M!LastAsked
  BY DEF M!ManagerInv
<1>k. "inspect" \in M!Kinds /\ {"install", "repair", "upgrade", "remove"} \subseteq M!Kinds
  BY DEF M!Kinds
<1>r. ASSUME M!NewGeneration(M!Request("inspect"))
      PROVE  (M!LastAsked)'
  <2>1. fmCalls' # <<>> /\ fmCalls'[Len(fmCalls')] = [kind |-> "inspect", current |-> TRUE]
    BY <1>0, <1>k, <1>r, NextGeneration
  <2> QED
    BY <2>1 DEF M!LastAsked, M!Asked
<1>h. ASSUME ~fmActive' \/ fmOverlay' PROVE (M!LastAsked)'
  BY <1>h DEF M!LastAsked
<1>1. CASE M!onShow
  BY <1>0, <1>1, <1>k, <1>r, PageKeepsTransaction DEF M!onShow, M!refresh
<1>2. CASE M!onHide
  <2>1. M!NewGeneration(<<>>) /\ UNCHANGED <<M!disk, fmBundled, fmPc>> /\ fmActive' = FALSE
    BY <1>2 DEF M!onHide
  <2> QED
    BY <1>0, <1>h, <2>1, PageKeepsTransaction
<1>3. CASE M!onUnload
  <2>1. UNCHANGED <<M!disk, fmBundled>> /\ fmActive' = FALSE
    BY <1>3 DEF M!onUnload
  <2>2. CASE fmCalls' = <<>> /\ fmAnswers' = <<>> /\ fmPc' = "idle"
    <3>1. (M!QueueTypes)'
      <4>1. (fmCalls \in Seq(CallRecords) /\ fmAnswers \in Seq(AnswerRecords))'
        BY <2>2, EmptySeq
      <4> QED
        BY <4>1, QueueTypesDef, PTL
    <3>2. (M!UnderWay)'
      BY <1>0, <2>1, <2>2 DEF M!UnderWay, M!disk
    <3> QED
      BY <1>h, <2>1, <3>1, <3>2
  <2>3. CASE M!NewGeneration(<<>>) /\ fmPc' = fmPc
    BY <1>0, <1>h, <2>1, <2>3, PageKeepsTransaction
  <2> QED
    BY <1>3, <2>2, <2>3 DEF M!onUnload
<1>4. CASE M!selectOperation
  <2>1. PICK operation \in {"install", "repair", "upgrade", "remove"} :
           \/ fmOverlay' = TRUE /\ UNCHANGED <<fmCalls, fmAnswers>>
           \/ M!execute(operation)
    BY <1>4 DEF M!selectOperation
  <2>2. UNCHANGED <<M!disk, fmBundled, fmPc>>
    BY <1>4 DEF M!selectOperation
  <2>3. CASE fmOverlay' = TRUE /\ UNCHANGED <<fmCalls, fmAnswers>>
    <3>1. (M!QueueTypes)' /\ (M!UnderWay)'
      BY <1>0, <2>2, <2>3 DEF M!QueueTypes, M!UnderWay, M!Call, M!disk, M!Kinds, M!Changing
    <3> QED
      BY <1>h, <2>3, <3>1
  <2>4. CASE M!execute(operation)
    BY <1>0, <1>h, <1>k, <2>2, <2>4, PageKeepsTransaction DEF M!execute
  <2> QED
    BY <2>1, <2>3, <2>4
<1>5. CASE M!confirmRemove
  <2>1. UNCHANGED <<M!disk, fmBundled, fmPc>> /\ M!execute("remove")
    BY <1>5 DEF M!confirmRemove
  <2> QED
    BY <1>0, <1>h, <1>k, <2>1, PageKeepsTransaction DEF M!execute
<1>6. CASE M!closeOverlay
  BY <1>0, <1>6, <1>k, <1>r, PageKeepsTransaction DEF M!closeOverlay, M!refresh
<1>7. CASE M!Resume
  <2>0. UNCHANGED <<M!disk, fmBundled, fmCalls, fmPc, fmActive, fmOverlay>>
    BY <1>7 DEF M!Resume
  <2>1. fmAnswers \in Seq(AnswerRecords) /\ fmCalls \in Seq(CallRecords)
        /\ fmAnswers # <<>> /\ fmAnswers' = Tail(fmAnswers)
    BY <1>0, <1>7, QueueTypesDef DEF M!Resume
  <2>2. /\ Len(fmAnswers) \in Nat \ {0} /\ Head(fmAnswers) = fmAnswers[1]
        /\ fmAnswers' \in Seq(AnswerRecords) /\ Len(fmAnswers') = Len(fmAnswers) - 1
        /\ \A i \in 1..Len(fmAnswers') : fmAnswers'[i] = fmAnswers[i + 1]
    BY <2>1, TailOf
  <2>3. (M!QueueTypes)'
    <3>1. (fmCalls \in Seq(CallRecords) /\ fmAnswers \in Seq(AnswerRecords))'
      BY <2>0, <2>1, <2>2 DEF CallRecords, AnswerRecords, Outcomes, M!Kinds
    <3> QED
      BY <3>1, QueueTypesDef, PTL
  <2>4. (M!UnderWay)'
    BY <1>0, <2>0 DEF M!UnderWay, M!disk, M!Call, M!Changing, M!Kinds
  <2>5. (M!LastAsked)'
    <3> SUFFICES ASSUME fmActive', ~fmOverlay', ~M!Asked(fmCalls)
                 PROVE  fmCalls = <<>>
                        /\ \/ M!Asked(fmAnswers')
                              /\ fmAnswers'[Len(fmAnswers')].outcome.installed = M!Installed
                           \/ fmAnswers' = <<>> /\ fmSnapshot'.installed = M!Installed
      BY <2>0 DEF M!LastAsked, M!Asked, M!Installed, M!disk
    <3>1. fmCalls = <<>> /\ M!Asked(fmAnswers)
          /\ fmAnswers[Len(fmAnswers)].outcome.installed = M!Installed
      BY <1>0, <2>0, <2>1 DEF M!LastAsked
    <3>2. CASE fmAnswers' = <<>>
      <4>1. Len(fmAnswers) = 1
        BY <2>2, <3>2
      <4>2. Head(fmAnswers).current = TRUE /\ Head(fmAnswers).outcome.installed = M!Installed
        BY <2>2, <3>1, <4>1 DEF M!Asked
      <4>3. fmActive
        BY <2>0
      <4>4. fmSnapshot' = Head(fmAnswers).outcome
        BY <1>7, <4>2, <4>3 DEF M!Resume
      <4> QED
        BY <3>1, <3>2, <4>2, <4>4
    <3>3. CASE fmAnswers' # <<>>
      <4>1. Len(fmAnswers') \in Nat \ {0}
        BY <2>2, <3>3, EmptySeq
      <4>2. Len(fmAnswers') \in 1..Len(fmAnswers') /\ Len(fmAnswers') + 1 = Len(fmAnswers)
        BY <2>2, <4>1
      <4>3. fmAnswers'[Len(fmAnswers')] = fmAnswers[Len(fmAnswers)]
        BY <2>2, <4>2
      <4> QED
        BY <3>1, <3>3, <4>3 DEF M!Asked
    <3> QED
      BY <3>2, <3>3
  <2> QED
    BY <2>3, <2>4, <2>5
<1> QED
  BY <1>1, <1>2, <1>3, <1>4, <1>5, <1>6, <1>7 DEF M!Page

\* The native steps that say whether the session's file has changed: a removal goes
\* on only when no session has said that it is there.
LEMMA SaidSoStep ==
    ASSUME M!SaidSo, [M!Next]_(M!vars)
    PROVE  (M!SaidSo)'
<1>1. CASE UNCHANGED M!daemon /\ (fmPc' = "isolate" => fmPc = "isolate")
  BY <1>1 DEF M!SaidSo, M!daemon
<1>2. CASE M!Native
  <2>1. UNCHANGED M!daemon
    BY <1>2 DEF M!Native, M!NativeInspects, M!InstallPrepares, M!InstallStages, M!InstallCommits,
       M!activateRelease, M!RemoveChecks, M!RemoveIsolates, M!RemoveErases
  <2>2. CASE M!RemoveChecks /\ M!sessionRemovalAllowed
    <3>1. fmSession # "up"
      BY <2>2 DEF M!SaidSo, M!sessionRemovalAllowed
    <3> QED
      BY <2>1, <3>1 DEF M!SaidSo, M!daemon
  <2>3. CASE ~(M!RemoveChecks /\ M!sessionRemovalAllowed)
    <3>1. fmPc' # "isolate"
      BY <1>2, <2>3 DEF M!Native, M!NativeInspects, M!InstallPrepares, M!InstallStages,
         M!InstallCommits, M!activateRelease, M!RemoveChecks, M!RemoveIsolates, M!RemoveErases,
         M!Goto, M!Answer, M!InstallFails
    <3> QED
      BY <1>1, <2>1, <3>1
  <2> QED
    BY <2>2, <2>3
<1>3. CASE M!Page
  <2>1. UNCHANGED M!daemon /\ (fmPc' = fmPc \/ fmPc' = "idle")
    BY <1>3 DEF M!Page, M!onShow, M!onHide, M!onUnload, M!selectOperation, M!confirmRemove,
       M!closeOverlay, M!Resume
  <2> QED
    BY <1>1, <2>1
<1>4. CASE M!Session
  <2>1. fmPc' = fmPc
    BY <1>4 DEF M!Session, M!SessionForks, M!SessionVerifies, M!SessionPublishes, M!SessionEnds,
       M!native
  <2>2. CASE M!SessionForks \/ M!SessionVerifies \/ M!SessionEnds
    BY <2>2 DEF M!SaidSo, M!SessionForks, M!SessionVerifies, M!SessionEnds
  <2>3. CASE M!SessionPublishes
    BY <2>1, <2>3 DEF M!SaidSo, M!SessionPublishes
  <2> QED
    BY <1>4, <2>2, <2>3 DEF M!Session
<1>5. CASE M!ManagerUpdated \/ UNCHANGED M!vars
  BY <1>1, <1>5 DEF M!ManagerUpdated, M!vars, M!native
<1> QED
  BY <1>2, <1>3, <1>4, <1>5 DEF M!Next

\* Every step of the page, the native thread or a session keeps the invariant of
\* the manager.
LEMMA ManagerStep == M!ManagerInv /\ [M!Next]_(M!vars) => (M!ManagerInv)'
<1> SUFFICES ASSUME M!ManagerInv, [M!Next]_(M!vars) PROVE (M!ManagerInv)'
  OBVIOUS
<1>0. M!QueueTypes /\ fmDegraded \in BOOLEAN /\ M!UnderWay /\ M!SaidSo /\ M!LastAsked
  BY DEF M!ManagerInv
<1>1. fmDegraded' \in BOOLEAN
  BY <1>0 DEF M!Next, M!Native, M!Session, M!Page, M!ManagerUpdated, M!NativeInspects,
     M!InstallPrepares, M!InstallStages, M!InstallCommits, M!activateRelease, M!RemoveChecks,
     M!RemoveIsolates, M!RemoveErases, M!SessionForks, M!SessionVerifies, M!SessionPublishes,
     M!SessionEnds, M!onShow, M!onHide, M!onUnload, M!selectOperation, M!confirmRemove,
     M!closeOverlay, M!Resume, M!vars, M!disk
<1>2. (M!SaidSo)'
  BY <1>0, SaidSoStep
<1>3. CASE M!Native
  BY <1>1, <1>2, <1>3, NativeStep DEF M!ManagerInv
<1>4. CASE M!Page
  BY <1>1, <1>2, <1>4, PageStep DEF M!ManagerInv
<1>5. CASE M!Session \/ M!ManagerUpdated \/ UNCHANGED M!vars
  <2>1. UNCHANGED <<M!disk, M!native, M!page>>
    BY <1>5 DEF M!Session, M!SessionForks, M!SessionVerifies, M!SessionPublishes, M!SessionEnds,
       M!ManagerUpdated, M!vars
  <2>2. fmCalls = <<>> \/ fmBundled' = fmBundled
    BY <1>5 DEF M!Session, M!SessionForks, M!SessionVerifies, M!SessionPublishes, M!SessionEnds,
       M!ManagerUpdated, M!vars
  <2>3. (M!QueueTypes)'
    BY <1>0, <2>1 DEF M!QueueTypes, M!native, M!Kinds
  <2>4. (M!UnderWay)'
    BY <1>0, <2>1, <2>2 DEF M!UnderWay, M!Call, M!disk, M!native, M!Changing, M!Kinds
  <2>5. (M!LastAsked)'
    BY <1>0, <2>1 DEF M!LastAsked, M!Asked, M!Installed, M!disk, M!native, M!page
  <2> QED
    BY <1>1, <1>2, <2>3, <2>4, <2>5 DEF M!ManagerInv
<1> QED
  BY <1>3, <1>4, <1>5 DEF M!Next

\* So every state of the manager has it.
LEMMA ManagerInvariant == M!Spec => []M!ManagerInv
<1>1. M!Init => M!ManagerInv
  <2> SUFFICES ASSUME M!Init PROVE M!ManagerInv
    OBVIOUS
  <2>1. M!QueueTypes
    BY EmptySeq DEF M!Init, M!QueueTypes
  <2> QED
    BY <2>1 DEF M!Init, M!ManagerInv, M!UnderWay, M!SaidSo, M!LastAsked
<1> QED
  BY <1>1, ManagerStep, PTL DEF M!Spec

\* `current` never leads to a release that is not there, and a page with nothing
\* under way shows whether the platform is installed, whatever operations failed,
\* were left or were killed before (Manager.cpp, refresh, execute).
THEOREM ManagerIsTrue == M!Spec => []PlatformAsShown
<1>1. M!ManagerInv => PlatformAsShown
  <2> SUFFICES ASSUME M!ManagerInv
               PROVE  /\ fmLink # 0 => fmRoot /\ fmLink \in fmReleases
                      /\ fmActive /\ ~fmOverlay /\ fmCalls = <<>> /\ fmAnswers = <<>>
                            => fmSnapshot.installed = M!Installed
    BY DEF PlatformAsShown, M!PlatformAsShown
  <2>1. fmLink # 0 => fmRoot /\ fmLink \in fmReleases
    BY DEF M!ManagerInv, M!UnderWay
  <2>2. fmActive /\ ~fmOverlay /\ fmCalls = <<>> /\ fmAnswers = <<>>
            => fmSnapshot.installed = M!Installed
    BY DEF M!ManagerInv, M!LastAsked, M!Asked
  <2> QED
    BY <2>1, <2>2
<1> QED
  BY <1>1, ManagerInvariant, PTL

\* The releases do not go while a session that has said it is there runs from them,
\* unless it said so after the removal under way had looked (sessionRemovalAllowed,
\* removeUnlocked, atomic_status).
THEOREM SessionKeepsPlatform == M!Spec => RemovalSparesSession
<1>1. ASSUME M!ManagerInv, [M!Next]_(M!vars), fmReleases' \subseteq fmReleases, fmReleases' # fmReleases
      PROVE  fmSession # "up" \/ fmLate
  <2>1. M!RemoveIsolates
    BY <1>1 DEF M!Next, M!Native, M!Session, M!Page, M!ManagerUpdated, M!NativeInspects,
       M!InstallPrepares, M!InstallStages, M!InstallCommits, M!activateRelease,
       M!RemoveChecks, M!RemoveErases, M!SessionForks, M!SessionVerifies, M!SessionPublishes,
       M!SessionEnds, M!onShow, M!onHide, M!onUnload, M!selectOperation, M!confirmRemove,
       M!closeOverlay, M!Resume, M!vars, M!disk
  <2>2. fmPc = "isolate"
    BY <2>1 DEF M!RemoveIsolates
  <2> QED
    BY <1>1, <2>2 DEF M!ManagerInv, M!SaidSo
<1> QED
  BY <1>1, ManagerInvariant, PTL DEF M!Spec, RemovalSparesSession, M!RemovalSparesSession


-----------------------------------------------------------------------------
(* Touches on their way (TouchPath).                                       *)

\* What remains of a socket when its first frame is taken.
LEMMA WithoutFirst ==
    ASSUME NEW w \in Seq(H!Wired), w # <<>>, NEW c, NEW v, v = Tail(w)
    PROVE  /\ H!NoneOf(w, c) => H!NoneOf(v, c)
           /\ H!NoneOf(v, c) /\ w[1].contact # c => H!NoneOf(w, c)
           /\ H!EndsIn(w, c) => H!EndsIn(v, c)
           /\ H!Alternating(w, c) => H!Alternating(v, c)
           /\ H!EndFirst(w, c) /\ ~H!Ends(w[1], c) => H!EndFirst(v, c)
           /\ H!Alternating(w, c) /\ w[1].contact = c /\ ~H!Ends(w[1], c) => H!EndFirst(v, c)
           /\ H!EndsIn(w, c) /\ w[1].contact = c /\ ~H!Ends(w[1], c) => ~H!NoneOf(v, c)
<1> PICK n : n = Len(v)
  OBVIOUS
<1>1. /\ v \in Seq(H!Wired) /\ n \in Nat /\ Len(w) = n + 1
      /\ DOMAIN v = 1..n /\ DOMAIN w = 1..(n + 1)
      /\ \A i \in 1..n : v[i] = w[i + 1]
  <2>1. /\ Len(w) \in Nat \ {0} /\ v \in Seq(H!Wired) /\ Len(v) = Len(w) - 1
        /\ \A i \in 1..Len(v) : v[i] = w[i + 1]
    BY TailOf
  <2> QED
    BY <2>1
<1>2. \A k \in 1..(n + 1) : k = 1 \/ (k - 1 \in 1..n /\ v[k - 1] = w[k])
  BY <1>1
<1>3. (H!NoneOf(w, c) => H!NoneOf(v, c)) /\ (H!NoneOf(v, c) /\ w[1].contact # c => H!NoneOf(w, c))
  <2>1. ASSUME H!NoneOf(w, c) PROVE H!NoneOf(v, c)
    <3>1. \A i \in 1..n : i + 1 \in 1..(n + 1)
      BY <1>1
    <3> QED
      BY <1>1, <2>1, <3>1 DEF H!NoneOf
  <2>2. ASSUME H!NoneOf(v, c), w[1].contact # c PROVE H!NoneOf(w, c)
    <3>1. ASSUME NEW k \in 1..(n + 1) PROVE w[k].contact # c
      <4>1. CASE k = 1
        BY <2>2, <4>1
      <4>2. CASE k - 1 \in 1..n /\ v[k - 1] = w[k]
        <5>1. v[k - 1].contact # c
          BY <1>1, <2>2, <4>2 DEF H!NoneOf
        <5> QED
          BY <4>2, <5>1
      <4> QED
        BY <1>2, <4>1, <4>2
    <3> QED
      BY <1>1, <3>1 DEF H!NoneOf
  <2> QED
    BY <2>1, <2>2
<1>4. ASSUME H!EndsIn(w, c) PROVE H!EndsIn(v, c)
  <2> SUFFICES ASSUME NEW i \in 1..n, v[i].contact = c PROVE \E k \in i..n : H!Ends(v[k], c)
    BY <1>1 DEF H!EndsIn
  <2>1. PICK k \in (i + 1)..(n + 1) : H!Ends(w[k], c)
    <3>1. i + 1 \in 1..(n + 1) /\ w[i + 1].contact = c
      BY <1>1
    <3> QED
      BY <1>1, <1>4, <3>1 DEF H!EndsIn
  <2>2. k - 1 \in i..n /\ v[k - 1] = w[k]
    BY <1>1, <1>2, <2>1
  <2> QED
    BY <2>1, <2>2
<1>5. ASSUME H!Alternating(w, c) PROVE H!Alternating(v, c)
  <2> SUFFICES ASSUME NEW i \in 1..n, NEW j \in 1..n, i < j, v[i].contact = c, H!Starts(v[j], c)
               PROVE  \E k \in i..(j - 1) : H!Ends(v[k], c)
    BY <1>1 DEF H!Alternating
  <2>1. i + 1 \in 1..(n + 1) /\ j + 1 \in 1..(n + 1) /\ i + 1 < j + 1
        /\ w[i + 1].contact = c /\ H!Starts(w[j + 1], c)
    BY <1>1
  <2>2. PICK k \in (i + 1)..((j + 1) - 1) : H!Ends(w[k], c)
    BY <1>1, <1>5, <2>1 DEF H!Alternating
  <2>3. k - 1 \in i..(j - 1) /\ v[k - 1] = w[k]
    BY <1>1, <1>2, <2>2
  <2> QED
    BY <2>2, <2>3
<1>6. ASSUME \/ H!EndFirst(w, c)
             \/ H!Alternating(w, c) /\ w[1].contact = c,
             ~H!Ends(w[1], c)
      PROVE  H!EndFirst(v, c)
  <2> SUFFICES ASSUME NEW j \in 1..n, H!Starts(v[j], c)
               PROVE  \E k \in 1..(j - 1) : H!Ends(v[k], c)
    BY <1>1 DEF H!EndFirst
  <2>1. j + 1 \in 1..(n + 1) /\ 1 \in 1..(n + 1) /\ 1 < j + 1 /\ H!Starts(w[j + 1], c)
    BY <1>1
  <2>2. PICK k \in 1..((j + 1) - 1) : H!Ends(w[k], c)
    BY <1>1, <1>6, <2>1 DEF H!Alternating, H!EndFirst
  <2>3. k # 1
    BY <1>6, <2>2
  <2>4. k - 1 \in 1..(j - 1) /\ v[k - 1] = w[k]
    BY <1>1, <1>2, <2>2, <2>3
  <2> QED
    BY <2>2, <2>4
<1>7. ASSUME H!EndsIn(w, c), w[1].contact = c, ~H!Ends(w[1], c) PROVE ~H!NoneOf(v, c)
  <2>1. PICK k \in 1..(n + 1) : H!Ends(w[k], c)
    BY <1>1, <1>7 DEF H!EndsIn
  <2>2. k - 1 \in 1..n /\ v[k - 1].contact = c
    BY <1>2, <1>7, <2>1 DEF H!Ends
  <2> QED
    BY <1>1, <2>2 DEF H!NoneOf
<1> QED
  BY <1>3, <1>4, <1>5, <1>6, <1>7

\* What a socket holds when more frames are sent: nothing of the contact; ends of it,
\* or moves; or one start, after everything has ended.
LEMMA WithMore ==
    ASSUME NEW s \in Seq(H!Wired), NEW t \in Seq(H!Wired), NEW c, NEW w, w = s \o t
    PROVE  /\ H!NoneOf(w, c) <=> H!NoneOf(s, c) /\ H!NoneOf(t, c)
           /\ H!EndsIn(s, c) /\ H!EndsIn(t, c) => H!EndsIn(w, c)
           /\ H!EndsIn(t, c) /\ ~H!NoneOf(t, c) => H!EndsIn(w, c)
           /\ (\A j \in DOMAIN t : ~H!Starts(t[j], c)) =>
                /\ H!Alternating(s, c) => H!Alternating(w, c)
                /\ H!EndFirst(s, c) => H!EndFirst(w, c)
           /\ Len(t) = 1 /\ H!EndsIn(s, c) =>
                /\ H!Alternating(s, c) => H!Alternating(w, c)
                /\ H!EndFirst(s, c) /\ ~H!NoneOf(s, c) => H!EndFirst(w, c)
<1> PICK n, m : n = Len(s) /\ m = Len(t)
  OBVIOUS
<1>1. /\ w \in Seq(H!Wired) /\ n \in Nat /\ m \in Nat /\ Len(w) = n + m
      /\ DOMAIN s = 1..n /\ DOMAIN t = 1..m /\ DOMAIN w = 1..(n + m)
      /\ \A i \in 1..n : w[i] = s[i]
      /\ \A i \in 1..m : w[n + i] = t[i]
  <2>1. /\ w \in Seq(H!Wired) /\ Len(w) = Len(s) + Len(t) /\ Len(s) \in Nat /\ Len(t) \in Nat
        /\ \A i \in 1..Len(s) : w[i] = s[i]
        /\ \A i \in 1..Len(t) : w[Len(s) + i] = t[i]
    BY QueuesJoined
  <2> QED
    BY <2>1
<1>2. \A k \in 1..(n + m) : k \in 1..n \/ (k - n \in 1..m /\ w[k] = t[k - n])
  BY <1>1
<1>3. H!NoneOf(w, c) <=> H!NoneOf(s, c) /\ H!NoneOf(t, c)
  <2>1. ASSUME H!NoneOf(w, c) PROVE H!NoneOf(s, c) /\ H!NoneOf(t, c)
    <3>1. \A i \in 1..m : n + i \in 1..(n + m)
      BY <1>1
    <3>2. \A i \in 1..n : i \in 1..(n + m)
      BY <1>1
    <3> QED
      BY <1>1, <2>1, <3>1, <3>2 DEF H!NoneOf
  <2>2. ASSUME H!NoneOf(s, c), H!NoneOf(t, c) PROVE H!NoneOf(w, c)
    BY <1>1, <1>2, <2>2 DEF H!NoneOf
  <2> QED
    BY <2>1, <2>2
<1>4. ASSUME H!EndsIn(t, c), H!EndsIn(s, c) \/ ~H!NoneOf(t, c) PROVE H!EndsIn(w, c)
  <2> SUFFICES ASSUME NEW i \in 1..(n + m), w[i].contact = c
               PROVE  \E k \in i..(n + m) : H!Ends(w[k], c)
    BY <1>1 DEF H!EndsIn
  <2>1. ASSUME NEW j \in 1..m, t[j].contact = c, i <= n + j
        PROVE  \E k \in i..(n + m) : H!Ends(w[k], c)
    <3>1. PICK k \in j..m : H!Ends(t[k], c)
      BY <1>1, <1>4, <2>1 DEF H!EndsIn
    <3>2. n + k \in i..(n + m) /\ w[n + k] = t[k]
      BY <1>1, <2>1, <3>1
    <3> QED
      BY <3>1, <3>2
  <2>2. CASE i \in 1..n
    <3>1. CASE H!EndsIn(s, c)
      <4>1. s[i].contact = c
        BY <1>1, <2>2
      <4>2. PICK k \in i..n : H!Ends(s[k], c)
        BY <1>1, <2>2, <3>1, <4>1 DEF H!EndsIn
      <4>3. k \in i..(n + m) /\ w[k] = s[k]
        BY <1>1, <2>2, <4>2
      <4> QED
        BY <4>2, <4>3
    <3>2. CASE ~H!NoneOf(t, c)
      <4>1. PICK j \in 1..m : t[j].contact = c
        BY <1>1, <3>2 DEF H!NoneOf
      <4>2. i <= n + j
        BY <1>1, <2>2, <4>1
      <4> QED
        BY <2>1, <4>1, <4>2
    <3> QED
      BY <1>4, <3>1, <3>2
  <2>3. CASE i \notin 1..n
    <3>1. i - n \in 1..m /\ w[i] = t[i - n] /\ i <= n + (i - n)
      BY <1>1, <1>2, <2>3
    <3> QED
      BY <2>1, <3>1
  <2> QED
    BY <2>2, <2>3
<1>5. ASSUME \/ \A j \in DOMAIN t : ~H!Starts(t[j], c)
             \/ m = 1 /\ H!EndsIn(s, c),
             H!Alternating(s, c)
      PROVE  H!Alternating(w, c)
  <2> SUFFICES ASSUME NEW i \in 1..(n + m), NEW j \in 1..(n + m), i < j, w[i].contact = c,
                      H!Starts(w[j], c)
               PROVE  \E k \in i..(j - 1) : H!Ends(w[k], c)
    BY <1>1 DEF H!Alternating
  <2>1. CASE j \in 1..n
    <3>1. i \in 1..n /\ s[i].contact = c /\ H!Starts(s[j], c)
      BY <1>1, <2>1
    <3>2. PICK k \in i..(j - 1) : H!Ends(s[k], c)
      BY <1>1, <1>5, <2>1, <3>1 DEF H!Alternating
    <3>3. w[k] = s[k]
      BY <1>1, <2>1, <3>1, <3>2
    <3> QED
      BY <3>2, <3>3
  <2>2. CASE j \notin 1..n
    <3>1. j - n \in 1..m /\ H!Starts(t[j - n], c)
      BY <1>2, <2>2
    <3>2. m = 1 /\ H!EndsIn(s, c)
      BY <1>1, <1>5, <3>1
    <3>3. j = n + 1 /\ i \in 1..n /\ s[i].contact = c
      BY <1>1, <3>1, <3>2
    <3>4. PICK k \in i..n : H!Ends(s[k], c)
      BY <1>1, <3>2, <3>3 DEF H!EndsIn
    <3>5. k \in i..(j - 1) /\ w[k] = s[k]
      BY <1>1, <3>3, <3>4
    <3> QED
      BY <3>4, <3>5
  <2> QED
    BY <2>1, <2>2
<1>6. ASSUME \/ \A j \in DOMAIN t : ~H!Starts(t[j], c)
             \/ m = 1 /\ H!EndsIn(s, c) /\ ~H!NoneOf(s, c),
             H!EndFirst(s, c)
      PROVE  H!EndFirst(w, c)
  <2> SUFFICES ASSUME NEW j \in 1..(n + m), H!Starts(w[j], c)
               PROVE  \E k \in 1..(j - 1) : H!Ends(w[k], c)
    BY <1>1 DEF H!EndFirst
  <2>1. CASE j \in 1..n
    <3>1. PICK k \in 1..(j - 1) : H!Ends(s[k], c)
      BY <1>1, <1>6, <2>1 DEF H!EndFirst
    <3>2. w[k] = s[k]
      BY <1>1, <2>1, <3>1
    <3> QED
      BY <3>1, <3>2
  <2>2. CASE j \notin 1..n
    <3>1. j - n \in 1..m /\ H!Starts(t[j - n], c)
      BY <1>2, <2>2
    <3>2. m = 1 /\ H!EndsIn(s, c) /\ ~H!NoneOf(s, c)
      BY <1>1, <1>6, <3>1
    <3>3. PICK i \in 1..n : s[i].contact = c
      BY <1>1, <3>2 DEF H!NoneOf
    <3>4. PICK k \in i..n : H!Ends(s[k], c)
      BY <1>1, <3>2, <3>3 DEF H!EndsIn
    <3>5. k \in 1..(j - 1) /\ w[k] = s[k]
      BY <1>1, <3>1, <3>2, <3>3, <3>4
    <3> QED
      BY <3>4, <3>5
  <2> QED
    BY <2>1, <2>2
<1> QED
  BY <1>3, <1>4, <1>5, <1>6

\* Of some numbers one is the least.
LEMMA LeastNumber ==
    ASSUME NEW numbers \in SUBSET Nat, numbers # {}
    PROVE  \E c \in numbers : \A d \in numbers : c <= d
<1>1. PICK c \in numbers : \A d \in numbers : ~(<<d, c>> \in OpToRel(<, Nat))
  BY NatLessThanWellFounded, WFMin
<1>2. \A d \in numbers : ~(d < c)
  BY <1>1 DEF OpToRel
<1> QED
  BY <1>2

\* The contact of a finger is one that no other finger has (allocateContact).
LEMMA ContactAllocated ==
    ASSUME H!TouchTypes, NEW f \in TouchFingers, H!CanAllocate(f)
    PROVE  /\ DOMAIN H!With(f) = H!Followed \cup {f}
           /\ H!With(f)[f] = H!Allocated(f)
           /\ \A g \in H!Followed : H!With(f)[g] = tpSlots[g]
           /\ \A g \in H!Followed \cup {f} : H!With(f)[g] \in TouchContacts
           /\ \A g \in H!Followed \ {f} : tpSlots[g] # H!Allocated(f)
<1>1. \A g \in H!Followed : tpSlots[g] \in TouchContacts
  BY DEF H!TouchTypes
<1>2. /\ H!Allocated(f) \in TouchContacts
      /\ \A g \in H!Followed \ {f} : tpSlots[g] # H!Allocated(f)
  <2>1. CASE f \in H!Followed
    <3>1. H!Allocated(f) = tpSlots[f]
      BY <2>1 DEF H!Allocated
    <3>2. \A g \in H!Followed : tpSlots[g] = tpSlots[f] => g = f
      BY <2>1 DEF H!TouchTypes
    <3> QED
      BY <1>1, <2>1, <3>1, <3>2
  <2>2. CASE f \notin H!Followed
    <3>1. H!Free # {} /\ H!Free \in SUBSET Nat
      BY <2>2, TouchInstance DEF H!CanAllocate, H!Free, H!TouchAssumption
    <3>2. \E c \in H!Free : \A d \in H!Free : c <= d
      BY <3>1, LeastNumber
    <3>3. H!Allocated(f) \in H!Free
      BY <2>2, <3>2 DEF H!Allocated
    <3> QED
      BY <3>3 DEF H!Free
  <2> QED
    BY <2>1, <2>2
<1>3. /\ DOMAIN H!With(f) = H!Followed \cup {f}
      /\ \A g \in H!Followed \cup {f} :
            H!With(f)[g] = IF g = f THEN H!Allocated(f) ELSE tpSlots[g]
  BY DEF H!With
<1>4. f \in H!Followed => H!Allocated(f) = tpSlots[f]
  BY DEF H!Allocated
<1> QED
  BY <1>1, <1>2, <1>3, <1>4

\* Sets are counted the same here and there.
LEMMA FingersCounted ==
    ASSUME NEW fingers \in SUBSET TouchFingers
    PROVE  /\ H!Cardinality(fingers) \in Nat
           /\ \A f : H!Cardinality({f}) = 1
<1>1. IsFiniteSet(TouchFingers)
  BY TouchInstance DEF H!TouchAssumption, H!IsFiniteSet, IsFiniteSet
<1>2. Cardinality(fingers) \in Nat
  BY <1>1, FS_Subset, FS_CardinalityType
<1>3. \A f : Cardinality({f}) = 1
  BY FS_Singleton
<1> QED
  BY <1>2, <1>3 DEF H!Cardinality, Cardinality

\* A number up to m + n is one up to m, or one of the n that follow.
LEMMA Above ==
    ASSUME NEW m \in Nat, NEW n \in Nat, NEW i \in 1..(m + n)
    PROVE  i \in 1..m \/ \E k \in 1..n : i = m + k
<1>1. ASSUME i \notin 1..m PROVE i - m \in 1..n /\ i = m + (i - m)
  BY <1>1
<1> QED
  BY <1>1

\* So frames that are numbered from base on follow those that are there in order.
LEMMA NumberedInOrder ==
    ASSUME NEW low \in Nat, NEW base \in Nat, low <= base, NEW c,
           NEW w \in Seq(H!Wired), NEW t \in Seq(H!Wired), NEW v, v = w \o t,
           H!Numbered(w, c, low, base),
           \A i \in DOMAIN t : t[i].nonce = c /\ t[i].sequence = base + i
    PROVE  H!Numbered(v, c, low, base + Len(t))
<1> DEFINE m == Len(w)
           n == Len(t)
           q == [i \in 1..(m + n) |-> v[i].sequence]
<1>1. /\ m \in Nat /\ n \in Nat /\ DOMAIN w = 1..m /\ DOMAIN t = 1..n
      /\ DOMAIN v = 1..(m + n)
      /\ \A i \in 1..m : v[i] = w[i]
      /\ \A i \in 1..n : v[m + i] = t[i]
  <2>1. /\ v \in Seq(H!Wired) /\ Len(v) = Len(w) + Len(t)
        /\ Len(w) \in Nat /\ Len(t) \in Nat
        /\ \A i \in 1..Len(w) : v[i] = w[i]
        /\ \A i \in 1..Len(t) : v[Len(w) + i] = t[i]
    BY QueuesJoined
  <2> QED
    BY <2>1
<1>2. \A i \in 1..m : w[i].sequence \in Nat
  <2>1. \A i \in 1..m : w[i] \in H!Wired
    OBVIOUS
  <2> QED
    BY <2>1 DEF H!Wired
<1>3. \A i \in 1..(m + n) : q[i] = v[i].sequence
  OBVIOUS
<1> HIDE DEF m, n, q
<1>4. ASSUME NEW k \in 1..n PROVE v[m + k].nonce = c /\ q[m + k] = base + k
  <2>1. m + k \in 1..(m + n) /\ v[m + k] = t[k]
    BY <1>1
  <2>2. t[k].nonce = c /\ t[k].sequence = base + k
    BY <1>1
  <2> QED
    BY <1>3, <2>1, <2>2
<1>5. ASSUME NEW i \in 1..m
      PROVE  /\ q[i] \in Nat /\ low < q[i] /\ q[i] <= base
             /\ \A j \in 1..(i - 1) : q[j] < q[i]
  <2>1. i \in 1..(m + n) /\ v[i] = w[i] /\ q[i] = w[i].sequence
    BY <1>1, <1>3
  <2>2. \A j \in 1..(i - 1) : q[j] = w[j].sequence
    <3>1. ASSUME NEW j \in 1..(i - 1) PROVE j \in 1..(m + n) /\ v[j] = w[j]
      BY <1>1
    <3> QED
      BY <1>3, <3>1
  <2>3. low < w[i].sequence /\ w[i].sequence <= base
        /\ \A j \in 1..(i - 1) : w[j].sequence < w[i].sequence
    BY <1>1 DEF H!Numbered
  <2> QED
    BY <1>2, <2>1, <2>2, <2>3
<1>6. \A i \in 1..(m + n) :
        low < q[i] /\ q[i] <= base + n /\ \A j \in 1..(i - 1) : q[j] < q[i]
  <2> SUFFICES ASSUME NEW i \in 1..(m + n)
               PROVE  low < q[i] /\ q[i] <= base + n /\ \A j \in 1..(i - 1) : q[j] < q[i]
    OBVIOUS
  <2>1. CASE i \in 1..m
    <3>1. q[i] \in Nat /\ low < q[i] /\ q[i] <= base /\ \A j \in 1..(i - 1) : q[j] < q[i]
      BY <1>5, <2>1
    <3> QED
      BY <1>1, <3>1
  <2>2. CASE \E k \in 1..n : i = m + k
    <3>1. PICK k \in 1..n : i = m + k
      BY <2>2
    <3>2. q[i] = base + k
      BY <1>4, <3>1
    <3>3. ASSUME NEW j \in 1..(i - 1) PROVE q[j] < base + k
      <4>1. j \in 1..(m + n)
        BY <1>1, <3>1
      <4>2. CASE j \in 1..m
        <5>1. q[j] \in Nat /\ q[j] <= base
          BY <1>5, <4>2
        <5> QED
          BY <1>1, <5>1
      <4>3. CASE \E l \in 1..n : j = m + l
        <5>1. PICK l \in 1..n : j = m + l
          BY <4>3
        <5>2. q[j] = base + l /\ l < k
          BY <1>1, <1>4, <3>1, <5>1
        <5> QED
          BY <1>1, <5>2
      <4> QED
        BY <1>1, <4>1, <4>2, <4>3, Above
    <3> QED
      BY <1>1, <3>2, <3>3
  <2> QED
    BY <1>1, <2>1, <2>2, Above
<1>7. ASSUME NEW i \in 1..(m + n)
      PROVE  /\ v[i].nonce = c
             /\ low < v[i].sequence /\ v[i].sequence <= base + n
             /\ \A j \in 1..(i - 1) : v[j].sequence < v[i].sequence
  <2>1. \A j \in 1..(i - 1) : j \in 1..(m + n)
    BY <1>1
  <2>2. q[i] = v[i].sequence /\ \A j \in 1..(i - 1) : q[j] = v[j].sequence
    BY <1>3, <2>1
  <2>3. low < q[i] /\ q[i] <= base + n /\ \A j \in 1..(i - 1) : q[j] < q[i]
    BY <1>6
  <2>4. v[i].nonce = c
    <3>1. CASE i \in 1..m
      BY <1>1, <3>1 DEF H!Numbered
    <3>2. CASE \E k \in 1..n : i = m + k
      BY <1>4, <3>2
    <3> QED
      BY <1>1, <3>1, <3>2, Above
  <2> QED
    BY <2>2, <2>3, <2>4
<1> QED
  BY <1>1, <1>7 DEF n, H!Numbered

\* Frames of one phase, of these fingers and no others.
TellOf(t, phase, held, fingers) ==
    /\ \A i \in DOMAIN t : t[i].phase = phase /\ \E f \in fingers : t[i].contact = held[f]
    /\ \A f \in fingers : \E i \in DOMAIN t : t[i].contact = held[f]

\* Frames that are sent come after all there are, one for each finger (sendTouch).
LEMMA FramesSent ==
    ASSUME H!TouchTypes, H!OrderInv, NEW phase, phase \in H!Phases, NEW held,
           NEW fingers, fingers \subseteq TouchFingers, \A f \in fingers : held[f] \in TouchContacts,
           H!SentFor(phase, held, fingers), UNCHANGED <<tpNonce, tpLastSequence>>
    PROVE  /\ H!OrderInv' /\ tpReady
           /\ \E t \in Seq(H!Wired) :
                /\ tpWire' = tpWire \o t /\ Len(t) = H!Cardinality(fingers)
                /\ TellOf(t, phase, held, fingers)
<1> PICK n : n = H!Cardinality(fingers)
  OBVIOUS
<1>1. n \in Nat
  BY FingersCounted
<1>2. PICK s \in H!Orders(fingers) :
        H!Sent([i \in DOMAIN s |-> [phase |-> phase, contact |-> held[s[i]]]])
  BY DEF H!SentFor
<1>3. /\ DOMAIN s = 1..n /\ \A i \in 1..n : s[i] \in fingers
      /\ \A f \in fingers : \E i \in 1..n : s[i] = f
  BY DEF H!Orders
<1> PICK frames : frames = [i \in DOMAIN s |-> [phase |-> phase, contact |-> held[s[i]]]]
  OBVIOUS
<1>4. /\ DOMAIN frames = 1..n
      /\ \A i \in 1..n : frames[i].phase = phase /\ frames[i].contact = held[s[i]]
  BY <1>3
<1>5. Len(frames) = n
  <2>1. frames \in Seq({frames[i] : i \in 1..n})
    BY <1>1, <1>4, <1>3
  <2> QED
    BY <1>1, <1>4, <2>1
<1> PICK base : base = H!TouchSequence
  OBVIOUS
<1>6. /\ base \in Nat /\ tpNonce \in Nat /\ tpLastSequence \in Nat /\ tpLastSequence <= base
      /\ tpTouchNonce # tpNonce => tpWire = <<>>
      /\ tpTouchNonce = tpNonce => base = tpTouchSequence
  BY DEF H!OrderInv, H!TouchSequence, H!TouchNonce
<1> PICK t : t = [i \in DOMAIN frames |->
                    [nonce |-> tpNonce, sequence |-> base + i,
                     phase |-> frames[i].phase, contact |-> frames[i].contact]]
  OBVIOUS
<1>7. /\ tpReady /\ tpTouchNonce' = tpNonce /\ tpTouchSequence' = base + n /\ tpWire' = tpWire \o t
  BY <1>2, <1>5 DEF H!Sent, H!TouchNonce
<1>8. /\ DOMAIN t = 1..n
      /\ \A i \in 1..n : /\ t[i] \in H!Wired /\ t[i].nonce = tpNonce /\ t[i].sequence = base + i
                         /\ t[i].phase = phase /\ t[i].contact = held[s[i]]
  <2>1. DOMAIN t = 1..n
    BY <1>4
  <2>2. ASSUME NEW i \in 1..n
        PROVE  t[i] = [nonce |-> tpNonce, sequence |-> base + i,
                       phase |-> phase, contact |-> held[s[i]]]
    BY <1>4
  <2>3. ASSUME NEW i \in 1..n PROVE held[s[i]] \in TouchContacts /\ base + i \in Nat
    BY <1>1, <1>3, <1>6
  <2> QED
    BY <1>6, <2>1, <2>2, <2>3 DEF H!Wired
<1>9. t \in Seq(H!Wired) /\ Len(t) = n
  BY <1>1, <1>8
<1>10. \A i \in DOMAIN t : t[i].phase = phase /\ \E f \in fingers : t[i].contact = held[f]
  BY <1>3, <1>8
<1>11. \A f \in fingers : \E i \in DOMAIN t : t[i].contact = held[f]
  BY <1>3, <1>8
<1>12. H!OrderInv'
  <2>1. tpWire \in Seq(H!Wired)
    BY DEF H!TouchTypes
  <2>2. H!Numbered(tpWire, tpNonce, tpLastSequence, base)
    <3>1. ASSUME NEW i \in DOMAIN tpWire PROVE base = tpTouchSequence
      BY <1>6, <2>1
    <3> QED
      BY <3>1 DEF H!OrderInv, H!Numbered
  <2>3. \A i \in DOMAIN t : t[i].nonce = tpNonce /\ t[i].sequence = base + i
    BY <1>8
  <2>4. H!Numbered(tpWire', tpNonce, tpLastSequence, base + Len(t))
    BY <1>6, <1>7, <1>9, <2>1, <2>2, <2>3, NumberedInOrder
  <2>5. base + Len(t) \in Nat /\ tpLastSequence <= base + Len(t)
        /\ tpTouchSequence' = base + Len(t)
    BY <1>1, <1>6, <1>7, <1>9
  <2>6. tpTouchNonce' = tpNonce /\ tpNonce' = tpNonce /\ tpLastSequence' = tpLastSequence
    BY <1>7
  <2>7. H!Numbered(tpWire', tpNonce', tpLastSequence', tpTouchSequence')
    BY <2>4, <2>5, <2>6
  <2> QED
    BY <1>6, <2>5, <2>6, <2>7 DEF H!OrderInv
<1>13. tpWire' = tpWire \o t /\ tpReady
  BY <1>7
<1>14. \E u \in Seq(H!Wired) :
         tpWire' = tpWire \o u /\ Len(u) = H!Cardinality(fingers) /\ TellOf(u, phase, held, fingers)
  <2> USE <1>9
  <2> WITNESS t \in Seq(H!Wired)
  <2> QED
    BY <1>9, <1>10, <1>11, <1>13 DEF TellOf
<1> QED
  BY <1>12, <1>13, <1>14

\* A frame that was refused leaves the numbers as they are, under the nonce of the
\* session (readStatus, sendTouch).
LEMMA NothingSent ==
    ASSUME H!OrderInv, H!NotSent, UNCHANGED <<tpNonce, tpLastSequence>>
    PROVE  H!OrderInv'
<1>1. /\ {tpNonce, tpTouchNonce, tpTouchSequence, tpLastSequence} \subseteq Nat
      /\ tpTouchNonce # tpNonce => tpWire = <<>> /\ tpLastSequence = 0
      /\ tpTouchNonce = tpNonce => tpLastSequence <= tpTouchSequence
      /\ H!Numbered(tpWire, tpNonce, tpLastSequence, tpTouchSequence)
  BY DEF H!OrderInv
<1>2. tpTouchNonce' = tpNonce /\ tpWire' = tpWire
      /\ tpTouchSequence' = IF tpTouchNonce # tpNonce THEN 0 ELSE tpTouchSequence
  BY DEF H!NotSent, H!TouchNonce, H!TouchSequence
<1>3. H!Numbered(tpWire', tpNonce', tpLastSequence', tpTouchSequence')
  <2>1. CASE tpTouchNonce # tpNonce
    <3>1. tpWire' = <<>>
      BY <1>1, <1>2, <2>1
    <3>2. DOMAIN tpWire' = {}
      BY <3>1
    <3> QED
      BY <3>2 DEF H!Numbered
  <2>2. CASE tpTouchNonce = tpNonce
    <3>1. tpTouchSequence' = tpTouchSequence /\ tpLastSequence' = tpLastSequence
          /\ tpNonce' = tpNonce /\ tpWire' = tpWire
      BY <1>2, <2>2
    <3> QED
      BY <1>1, <3>1
  <2> QED
    BY <2>1, <2>2
<1>4. tpNonce' = tpNonce /\ tpLastSequence' = tpLastSequence
  OBVIOUS
<1>5. tpLastSequence' <= tpTouchSequence' /\ tpTouchSequence' \in Nat
  BY <1>1, <1>2, <1>4
<1> QED
  BY <1>1, <1>2, <1>3, <1>4, <1>5 DEF H!OrderInv

\* What the page sends, or does not, when it forgets its contacts (cancelTouches).
LEMMA Cancelled ==
    ASSUME H!TouchTypes, H!OrderInv, NEW held, DOMAIN held \subseteq TouchFingers,
           \A f \in DOMAIN held : held[f] \in TouchContacts,
           H!cancelTouches(held), UNCHANGED <<tpNonce, tpLastSequence>>
    PROVE  /\ H!OrderInv' /\ DOMAIN tpSlots' = {}
           /\ \/ /\ tpWire' = tpWire /\ ~tpReady
                 /\ tpMissed' = (tpMissed \/ H!Followed # {})
              \/ /\ tpMissed' = tpMissed /\ tpReady
                 /\ \E t \in Seq(H!Wired) :
                      tpWire' = tpWire \o t /\ TellOf(t, "cancel", held, DOMAIN held)
<1>1. DOMAIN tpSlots' = {}
  BY DEF H!cancelTouches
<1>2. CASE H!SentFor("cancel", held, DOMAIN held) /\ UNCHANGED tpMissed
  <2>1. "cancel" \in H!Phases
    BY DEF H!Phases
  <2>2. /\ H!OrderInv' /\ tpReady
        /\ \E t \in Seq(H!Wired) :
             /\ tpWire' = tpWire \o t /\ Len(t) = H!Cardinality(DOMAIN held)
             /\ TellOf(t, "cancel", held, DOMAIN held)
    <3> PICK fingers : fingers = DOMAIN held
      OBVIOUS
    <3>1. fingers \subseteq TouchFingers /\ \A f \in fingers : held[f] \in TouchContacts
      OBVIOUS
    <3>2. H!SentFor("cancel", held, fingers) /\ UNCHANGED <<tpNonce, tpLastSequence>>
      BY <1>2
    <3>3. /\ H!OrderInv' /\ tpReady
          /\ \E t \in Seq(H!Wired) :
               /\ tpWire' = tpWire \o t /\ Len(t) = H!Cardinality(fingers)
               /\ TellOf(t, "cancel", held, fingers)
      <4> HIDE <1>2
      <4> QED
        BY <2>1, <3>1, <3>2, FramesSent
    <3> QED
      BY <3>3
  <2> QED
    BY <1>1, <1>2, <2>2
<1>3. CASE ~tpReady /\ H!NotSent /\ tpMissed' = (tpMissed \/ H!Followed # {})
  <2>1. H!OrderInv'
    BY <1>3, NothingSent
  <2>2. tpWire' = tpWire
    BY <1>3 DEF H!NotSent
  <2> QED
    BY <1>1, <1>3, <2>1, <2>2
<1> QED
  BY <1>2, <1>3 DEF H!cancelTouches

\* ContactInv, with what it says of the page and the router as values.
Begun(w, c, held, loose) ==
    /\ ~held /\ ~loose => H!EndsIn(w, c)
    /\ loose => H!NoneOf(w, c)
    /\ H!Alternating(w, c)

Going(w, c, held, loose, deafTo) ==
    /\ Begun(w, c, held, loose)
    /\ deafTo => H!EndFirst(w, c) /\ (H!NoneOf(w, c) => held)

\* What is sent while a finger with the contact is there or not, before and after.
Goes(w, v, t, c, held, loose, held2, loose2) ==
    \/ /\ v = w \/ (v = w \o t /\ H!NoneOf(t, c))
       /\ (held2 \/ loose2) <=> (held \/ loose)
       /\ (held => held2) /\ (loose2 => loose)
    \/ /\ v = w \o t /\ ~held2 /\ ~loose2 /\ ~H!NoneOf(t, c)
       /\ \A i \in DOMAIN t : t[i].contact = c => H!Ends(t[i], c)
    \/ /\ v = w \o t /\ held2 /\ ~loose2
       /\ \A i \in DOMAIN t : ~H!Starts(t[i], c)
    \/ /\ v = w \o t /\ Len(t) = 1 /\ ~H!NoneOf(t, c)
       /\ ~held /\ held2 /\ ~loose2

\* The frames of a contact go on as ContactInv says when the page sends nothing of it;
\* or ends it, and follows it no longer; or moves it; or starts it.
LEMMA FramesGoOn ==
    ASSUME NEW w \in Seq(H!Wired), NEW t \in Seq(H!Wired), NEW v, NEW c,
           NEW held, NEW loose, NEW held2, NEW loose2, NEW deafTo,
           Going(w, c, held, loose, deafTo),
           Goes(w, v, t, c, held, loose, held2, loose2)
    PROVE  /\ Going(v, c, held2, loose2, deafTo)
           /\ (H!NoneOf(w, c) => held) => (H!NoneOf(v, c) => held2)
<1>1. /\ ~held /\ ~loose => H!EndsIn(w, c)
      /\ loose => H!NoneOf(w, c)
      /\ H!Alternating(w, c)
      /\ deafTo => H!EndFirst(w, c) /\ (H!NoneOf(w, c) => held)
  BY DEF Begun, Going
<1>2. H!NoneOf(w, c) => H!EndsIn(w, c)
  BY DEF H!NoneOf, H!EndsIn
<1>3. v = w \o t =>
        /\ H!NoneOf(v, c) <=> H!NoneOf(w, c) /\ H!NoneOf(t, c)
        /\ H!EndsIn(w, c) /\ H!EndsIn(t, c) => H!EndsIn(v, c)
        /\ H!EndsIn(t, c) /\ ~H!NoneOf(t, c) => H!EndsIn(v, c)
        /\ (\A j \in DOMAIN t : ~H!Starts(t[j], c)) =>
             /\ H!Alternating(w, c) => H!Alternating(v, c)
             /\ H!EndFirst(w, c) => H!EndFirst(v, c)
        /\ Len(t) = 1 /\ H!EndsIn(w, c) =>
             /\ H!Alternating(w, c) => H!Alternating(v, c)
             /\ H!EndFirst(w, c) /\ ~H!NoneOf(w, c) => H!EndFirst(v, c)
  BY WithMore
<1>4. SUFFICES /\ ~held2 /\ ~loose2 => H!EndsIn(v, c)
               /\ loose2 => H!NoneOf(v, c)
               /\ H!Alternating(v, c)
               /\ deafTo => H!EndFirst(v, c) /\ (H!NoneOf(v, c) => held2)
               /\ (H!NoneOf(w, c) => held) => (H!NoneOf(v, c) => held2)
  BY DEF Begun, Going
<1>5. CASE v = w /\ ((held2 \/ loose2) <=> (held \/ loose)) /\ (held => held2) /\ (loose2 => loose)
  BY <1>1, <1>5
<1>6. CASE /\ v = w \o t /\ H!NoneOf(t, c)
           /\ (held2 \/ loose2) <=> (held \/ loose)
           /\ (held => held2) /\ (loose2 => loose)
  <2>1. H!EndsIn(t, c) /\ \A j \in DOMAIN t : ~H!Starts(t[j], c)
    BY <1>6 DEF H!NoneOf, H!EndsIn, H!Starts
  <2>2. /\ H!EndsIn(w, c) => H!EndsIn(v, c)
        /\ H!NoneOf(w, c) <=> H!NoneOf(v, c)
        /\ H!Alternating(w, c) => H!Alternating(v, c)
        /\ H!EndFirst(w, c) => H!EndFirst(v, c)
    BY <1>3, <1>6, <2>1
  <2> QED
    BY <1>1, <1>6, <2>2
<1>7. CASE /\ v = w \o t /\ ~held2 /\ ~loose2 /\ ~H!NoneOf(t, c)
           /\ \A i \in DOMAIN t : t[i].contact = c => H!Ends(t[i], c)
  <2>1. H!EndsIn(t, c) /\ \A j \in DOMAIN t : ~H!Starts(t[j], c)
    <3>1. ASSUME NEW i \in DOMAIN t, t[i].contact = c
          PROVE  \E k \in i..Len(t) : H!Ends(t[k], c)
      <4>1. H!Ends(t[i], c) /\ i \in i..Len(t)
        BY <1>7, <3>1
      <4> QED
        BY <4>1
    <3>2. \A j \in DOMAIN t : ~H!Starts(t[j], c)
      BY <1>7 DEF H!Starts, H!Ends
    <3> QED
      BY <3>1, <3>2 DEF H!EndsIn
  <2>2. H!EndsIn(v, c) /\ ~H!NoneOf(v, c) /\ H!Alternating(v, c)
        /\ (H!EndFirst(w, c) => H!EndFirst(v, c))
    BY <1>1, <1>3, <1>7, <2>1
  <2> QED
    BY <1>1, <1>7, <2>2
<1>8. CASE /\ v = w \o t /\ held2 /\ ~loose2
           /\ \A i \in DOMAIN t : ~H!Starts(t[i], c)
  <2>1. H!Alternating(v, c) /\ (H!EndFirst(w, c) => H!EndFirst(v, c))
    BY <1>1, <1>3, <1>8
  <2> QED
    BY <1>1, <1>8, <2>1
<1>9. CASE /\ v = w \o t /\ Len(t) = 1 /\ ~H!NoneOf(t, c)
           /\ ~held /\ held2 /\ ~loose2
  <2>1. H!EndsIn(w, c)
    BY <1>1, <1>2, <1>9
  <2>2. H!Alternating(v, c) /\ ~H!NoneOf(v, c)
        /\ (H!EndFirst(w, c) /\ ~H!NoneOf(w, c) => H!EndFirst(v, c))
    BY <1>1, <1>3, <1>9, <2>1
  <2> QED
    BY <1>1, <1>9, <2>2
<1> QED
  BY <1>5, <1>6, <1>7, <1>8, <1>9 DEF Goes

\* What the page does to a contact: it sends nothing of it, ends it, moves it, starts it.
ContactGoes(t, c) ==
    \/ /\ tpWire' = tpWire \/ (tpWire' = tpWire \o t /\ H!NoneOf(t, c))
       /\ H!Follows(c)' <=> H!Follows(c)
       /\ (H!Held(c) => H!Held(c)') /\ (H!Loose(c)' => H!Loose(c))
    \/ /\ tpWire' = tpWire \o t /\ ~H!Follows(c)' /\ ~H!NoneOf(t, c)
       /\ \A i \in DOMAIN t : t[i].contact = c => H!Ends(t[i], c)
    \/ /\ tpWire' = tpWire \o t /\ H!Held(c)' /\ ~H!Loose(c)'
       /\ \A i \in DOMAIN t : ~H!Starts(t[i], c)
    \/ /\ tpWire' = tpWire \o t /\ Len(t) = 1 /\ ~H!NoneOf(t, c)
       /\ ~H!Held(c) /\ H!Held(c)' /\ ~H!Loose(c)'

\* So does the contact, while the router does nothing.
LEMMA ContactKept ==
    ASSUME H!TouchTypes, NEW c \in TouchContacts, H!ContactInv(c),
           NEW t \in Seq(H!Wired), UNCHANGED <<tpContacts, tpDeaf>>,
           ContactGoes(t, c)
    PROVE  /\ H!ContactInv(c)'
           /\ (H!NoneOf(tpWire, c) => H!Held(c)) => (H!NoneOf(tpWire, c) => H!Held(c))'
<1> PICK w, v : w = tpWire /\ v = tpWire'
  OBVIOUS
<1> PICK held \in BOOLEAN, loose \in BOOLEAN, deafTo \in BOOLEAN :
        /\ held <=> H!Held(c)
        /\ loose <=> H!Loose(c)
        /\ deafTo <=> (tpDeaf[c] = 1 /\ c \in tpContacts)
  OBVIOUS
<1> PICK held2 \in BOOLEAN, loose2 \in BOOLEAN :
        /\ held2 <=> H!Held(c)'
        /\ loose2 <=> H!Loose(c)'
  OBVIOUS
<1>1. (H!Follows(c) <=> held \/ loose) /\ (H!Follows(c)' <=> held2 \/ loose2)
  <2>1. H!Follows(c) <=> H!Held(c) \/ H!Loose(c)
    BY DEF H!Follows, H!Held, H!Loose
  <2>2. (H!Follows(c) <=> H!Held(c) \/ H!Loose(c))'
    BY DEF H!Follows, H!Held, H!Loose
  <2> QED
    BY <2>1, <2>2
<1>2. w \in Seq(H!Wired)
  BY DEF H!TouchTypes
<1>3. Going(w, c, held, loose, deafTo) /\ tpDeaf[c] <= 1
  BY <1>1 DEF H!ContactInv, Begun, Going
<1>4. Goes(w, v, t, c, held, loose, held2, loose2)
  BY <1>1 DEF ContactGoes, Goes
<1>5. /\ Going(v, c, held2, loose2, deafTo)
      /\ (H!NoneOf(w, c) => held) => (H!NoneOf(v, c) => held2)
  BY <1>2, <1>3, <1>4, FramesGoOn
<1>6. H!ContactInv(c)'
  <2>1. tpDeaf' = tpDeaf /\ tpContacts' = tpContacts /\ tpWire' = v
    OBVIOUS
  <2>2. /\ ~H!Follows(c)' => H!EndsIn(tpWire', c)
        /\ H!Loose(c)' => H!NoneOf(tpWire', c)
        /\ H!Alternating(tpWire', c)
        /\ tpDeaf'[c] <= 1
        /\ tpDeaf'[c] = 1 /\ c \in tpContacts' =>
             H!EndFirst(tpWire', c) /\ (H!NoneOf(tpWire', c) => H!Held(c)')
    BY <1>1, <1>3, <1>5, <2>1 DEF Begun, Going
  <2> QED
    BY <2>2 DEF H!ContactInv
<1>7. (H!NoneOf(tpWire, c) => H!Held(c)) => (H!NoneOf(tpWire, c) => H!Held(c))'
  BY <1>5
<1> QED
  BY <1>6, <1>7

\* The gestures are as GestureInv says when the page has seen to every contact, and
\* nothing has come to the program.
LEMMA PageKeepsGestures ==
    ASSUME H!TouchTypes, H!GestureInv, tpMissed' \in BOOLEAN,
           UNCHANGED <<tpContacts, tpDeaf, tpQueue, tpPressed>>,
           ~tpMissed' => ~tpMissed /\ \A c \in TouchContacts :
                            \E t \in Seq(H!Wired) : ContactGoes(t, c)
    PROVE  H!GestureInv'
<1> SUFFICES ASSUME ~tpMissed' PROVE H!PressInv' /\ \A c \in TouchContacts : H!ContactInv(c)'
  BY DEF H!GestureInv
<1>1. ~tpMissed /\ H!PressInv /\ \A c \in TouchContacts : H!ContactInv(c)
  BY DEF H!GestureInv
<1>2. ASSUME NEW c \in TouchContacts
      PROVE  /\ H!ContactInv(c)'
             /\ (H!NoneOf(tpWire, c) => H!Held(c)) => (H!NoneOf(tpWire, c) => H!Held(c))'
  <2>1. PICK t \in Seq(H!Wired) : ContactGoes(t, c)
    OBVIOUS
  <2>2. H!ContactInv(c)
    BY <1>1
  <2> QED
    BY <2>1, <2>2, ContactKept
<1>3. H!PressInv'
  <2> SUFFICES ASSUME H!Pressed' PROVE (0 \in tpContacts /\ (H!NoneOf(tpWire, 0) => H!Held(0)))'
    BY DEF H!PressInv
  <2>1. H!Pressed
    BY DEF H!Pressed
  <2>2. 0 \in tpContacts /\ (H!NoneOf(tpWire, 0) => H!Held(0))
    BY <1>1, <2>1 DEF H!PressInv
  <2>3. 0 \in TouchContacts
    BY <2>2 DEF H!TouchTypes
  <2> QED
    BY <1>2, <2>2, <2>3
<1> QED
  BY <1>2, <1>3

\* Nothing is sent, and no finger leaves that the page follows.
LEMMA PageQuiet ==
    ASSUME H!TouchTypes, H!GestureInv, H!OrderInv, H!OrderInv',
           tpMissed' \in BOOLEAN, tpInputReady' \in BOOLEAN, tpDown' \subseteq TouchFingers,
           UNCHANGED <<tpSlots, tpWire, tpReady, tpContacts, tpDeaf, tpQueue, tpPressed>>,
           ~tpMissed' => ~tpMissed /\ H!Followed \cap tpDown \subseteq tpDown'
    PROVE  H!TouchInv'
<1>1. H!TouchTypes'
  BY DEF H!TouchTypes, H!Followed
<1>2. ASSUME ~tpMissed', NEW c \in TouchContacts PROVE ContactGoes(<<>>, c)
  <2>1. (H!Follows(c)' <=> H!Follows(c)) /\ (H!Held(c) => H!Held(c)') /\ (H!Loose(c)' => H!Loose(c))
    BY <1>2 DEF H!Follows, H!Held, H!Loose, H!Followed
  <2> QED
    BY <2>1 DEF ContactGoes
<1>3. H!GestureInv'
  <2>1. <<>> \in Seq(H!Wired)
    BY EmptySeq
  <2>2. ~tpMissed' => ~tpMissed /\ \A c \in TouchContacts :
                         \E t \in Seq(H!Wired) : ContactGoes(t, c)
    BY <1>2, <2>1
  <2> QED
    BY <2>2, PageKeepsGestures
<1> QED
  BY <1>1, <1>3 DEF H!TouchInv

\* The page forgets the contacts it has, and the one it was about to start
\* (cancelTouches).
LEMMA PageCancels ==
    ASSUME H!TouchInv, NEW held, DOMAIN held \subseteq TouchFingers,
           \A f \in DOMAIN held : held[f] \in TouchContacts,
           H!Followed \subseteq DOMAIN held, \A f \in H!Followed : held[f] = tpSlots[f],
           H!cancelTouches(held), tpInputReady' \in BOOLEAN, tpDown' \subseteq TouchFingers,
           UNCHANGED <<tpNonce, tpReady, tpLastSequence, tpContacts, tpDeaf, tpQueue, tpPressed>>
    PROVE  H!TouchInv'
<1>1. H!TouchTypes /\ H!OrderInv /\ H!GestureInv
  BY DEF H!TouchInv
<1>2. /\ H!OrderInv' /\ DOMAIN tpSlots' = {}
      /\ \/ /\ tpWire' = tpWire /\ ~tpReady
            /\ tpMissed' = (tpMissed \/ H!Followed # {})
         \/ /\ tpMissed' = tpMissed /\ tpReady
            /\ \E t \in Seq(H!Wired) :
                 tpWire' = tpWire \o t /\ TellOf(t, "cancel", held, DOMAIN held)
  BY <1>1, Cancelled
<1>3. \A c : ~H!Follows(c)' /\ ~H!Held(c)' /\ ~H!Loose(c)'
  BY <1>2 DEF H!Follows, H!Held, H!Loose, H!Followed
<1>4. CASE tpWire' = tpWire /\ ~tpReady /\ tpMissed' = (tpMissed \/ H!Followed # {})
  <2>1. ASSUME ~tpMissed', NEW c \in TouchContacts PROVE ContactGoes(<<>>, c)
    <3>1. ~H!Follows(c) /\ ~H!Held(c)
      BY <1>4, <2>1 DEF H!Follows, H!Held
    <3> QED
      BY <1>3, <1>4, <3>1 DEF ContactGoes
  <2>2. <<>> \in Seq(H!Wired)
    BY EmptySeq
  <2>3. ~tpMissed' => ~tpMissed /\ \A c \in TouchContacts :
                         \E t \in Seq(H!Wired) : ContactGoes(t, c)
    BY <1>4, <2>1, <2>2
  <2>4. tpMissed' \in BOOLEAN /\ tpWire' \in Seq(H!Wired)
    BY <1>1, <1>4 DEF H!TouchTypes
  <2>5. H!GestureInv'
    BY <1>1, <2>3, <2>4, PageKeepsGestures
  <2>6. H!TouchTypes'
    BY <1>1, <1>2, <2>4 DEF H!TouchTypes, H!Followed
  <2> QED
    BY <1>2, <2>5, <2>6 DEF H!TouchInv
<1>5. CASE /\ tpMissed' = tpMissed /\ tpReady
           /\ \E t \in Seq(H!Wired) :
                tpWire' = tpWire \o t /\ TellOf(t, "cancel", held, DOMAIN held)
  <2>1. PICK t \in Seq(H!Wired) : tpWire' = tpWire \o t /\ TellOf(t, "cancel", held, DOMAIN held)
    BY <1>5
  <2>2. ASSUME NEW c \in TouchContacts PROVE ContactGoes(t, c)
    <3>1. CASE H!NoneOf(t, c)
      <4>1. ~H!Follows(c) /\ ~H!Held(c)
        BY <2>1, <3>1 DEF H!Follows, H!Held, H!NoneOf, TellOf
      <4> QED
        BY <1>3, <2>1, <3>1, <4>1 DEF ContactGoes
    <3>2. CASE ~H!NoneOf(t, c)
      <4>1. \A i \in DOMAIN t : t[i].contact = c => H!Ends(t[i], c)
        BY <2>1 DEF TellOf, H!Ends
      <4> QED
        BY <1>3, <2>1, <3>2, <4>1 DEF ContactGoes
    <3> QED
      BY <3>1, <3>2
  <2>3. ~tpMissed' => ~tpMissed /\ \A c \in TouchContacts :
                         \E u \in Seq(H!Wired) : ContactGoes(u, c)
    BY <1>5, <2>1, <2>2
  <2>4. tpMissed' \in BOOLEAN /\ tpWire' \in Seq(H!Wired)
    <3>1. tpWire \in Seq(H!Wired) /\ tpMissed \in BOOLEAN
      BY <1>1 DEF H!TouchTypes
    <3> QED
      BY <1>5, <2>1, <3>1, QueuesJoined
  <2>5. H!GestureInv'
    BY <1>1, <2>3, <2>4, PageKeepsGestures
  <2>6. H!TouchTypes'
    BY <1>1, <1>2, <2>4 DEF H!TouchTypes, H!Followed
  <2> QED
    BY <1>2, <2>5, <2>6 DEF H!TouchInv
<1> QED
  BY <1>2, <1>4, <1>5

\* A frame that is refused, with the contacts as they were (forwardTouches).
LEMMA PageRefused ==
    ASSUME H!TouchInv, H!Refused(tpSlots) \/ H!TooManyTouches, tpDown' \subseteq TouchFingers,
           UNCHANGED <<tpNonce, tpReady, tpLastSequence, tpContacts, tpDeaf, tpQueue, tpPressed>>
    PROVE  H!TouchInv'
<1>1. /\ DOMAIN tpSlots \subseteq TouchFingers /\ H!Followed \subseteq DOMAIN tpSlots
      /\ \A f \in DOMAIN tpSlots : tpSlots[f] \in TouchContacts
  BY DEF H!TouchInv, H!TouchTypes, H!Followed
<1>2. H!cancelTouches(tpSlots) /\ tpInputReady' \in BOOLEAN
  BY DEF H!Refused, H!TooManyTouches
<1> PICK held : held = tpSlots
  OBVIOUS
<1>3. /\ DOMAIN held \subseteq TouchFingers /\ H!Followed \subseteq DOMAIN held
      /\ \A f \in DOMAIN held : held[f] \in TouchContacts
      /\ \A f \in H!Followed : held[f] = tpSlots[f]
      /\ H!cancelTouches(held)
  BY <1>1, <1>2
<1> QED
  BY <1>2, <1>3, PageCancels

\* A finger comes on the screen.
LEMMA TouchStarts == H!TouchInv /\ H!onTouchStart => H!TouchInv'
<1> SUFFICES ASSUME H!TouchInv, H!onTouchStart PROVE H!TouchInv'
  OBVIOUS
<1>0. H!TouchTypes /\ H!OrderInv /\ H!GestureInv
  BY DEF H!TouchInv
<1>1. PICK f \in TouchFingers \ tpDown :
        /\ tpDown' = tpDown \cup {f}
        /\ \/ H!Ignored /\ UNCHANGED tpMissed
           \/ ~H!CanAllocate(f) /\ H!TooManyTouches
           \/ H!CanAllocate(f) /\ H!Refused(H!With(f))
           \/ /\ tpInputReady /\ H!CanAllocate(f)
              /\ H!SentFor("start", H!With(f), {f})
              /\ tpSlots' = H!With(f)
              /\ UNCHANGED <<tpInputReady, tpFaults, tpMissed>>
  BY DEF H!onTouchStart
<1>2. UNCHANGED <<tpNonce, tpReady, tpLastSequence, tpContacts, tpDeaf, tpQueue, tpPressed>>
  BY DEF H!onTouchStart, H!router, H!child
<1>3. tpDown' \subseteq TouchFingers
  BY <1>0, <1>1 DEF H!TouchTypes
<1>4. CASE H!Ignored /\ UNCHANGED tpMissed
  <2>1. UNCHANGED <<tpSlots, tpInputReady, tpWire, tpTouchNonce, tpTouchSequence>>
    BY <1>4 DEF H!Ignored, H!pageT, H!native
  <2>2. H!OrderInv'
    BY <1>0, <1>2, <2>1 DEF H!OrderInv
  <2>3. tpMissed' \in BOOLEAN /\ tpInputReady' \in BOOLEAN
        /\ (~tpMissed' => ~tpMissed /\ H!Followed \cap tpDown \subseteq tpDown')
    BY <1>0, <1>1, <1>4, <2>1 DEF H!TouchTypes
  <2> QED
    BY <1>0, <1>2, <1>3, <2>1, <2>2, <2>3, PageQuiet
<1>5. CASE ~H!CanAllocate(f) /\ H!TooManyTouches
  BY <1>2, <1>3, <1>5, PageRefused
<1>6. CASE H!CanAllocate(f) /\ H!Refused(H!With(f))
  <2> PICK held : held = H!With(f)
    OBVIOUS
  <2>1. /\ DOMAIN held \subseteq TouchFingers /\ H!Followed \subseteq DOMAIN held
        /\ \A g \in DOMAIN held : held[g] \in TouchContacts
        /\ \A g \in H!Followed : held[g] = tpSlots[g]
    <3>1. H!Followed \subseteq TouchFingers
      BY <1>0 DEF H!TouchTypes
    <3> QED
      BY <1>0, <1>6, <3>1, ContactAllocated
  <2>2. H!cancelTouches(held) /\ tpInputReady' \in BOOLEAN
    BY <1>6 DEF H!Refused
  <2> QED
    BY <1>2, <1>3, <2>1, <2>2, PageCancels
<1>7. CASE /\ tpInputReady /\ H!CanAllocate(f)
           /\ H!SentFor("start", H!With(f), {f})
           /\ tpSlots' = H!With(f)
           /\ UNCHANGED <<tpInputReady, tpFaults, tpMissed>>
  <2> PICK held, c : held = H!With(f) /\ c = H!Allocated(f)
    OBVIOUS
  <2>1. /\ DOMAIN held = H!Followed \cup {f} /\ held[f] = c
        /\ \A g \in H!Followed : held[g] = tpSlots[g]
        /\ \A g \in H!Followed \cup {f} : held[g] \in TouchContacts
        /\ \A g \in H!Followed \ {f} : tpSlots[g] # c
    BY <1>0, <1>7, ContactAllocated
  <2>2. tpSlots' = held /\ UNCHANGED <<tpInputReady, tpMissed>>
    BY <1>7
  <2> PICK fingers : fingers = {f}
    OBVIOUS
  <2>3. /\ H!OrderInv' /\ tpReady
        /\ \E t \in Seq(H!Wired) :
             /\ tpWire' = tpWire \o t /\ Len(t) = H!Cardinality(fingers)
             /\ TellOf(t, "start", held, fingers)
    <3>1. "start" \in H!Phases /\ fingers \subseteq TouchFingers
          /\ \A g \in fingers : held[g] \in TouchContacts
      BY <2>1 DEF H!Phases
    <3>2. H!SentFor("start", held, fingers) /\ UNCHANGED <<tpNonce, tpLastSequence>>
      BY <1>2, <1>7
    <3> QED
      BY <1>0, <3>1, <3>2, FramesSent
  <2>4. PICK t \in Seq(H!Wired) : /\ tpWire' = tpWire \o t /\ Len(t) = H!Cardinality(fingers)
                                  /\ TellOf(t, "start", held, fingers)
    BY <2>3
  <2>5. Len(t) = 1
    BY <2>4, FingersCounted
  <2>6. (\A i \in DOMAIN t : t[i].contact = c) /\ ~H!NoneOf(t, c)
    BY <2>1, <2>4 DEF TellOf, H!NoneOf
  <2>7. ASSUME NEW d \in TouchContacts PROVE ContactGoes(t, d)
    <3>1. CASE d = c
      <4>1. ~H!Held(c)
        BY <2>1 DEF H!Held
      <4>2. H!Held(c)' /\ ~H!Loose(c)'
        BY <1>1, <2>1, <2>2 DEF H!Held, H!Loose, H!Followed
      <4> QED
        BY <2>4, <2>5, <2>6, <3>1, <4>1, <4>2 DEF ContactGoes
    <3>2. CASE d # c
      <4>1. H!NoneOf(t, d)
        BY <2>6, <3>2 DEF H!NoneOf
      <4>2. f \in H!Followed => tpSlots[f] = c
        BY <2>1
      <4>3. H!Follows(d)' <=> H!Follows(d)
        BY <2>1, <2>2, <3>2, <4>2 DEF H!Follows, H!Followed
      <4>4. (H!Held(d) => H!Held(d)') /\ (H!Loose(d)' => H!Loose(d))
        BY <1>1, <2>1, <2>2, <3>2, <4>2 DEF H!Held, H!Loose, H!Followed
      <4> QED
        BY <2>4, <4>1, <4>3, <4>4 DEF ContactGoes
    <3> QED
      BY <3>1, <3>2
  <2>8. H!TouchTypes'
    <3>1. tpWire' \in Seq(H!Wired)
      <4>1. tpWire \in Seq(H!Wired)
        BY <1>0 DEF H!TouchTypes
      <4> QED
        BY <2>4, <4>1, QueuesJoined
    <3>2. /\ H!Followed' \subseteq TouchFingers
          /\ (\A g \in H!Followed : tpSlots[g] \in TouchContacts)'
          /\ (\A g, h \in H!Followed : tpSlots[g] = tpSlots[h] => g = h)'
      <4>1. \A g, h \in H!Followed : tpSlots[g] = tpSlots[h] => g = h
        BY <1>0 DEF H!TouchTypes
      <4>2. \A g, h \in H!Followed \cup {f} : held[g] = held[h] => g = h
        BY <2>1, <4>1
      <4>3. H!Followed \subseteq TouchFingers
        BY <1>0 DEF H!TouchTypes
      <4> QED
        BY <2>1, <2>2, <4>2, <4>3 DEF H!Followed
    <3> QED
      BY <1>0, <1>2, <1>3, <2>2, <3>1, <3>2 DEF H!TouchTypes
  <2>9. H!GestureInv'
    <3>1. tpMissed' \in BOOLEAN
      BY <1>0, <2>2 DEF H!TouchTypes
    <3>2. ~tpMissed' => ~tpMissed /\ \A d \in TouchContacts :
                           \E u \in Seq(H!Wired) : ContactGoes(u, d)
      BY <2>2, <2>7
    <3> QED
      BY <1>0, <1>2, <3>1, <3>2, PageKeepsGestures
  <2> QED
    BY <2>3, <2>8, <2>9 DEF H!TouchInv
<1> QED
  BY <1>1, <1>4, <1>5, <1>6, <1>7

\* Fingers move.
LEMMA TouchMoves == H!TouchInv /\ H!onTouchMove => H!TouchInv'
<1> SUFFICES ASSUME H!TouchInv, H!onTouchMove PROVE H!TouchInv'
  OBVIOUS
<1>0. H!TouchTypes /\ H!OrderInv /\ H!GestureInv
  BY DEF H!TouchInv
<1>1. /\ UNCHANGED <<tpNonce, tpReady, tpLastSequence, tpContacts, tpDeaf, tpQueue, tpPressed>>
      /\ tpDown' = tpDown /\ tpDown' \subseteq TouchFingers
  BY <1>0 DEF H!onTouchMove, H!router, H!child, H!user, H!TouchTypes
<1>2. CASE H!Refused(tpSlots)
  BY <1>1, <1>2, PageRefused
<1>3. CASE H!SentFor("move", tpSlots, H!Followed \cap tpDown)
           /\ UNCHANGED <<tpSlots, tpInputReady, tpMissed>>
  <2> PICK held, fingers : held = tpSlots /\ fingers = H!Followed \cap tpDown
    OBVIOUS
  <2>1. /\ H!OrderInv' /\ tpReady
        /\ \E t \in Seq(H!Wired) :
             /\ tpWire' = tpWire \o t /\ Len(t) = H!Cardinality(fingers)
             /\ TellOf(t, "move", held, fingers)
    <3>1. "move" \in H!Phases /\ fingers \subseteq TouchFingers
          /\ \A g \in fingers : held[g] \in TouchContacts
      BY <1>0 DEF H!Phases, H!TouchTypes
    <3>2. H!SentFor("move", held, fingers) /\ UNCHANGED <<tpNonce, tpLastSequence>>
      BY <1>1, <1>3
    <3> QED
      BY <1>0, <3>1, <3>2, FramesSent
  <2>2. PICK t \in Seq(H!Wired) : tpWire' = tpWire \o t /\ TellOf(t, "move", held, fingers)
    BY <2>1
  <2>3. ASSUME NEW c \in TouchContacts PROVE ContactGoes(t, c)
    <3>1. (H!Follows(c)' <=> H!Follows(c)) /\ (H!Held(c) <=> H!Held(c)')
          /\ (H!Loose(c)' <=> H!Loose(c))
      BY <1>1, <1>3 DEF H!Follows, H!Held, H!Loose, H!Followed
    <3>2. CASE H!NoneOf(t, c)
      BY <2>2, <3>1, <3>2 DEF ContactGoes
    <3>3. CASE ~H!NoneOf(t, c)
      <4>1. PICK f \in fingers : held[f] = c
        BY <2>2, <3>3 DEF TellOf, H!NoneOf
      <4>2. H!Held(c) /\ ~H!Loose(c)
        <5>1. \A f2, g \in H!Followed : tpSlots[f2] = tpSlots[g] => f2 = g
          BY <1>0 DEF H!TouchTypes
        <5> QED
          BY <4>1, <5>1 DEF H!Held, H!Loose
      <4>3. \A i \in DOMAIN t : ~H!Starts(t[i], c)
        BY <2>2 DEF TellOf, H!Starts
      <4> QED
        BY <2>2, <3>1, <4>2, <4>3 DEF ContactGoes
    <3> QED
      BY <3>2, <3>3
  <2>4. tpWire' \in Seq(H!Wired)
    <3>1. tpWire \in Seq(H!Wired)
      BY <1>0 DEF H!TouchTypes
    <3> QED
      BY <2>2, <3>1, QueuesJoined
  <2>5. H!TouchTypes'
    BY <1>0, <1>1, <1>3, <2>4 DEF H!TouchTypes, H!Followed
  <2>6. H!GestureInv'
    <3>1. tpMissed' \in BOOLEAN
      BY <1>0, <1>3 DEF H!TouchTypes
    <3>2. ~tpMissed' => ~tpMissed /\ \A d \in TouchContacts :
                           \E u \in Seq(H!Wired) : ContactGoes(u, d)
      BY <1>3, <2>3
    <3> QED
      BY <1>0, <1>1, <3>1, <3>2, PageKeepsGestures
  <2> QED
    BY <2>1, <2>5, <2>6 DEF H!TouchInv
<1> QED
  BY <1>2, <1>3 DEF H!onTouchMove, H!pageT

\* A finger leaves the screen.
LEMMA TouchEnds == H!TouchInv /\ H!onTouchEnd => H!TouchInv'
<1> SUFFICES ASSUME H!TouchInv, H!onTouchEnd PROVE H!TouchInv'
  OBVIOUS
<1>0. H!TouchTypes /\ H!OrderInv /\ H!GestureInv
  BY DEF H!TouchInv
<1>1. PICK f \in tpDown :
        /\ tpDown' = tpDown \ {f}
        /\ \/ H!Ignored /\ tpMissed' = (tpMissed \/ f \in H!Followed)
           \/ H!Refused(tpSlots)
           \/ /\ tpInputReady /\ f \in H!Followed
              /\ H!SentFor("end", tpSlots, {f})
              /\ tpSlots' = H!Without({f})
              /\ UNCHANGED <<tpInputReady, tpFaults, tpMissed>>
           \/ /\ tpInputReady /\ f \notin H!Followed
              /\ UNCHANGED <<H!pageT, H!native, tpFaults, tpMissed>>
  BY DEF H!onTouchEnd
<1>2. UNCHANGED <<tpNonce, tpReady, tpLastSequence, tpContacts, tpDeaf, tpQueue, tpPressed>>
  BY DEF H!onTouchEnd, H!router, H!child
<1>3. tpDown' \subseteq TouchFingers
  BY <1>0, <1>1 DEF H!TouchTypes
<1>4. CASE \/ H!Ignored /\ tpMissed' = (tpMissed \/ f \in H!Followed)
           \/ f \notin H!Followed /\ UNCHANGED <<H!pageT, H!native, tpFaults, tpMissed>>
  <2>1. UNCHANGED <<tpSlots, tpInputReady, tpWire, tpTouchNonce, tpTouchSequence>>
    BY <1>4 DEF H!Ignored, H!pageT, H!native
  <2>2. H!OrderInv'
    BY <1>0, <1>2, <2>1 DEF H!OrderInv
  <2>3. tpMissed' \in BOOLEAN /\ tpInputReady' \in BOOLEAN
    BY <1>0, <1>4, <2>1 DEF H!TouchTypes
  <2>4. ~tpMissed' => ~tpMissed /\ H!Followed \cap tpDown \subseteq tpDown'
    BY <1>1, <1>4
  <2> QED
    BY <1>0, <1>2, <1>3, <2>1, <2>2, <2>3, <2>4, PageQuiet
<1>5. CASE H!Refused(tpSlots)
  BY <1>2, <1>3, <1>5, PageRefused
<1>6. CASE /\ f \in H!Followed
           /\ H!SentFor("end", tpSlots, {f})
           /\ tpSlots' = H!Without({f})
           /\ UNCHANGED <<tpInputReady, tpFaults, tpMissed>>
  <2> PICK held, fingers, c : held = tpSlots /\ fingers = {f} /\ c = tpSlots[f]
    OBVIOUS
  <2>1. /\ H!OrderInv' /\ tpReady
        /\ \E t \in Seq(H!Wired) :
             /\ tpWire' = tpWire \o t /\ Len(t) = H!Cardinality(fingers)
             /\ TellOf(t, "end", held, fingers)
    <3>1. "end" \in H!Phases /\ fingers \subseteq TouchFingers
          /\ \A g \in fingers : held[g] \in TouchContacts
      BY <1>0, <1>6 DEF H!Phases, H!TouchTypes
    <3>2. H!SentFor("end", held, fingers) /\ UNCHANGED <<tpNonce, tpLastSequence>>
      BY <1>2, <1>6
    <3> QED
      BY <1>0, <3>1, <3>2, FramesSent
  <2>2. PICK t \in Seq(H!Wired) : tpWire' = tpWire \o t /\ TellOf(t, "end", held, fingers)
    BY <2>1
  <2>3. /\ DOMAIN tpSlots' = H!Followed \ {f}
        /\ \A g \in H!Followed \ {f} : tpSlots'[g] = tpSlots[g]
        /\ \A g \in H!Followed \ {f} : tpSlots[g] # c
    <3>1. \A g, h \in H!Followed : tpSlots[g] = tpSlots[h] => g = h
      BY <1>0 DEF H!TouchTypes
    <3> QED
      BY <1>6, <3>1 DEF H!Without
  <2>4. \A i \in DOMAIN t : t[i].contact = c /\ H!Ends(t[i], c)
    BY <2>2 DEF TellOf, H!Ends
  <2>5. ~H!NoneOf(t, c)
    BY <2>2 DEF TellOf, H!NoneOf
  <2>6. ASSUME NEW d \in TouchContacts PROVE ContactGoes(t, d)
    <3>1. CASE d = c
      <4>1. ~H!Follows(c)'
        BY <2>3 DEF H!Follows, H!Followed
      <4> QED
        BY <2>2, <2>4, <2>5, <3>1, <4>1 DEF ContactGoes
    <3>2. CASE d # c
      <4>1. H!NoneOf(t, d)
        BY <2>4, <3>2 DEF H!NoneOf
      <4>2. H!Follows(d)' <=> H!Follows(d)
        BY <2>3, <3>2 DEF H!Follows, H!Followed
      <4>3. (H!Held(d) => H!Held(d)') /\ (H!Loose(d)' => H!Loose(d))
        BY <1>1, <2>3, <3>2 DEF H!Held, H!Loose, H!Followed
      <4> QED
        BY <2>2, <4>1, <4>2, <4>3 DEF ContactGoes
    <3> QED
      BY <3>1, <3>2
  <2>7. tpWire' \in Seq(H!Wired)
    <3>1. tpWire \in Seq(H!Wired)
      BY <1>0 DEF H!TouchTypes
    <3> QED
      BY <2>2, <3>1, QueuesJoined
  <2>8. H!TouchTypes'
    BY <1>0, <1>2, <1>3, <1>6, <2>3, <2>7 DEF H!TouchTypes, H!Followed
  <2>9. H!GestureInv'
    <3>1. tpMissed' \in BOOLEAN
      BY <1>0, <1>6 DEF H!TouchTypes
    <3>2. ~tpMissed' => ~tpMissed /\ \A d \in TouchContacts :
                           \E u \in Seq(H!Wired) : ContactGoes(u, d)
      BY <1>6, <2>6
    <3> QED
      BY <1>0, <1>2, <3>1, <3>2, PageKeepsGestures
  <2> QED
    BY <2>1, <2>8, <2>9 DEF H!TouchInv
<1> QED
  BY <1>1, <1>4, <1>5, <1>6

\* All fingers are taken from the page, it is hidden, or it learns of the session.
LEMMA TouchesGo ==
    H!TouchInv /\ (H!onTouchCancel \/ H!onHide \/ H!Polled) => H!TouchInv'
<1> SUFFICES ASSUME H!TouchInv, H!onTouchCancel \/ H!onHide \/ H!Polled PROVE H!TouchInv'
  OBVIOUS
<1>0. H!TouchTypes /\ H!OrderInv /\ H!GestureInv
  BY DEF H!TouchInv
<1>1. CASE H!onTouchCancel \/ H!onHide
  <2> PICK held : held = tpSlots
    OBVIOUS
  <2>1. /\ DOMAIN held \subseteq TouchFingers /\ H!Followed \subseteq DOMAIN held
        /\ \A f \in DOMAIN held : held[f] \in TouchContacts
        /\ \A f \in H!Followed : held[f] = tpSlots[f]
    BY <1>0 DEF H!TouchTypes, H!Followed
  <2>2. H!cancelTouches(held) /\ tpInputReady' \in BOOLEAN /\ tpDown' \subseteq TouchFingers
    BY <1>0, <1>1 DEF H!onTouchCancel, H!onHide, H!TouchTypes
  <2>3. UNCHANGED <<tpNonce, tpReady, tpLastSequence, tpContacts, tpDeaf, tpQueue, tpPressed>>
    BY <1>1 DEF H!onTouchCancel, H!onHide, H!router, H!child
  <2> QED
    BY <2>1, <2>2, <2>3, PageCancels
<1>2. CASE H!Polled
  <2>1. /\ UNCHANGED <<tpSlots, tpWire, tpReady, tpContacts, tpDeaf, tpQueue, tpPressed>>
        /\ UNCHANGED <<tpNonce, tpLastSequence, tpMissed, tpDown>>
        /\ tpInputReady' = tpReady
    BY <1>2 DEF H!Polled, H!router, H!child, H!user
  <2>2. H!OrderInv'
    <3>1. H!NotSent
      BY <1>2, <2>1 DEF H!Polled, H!NotSent
    <3> QED
      BY <1>0, <2>1, <3>1, NothingSent
  <2>3. /\ tpMissed' \in BOOLEAN /\ tpInputReady' \in BOOLEAN /\ tpDown' \subseteq TouchFingers
        /\ ~tpMissed' => ~tpMissed /\ H!Followed \cap tpDown \subseteq tpDown'
    BY <1>0, <2>1 DEF H!TouchTypes
  <2> QED
    BY <1>0, <2>1, <2>2, <2>3, PageQuiet
<1> QED
  BY <1>1, <1>2

\* What the program has to read when one more frame has come.
LEMMA PressedWithMore ==
    ASSUME tpQueue \in Seq(H!Wired), NEW frame \in H!Wired,
           tpQueue' = Append(tpQueue, frame), tpPressed' = tpPressed, H!Pressed'
    PROVE  /\ frame.contact # 0 => H!Pressed
           /\ frame.contact = 0 => frame.phase \in {"start", "move"}
<1> PICK n, q, v : n = Len(tpQueue) /\ q = tpQueue /\ v = tpQueue'
  OBVIOUS
<1>1. /\ n \in Nat /\ DOMAIN q = 1..n /\ DOMAIN v = 1..(n + 1)
      /\ \A i \in 1..n : v[i] = q[i]
      /\ v[n + 1] = frame
  <2>1. /\ v \in Seq(H!Wired) /\ Len(v) = n + 1 /\ n \in Nat
        /\ \A i \in 1..n : v[i] = q[i]
        /\ v[n + 1] = frame
    BY AppendTo
  <2> QED
    BY <2>1
<1>2. \/ tpPressed /\ \A i \in DOMAIN v : v[i].contact # 0
      \/ \E i \in DOMAIN v :
            /\ v[i].contact = 0 /\ v[i].phase \in {"start", "move"}
            /\ \A j \in DOMAIN v : j > i => v[j].contact # 0
  BY DEF H!Pressed
<1>3. n + 1 \in DOMAIN v /\ \A i \in 1..n : i \in DOMAIN v /\ n + 1 > i
  BY <1>1
<1>4. ASSUME frame.contact = 0 PROVE frame.phase \in {"start", "move"}
  <2>1. PICK i \in DOMAIN v :
            /\ v[i].contact = 0 /\ v[i].phase \in {"start", "move"}
            /\ \A j \in DOMAIN v : j > i => v[j].contact # 0
    BY <1>1, <1>2, <1>3, <1>4
  <2>2. i = n + 1
    BY <1>1, <1>3, <1>4, <2>1
  <2> QED
    BY <1>1, <2>1, <2>2
<1>5. ASSUME frame.contact # 0 PROVE H!Pressed
  <2>1. CASE tpPressed /\ \A i \in DOMAIN v : v[i].contact # 0
    <3>1. \A i \in DOMAIN q : q[i].contact # 0
      BY <1>1, <1>3, <2>1
    <3> QED
      BY <2>1, <3>1 DEF H!Pressed
  <2>2. CASE \E i \in DOMAIN v :
            /\ v[i].contact = 0 /\ v[i].phase \in {"start", "move"}
            /\ \A j \in DOMAIN v : j > i => v[j].contact # 0
    <3>1. PICK i \in DOMAIN v :
            /\ v[i].contact = 0 /\ v[i].phase \in {"start", "move"}
            /\ \A j \in DOMAIN v : j > i => v[j].contact # 0
      BY <2>2
    <3>2. i \in 1..n
      BY <1>1, <1>5, <3>1
    <3>3. /\ q[i].contact = 0 /\ q[i].phase \in {"start", "move"}
          /\ \A j \in DOMAIN q : j > i => q[j].contact # 0
      BY <1>1, <1>3, <3>1, <3>2
    <3>4. i \in DOMAIN q
      BY <1>1, <3>2
    <3> QED
      BY <3>3, <3>4 DEF H!Pressed
  <2> QED
    BY <1>2, <2>1, <2>2
<1> QED
  BY <1>4, <1>5

\* The first frame of w is taken.
TakenFrom(w, v) == w # <<>> /\ v = Tail(w)

\* What is left of the contact whose frame is taken: a gesture that is not over is in
\* the socket or held.
LEMMA FirstTaken ==
    ASSUME NEW w \in Seq(H!Wired), NEW v, TakenFrom(w, v), NEW c, NEW held, NEW loose,
           Begun(w, c, held, loose), w[1].contact = c
    PROVE  /\ Begun(v, c, held, loose)
           /\ ~H!Ends(w[1], c) => H!EndFirst(v, c) /\ (H!NoneOf(v, c) => held)
<1>1. 1 \in DOMAIN w
  BY TailOf DEF TakenFrom
<1>2. ~H!NoneOf(w, c)
  BY <1>1 DEF H!NoneOf
<1>3. /\ H!NoneOf(w, c) => H!NoneOf(v, c)
      /\ H!EndsIn(w, c) => H!EndsIn(v, c)
      /\ H!Alternating(w, c) => H!Alternating(v, c)
      /\ H!Alternating(w, c) /\ ~H!Ends(w[1], c) => H!EndFirst(v, c)
      /\ H!EndsIn(w, c) /\ ~H!Ends(w[1], c) => ~H!NoneOf(v, c)
  BY WithoutFirst DEF TakenFrom
<1>4. /\ ~held /\ ~loose => H!EndsIn(w, c)
      /\ ~loose
      /\ H!Alternating(w, c)
  BY <1>2 DEF Begun, Going
<1>5. Begun(v, c, held, loose)
  BY <1>3, <1>4 DEF Begun, Going
<1>6. ~H!Ends(w[1], c) => H!EndFirst(v, c) /\ (H!NoneOf(v, c) => held)
  BY <1>3, <1>4
<1> QED
  BY <1>5, <1>6

\* And of the others: nothing changes for them.
LEMMA OtherTaken ==
    ASSUME NEW w \in Seq(H!Wired), NEW v, TakenFrom(w, v), NEW c, NEW held, NEW loose,
           NEW deafTo, Going(w, c, held, loose, deafTo), w[1].contact # c
    PROVE  /\ Going(v, c, held, loose, deafTo)
           /\ (H!NoneOf(w, c) => held) => (H!NoneOf(v, c) => held)
<1>1. ~H!Ends(w[1], c)
  BY DEF H!Ends
<1>2. /\ H!NoneOf(w, c) <=> H!NoneOf(v, c)
      /\ H!EndsIn(w, c) => H!EndsIn(v, c)
      /\ H!Alternating(w, c) => H!Alternating(v, c)
      /\ H!EndFirst(w, c) => H!EndFirst(v, c)
  BY <1>1, WithoutFirst DEF TakenFrom
<1>3. /\ ~held /\ ~loose => H!EndsIn(w, c)
      /\ loose => H!NoneOf(w, c)
      /\ H!Alternating(w, c)
      /\ deafTo => H!EndFirst(w, c) /\ (H!NoneOf(w, c) => held)
  BY DEF Begun, Going
<1>4. Going(v, c, held, loose, deafTo)
  BY <1>2, <1>3 DEF Begun, Going
<1> QED
  BY <1>2, <1>4

\* The order of the frames when the first is taken, whether it counts or was too old.
LEMMA OrderTaken ==
    ASSUME H!OrderInv, tpWire \in Seq(H!Wired), tpWire # <<>>, tpWire' = Tail(tpWire),
           UNCHANGED <<tpNonce, tpTouchNonce, tpTouchSequence>>,
           tpLastSequence' \in {tpLastSequence, tpWire[1].sequence}
    PROVE  H!OrderInv' /\ H!SequenceFits(tpWire[1])
<1> PICK w, v, low, top, low2 :
       /\ w = tpWire /\ v = tpWire' /\ low = tpLastSequence /\ top = tpTouchSequence
       /\ low2 = tpLastSequence'
  OBVIOUS
<1> PICK n : n = Len(v)
  OBVIOUS
<1>1. /\ n \in Nat /\ DOMAIN v = 1..n /\ DOMAIN w = 1..(n + 1) /\ \A i \in 1..n : v[i] = w[i + 1]
  <2>1. /\ Len(w) \in Nat \ {0} /\ v \in Seq(H!Wired) /\ Len(v) = Len(w) - 1
        /\ \A i \in 1..Len(v) : v[i] = w[i + 1]
    BY TailOf
  <2> QED
    BY <2>1
<1>2. /\ {tpNonce, tpTouchNonce, top, low} \subseteq Nat /\ tpTouchNonce = tpNonce
      /\ H!Numbered(w, tpNonce, low, top)
  BY DEF H!OrderInv
<1> PICK c : c = tpNonce
  OBVIOUS
<1>3. 1 \in DOMAIN w /\ w[1].nonce = c /\ low < w[1].sequence /\ w[1].sequence <= top
  <2>1. 1 \in DOMAIN w
    BY <1>1
  <2> QED
    BY <1>2, <2>1 DEF H!Numbered
<1>4. low2 \in Nat /\ low2 <= top
  <2>1. low2 = low \/ low2 = w[1].sequence
    OBVIOUS
  <2>2. low <= top
    BY <1>2 DEF H!OrderInv
  <2>3. w[1].sequence \in Nat
    <3>1. w[1] \in H!Wired
      BY TailOf
    <3> QED
      BY <3>1 DEF H!Wired
  <2> QED
    BY <1>2, <1>3, <2>1, <2>2, <2>3
<1>5. H!Numbered(v, c, low2, top)
  <2> SUFFICES ASSUME NEW i \in 1..n
               PROVE  /\ v[i].nonce = c /\ low2 < v[i].sequence /\ v[i].sequence <= top
                      /\ \A j \in 1..(i - 1) : v[j].sequence < v[i].sequence
    BY <1>1 DEF H!Numbered
  <2>1. /\ i + 1 \in DOMAIN w /\ v[i] = w[i + 1] /\ 1 \in 1..((i + 1) - 1)
        /\ \A j \in 1..(i - 1) : v[j] = w[j + 1] /\ j + 1 \in 1..((i + 1) - 1)
    BY <1>1
  <2>2. /\ w[i + 1].nonce = c /\ low < w[i + 1].sequence /\ w[i + 1].sequence <= top
        /\ \A j \in 1..((i + 1) - 1) : w[j].sequence < w[i + 1].sequence
    BY <1>2, <2>1 DEF H!Numbered
  <2>3. w[1].sequence < v[i].sequence
    BY <2>1, <2>2
  <2>4. \A j \in 1..(i - 1) : v[j].sequence < v[i].sequence
    BY <2>1, <2>2
  <2>5. low2 < v[i].sequence
    BY <2>1, <2>2, <2>3
  <2> QED
    BY <2>1, <2>2, <2>4, <2>5
<1>6. H!OrderInv'
  <2>1. H!Numbered(tpWire', tpNonce', tpLastSequence', tpTouchSequence')
    BY <1>5
  <2>2. /\ tpNonce' = tpNonce /\ tpTouchNonce' = tpTouchNonce /\ tpTouchSequence' = top
        /\ tpLastSequence' = low2
    OBVIOUS
  <2> QED
    BY <1>2, <1>4, <2>1, <2>2 DEF H!OrderInv
<1>7. H!SequenceFits(tpWire[1])
  BY <1>3 DEF H!SequenceFits
<1> QED
  BY <1>6, <1>7

\* So the contact whose frame is taken is as ContactInv says, and so are the others.
LEMMA ContactTaken ==
    ASSUME tpWire \in Seq(H!Wired), tpWire # <<>>, tpWire' = Tail(tpWire), NEW c,
           H!ContactInv(c), UNCHANGED <<tpSlots, tpDown>>
    PROVE  /\ tpWire[1].contact = c =>
                /\ /\ tpDeaf'[c] <= 1
                   /\ tpDeaf'[c] = 1 /\ c \in tpContacts' => ~H!Ends(tpWire[1], c)
                   => H!ContactInv(c)'
                /\ ~H!Ends(tpWire[1], c) => (H!NoneOf(tpWire, c) => H!Held(c))'
           /\ tpWire[1].contact # c =>
                /\ tpDeaf'[c] = tpDeaf[c] /\ (c \in tpContacts' <=> c \in tpContacts)
                   => H!ContactInv(c)'
                /\ (H!NoneOf(tpWire, c) => H!Held(c)) => (H!NoneOf(tpWire, c) => H!Held(c))'
<1> PICK w, v : w = tpWire /\ v = tpWire'
  OBVIOUS
<1>0. w \in Seq(H!Wired) /\ TakenFrom(w, v)
  BY DEF TakenFrom
<1> PICK held, loose, deafTo :
        /\ held <=> H!Held(c)
        /\ loose <=> H!Loose(c)
        /\ deafTo <=> (tpDeaf[c] = 1 /\ c \in tpContacts)
  OBVIOUS
<1>1. (H!Follows(c) <=> held \/ loose) /\ (H!Follows(c)' <=> held \/ loose)
  <2>1. H!Follows(c) <=> H!Held(c) \/ H!Loose(c)
    BY DEF H!Follows, H!Held, H!Loose
  <2>2. H!Follows(c)' <=> H!Follows(c)
    BY DEF H!Follows, H!Followed
  <2> QED
    BY <2>1, <2>2
<1>2. (H!Held(c)' <=> held) /\ (H!Loose(c)' <=> loose)
  BY DEF H!Held, H!Loose, H!Followed
<1>3. Going(w, c, held, loose, deafTo) /\ Begun(w, c, held, loose) /\ tpDeaf[c] <= 1
  BY <1>1 DEF H!ContactInv, Begun, Going
<1>4. ASSUME Begun(v, c, held, loose), tpDeaf'[c] <= 1,
             tpDeaf'[c] = 1 /\ c \in tpContacts' =>
               H!EndFirst(v, c) /\ (H!NoneOf(v, c) => held)
      PROVE  H!ContactInv(c)'
  <2>1. /\ ~H!Follows(c)' => H!EndsIn(tpWire', c)
        /\ H!Loose(c)' => H!NoneOf(tpWire', c)
        /\ H!Alternating(tpWire', c)
        /\ tpDeaf'[c] <= 1
        /\ tpDeaf'[c] = 1 /\ c \in tpContacts' =>
             H!EndFirst(tpWire', c) /\ (H!NoneOf(tpWire', c) => H!Held(c)')
    BY <1>1, <1>2, <1>4 DEF Begun, Going
  <2> QED
    BY <2>1 DEF H!ContactInv
<1>5. ASSUME w[1].contact = c
      PROVE  /\ Begun(v, c, held, loose)
             /\ ~H!Ends(w[1], c) => H!EndFirst(v, c) /\ (H!NoneOf(v, c) => held)
  BY <1>0, <1>3, <1>5, FirstTaken
<1>6. ASSUME w[1].contact # c
      PROVE  /\ Going(v, c, held, loose, deafTo)
             /\ (H!NoneOf(w, c) => held) => (H!NoneOf(v, c) => held)
  BY <1>0, <1>3, <1>6, OtherTaken
<1>7. (H!NoneOf(tpWire, c) => H!Held(c))' <=> (H!NoneOf(v, c) => held)
  BY <1>2
<1>8. ASSUME w[1].contact = c
      PROVE  /\ /\ tpDeaf'[c] <= 1
                /\ tpDeaf'[c] = 1 /\ c \in tpContacts' => ~H!Ends(w[1], c)
                => H!ContactInv(c)'
             /\ ~H!Ends(w[1], c) => (H!NoneOf(tpWire, c) => H!Held(c))'
  BY <1>4, <1>5, <1>7, <1>8
<1>9. ASSUME w[1].contact # c
      PROVE  /\ tpDeaf'[c] = tpDeaf[c] /\ (c \in tpContacts' <=> c \in tpContacts)
                => H!ContactInv(c)'
             /\ (H!NoneOf(tpWire, c) => H!Held(c)) => (H!NoneOf(tpWire, c) => H!Held(c))'
  <2>1. Begun(v, c, held, loose)
        /\ (deafTo => H!EndFirst(v, c) /\ (H!NoneOf(v, c) => held))
    BY <1>6, <1>9 DEF Begun, Going
  <2>2. tpDeaf'[c] = tpDeaf[c] /\ (c \in tpContacts' <=> c \in tpContacts) => H!ContactInv(c)'
    BY <1>3, <1>4, <2>1
  <2> QED
    BY <1>6, <1>7, <1>9, <2>2
<1> QED
  BY <1>8, <1>9

\* The router takes a frame.
LEMMA TouchRouted == H!TouchInv /\ H!Route => H!TouchInv'
<1> SUFFICES ASSUME H!TouchInv, H!Route PROVE H!TouchInv'
  OBVIOUS
<1>0. H!TouchTypes /\ H!OrderInv /\ H!GestureInv /\ tpWire \in Seq(H!Wired) /\ tpWire # <<>>
      /\ tpReady /\ tpWire' = Tail(tpWire)
  BY DEF H!TouchInv, H!TouchTypes, H!Route
<1> PICK frame : frame = tpWire[1]
  OBVIOUS
<1> PICK c : c = frame.contact
  OBVIOUS
<1>1. Head(tpWire) = frame /\ frame \in H!Wired /\ Tail(tpWire) \in Seq(H!Wired)
  BY <1>0, TailOf
<1>2. /\ c \in TouchContacts /\ frame.phase \in H!Phases /\ tpDeaf \in [TouchContacts -> Nat]
      /\ tpContacts \subseteq TouchContacts
  BY <1>0, <1>1 DEF H!Wired, H!TouchTypes
<1>3. UNCHANGED <<tpDown, tpSlots, tpInputReady, tpTouchNonce, tpTouchSequence, tpNonce, tpReady>>
  BY DEF H!Route, H!user, H!pageT
<1>4. tpLastSequence' \in {tpLastSequence, frame.sequence} => H!OrderInv' /\ H!SequenceFits(frame)
  BY <1>0, <1>3, OrderTaken
<1>5. H!SequenceFits(frame)
  <2>1. 1 \in DOMAIN tpWire
    BY <1>0, TailOf
  <2> QED
    BY <1>0, <2>1 DEF H!OrderInv, H!Numbered, H!SequenceFits
<1>6. ASSUME NEW deafs \in [TouchContacts -> Nat], tpDeaf' = deafs,
             tpContacts' \subseteq TouchContacts, tpMissed' \in BOOLEAN, tpPressed' \in BOOLEAN,
             tpQueue' \in Seq(H!Wired)
      PROVE  H!TouchTypes'
  BY <1>0, <1>1, <1>3, <1>6 DEF H!TouchTypes, H!Followed
<1>7. CASE H!TooOld(frame)
  <2>1. /\ tpMissed' = TRUE /\ tpDeaf' = [tpDeaf EXCEPT ![c] = 0]
        /\ UNCHANGED <<tpLastSequence, tpContacts, tpQueue, tpPressed>>
    BY <1>7 DEF H!TooOld, H!router, H!child
  <2>2. tpPressed \in BOOLEAN /\ tpQueue \in Seq(H!Wired)
    BY <1>0 DEF H!TouchTypes
  <2>3. [tpDeaf EXCEPT ![c] = 0] \in [TouchContacts -> Nat]
    BY <1>2
  <2>4. H!TouchTypes'
    BY <1>2, <1>6, <2>1, <2>2, <2>3
  <2>5. H!OrderInv'
    BY <1>4, <2>1
  <2> QED
    BY <2>1, <2>4, <2>5 DEF H!TouchInv, H!GestureInv
<1>8. CASE /\ ~H!ContactFits(frame)
           /\ tpLastSequence' = frame.sequence
           /\ tpDeaf' = [tpDeaf EXCEPT ![c] = IF frame.phase = "start" THEN @ + 1 ELSE @]
           /\ UNCHANGED <<tpContacts, tpQueue, tpPressed, tpMissed>>
  <2>1. /\ tpDeaf' \in [TouchContacts -> Nat]
        /\ tpDeaf'[c] = IF frame.phase = "start" THEN tpDeaf[c] + 1 ELSE tpDeaf[c]
        /\ \A d \in TouchContacts \ {c} : tpDeaf'[d] = tpDeaf[d]
    BY <1>2, <1>8
  <2>2. H!TouchTypes'
    <3>1. tpMissed' \in BOOLEAN /\ tpPressed' \in BOOLEAN /\ tpQueue' \in Seq(H!Wired)
          /\ tpContacts' \subseteq TouchContacts
      BY <1>0, <1>2, <1>8 DEF H!TouchTypes
    <3> QED
      BY <1>6, <2>1, <3>1
  <2>3. H!OrderInv'
    BY <1>4, <1>8
  <2>4. c \in tpContacts <=> frame.phase = "start"
    BY <1>8 DEF H!ContactFits
  <2>5. frame.phase = "start" => ~H!Ends(frame, c) /\ H!Starts(frame, c)
    BY DEF H!Ends, H!Starts
  <2>6. ASSUME ~tpMissed' PROVE H!PressInv' /\ \A d \in TouchContacts : H!ContactInv(d)'
    <3>1. H!PressInv /\ \A d \in TouchContacts : H!ContactInv(d)
      BY <1>0, <1>8, <2>6 DEF H!GestureInv
    <3>2. tpDeaf'[c] <= 1
      <4>1. tpDeaf[c] \in Nat /\ tpDeaf[c] <= 1
        BY <1>2, <3>1 DEF H!ContactInv
      <4>2. ASSUME frame.phase = "start" PROVE tpDeaf[c] # 1
        <5>1. 1 \in DOMAIN tpWire /\ 1..(1 - 1) = {}
          BY <1>0, TailOf
        <5>2. ~H!EndFirst(tpWire, c)
          BY <2>5, <4>2, <5>1 DEF H!EndFirst
        <5> QED
          BY <1>2, <2>4, <3>1, <4>2, <5>2 DEF H!ContactInv
      <4> QED
        BY <2>1, <4>1, <4>2
    <3>3. H!ContactInv(c)' /\ (c \in tpContacts => (H!NoneOf(tpWire, c) => H!Held(c))')
      <4>1. c \in tpContacts => ~H!Ends(frame, c)
        BY <2>4, <2>5
      <4>2. tpContacts' = tpContacts
        BY <1>8
      <4>3. H!ContactInv(c)
        BY <1>2, <3>1
      <4>4. /\ /\ tpDeaf'[c] <= 1
               /\ tpDeaf'[c] = 1 /\ c \in tpContacts' => ~H!Ends(frame, c)
               => H!ContactInv(c)'
            /\ ~H!Ends(frame, c) => (H!NoneOf(tpWire, c) => H!Held(c))'
        BY <1>0, <1>3, <4>3, ContactTaken
      <4> QED
        BY <3>2, <4>1, <4>2, <4>4
    <3>4. ASSUME NEW d \in TouchContacts, d # c
          PROVE  /\ H!ContactInv(d)'
                 /\ (H!NoneOf(tpWire, d) => H!Held(d)) => (H!NoneOf(tpWire, d) => H!Held(d))'
      <4>1. tpDeaf'[d] = tpDeaf[d] /\ (d \in tpContacts' <=> d \in tpContacts)
        BY <1>8, <2>1, <3>4
      <4>2. H!ContactInv(d)
        BY <3>1
      <4>3. tpWire[1].contact # d
        BY <3>4
      <4> QED
        BY <1>0, <1>3, <4>1, <4>2, <4>3, ContactTaken
    <3>5. H!PressInv'
      <4> SUFFICES ASSUME H!Pressed' PROVE (0 \in tpContacts /\ (H!NoneOf(tpWire, 0) => H!Held(0)))'
        BY DEF H!PressInv
      <4>1. H!Pressed
        BY <1>8 DEF H!Pressed
      <4>2. 0 \in tpContacts /\ (H!NoneOf(tpWire, 0) => H!Held(0)) /\ 0 \in TouchContacts
        BY <1>2, <3>1, <4>1 DEF H!PressInv
      <4>3. tpContacts' = tpContacts
        BY <1>8
      <4>4. CASE c = 0
        BY <3>3, <4>2, <4>3, <4>4
      <4>5. CASE c # 0
        BY <3>4, <4>2, <4>3, <4>5
      <4> QED
        BY <4>4, <4>5
    <3> QED
      BY <3>3, <3>4, <3>5
  <2> QED
    BY <2>2, <2>3, <2>6 DEF H!TouchInv, H!GestureInv
<1>9. CASE /\ H!ContactFits(frame)
           /\ tpLastSequence' = frame.sequence
           /\ tpContacts' = H!Accepted(frame)
           /\ tpQueue' = Append(tpQueue, frame)
           /\ tpDeaf' = [tpDeaf EXCEPT ![c] = IF frame.phase = "start" THEN 0 ELSE @]
           /\ UNCHANGED <<tpPressed, tpMissed>>
  <2>1. /\ tpDeaf' \in [TouchContacts -> Nat]
        /\ tpDeaf'[c] = IF frame.phase = "start" THEN 0 ELSE tpDeaf[c]
        /\ \A d \in TouchContacts \ {c} : tpDeaf'[d] = tpDeaf[d]
    BY <1>2, <1>9
  <2>2. /\ tpContacts' \subseteq TouchContacts
        /\ \A d \in TouchContacts \ {c} : d \in tpContacts' <=> d \in tpContacts
        /\ c \in tpContacts' <=> frame.phase \notin {"end", "cancel"}
    BY <1>2, <1>9 DEF H!Accepted
  <2>3. tpMissed' \in BOOLEAN /\ tpPressed' \in BOOLEAN /\ tpQueue' \in Seq(H!Wired)
    <3>1. tpMissed \in BOOLEAN /\ tpPressed \in BOOLEAN /\ tpQueue \in Seq(H!Wired)
      BY <1>0 DEF H!TouchTypes
    <3> QED
      BY <1>1, <1>9, <3>1, AppendTo
  <2>4. H!TouchTypes'
    BY <1>6, <2>1, <2>2, <2>3
  <2>5. H!OrderInv'
    BY <1>4, <1>9
  <2>6. c \in tpContacts' => ~H!Ends(frame, c)
    BY <2>2 DEF H!Ends
  <2>7. ASSUME ~tpMissed' PROVE H!PressInv' /\ \A d \in TouchContacts : H!ContactInv(d)'
    <3>1. H!PressInv /\ \A d \in TouchContacts : H!ContactInv(d)
      BY <1>0, <1>9, <2>7 DEF H!GestureInv
    <3>2. tpDeaf'[c] <= 1
      <4>1. tpDeaf[c] \in Nat /\ tpDeaf[c] <= 1
        BY <1>2, <3>1 DEF H!ContactInv
      <4> QED
        BY <2>1, <4>1
    <3>3. H!ContactInv(c)' /\ (c \in tpContacts' => (H!NoneOf(tpWire, c) => H!Held(c))')
      <4>1. H!ContactInv(c)
        BY <1>2, <3>1
      <4>2. /\ /\ tpDeaf'[c] <= 1
               /\ tpDeaf'[c] = 1 /\ c \in tpContacts' => ~H!Ends(frame, c)
               => H!ContactInv(c)'
            /\ ~H!Ends(frame, c) => (H!NoneOf(tpWire, c) => H!Held(c))'
        BY <1>0, <1>3, <4>1, ContactTaken
      <4> QED
        BY <2>6, <3>2, <4>2
    <3>4. ASSUME NEW d \in TouchContacts, d # c
          PROVE  /\ H!ContactInv(d)'
                 /\ (H!NoneOf(tpWire, d) => H!Held(d)) => (H!NoneOf(tpWire, d) => H!Held(d))'
      <4>1. tpDeaf'[d] = tpDeaf[d] /\ (d \in tpContacts' <=> d \in tpContacts)
        BY <2>1, <2>2, <3>4
      <4>2. H!ContactInv(d)
        BY <3>1
      <4>3. tpWire[1].contact # d
        BY <3>4
      <4> QED
        BY <1>0, <1>3, <4>1, <4>2, <4>3, ContactTaken
    <3>5. H!PressInv'
      <4> SUFFICES ASSUME H!Pressed' PROVE (0 \in tpContacts /\ (H!NoneOf(tpWire, 0) => H!Held(0)))'
        BY DEF H!PressInv
      <4>1. (c # 0 => H!Pressed) /\ (c = 0 => frame.phase \in {"start", "move"})
        <5>1. tpQueue \in Seq(H!Wired) /\ tpQueue' = Append(tpQueue, frame) /\ tpPressed' = tpPressed
          BY <1>0, <1>9 DEF H!TouchTypes
        <5> QED
          BY <1>1, <5>1, PressedWithMore
      <4>2. CASE c = 0
        <5>1. c \in tpContacts'
          BY <2>2, <4>1, <4>2
        <5> QED
          BY <3>3, <4>2, <5>1
      <4>3. CASE c # 0
        <5>1. 0 \in tpContacts /\ (H!NoneOf(tpWire, 0) => H!Held(0)) /\ 0 \in TouchContacts
          BY <1>2, <3>1, <4>1, <4>3 DEF H!PressInv
        <5>2. 0 \in tpContacts'
          BY <2>2, <4>3, <5>1
        <5> QED
          BY <3>4, <4>3, <5>1, <5>2
      <4> QED
        BY <4>2, <4>3
    <3> QED
      BY <3>3, <3>4, <3>5
  <2> QED
    BY <2>4, <2>5, <2>7 DEF H!TouchInv, H!GestureInv
<1> QED
  BY <1>1, <1>5, <1>7, <1>8, <1>9 DEF H!Route, H!child

\* Another program comes, presents, or reads what has come; a new session is there.
LEMMA TouchesElsewhere ==
    H!TouchInv /\ (H!SwitchBegins \/ H!ProgramPresents \/ H!NewSession \/ H!ProgramReads)
        => H!TouchInv'
<1> SUFFICES ASSUME H!TouchInv,
                    H!SwitchBegins \/ H!ProgramPresents \/ H!NewSession \/ H!ProgramReads
             PROVE  H!TouchInv'
  OBVIOUS
<1>0. H!TouchTypes /\ H!OrderInv /\ H!GestureInv
  BY DEF H!TouchInv
<1>1. UNCHANGED <<tpDown, tpSlots, tpInputReady>>
  BY DEF H!SwitchBegins, H!ProgramPresents, H!NewSession, H!ProgramReads, H!user, H!pageT
<1>2. \A c : (H!Follows(c)' <=> H!Follows(c)) /\ (H!Held(c)' <=> H!Held(c))
             /\ (H!Loose(c)' <=> H!Loose(c))
  BY <1>1 DEF H!Follows, H!Held, H!Loose, H!Followed
<1>3. \A c : /\ H!EndsIn(<<>>, c) /\ H!NoneOf(<<>>, c) /\ H!Alternating(<<>>, c)
             /\ H!EndFirst(<<>>, c)
  BY DEF H!EndsIn, H!NoneOf, H!Alternating, H!EndFirst
<1>4. CASE H!SwitchBegins
  <2>1. /\ tpReady' = FALSE /\ tpQueue' = <<>> /\ tpPressed' = FALSE
        /\ tpMissed' = (tpMissed /\ tpWire # <<>>)
        /\ tpDeaf' = [c \in TouchContacts |-> 0]
        /\ UNCHANGED <<tpWire, tpTouchNonce, tpTouchSequence, tpNonce, tpLastSequence, tpContacts>>
    BY <1>4 DEF H!SwitchBegins, H!native, H!router
  <2>2. H!OrderInv'
    BY <1>0, <2>1 DEF H!OrderInv
  <2>3. H!TouchTypes'
    <3>1. tpQueue' \in Seq(H!Wired)
      BY <2>1, EmptySeq
    <3>2. tpDeaf' \in [TouchContacts -> Nat] /\ tpMissed' \in BOOLEAN /\ tpPressed' \in BOOLEAN
      BY <1>0, <2>1 DEF H!TouchTypes
    <3> QED
      BY <1>0, <1>1, <2>1, <3>1, <3>2 DEF H!TouchTypes, H!Followed
  <2>4. ~H!Pressed'
    BY <2>1 DEF H!Pressed
  <2>5. ASSUME ~tpMissed', NEW c \in TouchContacts PROVE H!ContactInv(c)'
    <3>1. /\ ~H!Follows(c) => H!EndsIn(tpWire, c)
          /\ H!Loose(c) => H!NoneOf(tpWire, c)
          /\ H!Alternating(tpWire, c)
      <4>1. CASE ~tpMissed
        BY <1>0, <4>1 DEF H!GestureInv, H!ContactInv
      <4>2. CASE tpWire = <<>>
        BY <1>3, <4>2
      <4> QED
        BY <2>1, <2>5, <4>1, <4>2
    <3>2. tpDeaf'[c] = 0 /\ tpWire' = tpWire
      BY <2>1
    <3> QED
      BY <1>2, <3>1, <3>2 DEF H!ContactInv
  <2> QED
    BY <2>2, <2>3, <2>4, <2>5 DEF H!TouchInv, H!GestureInv, H!PressInv
<1>5. CASE H!ProgramPresents \/ H!ProgramReads
  <2>1. /\ UNCHANGED <<tpWire, tpTouchNonce, tpTouchSequence, tpNonce, tpLastSequence, tpContacts,
                       tpMissed, tpDeaf>>
        /\ \/ tpReady' = TRUE /\ UNCHANGED <<tpQueue, tpPressed>>
           \/ /\ tpReady' = tpReady /\ tpQueue # <<>> /\ tpQueue' = <<>>
              /\ tpPressed' = H!Pressed
    BY <1>5 DEF H!ProgramPresents, H!ProgramReads, H!native, H!router, H!child
  <2>2. H!OrderInv'
    BY <1>0, <2>1 DEF H!OrderInv
  <2>3. H!TouchTypes'
    <3>1. CASE tpReady' = TRUE /\ UNCHANGED <<tpQueue, tpPressed>>
      BY <1>0, <1>1, <2>1, <3>1 DEF H!TouchTypes, H!Followed
    <3>2. CASE /\ tpReady' = tpReady /\ tpQueue # <<>> /\ tpQueue' = <<>>
               /\ tpPressed' = H!Pressed
      <4>1. tpQueue' \in Seq(H!Wired)
        BY <3>2, EmptySeq
      <4>2. tpPressed' \in BOOLEAN
        BY <3>2 DEF H!Pressed
      <4>3. tpReady
        BY <1>0, <3>2 DEF H!TouchTypes
      <4> QED
        BY <1>0, <1>1, <2>1, <3>2, <4>1, <4>2, <4>3 DEF H!TouchTypes, H!Followed
    <3> QED
      BY <2>1, <3>1, <3>2
  <2>4. H!Pressed' => H!Pressed
    <3>1. CASE UNCHANGED <<tpQueue, tpPressed>>
      BY <3>1 DEF H!Pressed
    <3>2. CASE tpQueue' = <<>> /\ tpPressed' = H!Pressed
      <4>1. DOMAIN tpQueue' = {}
        BY <3>2
      <4>2. H!Pressed' => tpPressed'
        BY <4>1 DEF H!Pressed
      <4> QED
        BY <3>2, <4>2
    <3> QED
      BY <2>1, <3>1, <3>2
  <2>5. ASSUME ~tpMissed' PROVE H!PressInv' /\ \A c \in TouchContacts : H!ContactInv(c)'
    <3>1. H!PressInv /\ \A c \in TouchContacts : H!ContactInv(c)
      BY <1>0, <2>1, <2>5 DEF H!GestureInv
    <3>2. H!PressInv'
      BY <1>2, <2>1, <2>4, <3>1 DEF H!PressInv
    <3>3. ASSUME NEW c \in TouchContacts PROVE H!ContactInv(c)'
      BY <1>2, <2>1, <3>1 DEF H!ContactInv
    <3> QED
      BY <3>2, <3>3
  <2> QED
    BY <2>2, <2>3, <2>5 DEF H!TouchInv, H!GestureInv
<1>6. CASE H!NewSession
  <2>1. /\ ~tpReady /\ tpNonce' = tpNonce + 1 /\ tpWire' = <<>> /\ tpLastSequence' = 0
        /\ tpContacts' = {}
        /\ \/ tpTouchNonce' = 0 /\ tpTouchSequence' = 0
           \/ UNCHANGED <<tpTouchNonce, tpTouchSequence>>
        /\ UNCHANGED <<tpReady, tpQueue, tpPressed, tpMissed, tpDeaf>>
    BY <1>6 DEF H!NewSession, H!child
  <2>2. H!OrderInv'
    <3>1. {tpNonce, tpTouchNonce, tpTouchSequence, tpLastSequence} \subseteq Nat
          /\ tpTouchNonce <= tpNonce
      BY <1>0 DEF H!OrderInv
    <3>2. {tpNonce', tpTouchNonce', tpTouchSequence', tpLastSequence'} \subseteq Nat
          /\ tpTouchNonce' <= tpNonce' /\ tpTouchNonce' # tpNonce'
      BY <2>1, <3>1
    <3>3. H!Numbered(tpWire', tpNonce', tpLastSequence', tpTouchSequence')
      <4>1. DOMAIN tpWire' = {}
        BY <2>1
      <4> QED
        BY <4>1 DEF H!Numbered
    <3> QED
      BY <2>1, <3>2, <3>3 DEF H!OrderInv
  <2>3. H!TouchTypes'
    <3>1. tpWire' \in Seq(H!Wired) /\ tpContacts' \subseteq TouchContacts
      BY <2>1, EmptySeq
    <3> QED
      BY <1>0, <1>1, <2>1, <3>1 DEF H!TouchTypes, H!Followed
  <2>4. ~H!Pressed'
    <3>1. tpQueue = <<>> /\ ~tpPressed
      BY <1>0, <2>1 DEF H!TouchTypes
    <3> QED
      BY <2>1, <3>1 DEF H!Pressed
  <2>5. ASSUME ~tpMissed', NEW c \in TouchContacts PROVE H!ContactInv(c)'
    <3>1. tpDeaf'[c] <= 1 /\ c \notin tpContacts'
      BY <1>0, <2>1, <2>5 DEF H!GestureInv, H!ContactInv
    <3> QED
      BY <1>3, <2>1, <3>1 DEF H!ContactInv
  <2> QED
    BY <2>2, <2>3, <2>4, <2>5 DEF H!TouchInv, H!GestureInv, H!PressInv
<1> QED
  BY <1>4, <1>5, <1>6

\* Every step of the page, the router and the program keeps the invariant.
LEMMA TouchStep == H!TouchInv /\ [H!Next]_(H!vars) => H!TouchInv'
<1> SUFFICES ASSUME H!TouchInv, [H!Next]_(H!vars) PROVE H!TouchInv'
  OBVIOUS
<1>1. CASE UNCHANGED H!vars
  <2>1. UNCHANGED <<tpDown, tpSlots, tpInputReady, tpTouchNonce, tpTouchSequence, tpWire, tpNonce,
                    tpReady, tpLastSequence, tpContacts, tpQueue, tpPressed, tpMissed, tpDeaf>>
    BY <1>1 DEF H!vars, H!user, H!pageT, H!native, H!router, H!child
  <2>2. H!TouchTypes' /\ H!OrderInv'
    BY <2>1 DEF H!TouchInv, H!TouchTypes, H!OrderInv, H!Followed
  <2>3. H!GestureInv'
    BY <2>1 DEF H!TouchInv, H!GestureInv, H!PressInv, H!Pressed, H!ContactInv, H!Follows, H!Held,
                H!Loose, H!Followed
  <2> QED
    BY <2>2, <2>3 DEF H!TouchInv
<1>2. CASE H!Next
  <2>1. CASE H!onTouchStart
    BY <2>1, TouchStarts
  <2>2. CASE H!onTouchMove
    BY <2>2, TouchMoves
  <2>3. CASE H!onTouchEnd
    BY <2>3, TouchEnds
  <2>4. CASE H!onTouchCancel \/ H!onHide \/ H!Polled
    BY <2>4, TouchesGo
  <2>5. CASE H!Route
    BY <2>5, TouchRouted
  <2>6. CASE H!SwitchBegins \/ H!ProgramPresents \/ H!NewSession \/ H!ProgramReads
    BY <2>6, TouchesElsewhere
  <2> QED
    BY <1>2, <2>1, <2>2, <2>3, <2>4, <2>5, <2>6 DEF H!Next
<1> QED
  BY <1>1, <1>2

\* So every state on the way of a touch has it.
LEMMA TouchInvariant == H!Spec => []H!TouchInv
<1>1. H!Init => H!TouchInv
  <2> SUFFICES ASSUME H!Init PROVE H!TouchInv
    OBVIOUS
  <2>1. /\ tpDown = {} /\ DOMAIN tpSlots = {} /\ tpInputReady = FALSE
        /\ tpTouchNonce = 0 /\ tpTouchSequence = 0 /\ tpWire = <<>> /\ DOMAIN tpWire = {}
        /\ tpNonce = 1 /\ tpReady = FALSE /\ tpLastSequence = 0 /\ tpContacts = {}
        /\ tpQueue = <<>> /\ DOMAIN tpQueue = {} /\ tpPressed = FALSE
        /\ tpMissed = FALSE /\ tpDeaf = [c \in TouchContacts |-> 0]
    BY DEF H!Init
  <2>2. H!TouchTypes
    <3>1. tpWire \in Seq(H!Wired) /\ tpQueue \in Seq(H!Wired)
      BY <2>1, EmptySeq
    <3>2. tpDeaf \in [TouchContacts -> Nat]
      BY <2>1
    <3> QED
      BY <2>1, <3>1, <3>2 DEF H!TouchTypes, H!Followed
  <2>3. H!OrderInv
    <3>1. H!Numbered(tpWire, tpNonce, tpLastSequence, tpTouchSequence)
      BY <2>1 DEF H!Numbered
    <3> QED
      BY <2>1, <3>1 DEF H!OrderInv
  <2>4. ~H!Pressed
    BY <2>1 DEF H!Pressed
  <2>5. ASSUME NEW c \in TouchContacts PROVE H!ContactInv(c)
    <3>1. ~H!Loose(c)
      BY <2>1 DEF H!Loose, H!Followed
    <3>2. H!EndsIn(tpWire, c) /\ H!Alternating(tpWire, c)
      BY <2>1 DEF H!EndsIn, H!Alternating
    <3>3. tpDeaf[c] = 0
      BY <2>1
    <3> QED
      BY <3>1, <3>2, <3>3 DEF H!ContactInv
  <2> QED
    BY <2>2, <2>3, <2>4, <2>5 DEF H!TouchInv, H!GestureInv, H!PressInv
<1> QED
  BY <1>1, TouchStep, PTL DEF H!Spec

\* The session refuses no frame of the launcher as replayed or foreign; a contact left
\* over from another program swallows one start at most; and a program is not left
\* pressed by fingers that are gone: unless an end was lost on the way
\* (TouchSequenceGuard, TouchContactGuard, cancelTouches).
THEOREM GesturesAreHealed == H!Spec => []GesturesHeal
<1>1. H!TouchInv => GesturesHeal
  <2> SUFFICES ASSUME H!TouchInv
               PROVE  /\ \A i \in DOMAIN tpWire :
                           /\ H!SequenceFits(tpWire[i])
                           /\ i > 1 => tpWire[i].sequence > tpWire[i - 1].sequence
                      /\ ~tpMissed => \A c \in TouchContacts : tpDeaf[c] <= 1
                      /\ ~tpMissed /\ tpDown = {} /\ tpWire = <<>> /\ tpQueue = <<>> => ~tpPressed
    BY DEF GesturesHeal, H!GesturesHeal
  <2>1. tpWire \in Seq(H!Wired)
    BY DEF H!TouchInv, H!TouchTypes
  <2>2. ASSUME NEW i \in DOMAIN tpWire
        PROVE  /\ H!SequenceFits(tpWire[i])
               /\ i > 1 => tpWire[i].sequence > tpWire[i - 1].sequence
    <3>1. /\ tpWire[i].nonce = tpNonce /\ tpLastSequence < tpWire[i].sequence
          /\ \A j \in 1..(i - 1) : tpWire[j].sequence < tpWire[i].sequence
      BY DEF H!TouchInv, H!OrderInv, H!Numbered
    <3>2. \A j \in DOMAIN tpWire : tpWire[j].sequence \in Nat
      <4>1. \A j \in DOMAIN tpWire : tpWire[j] \in H!Wired
        BY <2>1
      <4>2. \A x \in H!Wired : x.sequence \in Nat
        BY DEF H!Wired
      <4> QED
        BY <4>1, <4>2
    <3>3. tpLastSequence \in Nat /\ i \in Nat
      BY <2>1 DEF H!TouchInv, H!OrderInv
    <3>4. i > 1 => i - 1 \in 1..(i - 1) /\ i - 1 \in DOMAIN tpWire
      BY <2>1
    <3> QED
      BY <3>1, <3>2, <3>3, <3>4 DEF H!SequenceFits
  <2>3. ~tpMissed => \A c \in TouchContacts : tpDeaf[c] <= 1
    BY DEF H!TouchInv, H!GestureInv, H!ContactInv
  <2>4. ASSUME ~tpMissed, tpDown = {}, tpWire = <<>>, tpQueue = <<>>, tpPressed PROVE FALSE
    <3>1. H!Pressed
      BY <2>4 DEF H!Pressed
    <3>2. H!NoneOf(tpWire, 0) /\ ~H!Held(0)
      BY <2>4 DEF H!NoneOf, H!Held
    <3> QED
      BY <2>4, <3>1, <3>2 DEF H!TouchInv, H!GestureInv, H!PressInv
  <2> QED
    BY <2>2, <2>3, <2>4
<1> QED
  BY <1>1, TouchInvariant, PTL

-----------------------------------------------------------------------------
(* Where a touch is (ScreenMapping).                                       *)

\* A point of a screen is given by its coordinates.
LEMMA PointInside ==
    ASSUME NEW size \in S!Extents, NEW x \in Int, NEW y \in Int
    PROVE  S!Inside(S!Point(x, y), size) <=> 0 <= x /\ x < size.width /\ 0 <= y /\ y < size.height
<1>1. size.width \in Nat /\ size.height \in Nat
  BY DEF S!Extents
<1>2. (0 <= x /\ x < size.width <=> x \in 0..(size.width - 1))
      /\ (0 <= y /\ y < size.height <=> y \in 0..(size.height - 1))
  BY <1>1
<1>3. ASSUME S!Inside(S!Point(x, y), size)
      PROVE  x \in 0..(size.width - 1) /\ y \in 0..(size.height - 1)
  <2>1. PICK a \in 0..(size.width - 1), b \in 0..(size.height - 1) : S!Point(x, y) = S!Point(a, b)
    BY <1>3 DEF S!Inside, S!Points
  <2>2. x = a /\ y = b
    BY <2>1 DEF S!Point
  <2> QED
    BY <2>1, <2>2
<1>4. ASSUME x \in 0..(size.width - 1), y \in 0..(size.height - 1)
      PROVE  S!Inside(S!Point(x, y), size)
  BY <1>4 DEF S!Inside, S!Points
<1> QED
  BY <1>2, <1>3, <1>4

\* And has such coordinates.
LEMMA PointOf ==
    ASSUME NEW size \in S!Extents, NEW p \in S!Points(size)
    PROVE  \E x \in 0..(size.width - 1), y \in 0..(size.height - 1) : p = S!Point(x, y)
  BY DEF S!Points

\* A point of the screen is not clamped (clamp_axis).
LEMMA NotClamped ==
    ASSUME NEW size \in S!Extents, NEW x \in Int, NEW y \in Int,
           0 <= x, x < size.width, 0 <= y, y < size.height
    PROVE  S!Clamped(S!Point(x, y), size) = S!Point(x, y)
<1>1. size.width \in Nat /\ size.height \in Nat
  BY DEF S!Extents
<1>2. S!Point(x, y).x = x /\ S!Point(x, y).y = y
  BY DEF S!Point
<1>3. S!clamp_axis(x, size.width) = x /\ S!clamp_axis(y, size.height) = y
  BY <1>1 DEF S!clamp_axis
<1> QED
  BY <1>2, <1>3 DEF S!Clamped

\* Where the point x, y of a screen goes, whose last column is w and last row h.
TurnedTo(x, y, t, w, h, a, b) ==
    /\ t.degrees = 0   => a = t.x + x /\ b = t.y + y
    /\ t.degrees = 90  => a = t.x + (h - y) /\ b = t.y + x
    /\ t.degrees = 180 => a = t.x + (w - x) /\ b = t.y + (h - y)
    /\ t.degrees = 270 => a = t.x + y /\ b = t.y + (w - x)

\* A point that is clamped is one of the screen (clamp_axis).
LEMMA ClampedInside ==
    ASSUME NEW size \in S!Extents, NEW x \in Int, NEW y \in Int
    PROVE  S!Clamped(S!Point(x, y), size) \in S!Points(size)
<1>1. size.width \in Nat \ {0} /\ size.height \in Nat \ {0}
  BY DEF S!Extents
<1>2. S!Point(x, y).x = x /\ S!Point(x, y).y = y
  BY DEF S!Point
<1>3. \A v \in Int, n \in Nat \ {0} : S!clamp_axis(v, n) \in 0..(n - 1)
  BY DEF S!clamp_axis
<1>4. PICK a, b : a = S!clamp_axis(x, size.width) /\ b = S!clamp_axis(y, size.height)
  OBVIOUS
<1>5. a \in 0..(size.width - 1) /\ b \in 0..(size.height - 1)
  BY <1>1, <1>3, <1>4
<1>6. S!Clamped(S!Point(x, y), size) = S!Point(a, b)
  BY <1>2, <1>4 DEF S!Clamped
<1> QED
  BY <1>5, <1>6 DEF S!Points

\* A transform (Transform).
Turn(t) == t.degrees \in {0, 90, 180, 270} /\ t.x \in Int /\ t.y \in Int

\* What rotate_logical does to a point of the screen.
LEMMA Rotated ==
    ASSUME NEW size \in S!Extents, NEW t, Turn(t), NEW x \in Int, NEW y \in Int,
           S!Inside(S!Point(x, y), size)
    PROVE  \E a, b \in Int : /\ S!rotate_logical(S!Point(x, y), size, t) = S!Point(a, b)
                             /\ TurnedTo(x, y, t, size.width - 1, size.height - 1, a, b)
<1> PICK w, h : w = size.width - 1 /\ h = size.height - 1
  OBVIOUS
<1>0. w \in Int /\ h \in Int /\ t.x \in Int /\ t.y \in Int
  BY DEF S!Extents, Turn
<1>1. S!Clamped(S!Point(x, y), size) = S!Point(x, y)
  BY NotClamped, PointInside
<1>2. S!Point(x, y).x = x /\ S!Point(x, y).y = y
  BY DEF S!Point
<1> DEFINE a == CASE t.degrees = 0   -> t.x + x
                  [] t.degrees = 90  -> t.x + h - y
                  [] t.degrees = 180 -> t.x + w - x
                  [] t.degrees = 270 -> t.x + y
<1> DEFINE b == CASE t.degrees = 0   -> t.y + y
                  [] t.degrees = 90  -> t.y + x
                  [] t.degrees = 180 -> t.y + h - y
                  [] t.degrees = 270 -> t.y + w - x
<1>3. a \in Int /\ b \in Int
  BY <1>0 DEF Turn
<1>4. S!rotate_logical(S!Point(x, y), size, t) = S!Point(a, b)
  <2>1. CASE t.degrees = 0
    BY <1>1, <1>2, <2>1 DEF S!rotate_logical
  <2>2. CASE t.degrees = 90
    BY <1>1, <1>2, <2>2 DEF S!rotate_logical
  <2>3. CASE t.degrees = 180
    BY <1>1, <1>2, <2>3 DEF S!rotate_logical
  <2>4. CASE t.degrees = 270
    BY <1>1, <1>2, <2>4 DEF S!rotate_logical
  <2> QED
    BY <2>1, <2>2, <2>3, <2>4 DEF Turn
<1>5. TurnedTo(x, y, t, w, h, a, b)
  BY <1>0 DEF TurnedTo, Turn
<1> QED
  BY <1>3, <1>4, <1>5

\* And inverse_rotate undoes it.
LEMMA RotatedBack ==
    ASSUME NEW size \in S!Extents, NEW t, Turn(t), NEW x \in Int, NEW y \in Int,
           S!Inside(S!Point(x, y), size), NEW a \in Int, NEW b \in Int,
           TurnedTo(x, y, t, size.width - 1, size.height - 1, a, b)
    PROVE  S!inverse_rotate(S!Point(a, b), size, t) = S!Point(x, y)
<1> PICK w, h : w = size.width - 1 /\ h = size.height - 1
  OBVIOUS
<1>0. w \in Int /\ h \in Int /\ t.x \in Int /\ t.y \in Int /\ TurnedTo(x, y, t, w, h, a, b)
  BY DEF S!Extents, Turn
<1>1. S!Clamped(S!Point(x, y), size) = S!Point(x, y)
  BY NotClamped, PointInside
<1>2. S!Point(a, b).x = a /\ S!Point(a, b).y = b
  BY DEF S!Point
<1>3. CASE t.degrees = 0
  <2>1. x = a - t.x /\ y = b - t.y
    BY <1>0, <1>3 DEF TurnedTo
  <2>2. S!inverse_rotate(S!Point(a, b), size, t) = S!Clamped(S!Point(a - t.x, b - t.y), size)
    BY <1>2, <1>3 DEF S!inverse_rotate
  <2> QED
    BY <1>1, <2>1, <2>2
<1>4. CASE t.degrees = 90
  <2>1. x = b - t.y /\ y = h - (a - t.x)
    BY <1>0, <1>4 DEF TurnedTo
  <2>2. S!inverse_rotate(S!Point(a, b), size, t) = S!Clamped(S!Point(b - t.y, h - (a - t.x)), size)
    BY <1>2, <1>4 DEF S!inverse_rotate
  <2> QED
    BY <1>1, <2>1, <2>2
<1>5. CASE t.degrees = 180
  <2>1. x = w - (a - t.x) /\ y = h - (b - t.y)
    BY <1>0, <1>5 DEF TurnedTo
  <2>2. S!inverse_rotate(S!Point(a, b), size, t)
          = S!Clamped(S!Point(w - (a - t.x), h - (b - t.y)), size)
    BY <1>2, <1>5 DEF S!inverse_rotate
  <2> QED
    BY <1>1, <2>1, <2>2
<1>6. CASE t.degrees = 270
  <2>1. x = w - (b - t.y) /\ y = a - t.x
    BY <1>0, <1>6 DEF TurnedTo
  <2>2. S!inverse_rotate(S!Point(a, b), size, t) = S!Clamped(S!Point(w - (b - t.y), a - t.x), size)
    BY <1>2, <1>6 DEF S!inverse_rotate
  <2> QED
    BY <1>1, <2>1, <2>2
<1> QED
  BY <1>3, <1>4, <1>5, <1>6 DEF Turn

\* A point goes between those that the corners go to.
LEMMA TurnedBetween ==
    ASSUME NEW t, Turn(t), NEW w \in Nat, NEW h \in Nat, NEW x \in 0..w, NEW y \in 0..h,
           NEW a \in Int, NEW b \in Int, TurnedTo(x, y, t, w, h, a, b),
           NEW a0 \in Int, NEW b0 \in Int, TurnedTo(0, 0, t, w, h, a0, b0),
           NEW a1 \in Int, NEW b1 \in Int, TurnedTo(w, h, t, w, h, a1, b1)
    PROVE  /\ (a0 <= a /\ a <= a1) \/ (a1 <= a /\ a <= a0)
           /\ (b0 <= b /\ b <= b1) \/ (b1 <= b /\ b <= b0)
<1> PICK tx, ty : tx = t.x /\ ty = t.y
  OBVIOUS
<1>0. tx \in Int /\ ty \in Int
  BY DEF Turn
<1>1. CASE t.degrees = 0
  <2>1. /\ a = tx + x /\ b = ty + y /\ a0 = tx + 0 /\ b0 = ty + 0
        /\ a1 = tx + w /\ b1 = ty + h
    BY <1>1 DEF TurnedTo
  <2> QED
    BY <1>0, <2>1
<1>2. CASE t.degrees = 90
  <2>1. /\ a = tx + (h - y) /\ b = ty + x /\ a0 = tx + (h - 0) /\ b0 = ty + 0
        /\ a1 = tx + (h - h) /\ b1 = ty + w
    BY <1>2 DEF TurnedTo
  <2> QED
    BY <1>0, <2>1
<1>3. CASE t.degrees = 180
  <2>1. /\ a = tx + (w - x) /\ b = ty + (h - y) /\ a0 = tx + (w - 0) /\ b0 = ty + (h - 0)
        /\ a1 = tx + (w - w) /\ b1 = ty + (h - h)
    BY <1>3 DEF TurnedTo
  <2> QED
    BY <1>0, <2>1
<1>4. CASE t.degrees = 270
  <2>1. /\ a = tx + y /\ b = ty + (w - x) /\ a0 = tx + 0 /\ b0 = ty + (w - 0)
        /\ a1 = tx + h /\ b1 = ty + (w - w)
    BY <1>4 DEF TurnedTo
  <2> QED
    BY <1>0, <2>1
<1> QED
  BY <1>1, <1>2, <1>3, <1>4 DEF Turn

\* Whatever the transform, a touch where it puts a pixel means that pixel.
LEMMA FeltWhereTurned ==
    ASSUME NEW size \in S!Extents, NEW t, Turn(t), NEW p \in S!Points(size)
    PROVE  S!inverse_rotate(S!rotate_logical(p, size, t), size, t) = p
<1>1. PICK x \in 0..(size.width - 1), y \in 0..(size.height - 1) : p = S!Point(x, y)
  BY PointOf
<1>2. x \in Int /\ y \in Int /\ 0 <= x /\ x < size.width /\ 0 <= y /\ y < size.height
  BY <1>1 DEF S!Extents
<1>3. S!Inside(S!Point(x, y), size)
  BY <1>2, PointInside
<1>4. PICK a \in Int, b \in Int :
        /\ S!rotate_logical(S!Point(x, y), size, t) = S!Point(a, b)
        /\ TurnedTo(x, y, t, size.width - 1, size.height - 1, a, b)
  BY <1>2, <1>3, Rotated
<1>5. S!inverse_rotate(S!Point(a, b), size, t) = S!Point(x, y)
  BY <1>2, <1>3, <1>4, RotatedBack
<1> QED
  BY <1>1, <1>4, <1>5

\* And a touch anywhere means some pixel of the screen.
LEMMA FeltInside ==
    ASSUME NEW size \in S!Extents, NEW t, Turn(t), NEW a \in Int, NEW b \in Int
    PROVE  S!Inside(S!inverse_rotate(S!Point(a, b), size, t), size)
<1> PICK w, h : w = size.width - 1 /\ h = size.height - 1
  OBVIOUS
<1>0. w \in Int /\ h \in Int /\ t.x \in Int /\ t.y \in Int
  BY DEF S!Extents, Turn
<1>1. S!Point(a, b).x = a /\ S!Point(a, b).y = b
  BY DEF S!Point
<1>2. \E x, y \in Int : S!inverse_rotate(S!Point(a, b), size, t) = S!Clamped(S!Point(x, y), size)
  <2>1. CASE t.degrees = 0
    <3>1. S!inverse_rotate(S!Point(a, b), size, t) = S!Clamped(S!Point(a - t.x, b - t.y), size)
      BY <1>1, <2>1 DEF S!inverse_rotate
    <3>2. a - t.x \in Int /\ b - t.y \in Int
      BY <1>0
    <3> QED
      BY <3>1, <3>2
  <2>2. CASE t.degrees = 90
    <3>1. S!inverse_rotate(S!Point(a, b), size, t) = S!Clamped(S!Point(b - t.y, h - (a - t.x)), size)
      BY <1>1, <2>2 DEF S!inverse_rotate
    <3>2. b - t.y \in Int /\ h - (a - t.x) \in Int
      BY <1>0
    <3> QED
      BY <3>1, <3>2
  <2>3. CASE t.degrees = 180
    <3>1. S!inverse_rotate(S!Point(a, b), size, t)
            = S!Clamped(S!Point(w - (a - t.x), h - (b - t.y)), size)
      BY <1>1, <2>3 DEF S!inverse_rotate
    <3>2. w - (a - t.x) \in Int /\ h - (b - t.y) \in Int
      BY <1>0
    <3> QED
      BY <3>1, <3>2
  <2>4. CASE t.degrees = 270
    <3>1. S!inverse_rotate(S!Point(a, b), size, t) = S!Clamped(S!Point(w - (b - t.y), a - t.x), size)
      BY <1>1, <2>4 DEF S!inverse_rotate
    <3>2. w - (b - t.y) \in Int /\ a - t.x \in Int
      BY <1>0
    <3> QED
      BY <3>1, <3>2
  <2> QED
    BY <2>1, <2>2, <2>3, <2>4 DEF Turn
<1> QED
  BY <1>2, ClampedInside DEF S!Inside

\* If the four corners of the logical screen are on the physical one, then every pixel
\* is (parse_device_profile, rotate_logical).
LEMMA CornersSuffice ==
    ASSUME NEW size \in S!Extents, NEW screen \in S!Extents, NEW t, Turn(t),
           \A c \in S!Corners(size) : S!Inside(S!rotate_logical(c, size, t), screen),
           NEW p \in S!Points(size)
    PROVE  S!Inside(S!rotate_logical(p, size, t), screen)
<1>1. PICK x \in 0..(size.width - 1), y \in 0..(size.height - 1) : p = S!Point(x, y)
  BY PointOf
<1> PICK w, h : w = size.width - 1 /\ h = size.height - 1
  OBVIOUS
<1>2. /\ w \in Nat /\ h \in Nat /\ x \in 0..w /\ y \in 0..h /\ x \in Int /\ y \in Int
      /\ 0 \in Int /\ w \in Int /\ h \in Int
      /\ screen.width \in Nat /\ screen.height \in Nat
  BY <1>1 DEF S!Extents
<1>3. /\ S!Inside(S!Point(x, y), size) /\ S!Inside(S!Point(0, 0), size)
      /\ S!Inside(S!Point(w, h), size)
  <2>1. /\ 0 <= x /\ x < size.width /\ 0 <= y /\ y < size.height /\ 0 < size.width /\ 0 < size.height
        /\ w < size.width /\ h < size.height /\ 0 <= w /\ 0 <= h
    BY <1>2 DEF S!Extents
  <2> QED
    BY <1>2, <2>1, PointInside
<1>4. PICK a \in Int, b \in Int : /\ S!rotate_logical(S!Point(x, y), size, t) = S!Point(a, b)
                                  /\ TurnedTo(x, y, t, w, h, a, b)
  BY <1>2, <1>3, Rotated
<1>5. PICK a0 \in Int, b0 \in Int : /\ S!rotate_logical(S!Point(0, 0), size, t) = S!Point(a0, b0)
                                    /\ TurnedTo(0, 0, t, w, h, a0, b0)
  BY <1>2, <1>3, Rotated
<1>6. PICK a1 \in Int, b1 \in Int : /\ S!rotate_logical(S!Point(w, h), size, t) = S!Point(a1, b1)
                                    /\ TurnedTo(w, h, t, w, h, a1, b1)
  BY <1>2, <1>3, Rotated
<1>7. S!Inside(S!Point(a0, b0), screen) /\ S!Inside(S!Point(a1, b1), screen)
  <2>1. S!Point(0, 0) \in S!Corners(size) /\ S!Point(w, h) \in S!Corners(size)
    BY DEF S!Corners
  <2> QED
    BY <1>5, <1>6, <2>1
<1>8. S!Inside(S!Point(a, b), screen)
  <2>1. /\ 0 <= a0 /\ a0 < screen.width /\ 0 <= b0 /\ b0 < screen.height
        /\ 0 <= a1 /\ a1 < screen.width /\ 0 <= b1 /\ b1 < screen.height
    BY <1>7, PointInside
  <2>2. /\ (a0 <= a /\ a <= a1) \/ (a1 <= a /\ a <= a0)
        /\ (b0 <= b /\ b <= b1) \/ (b1 <= b /\ b <= b0)
    BY <1>2, <1>4, <1>5, <1>6, TurnedBetween
  <2>3. 0 <= a /\ a < screen.width /\ 0 <= b /\ b < screen.height
    BY <1>2, <2>1, <2>2
  <2> QED
    BY <2>3, PointInside
<1> QED
  BY <1>1, <1>4, <1>8

\* Events and what they are written to.
Reports == [code : S!Codes, value : Int]

\* One more event leaves what it says, or what was left before it.
LEMMA LeftWithMore ==
    ASSUME NEW q \in Seq(Reports), NEW e \in Reports, NEW v, v = Append(q, e),
           NEW codes, NEW seen, NEW value
    PROVE  /\ e.code \in codes => S!Leaves(v, codes, seen, S!Said(e))
           /\ e.code \notin codes /\ S!Leaves(q, codes, seen, value)
                => S!Leaves(v, codes, seen, value)
<1> PICK n : n = Len(q)
  OBVIOUS
<1>1. /\ n \in Nat /\ DOMAIN q = 1..n /\ DOMAIN v = 1..(n + 1)
      /\ \A i \in 1..n : v[i] = q[i]
      /\ v[n + 1] = e
  <2>1. /\ v \in Seq(Reports) /\ Len(v) = n + 1 /\ n \in Nat
        /\ \A i \in 1..n : v[i] = q[i]
        /\ v[n + 1] = e
    BY AppendTo
  <2> QED
    BY <2>1
<1>2. /\ n + 1 \in DOMAIN v /\ \A j \in DOMAIN v : ~(j > n + 1)
      /\ \A i \in 1..n : i \in DOMAIN v
      /\ \A j \in DOMAIN v : j = n + 1 \/ j \in DOMAIN q
  BY <1>1
<1>3. ASSUME e.code \in codes PROVE S!Leaves(v, codes, seen, S!Said(e))
  BY <1>1, <1>2, <1>3 DEF S!Leaves
<1>4. ASSUME e.code \notin codes, S!Leaves(q, codes, seen, value)
      PROVE  S!Leaves(v, codes, seen, value)
  <2>1. CASE seen = value /\ \A i \in DOMAIN q : q[i].code \notin codes
    <3>1. \A j \in DOMAIN v : v[j].code \notin codes
      BY <1>1, <1>2, <1>4, <2>1
    <3> QED
      BY <2>1, <3>1 DEF S!Leaves
  <2>2. CASE \E i \in DOMAIN q :
               /\ q[i].code \in codes /\ S!Said(q[i]) = value
               /\ \A j \in DOMAIN q : j > i => q[j].code \notin codes
    <3>1. PICK i \in DOMAIN q :
               /\ q[i].code \in codes /\ S!Said(q[i]) = value
               /\ \A j \in DOMAIN q : j > i => q[j].code \notin codes
      BY <2>2
    <3>2. \A j \in DOMAIN v : j > i => v[j].code \notin codes
      BY <1>1, <1>2, <1>4, <3>1
    <3>3. i \in DOMAIN v /\ v[i] = q[i]
      BY <1>1, <1>2, <3>1
    <3> QED
      BY <3>1, <3>2, <3>3 DEF S!Leaves
  <2> QED
    BY <1>4, <2>1, <2>2 DEF S!Leaves
<1> QED
  BY <1>3, <1>4

\* The first event is read: what it says is what is seen before the others.
LEMMA LeftWithoutFirst ==
    ASSUME NEW q \in Seq(Reports), NEW v, TakenFrom(q, v), NEW codes, NEW seen, NEW value,
           S!Leaves(q, codes, seen, value)
    PROVE  /\ q[1].code \in codes => S!Leaves(v, codes, S!Said(q[1]), value)
           /\ q[1].code \notin codes => S!Leaves(v, codes, seen, value)
<1> PICK n : n = Len(v)
  OBVIOUS
<1>1. /\ n \in Nat /\ DOMAIN v = 1..n /\ DOMAIN q = 1..(n + 1) /\ \A i \in 1..n : v[i] = q[i + 1]
  <2>1. /\ Len(q) \in Nat \ {0} /\ v \in Seq(Reports) /\ Len(v) = Len(q) - 1
        /\ \A i \in 1..Len(v) : v[i] = q[i + 1]
    BY TailOf DEF TakenFrom
  <2> QED
    BY <2>1
<1>2. /\ 1 \in DOMAIN q
      /\ \A i \in DOMAIN q : i = 1 \/ (i - 1 \in DOMAIN v /\ v[i - 1] = q[i] /\ i > 1)
      /\ \A j \in DOMAIN v : j + 1 \in DOMAIN q /\ v[j] = q[j + 1] /\ j + 1 > 1
  BY <1>1
<1>3. CASE seen = value /\ \A i \in DOMAIN q : q[i].code \notin codes
  <2>1. \A j \in DOMAIN v : v[j].code \notin codes
    BY <1>2, <1>3
  <2> QED
    BY <1>2, <1>3, <2>1 DEF S!Leaves
<1>4. CASE \E i \in DOMAIN q :
             /\ q[i].code \in codes /\ S!Said(q[i]) = value
             /\ \A j \in DOMAIN q : j > i => q[j].code \notin codes
  <2>1. PICK i \in DOMAIN q :
             /\ q[i].code \in codes /\ S!Said(q[i]) = value
             /\ \A j \in DOMAIN q : j > i => q[j].code \notin codes
    BY <1>4
  <2>2. CASE i = 1
    <3>1. \A j \in DOMAIN v : v[j].code \notin codes
      BY <1>2, <2>1, <2>2
    <3> QED
      BY <2>1, <2>2, <3>1 DEF S!Leaves
  <2>3. CASE i # 1
    <3>1. i - 1 \in DOMAIN v /\ v[i - 1] = q[i]
      BY <1>2, <2>3
    <3>2. ASSUME NEW j \in DOMAIN v, j > i - 1 PROVE v[j].code \notin codes
      <4>1. j + 1 > i
        BY <1>1, <3>2
      <4> QED
        BY <1>2, <2>1, <4>1
    <3>3. \A s : S!Leaves(v, codes, s, value)
      BY <2>1, <3>1, <3>2 DEF S!Leaves
    <3> QED
      BY <3>3
  <2> QED
    BY <2>2, <2>3
<1> QED
  BY <1>3, <1>4 DEF S!Leaves

\* What a tap writes, one event after the other (contact, point).
LEMMA TapListed ==
    ASSUME NEW p \in S!Points(S!Logical), NEW t, t = S!TapEvents(p)
    PROVE  /\ t \in Seq([code : S!Codes \cup {"hold"}, value : Int]) /\ Len(t) = 7
           /\ t[1] = S!Event("id", 1) /\ t[2] = S!Event("touch", 1)
           /\ t[3] = S!Event("x", p.y + MappingTouchOffset)
           /\ t[4] = S!Event("y", S!Physical.height - 1 - p.x)
           /\ t[5] = S!Event("hold", 0)
           /\ t[6] = S!Event("id", -1) /\ t[7] = S!Event("touch", 0)
<1>1. S!Logical \in S!Extents /\ S!Physical \in S!Extents
  BY MappingInstance DEF S!MappingAssumption, S!Logical, S!Physical
<1>2. PICK px \in 0..(S!Logical.width - 1), py \in 0..(S!Logical.height - 1) : p = S!Point(px, py)
  BY <1>1, PointOf
<1>3. p.x = px /\ p.y = py /\ px \in Nat /\ py \in Nat
  <2>1. px \in Nat /\ py \in Nat
    BY <1>1, <1>2 DEF S!Extents
  <2> QED
    BY <1>2, <2>1 DEF S!Point
<1> PICK w, h, W, H0, off : /\ w = S!Logical.width /\ h = S!Logical.height
                            /\ W = S!Physical.width /\ H0 = S!Physical.height
                            /\ off = MappingTouchOffset
  OBVIOUS
<1>4. /\ w \in Nat /\ h \in Nat /\ W \in Nat /\ H0 \in Nat /\ off \in Nat
      /\ px < w /\ py < h /\ off + h <= W /\ w <= H0
  <2>1. off + h <= W /\ w <= H0 /\ off \in Nat
    BY MappingInstance DEF S!MappingAssumption, S!Logical, S!Physical
  <2>2. w \in Nat /\ h \in Nat /\ W \in Nat /\ H0 \in Nat
    BY <1>1 DEF S!Extents
  <2>3. px < w /\ py < h
    BY <1>2, <1>3, <2>2
  <2> QED
    BY <2>1, <2>2, <2>3
<1>5. S!point(p) = <<S!Event("x", py + off), S!Event("y", H0 - 1 - px)>>
  <2>1. 0 <= py + off /\ py + off <= W /\ 0 <= H0 - 1 - px /\ H0 - 1 - px <= H0
    BY <1>3, <1>4
  <2> QED
    BY <1>3, <1>4, <2>1 DEF S!point
<1>6. /\ S!contact(TRUE) = <<S!Event("id", 1), S!Event("touch", 1)>>
      /\ S!contact(FALSE) = <<S!Event("id", -1), S!Event("touch", 0)>>
  BY DEF S!contact
<1> PICK e1, e2, e3, e4, e5, e6, e7 :
      /\ e1 = S!Event("id", 1) /\ e2 = S!Event("touch", 1)
      /\ e3 = S!Event("x", py + off) /\ e4 = S!Event("y", H0 - 1 - px)
      /\ e5 = S!Event("hold", 0) /\ e6 = S!Event("id", -1) /\ e7 = S!Event("touch", 0)
  OBVIOUS
<1> PICK E : E = [code : S!Codes \cup {"hold"}, value : Int]
  OBVIOUS
<1>7. e1 \in E /\ e2 \in E /\ e3 \in E /\ e4 \in E /\ e5 \in E /\ e6 \in E /\ e7 \in E
  <2>1. py + off \in Int /\ H0 - 1 - px \in Int
    BY <1>3, <1>4
  <2> QED
    BY <2>1 DEF S!Event, S!Codes
<1>8. t = <<e1, e2>> \o <<e3, e4>> \o <<e5>> \o <<e6, e7>>
  BY <1>5, <1>6 DEF S!TapEvents
<1> PICK a : a = <<e1, e2>> \o <<e3, e4>>
  OBVIOUS
<1>9. a \in Seq(E) /\ Len(a) = 4 /\ a[1] = e1 /\ a[2] = e2 /\ a[3] = e3 /\ a[4] = e4
  <2>1. <<e1, e2>> \in Seq(E) /\ <<e3, e4>> \in Seq(E)
    BY <1>7
  <2> QED
    BY <2>1, QueuesJoined
<1> PICK b : b = a \o <<e5>>
  OBVIOUS
<1>10. /\ b \in Seq(E) /\ Len(b) = 5 /\ b[1] = e1 /\ b[2] = e2 /\ b[3] = e3 /\ b[4] = e4
       /\ b[5] = e5
  <2>1. <<e5>> \in Seq(E)
    BY <1>7
  <2> QED
    BY <1>9, <2>1, QueuesJoined
<1>11. /\ t \in Seq(E) /\ Len(t) = 7 /\ t[1] = e1 /\ t[2] = e2 /\ t[3] = e3 /\ t[4] = e4
       /\ t[5] = e5 /\ t[6] = e6 /\ t[7] = e7
  <2>1. <<e6, e7>> \in Seq(E)
    BY <1>7
  <2>2. t = b \o <<e6, e7>>
    BY <1>8
  <2> QED
    BY <1>10, <2>1, <2>2, QueuesJoined
<1> QED
  BY <1>3, <1>11

\* The tool's list is the end of a tap: its first event is the next one, the rest is the
\* end again.
EndOf(t, taps) == Len(t) <= 7 /\ \A i \in 1..Len(t) : t[i] = taps[7 - Len(t) + i]

\* The numbers up to seven.
LEMMA UpToSeven == ASSUME NEW n \in Nat \ {0}, n <= 7 PROVE n \in 1..7
  OBVIOUS

\* Writing the first event of the end of a tap leaves the end of a tap (inject).
LEMMA EndShortened ==
    ASSUME NEW E, NEW t \in Seq(E), NEW v, TakenFrom(t, v), NEW taps, EndOf(t, taps)
    PROVE  /\ Len(t) \in 1..7 /\ t[1] \in E /\ t[1] = taps[8 - Len(t)]
           /\ v \in Seq(E) /\ Len(v) = Len(t) - 1 /\ EndOf(v, taps)
<1> PICK n : n = Len(t)
  OBVIOUS
<1>1. /\ n \in Nat \ {0} /\ t[1] \in E /\ v \in Seq(E) /\ Len(v) = n - 1
      /\ \A i \in 1..(n - 1) : v[i] = t[i + 1] /\ i + 1 \in 1..n
  <2>1. /\ n \in Nat \ {0} /\ Head(t) \in E /\ Head(t) = t[1] /\ v \in Seq(E) /\ Len(v) = n - 1
        /\ \A i \in 1..Len(v) : v[i] = t[i + 1] /\ i + 1 \in 1..n
    BY TailOf DEF TakenFrom
  <2> QED
    BY <2>1
<1>2. n <= 7 /\ \A i \in 1..n : t[i] = taps[7 - n + i]
  BY DEF EndOf
<1>3. ASSUME NEW i \in 1..(n - 1) PROVE v[i] = taps[7 - (n - 1) + i]
  <2>1. v[i] = taps[7 - n + (i + 1)]
    BY <1>1, <1>2
  <2>2. 7 - n + (i + 1) = 7 - (n - 1) + i
    BY <1>1
  <2> QED
    BY <2>1, <2>2
<1>4. t[1] = taps[8 - n]
  <2>1. 1 \in 1..n /\ 7 - n + 1 = 8 - n
    BY <1>1
  <2> QED
    BY <1>2, <2>1
<1>5. Len(v) <= 7 /\ EndOf(v, taps)
  BY <1>1, <1>2, <1>3 DEF EndOf
<1>6. n \in 1..7
  <2>1. n \in Nat \ {0}
    BY <1>1
  <2>2. n <= 7
    BY <1>2
  <2> QED
    BY <2>1, <2>2, UpToSeven
<1>7. t[1] \in E /\ v \in Seq(E) /\ Len(v) = n - 1
  BY <1>1
<1> QED
  BY <1>4, <1>5, <1>6, <1>7

\* Which event is next when n are left.
NextOf(n, e, tx, ty) ==
    \/ n = 7 /\ e = S!Event("id", 1)
    \/ n = 6 /\ e = S!Event("touch", 1)
    \/ n = 5 /\ e = S!Event("x", tx)
    \/ n = 4 /\ e = S!Event("y", ty)
    \/ n = 3 /\ e = S!Event("hold", 0)
    \/ n = 2 /\ e = S!Event("id", -1)
    \/ n = 1 /\ e = S!Event("touch", 0)

\* The seven events of a tap in their order.
Listed(taps, tx, ty) ==
    /\ taps[1] = S!Event("id", 1) /\ taps[2] = S!Event("touch", 1)
    /\ taps[3] = S!Event("x", tx) /\ taps[4] = S!Event("y", ty) /\ taps[5] = S!Event("hold", 0)
    /\ taps[6] = S!Event("id", -1) /\ taps[7] = S!Event("touch", 0)

\* The events of a tap by the number that is left (tap).
LEMMA EventsLeft ==
    ASSUME NEW n \in 1..7, NEW taps, NEW tx, NEW ty, Listed(taps, tx, ty),
           NEW e, e = taps[8 - n]
    PROVE  NextOf(n, e, tx, ty)
<1>1. CASE n = 7
  <2>1. 8 - n = 1
    BY <1>1
  <2> QED
    BY <1>1, <2>1 DEF NextOf, Listed
<1>2. CASE n = 6
  <2>1. 8 - n = 2
    BY <1>2
  <2> QED
    BY <1>2, <2>1 DEF NextOf, Listed
<1>3. CASE n = 5
  <2>1. 8 - n = 3
    BY <1>3
  <2> QED
    BY <1>3, <2>1 DEF NextOf, Listed
<1>4. CASE n = 4
  <2>1. 8 - n = 4
    BY <1>4
  <2> QED
    BY <1>4, <2>1 DEF NextOf, Listed
<1>5. CASE n = 3
  <2>1. 8 - n = 5
    BY <1>5
  <2> QED
    BY <1>5, <2>1 DEF NextOf, Listed
<1>6. CASE n = 2
  <2>1. 8 - n = 6
    BY <1>6
  <2> QED
    BY <1>6, <2>1 DEF NextOf, Listed
<1>7. CASE n = 1
  <2>1. 8 - n = 7
    BY <1>7
  <2> QED
    BY <1>7, <2>1 DEF NextOf, Listed
<1>8. n = 1 \/ n = 2 \/ n = 3 \/ n = 4 \/ n = 5 \/ n = 6 \/ n = 7
  OBVIOUS
<1> QED
  BY <1>1, <1>2, <1>3, <1>4, <1>5, <1>6, <1>7, <1>8

\* What the kernel has when n events are left.
KernelAt(n, id, x, y, tx, ty) ==
    /\ n \in 2..6 => id = 1
    /\ n = 1 => id = -1
    /\ n \in 1..4 => x = tx
    /\ n \in 1..3 => y = ty

\* A value of an axis after an event.
AxisAfter(e, code, value) == IF e.code = code THEN e.value ELSE value

\* What the kernel has after the event e, the next one of a tap.
DoneWith(n, e, id, x, y, tx, ty) ==
    /\ KernelAt(n - 1, id, x, y, tx, ty)
    /\ e.code \in {"id", "touch"} => (S!IsDown(e) <=> id >= 0)

\* What the kernel has after the next event of a tap.
LEMMA KernelAfter ==
    ASSUME NEW n \in 1..7, NEW e, NEW tx, NEW ty, NextOf(n, e, tx, ty),
           NEW id \in Int, NEW x, NEW y, KernelAt(n, id, x, y, tx, ty),
           NEW idp, idp = AxisAfter(e, "id", id),
           NEW xp, xp = AxisAfter(e, "x", x),
           NEW yp, yp = AxisAfter(e, "y", y)
    PROVE  DoneWith(n, e, idp, xp, yp, tx, ty)
<1>1. CASE n = 7 /\ e = S!Event("id", 1)
  <2>1. e.code = "id" /\ e.value = 1 /\ idp = 1 /\ n - 1 = 6
    BY <1>1 DEF S!Event, AxisAfter
  <2> QED
    BY <2>1 DEF DoneWith, KernelAt, S!IsDown
<1>2. CASE n = 6 /\ e = S!Event("touch", 1)
  <2>1. e.code = "touch" /\ e.value = 1 /\ idp = id /\ n - 1 = 5 /\ id = 1
    BY <1>2 DEF S!Event, KernelAt, AxisAfter
  <2> QED
    BY <2>1 DEF DoneWith, KernelAt, S!IsDown
<1>3. CASE n = 5 /\ e = S!Event("x", tx)
  <2>1. e.code = "x" /\ idp = id /\ n - 1 = 4 /\ id = 1 /\ xp = tx
    BY <1>3 DEF S!Event, KernelAt, AxisAfter
  <2> QED
    BY <2>1 DEF DoneWith, KernelAt
<1>4. CASE n = 4 /\ e = S!Event("y", ty)
  <2>1. e.code = "y" /\ idp = id /\ n - 1 = 3 /\ id = 1 /\ xp = tx /\ yp = ty
    BY <1>4 DEF S!Event, KernelAt, AxisAfter
  <2> QED
    BY <2>1 DEF DoneWith, KernelAt
<1>5. CASE n = 3 /\ e = S!Event("hold", 0)
  <2>1. e.code = "hold" /\ idp = id /\ n - 1 = 2 /\ id = 1 /\ xp = tx /\ yp = ty
    BY <1>5 DEF S!Event, KernelAt, AxisAfter
  <2> QED
    BY <2>1 DEF DoneWith, KernelAt
<1>6. CASE n = 2 /\ e = S!Event("id", -1)
  <2>1. e.code = "id" /\ e.value = -1 /\ idp = -1 /\ n - 1 = 1 /\ xp = tx /\ yp = ty
    BY <1>6 DEF S!Event, KernelAt, AxisAfter
  <2> QED
    BY <2>1 DEF DoneWith, KernelAt, S!IsDown
<1>7. CASE n = 1 /\ e = S!Event("touch", 0)
  <2>1. e.code = "touch" /\ e.value = 0 /\ idp = id /\ n - 1 = 0 /\ id = -1
    BY <1>7 DEF S!Event, KernelAt, AxisAfter
  <2> QED
    BY <2>1 DEF DoneWith, KernelAt, S!IsDown
<1> QED
  BY <1>1, <1>2, <1>3, <1>4, <1>5, <1>6, <1>7 DEF NextOf

\* What map_raw takes the panel's values for is a number, and its point on the screen.
LEMMA MappedInside ==
    ASSUME S!MappingTypes, NEW raw \in [x : Int, y : Int]
    PROVE  S!map_raw(raw) \in S!Points(S!Logical)
<1>1. /\ S!Logical \in S!Extents /\ S!Physical \in S!Extents /\ MappingTouchOffset \in Int
      /\ S!Physical.height \in Int /\ S!Physical.width \in Int
  BY MappingInstance DEF S!MappingAssumption, S!Logical, S!Physical, S!Extents
<1>2. \A n \in Int, d \in Nat \ {0} : S!Quotient(n, d) \in Int
  BY DEF S!Quotient
<1>3. /\ {smAxes.x.low, smAxes.x.high, smAxes.y.low, smAxes.y.high} \subseteq Int
      /\ smAxes.x.high > smAxes.x.low /\ smAxes.y.high > smAxes.y.low
  BY DEF S!MappingTypes
<1>4. ASSUME NEW v \in Int, NEW axis, axis.low \in Int, axis.high \in Int, axis.high > axis.low,
             NEW size \in Int
      PROVE  S!Scaled(v, axis, size) \in Int
  <2>1. (v - axis.low) * size \in Int /\ axis.high - axis.low \in Nat \ {0}
    BY <1>4
  <2> QED
    BY <1>2, <2>1 DEF S!Scaled
<1>5. PICK a, b : /\ a = S!Scaled(raw.x, smAxes.x, S!Physical.width)
                  /\ b = S!Scaled(raw.y, smAxes.y, S!Physical.height)
  OBVIOUS
<1>6. a \in Int /\ b \in Int
  BY <1>1, <1>3, <1>4, <1>5
<1>7. S!map_raw(raw) = S!raw_touch_to_logical(S!Point(a, b))
  BY <1>5 DEF S!map_raw
<1>8. S!raw_touch_to_logical(S!Point(a, b))
        = S!Clamped(S!Point(S!Physical.height - 1 - b, a - MappingTouchOffset), S!Logical)
  BY DEF S!raw_touch_to_logical, S!Point
<1>9. S!Physical.height - 1 - b \in Int /\ a - MappingTouchOffset \in Int
  BY <1>1, <1>6
<1> QED
  BY <1>1, <1>7, <1>8, <1>9, ClampedInside

\* The tool writes the next event of the tap.
LEMMA TapWritten == S!MappingInv /\ S!Emit => S!MappingInv'
<1> SUFFICES ASSUME S!MappingInv, S!Emit PROVE S!MappingInv'
  OBVIOUS
<1> PICK n : n = Len(smTool)
  OBVIOUS
<1> PICK e : e = smTool[1]
  OBVIOUS
<1> PICK taps : taps = S!TapEvents(smTarget)
  OBVIOUS
<1> PICK E : E = [code : S!Codes \cup {"hold"}, value : Int]
  OBVIOUS
<1>0. /\ S!MappingTypes /\ S!ToolInv /\ S!KernelInv /\ S!PointerInv
      /\ smTool \in Seq(E) /\ smTool # <<>> /\ smTarget \in S!Points(S!Logical)
  BY DEF S!MappingInv, S!MappingTypes, S!ToolInv, S!Emit
<1> PICK tl, tv : tl = smTool /\ tv = smTool'
  OBVIOUS
<1>1. /\ UNCHANGED <<smProfile, smTarget, smAxes, smPointer>> /\ TakenFrom(tl, tv)
      /\ \/ (e.code = "hold" \/ smKernel[e.code] = e.value) /\ UNCHANGED <<smKernel, smQueue>>
         \/ /\ e.code # "hold" /\ smKernel' = [smKernel EXCEPT ![e.code] = e.value]
            /\ smQueue' = Append(smQueue, e)
  <2>1. tl \in Seq(E) /\ tl # <<>>
    BY <1>0
  <2>2. Head(smTool) = e
    BY <2>1, TailOf
  <2>3. TakenFrom(tl, tv)
    BY <1>0 DEF S!Emit, TakenFrom
  <2> QED
    BY <2>2, <2>3 DEF S!Emit
<1>2. /\ n \in 1..7 /\ e = taps[8 - n] /\ e \in E
      /\ tv \in Seq(E) /\ Len(tv) = n - 1 /\ EndOf(tv, taps)
  <2>1. tl \in Seq(E) /\ EndOf(tl, taps)
    BY <1>0 DEF S!ToolInv, EndOf
  <2> QED
    BY <1>1, <2>1, EndShortened
<1> PICK tx, ty : tx = smTarget.y + MappingTouchOffset /\ ty = S!Physical.height - 1 - smTarget.x
  OBVIOUS
<1>3. Listed(taps, tx, ty)
  BY <1>0, TapListed DEF Listed
<1>4. NextOf(n, e, tx, ty)
  <2>1. n \in 1..7 /\ e = taps[8 - n]
    BY <1>2
  <2> QED
    BY <1>3, <2>1, EventsLeft
<1>5. KernelAt(n, smKernel.id, smKernel.x, smKernel.y, tx, ty)
  BY <1>0 DEF S!KernelInv, KernelAt
<1>6. smKernel \in [x : Int, y : Int, id : Int, touch : Int]
  BY <1>0 DEF S!MappingTypes
<1>7. /\ smKernel' \in [x : Int, y : Int, id : Int, touch : Int]
      /\ smKernel'.x = IF e.code = "x" THEN e.value ELSE smKernel.x
      /\ smKernel'.y = IF e.code = "y" THEN e.value ELSE smKernel.y
      /\ smKernel'.id = IF e.code = "id" THEN e.value ELSE smKernel.id
  <2>1. e.code \in {"x", "y", "id", "touch", "hold"} /\ e.value \in Int
    BY <1>2 DEF S!Codes
  <2>2. CASE (e.code = "hold" \/ smKernel[e.code] = e.value) /\ UNCHANGED <<smKernel, smQueue>>
    BY <1>6, <2>1, <2>2
  <2>3. CASE e.code # "hold" /\ smKernel' = [smKernel EXCEPT ![e.code] = e.value]
    BY <1>6, <2>1, <2>3
  <2> QED
    BY <1>1, <2>2, <2>3
<1>8. S!ToolInv'
  <2>1. smTarget' = smTarget /\ tv = smTool'
    BY <1>1
  <2>2. smTool' \in Seq(E) /\ EndOf(smTool', taps) /\ taps = S!TapEvents(smTarget)'
    BY <1>2, <2>1
  <2> QED
    BY <2>2 DEF S!ToolInv, EndOf
<1> PICK id, idp, x, xp, y, yp :
      /\ id = smKernel.id /\ idp = smKernel'.id /\ x = smKernel.x /\ xp = smKernel'.x
      /\ y = smKernel.y /\ yp = smKernel'.y
  OBVIOUS
<1>9. DoneWith(n, e, idp, xp, yp, tx, ty)
  <2>1. id \in Int /\ KernelAt(n, id, x, y, tx, ty)
    BY <1>5, <1>6
  <2>2. idp = AxisAfter(e, "id", id) /\ xp = AxisAfter(e, "x", x) /\ yp = AxisAfter(e, "y", y)
    BY <1>7 DEF AxisAfter
  <2>3. n \in 1..7
    BY <1>2
  <2> QED
    BY <1>4, <2>1, <2>2, <2>3, KernelAfter
<1>15. S!KernelInv'
  <2>1. smTarget' = smTarget /\ Len(smTool') = n - 1
    BY <1>1, <1>2
  <2>2. KernelAt(Len(smTool'), smKernel'.id, smKernel'.x, smKernel'.y, tx, ty)
    BY <1>9, <2>1 DEF DoneWith
  <2> QED
    BY <2>1, <2>2 DEF S!KernelInv, KernelAt
<1>10. smQueue \in Seq(Reports)
  BY <1>0 DEF S!MappingTypes, Reports
<1> PICK q, v, rx, ry, rp : /\ q = smQueue /\ v = smQueue' /\ rx = smPointer.raw.x
                            /\ ry = smPointer.raw.y /\ rp = S!Flag(smPointer.pressed)
  OBVIOUS
<1> PICK kx, ky, kp : kx = smKernel.x /\ ky = smKernel.y /\ kp = S!Flag(smKernel.id >= 0)
  OBVIOUS
<1>11. /\ S!Leaves(q, {"x"}, rx, kx) /\ S!Leaves(q, {"y"}, ry, ky)
       /\ S!Leaves(q, {"id", "touch"}, rp, kp)
  BY <1>0 DEF S!PointerInv
<1>12. /\ v \in Seq(Reports)
       /\ S!Leaves(v, {"x"}, rx, smKernel'.x) /\ S!Leaves(v, {"y"}, ry, smKernel'.y)
       /\ S!Leaves(v, {"id", "touch"}, rp, S!Flag(smKernel'.id >= 0))
  <2>1. CASE UNCHANGED <<smKernel, smQueue>>
    BY <1>10, <1>11, <2>1
  <2>2. CASE e.code # "hold" /\ smQueue' = Append(smQueue, e)
    <3>1. e \in Reports /\ v = Append(q, e) /\ q \in Seq(Reports)
      BY <1>2, <1>10, <2>2 DEF Reports
    <3>2. v \in Seq(Reports)
      BY <3>1, AppendTo
    <3>3. \A codes, seen, value :
            /\ e.code \in codes => S!Leaves(v, codes, seen, S!Said(e))
            /\ e.code \notin codes /\ S!Leaves(q, codes, seen, value)
                 => S!Leaves(v, codes, seen, value)
      BY <3>1, LeftWithMore
    <3>4. S!Leaves(v, {"x"}, rx, smKernel'.x)
      <4>1. CASE e.code = "x"
        <5>1. S!Said(e) = smKernel'.x
          BY <1>7, <4>1 DEF S!Said
        <5> QED
          BY <3>3, <4>1, <5>1
      <4>2. CASE e.code # "x"
        <5>1. smKernel'.x = kx
          BY <1>7, <4>2
        <5> QED
          BY <1>11, <3>3, <4>2, <5>1
      <4> QED
        BY <4>1, <4>2
    <3>5. S!Leaves(v, {"y"}, ry, smKernel'.y)
      <4>1. CASE e.code = "y"
        <5>1. S!Said(e) = smKernel'.y
          BY <1>7, <4>1 DEF S!Said
        <5> QED
          BY <3>3, <4>1, <5>1
      <4>2. CASE e.code # "y"
        <5>1. smKernel'.y = ky
          BY <1>7, <4>2
        <5> QED
          BY <1>11, <3>3, <4>2, <5>1
      <4> QED
        BY <4>1, <4>2
    <3>6. S!Leaves(v, {"id", "touch"}, rp, S!Flag(smKernel'.id >= 0))
      <4>1. CASE e.code \in {"id", "touch"}
        <5>1. S!Said(e) = S!Flag(smKernel'.id >= 0)
          <6>1. S!IsDown(e) <=> smKernel'.id >= 0
            BY <1>9, <4>1 DEF DoneWith
          <6> QED
            BY <4>1, <6>1 DEF S!Said, S!Flag
        <5> QED
          BY <3>3, <4>1, <5>1
      <4>2. CASE e.code \notin {"id", "touch"}
        <5>1. S!Flag(smKernel'.id >= 0) = kp
          BY <1>7, <4>2
        <5> QED
          BY <1>11, <3>3, <4>2, <5>1
      <4> QED
        BY <4>1, <4>2
    <3> QED
      BY <3>2, <3>4, <3>5, <3>6
  <2> QED
    BY <1>1, <2>1, <2>2
<1>13. S!MappingTypes'
  BY <1>0, <1>1, <1>7, <1>12 DEF S!MappingTypes, Reports
<1>14. S!PointerInv'
  <2>1. (smPointer.raw # S!Point(0, 0) => smPointer.point = S!map_raw(smPointer.raw))'
    BY <1>0, <1>1 DEF S!PointerInv, S!map_raw
  <2>2. /\ S!Leaves(smQueue', {"x"}, smPointer'.raw.x, smKernel'.x)
        /\ S!Leaves(smQueue', {"y"}, smPointer'.raw.y, smKernel'.y)
        /\ S!Leaves(smQueue', {"id", "touch"}, S!Flag(smPointer'.pressed), S!Flag(smKernel'.id >= 0))
    BY <1>1, <1>12
  <2> QED
    BY <2>1, <2>2 DEF S!PointerInv
<1> QED
  BY <1>8, <1>13, <1>14, <1>15 DEF S!MappingInv

\* The program reads an event.
LEMMA TapRead == S!MappingInv /\ S!PollOne => S!MappingInv'
<1> SUFFICES ASSUME S!MappingInv, S!PollOne PROVE S!MappingInv'
  OBVIOUS
<1> PICK e, q, v : e = smQueue[1] /\ q = smQueue /\ v = smQueue'
  OBVIOUS
<1>0. /\ S!MappingTypes /\ S!ToolInv /\ S!KernelInv /\ S!PointerInv
      /\ q \in Seq(Reports) /\ q # <<>>
  BY DEF S!MappingInv, S!MappingTypes, S!PollOne, Reports
<1>1. Head(q) = e /\ e \in Reports /\ Tail(q) \in Seq(Reports)
  BY <1>0, TailOf
<1> PICK raw, m : raw = [smPointer.raw EXCEPT ![e.code] = e.value] /\ m = S!map_raw(raw)
  OBVIOUS
<1>2. /\ UNCHANGED <<smProfile, smTool, smTarget, smAxes, smKernel>> /\ v = Tail(q)
      /\ smPointer' = IF e.code \in {"x", "y"} THEN [smPointer EXCEPT !.raw = raw, !.point = m]
                      ELSE [smPointer EXCEPT !.pressed = S!IsDown(e)]
  BY <1>1 DEF S!PollOne
<1>3. e.code \in S!Codes /\ e.value \in Int
  BY <1>1 DEF Reports
<1>4. /\ smPointer \in [raw : [x : Int, y : Int], point : S!Points(S!Logical), pressed : BOOLEAN]
      /\ e.code \in {"x", "y"} => raw \in [x : Int, y : Int] /\ m \in S!Points(S!Logical)
  <2>1. smPointer \in [raw : [x : Int, y : Int], point : S!Points(S!Logical), pressed : BOOLEAN]
    BY <1>0 DEF S!MappingTypes
  <2>2. ASSUME e.code \in {"x", "y"}
        PROVE  raw \in [x : Int, y : Int]
    BY <1>3, <2>1, <2>2
  <2> QED
    BY <1>0, <2>1, <2>2, MappedInside
<1>5. S!IsDown(e) \in BOOLEAN
  BY <1>3 DEF S!IsDown
<1>6. /\ smPointer' \in [raw : [x : Int, y : Int], point : S!Points(S!Logical), pressed : BOOLEAN]
      /\ smPointer'.raw.x = IF e.code = "x" THEN e.value ELSE smPointer.raw.x
      /\ smPointer'.raw.y = IF e.code = "y" THEN e.value ELSE smPointer.raw.y
      /\ e.code \in {"id", "touch"} => smPointer'.pressed = S!IsDown(e)
      /\ e.code \notin {"id", "touch"} => smPointer'.pressed = smPointer.pressed
      /\ \/ smPointer'.raw = raw /\ smPointer'.point = S!map_raw(raw)
         \/ smPointer'.raw = smPointer.raw /\ smPointer'.point = smPointer.point
  <2>1. CASE e.code \in {"x", "y"}
    <3>1. smPointer' = [smPointer EXCEPT !.raw = raw, !.point = m]
      BY <1>2, <2>1
    <3>2. /\ smPointer' \in [raw : [x : Int, y : Int], point : S!Points(S!Logical), pressed : BOOLEAN]
          /\ smPointer'.raw = raw /\ smPointer'.point = m /\ smPointer'.pressed = smPointer.pressed
      BY <1>4, <2>1, <3>1
    <3>3. /\ raw.x = IF e.code = "x" THEN e.value ELSE smPointer.raw.x
          /\ raw.y = IF e.code = "y" THEN e.value ELSE smPointer.raw.y
      BY <1>4, <2>1
    <3> QED
      BY <2>1, <3>2, <3>3
  <2>2. CASE e.code \in {"id", "touch"}
    <3>1. smPointer' = [smPointer EXCEPT !.pressed = S!IsDown(e)]
      BY <1>2, <2>2
    <3> QED
      BY <1>4, <1>5, <2>2, <3>1
  <2> QED
    BY <1>3, <2>1, <2>2 DEF S!Codes
<1> PICK kx, ky, kp : kx = smKernel.x /\ ky = smKernel.y /\ kp = S!Flag(smKernel.id >= 0)
  OBVIOUS
<1> PICK rx, ry, rp : rx = smPointer.raw.x /\ ry = smPointer.raw.y /\ rp = S!Flag(smPointer.pressed)
  OBVIOUS
<1>7. /\ S!Leaves(q, {"x"}, rx, kx) /\ S!Leaves(q, {"y"}, ry, ky)
      /\ S!Leaves(q, {"id", "touch"}, rp, kp)
  BY <1>0 DEF S!PointerInv
<1>8. \A codes, seen, value : S!Leaves(q, codes, seen, value) =>
        /\ e.code \in codes => S!Leaves(v, codes, S!Said(e), value)
        /\ e.code \notin codes => S!Leaves(v, codes, seen, value)
  <2>1. TakenFrom(q, v)
    BY <1>0, <1>2 DEF TakenFrom
  <2> QED
    BY <1>0, <2>1, LeftWithoutFirst
<1>9. S!Leaves(v, {"x"}, smPointer'.raw.x, kx)
  <2>1. CASE e.code = "x"
    <3>1. S!Said(e) = smPointer'.raw.x
      BY <1>6, <2>1 DEF S!Said
    <3> QED
      BY <1>7, <1>8, <2>1, <3>1
  <2>2. CASE e.code # "x"
    <3>1. smPointer'.raw.x = rx
      BY <1>6, <2>2
    <3> QED
      BY <1>7, <1>8, <2>2, <3>1
  <2> QED
    BY <2>1, <2>2
<1>10. S!Leaves(v, {"y"}, smPointer'.raw.y, ky)
  <2>1. CASE e.code = "y"
    <3>1. S!Said(e) = smPointer'.raw.y
      BY <1>6, <2>1 DEF S!Said
    <3> QED
      BY <1>7, <1>8, <2>1, <3>1
  <2>2. CASE e.code # "y"
    <3>1. smPointer'.raw.y = ry
      BY <1>6, <2>2
    <3> QED
      BY <1>7, <1>8, <2>2, <3>1
  <2> QED
    BY <2>1, <2>2
<1>11. S!Leaves(v, {"id", "touch"}, S!Flag(smPointer'.pressed), kp)
  <2>1. CASE e.code \in {"id", "touch"}
    <3>1. S!Said(e) = S!Flag(smPointer'.pressed)
      BY <1>6, <2>1 DEF S!Said
    <3> QED
      BY <1>7, <1>8, <2>1, <3>1
  <2>2. CASE e.code \notin {"id", "touch"}
    <3>1. S!Flag(smPointer'.pressed) = rp
      BY <1>6, <2>2
    <3> QED
      BY <1>7, <1>8, <2>2, <3>1
  <2> QED
    BY <2>1, <2>2
<1>12. S!MappingTypes'
  BY <1>0, <1>1, <1>2, <1>6 DEF S!MappingTypes, Reports
<1>13. S!ToolInv' /\ S!KernelInv'
  BY <1>0, <1>2 DEF S!ToolInv, S!KernelInv
<1>14. S!PointerInv'
  <2>1. (smPointer.raw # S!Point(0, 0) => smPointer.point = S!map_raw(smPointer.raw))'
    <3>1. \A r : S!map_raw(r)' = S!map_raw(r')
      BY <1>2 DEF S!map_raw
    <3>2. smPointer'.raw # S!Point(0, 0) => smPointer'.point = S!map_raw(smPointer'.raw)
      BY <1>0, <1>6 DEF S!PointerInv
    <3> QED
      BY <1>2, <3>2 DEF S!map_raw
  <2> QED
    BY <1>2, <1>9, <1>10, <1>11, <2>1 DEF S!PointerInv
<1> QED
  BY <1>12, <1>13, <1>14 DEF S!MappingInv

\* A tap begins.
LEMMA TapBegun == S!MappingInv /\ (\E p \in S!Points(S!Logical) : S!Tap(p)) => S!MappingInv'
<1> SUFFICES ASSUME S!MappingInv, NEW p \in S!Points(S!Logical), S!Tap(p) PROVE S!MappingInv'
  OBVIOUS
<1> PICK taps : taps = S!TapEvents(p)
  OBVIOUS
<1>0. S!MappingTypes /\ S!PointerInv
  BY DEF S!MappingInv
<1>1. /\ UNCHANGED <<smProfile, smAxes, smKernel, smQueue, smPointer>>
      /\ smTool' = taps /\ smTarget' = p
  BY DEF S!Tap
<1>2. taps \in Seq([code : S!Codes \cup {"hold"}, value : Int]) /\ Len(taps) = 7
  BY TapListed
<1>3. S!MappingTypes'
  BY <1>0, <1>1 DEF S!MappingTypes
<1>4. S!ToolInv'
  <2>1. EndOf(taps, taps)
    BY <1>2 DEF EndOf
  <2>2. S!TapEvents(smTarget)' = taps
    BY <1>1
  <2>3. /\ smTool' \in Seq([code : S!Codes \cup {"hold"}, value : Int])
        /\ EndOf(smTool', S!TapEvents(smTarget)')
    BY <1>1, <1>2, <2>1, <2>2
  <2> QED
    BY <2>3 DEF S!ToolInv, EndOf
<1>5. S!KernelInv'
  <2>1. Len(smTool') = 7
    BY <1>1, <1>2
  <2> QED
    BY <2>1 DEF S!KernelInv
<1>6. S!PointerInv'
  BY <1>0, <1>1 DEF S!PointerInv, S!map_raw
<1> QED
  BY <1>3, <1>4, <1>5, <1>6 DEF S!MappingInv

\* A device profile is read.
LEMMA ProfileRead == S!MappingInv /\ (\E p \in S!Profiles : S!Parse(p)) => S!MappingInv'
<1> SUFFICES ASSUME S!MappingInv, NEW p \in S!Profiles, S!Parse(p) PROVE S!MappingInv'
  OBVIOUS
<1>0. S!MappingTypes /\ S!ToolInv /\ S!KernelInv /\ S!PointerInv
  BY DEF S!MappingInv
<1>1. /\ UNCHANGED <<smTool, smTarget, smAxes, smKernel, smQueue, smPointer>>
      /\ S!Accepted(p) /\ smProfile' = p
  BY DEF S!Parse
<1>2. S!MappingTypes'
  BY <1>0, <1>1 DEF S!MappingTypes
<1>3. S!ToolInv' /\ S!KernelInv' /\ S!PointerInv'
  BY <1>0, <1>1 DEF S!ToolInv, S!KernelInv, S!PointerInv, S!map_raw
<1> QED
  BY <1>2, <1>3 DEF S!MappingInv

\* MappingInv holds at the start.
LEMMA MappingStart == S!Init => S!MappingInv
<1> SUFFICES ASSUME S!Init PROVE S!MappingInv
  OBVIOUS
<1>0. /\ smProfile = S!NoProfile /\ smTool = <<>> /\ smTarget = S!Point(0, 0)
      /\ smKernel = [x |-> 0, y |-> 0, id |-> -1, touch |-> 0] /\ smQueue = <<>>
      /\ smPointer = [raw |-> S!Point(0, 0), point |-> S!Point(0, 0), pressed |-> FALSE]
  BY DEF S!Init, S!Untouched
<1>1. S!MappingTypes
  <2>1. S!Point(0, 0) \in S!Points(S!Logical)
    <3>1. S!Logical \in S!Extents
      BY MappingInstance DEF S!MappingAssumption, S!Logical
    <3>2. 0 < S!Logical.width /\ 0 < S!Logical.height
      BY <3>1 DEF S!Extents
    <3> QED
      BY <3>1, <3>2, PointInside DEF S!Inside
  <2>2. S!Point(0, 0) \in [x : Int, y : Int]
    BY DEF S!Point
  <2>3. /\ smAxes = [x |-> S!Range(smAxes.x.low, smAxes.x.high),
                      y |-> S!Range(smAxes.y.low, smAxes.y.high)]
        /\ {smAxes.x.low, smAxes.x.high, smAxes.y.low, smAxes.y.high} \subseteq Int
        /\ smAxes.x.high > smAxes.x.low /\ smAxes.y.high > smAxes.y.low
    <3>1. CASE smAxes = S!ByScreen
      <4>1. S!Physical.width \in Nat \ {0} /\ S!Physical.height \in Nat \ {0}
        BY MappingInstance DEF S!MappingAssumption, S!Physical, S!Extents
      <4> QED
        BY <3>1, <4>1 DEF S!ByScreen, S!Range
    <3>2. ASSUME NEW r \in MappingRanges, smAxes = r, r.x.high > r.x.low, r.y.high > r.y.low
          PROVE  <2>3
      <4>1. /\ r = [x |-> S!Range(r.x.low, r.x.high), y |-> S!Range(r.y.low, r.y.high)]
            /\ {r.x.low, r.x.high, r.y.low, r.y.high} \subseteq Int
        BY <3>2, MappingInstance DEF S!MappingAssumption
      <4> QED
        BY <3>2, <4>1
    <3>3. smAxes \in {S!ByScreen} \cup {S!Opened(r) : r \in MappingRanges}
      BY DEF S!Init
    <3> QED
      BY <3>1, <3>2, <3>3 DEF S!Opened
  <2> QED
    BY <1>0, <2>1, <2>2, <2>3 DEF S!MappingTypes
<1>2. S!ToolInv /\ S!KernelInv
  <2>1. Len(smTool) = 0 /\ smTool \in Seq([code : S!Codes \cup {"hold"}, value : Int])
    BY <1>0
  <2> QED
    BY <2>1 DEF S!ToolInv, S!KernelInv
<1>3. S!PointerInv
  <2>1. /\ smPointer.raw.x = smKernel.x /\ smPointer.raw.y = smKernel.y
        /\ S!Flag(smPointer.pressed) = S!Flag(smKernel.id >= 0)
    BY <1>0 DEF S!Point, S!Flag
  <2>2. \A i \in DOMAIN smQueue : FALSE
    BY <1>0
  <2>3. smPointer.raw = S!Point(0, 0)
    BY <1>0
  <2> QED
    BY <2>1, <2>2, <2>3 DEF S!PointerInv, S!Leaves
<1> QED
  BY <1>1, <1>2, <1>3 DEF S!MappingInv

\* The touch path of the development programs as the tool, the kernel and the program
\* see it.
LEMMA MappingInvariant == S!Spec => []S!MappingInv
<1>1. S!Init => S!MappingInv
  BY MappingStart
<1>2. S!MappingInv /\ [S!Next]_S!vars => S!MappingInv'
  <2> SUFFICES ASSUME S!MappingInv, [S!Next]_S!vars PROVE S!MappingInv'
    OBVIOUS
  <2>1. CASE \E p \in S!Points(S!Logical) : S!Tap(p)
    BY <2>1, TapBegun
  <2>2. CASE S!Emit
    BY <2>2, TapWritten
  <2>3. CASE S!PollOne
    BY <2>3, TapRead
  <2>4. CASE \E p \in S!Profiles : S!Parse(p)
    BY <2>4, ProfileRead
  <2>5. CASE UNCHANGED S!vars
    BY <2>5 DEF S!vars, S!MappingInv, S!MappingTypes, S!ToolInv, S!KernelInv, S!PointerInv, S!map_raw
  <2> QED
    BY <2>1, <2>2, <2>3, <2>4, <2>5 DEF S!Next
<1> QED
  BY <1>1, <1>2, PTL DEF S!Spec

\* A quotient is known by what it leaves.
LEMMA QuotientIs ==
    ASSUME NEW n \in Nat, NEW d \in Nat \ {0}, NEW q \in Nat, q * d <= n, n < q * d + d
    PROVE  S!Quotient(n, d) = q
<1>1. n \div d = q
  OBVIOUS
<1> QED
  BY <1>1 DEF S!Quotient

\* On an axis that counts pixels map_raw's scaling changes nothing but the last pixel,
\* which may come out one further.
LEMMA ScaledPixel ==
    ASSUME NEW v \in Nat, NEW size \in Nat \ {0}, v < size, NEW axis,
           axis.high > axis.low, S!InPixels(axis, size)
    PROVE  S!Scaled(v, axis, size) = v \/ (v = size - 1 /\ S!Scaled(v, axis, size) = size)
<1>1. axis.low = 0 /\ v - axis.low = v /\ v * size \in Nat
  BY DEF S!InPixels
<1>2. CASE axis.high = size
  <2>1. v * size <= v * size /\ v * size < v * size + size
    BY <1>1
  <2>2. S!Quotient(v * size, size) = v
    BY <1>1, <2>1, QuotientIs
  <2>3. axis.high - axis.low = size
    BY <1>1, <1>2
  <2> QED
    BY <1>1, <2>2, <2>3 DEF S!Scaled
<1>3. CASE axis.high = size - 1
  <2> PICK d : d = size - 1
    OBVIOUS
  <2>1. d \in Nat \ {0} /\ axis.high - axis.low = d /\ size = d + 1 /\ v <= d
    BY <1>1, <1>3
  <2>2. v * size = v * d + v
    BY <2>1
  <2>3. CASE v < d
    <3>1. v * d <= v * size /\ v * size < v * d + d
      BY <2>1, <2>2, <2>3
    <3>2. S!Quotient(v * size, d) = v
      BY <1>1, <2>1, <3>1, QuotientIs
    <3> QED
      BY <1>1, <2>1, <3>2 DEF S!Scaled
  <2>4. CASE v = d
    <3>1. v * size = size * d
      BY <2>1, <2>4
    <3>2. size * d <= v * size /\ v * size < size * d + d
      BY <2>1, <3>1
    <3>3. S!Quotient(v * size, d) = size
      BY <1>1, <2>1, <3>2, QuotientIs
    <3> QED
      BY <1>1, <2>1, <2>4, <3>3 DEF S!Scaled
  <2> QED
    BY <2>1, <2>3, <2>4
<1> QED
  BY <1>2, <1>3 DEF S!InPixels

\* The point that is tapped is the point that a program sees touched (point, map_raw):
\* where scaling goes one too far, the clamp takes it back.
LEMMA SeenWhereTapped ==
    ASSUME NEW p \in S!Points(S!Logical), NEW raw, S!MappingTypes,
           raw.x = p.y + MappingTouchOffset, raw.y = S!Physical.height - 1 - p.x,
           S!InPixels(smAxes.x, S!Physical.width), S!InPixels(smAxes.y, S!Physical.height)
    PROVE  S!map_raw(raw) = p
<1> PICK W, H0, off, rx, ry, lw, lh :
      /\ W = S!Physical.width /\ H0 = S!Physical.height /\ off = MappingTouchOffset
      /\ rx = raw.x /\ ry = raw.y /\ lw = S!Logical.width /\ lh = S!Logical.height
  OBVIOUS
<1>1. S!Logical \in S!Extents /\ S!Physical \in S!Extents /\ off \in Nat
      /\ off + lh <= W /\ lw <= H0
  BY MappingInstance DEF S!MappingAssumption, S!Logical, S!Physical
<1>2. PICK px \in 0..(lw - 1), py \in 0..(lh - 1) : p = S!Point(px, py)
  BY <1>1, PointOf
<1>3. W \in Nat \ {0} /\ H0 \in Nat \ {0} /\ off \in Nat /\ lw \in Nat \ {0} /\ lh \in Nat \ {0}
  BY <1>1 DEF S!Extents
<1>4. p.x = px /\ p.y = py /\ px \in Nat /\ py \in Nat /\ px < lw /\ py < lh
  BY <1>2, <1>3 DEF S!Point
<1>5. rx = py + off /\ ry = H0 - 1 - px
  BY <1>4
<1>6. rx \in Nat /\ ry \in Nat /\ rx < W /\ ry < H0
  BY <1>1, <1>3, <1>4, <1>5
<1> PICK a, b : a = S!Scaled(rx, smAxes.x, W) /\ b = S!Scaled(ry, smAxes.y, H0)
  OBVIOUS
<1>7. /\ a = rx \/ (rx = W - 1 /\ a = W)
      /\ b = ry \/ (ry = H0 - 1 /\ b = H0)
  <2>1. smAxes.x.high > smAxes.x.low /\ smAxes.y.high > smAxes.y.low
    BY DEF S!MappingTypes
  <2> QED
    BY <1>3, <1>6, <2>1, ScaledPixel
<1>8. S!map_raw(raw) = S!Clamped(S!Point(H0 - 1 - b, a - off), S!Logical)
  BY DEF S!map_raw, S!raw_touch_to_logical, S!Point
<1>9. S!clamp_axis(H0 - 1 - b, lw) = px
  <2>1. CASE b = ry
    BY <1>3, <1>4, <1>5, <2>1 DEF S!clamp_axis
  <2>2. CASE ry = H0 - 1 /\ b = H0
    BY <1>3, <1>4, <1>5, <2>2 DEF S!clamp_axis
  <2> QED
    BY <1>7, <2>1, <2>2
<1>10. S!clamp_axis(a - off, lh) = py
  <2>1. CASE a = rx
    BY <1>3, <1>4, <1>5, <2>1 DEF S!clamp_axis
  <2>2. CASE rx = W - 1 /\ a = W
    <3>1. off + lh <= W
      BY <1>1
    <3>2. a - off = lh /\ py = lh - 1
      BY <1>3, <1>4, <1>5, <2>2, <3>1
    <3> QED
      BY <1>3, <3>2 DEF S!clamp_axis
  <2> QED
    BY <1>7, <2>1, <2>2
<1>11. S!Clamped(S!Point(H0 - 1 - b, a - off), S!Logical) = S!Point(px, py)
  <2>1. S!Point(H0 - 1 - b, a - off).x = H0 - 1 - b /\ S!Point(H0 - 1 - b, a - off).y = a - off
    BY DEF S!Point
  <2> QED
    BY <1>9, <1>10, <2>1 DEF S!Clamped
<1> QED
  BY <1>2, <1>8, <1>11

\* With every profile that parse_device_profile accepts, each logical pixel is drawn on the
\* screen and no two on one place, and a touch where the transform of the panel puts a
\* pixel means that pixel; and a tap that evdev_inject holds is seen by the program, once
\* it has read what there is, as a press on its screen, and of exactly the point that was
\* asked for on a panel that counts pixels.
THEOREM TouchesAreWhereDrawn == S!Spec => []TouchIsWhereDrawn
<1>1. S!MappingInv => TouchIsWhereDrawn
  <2> SUFFICES ASSUME S!MappingInv PROVE TouchIsWhereDrawn
    OBVIOUS
  <2>0. S!MappingTypes /\ S!ToolInv /\ S!KernelInv /\ S!PointerInv
    BY DEF S!MappingInv
  <2>1. ASSUME smProfile # S!NoProfile, NEW p \in S!Points(smProfile.logical),
               NEW q \in S!Points(smProfile.logical)
        PROVE  LET shown == S!rotate_logical(p, smProfile.logical, smProfile.display)
                   felt  == S!rotate_logical(p, smProfile.logical, smProfile.touch)
               IN /\ S!Inside(shown, smProfile.physical)
                  /\ shown = S!rotate_logical(q, smProfile.logical, smProfile.display) => p = q
                  /\ S!physical_touch_to_logical(felt, smProfile) = p
                  /\ S!Inside(S!physical_touch_to_logical(shown, smProfile), smProfile.logical)
    <3>1. smProfile \in S!Profiles /\ S!Accepted(smProfile)
      BY <2>0, <2>1 DEF S!MappingTypes
    <3> PICK size, screen, t, u : /\ size = smProfile.logical /\ screen = smProfile.physical
                                  /\ t = smProfile.display /\ u = smProfile.touch
      OBVIOUS
    <3>2. /\ size \in S!Extents /\ screen \in S!Extents
          /\ t \in S!Transforms /\ u \in S!Transforms
      BY <3>1, MappingInstance DEF S!MappingAssumption, S!Profiles
    <3>3. Turn(t) /\ Turn(u)
      BY <3>2, MappingInstance DEF S!MappingAssumption, S!Transforms, Turn
    <3>4. \A c \in S!Corners(size) : S!Inside(S!rotate_logical(c, size, t), screen)
      BY <3>1 DEF S!Accepted
    <3>5. p \in S!Points(size) /\ q \in S!Points(size)
      OBVIOUS
    <3>6. S!Inside(S!rotate_logical(p, size, t), screen)
      BY <3>2, <3>3, <3>4, <3>5, CornersSuffice
    <3>7. S!rotate_logical(p, size, t) = S!rotate_logical(q, size, t) => p = q
      <4>1. /\ S!inverse_rotate(S!rotate_logical(p, size, t), size, t) = p
            /\ S!inverse_rotate(S!rotate_logical(q, size, t), size, t) = q
        BY <3>2, <3>3, <3>5, FeltWhereTurned
      <4> QED
        BY <4>1
    <3>8. S!inverse_rotate(S!rotate_logical(p, size, u), size, u) = p
      BY <3>2, <3>3, <3>5, FeltWhereTurned
    <3>9. S!Inside(S!inverse_rotate(S!rotate_logical(p, size, t), size, u), size)
      <4>1. S!rotate_logical(p, size, t) \in S!Points(screen)
        BY <3>6 DEF S!Inside
      <4>2. PICK x \in 0..(screen.width - 1), y \in 0..(screen.height - 1) :
              S!rotate_logical(p, size, t) = S!Point(x, y)
        BY <3>2, <4>1, PointOf
      <4>3. x \in Int /\ y \in Int
        OBVIOUS
      <4> QED
        BY <3>2, <3>3, <4>2, <4>3, FeltInside
    <3> QED
      BY <3>6, <3>7, <3>8, <3>9 DEF S!physical_touch_to_logical
  <2>2. ASSUME smTool # <<>>, Head(smTool).code = "hold", smQueue = <<>>
        PROVE  /\ smPointer.pressed /\ S!Inside(smPointer.point, S!Logical)
               /\ S!InPixels(smAxes.x, S!Physical.width) /\ S!InPixels(smAxes.y, S!Physical.height) =>
                    smPointer.point = smTarget
    <3> PICK n : n = Len(smTool)
      OBVIOUS
    <3> PICK tl, tv, taps, e : /\ tl = smTool /\ tv = Tail(smTool) /\ taps = S!TapEvents(smTarget)
                               /\ e = smTool[1]
      OBVIOUS
    <3> PICK tx, ty : /\ tx = smTarget.y + MappingTouchOffset
                      /\ ty = S!Physical.height - 1 - smTarget.x
      OBVIOUS
    <3>0. smTarget \in S!Points(S!Logical)
      BY <2>0 DEF S!MappingTypes
    <3>1. tl \in Seq([code : S!Codes \cup {"hold"}, value : Int]) /\ EndOf(tl, taps)
      BY <2>0 DEF S!ToolInv, EndOf
    <3>2. TakenFrom(tl, tv) /\ Head(smTool) = e
      BY <2>2, <3>1, TailOf DEF TakenFrom
    <3>3. n \in 1..7 /\ e = taps[8 - n]
      BY <3>1, <3>2, EndShortened
    <3>4. Listed(taps, tx, ty)
      BY <3>0, TapListed DEF Listed
    <3>5. NextOf(n, e, tx, ty)
      BY <3>3, <3>4, EventsLeft
    <3>6. n = 3
      <4>1. e.code = "hold"
        BY <2>2, <3>2
      <4> QED
        BY <3>5, <4>1 DEF NextOf, S!Event
    <3>7. smKernel.id = 1 /\ smKernel.x = tx /\ smKernel.y = ty
      BY <2>0, <3>6 DEF S!KernelInv
    <3>8. /\ smPointer.raw.x = tx /\ smPointer.raw.y = ty
          /\ S!Flag(smPointer.pressed) = 1
      <4>1. \A codes, seen, value : S!Leaves(smQueue, codes, seen, value) => seen = value
        <5>1. \A i \in DOMAIN smQueue : FALSE
          BY <2>2
        <5> QED
          BY <5>1 DEF S!Leaves
      <4>2. /\ S!Leaves(smQueue, {"x"}, smPointer.raw.x, tx)
            /\ S!Leaves(smQueue, {"y"}, smPointer.raw.y, ty)
            /\ S!Leaves(smQueue, {"id", "touch"}, S!Flag(smPointer.pressed), S!Flag(1 >= 0))
        BY <2>0, <3>7 DEF S!PointerInv
      <4>3. S!Flag(1 >= 0) = 1
        BY DEF S!Flag
      <4> QED
        BY <4>1, <4>2, <4>3
    <3>9. smPointer.pressed
      BY <3>8 DEF S!Flag
    <3>10. S!Inside(smPointer.point, S!Logical)
      BY <2>0 DEF S!MappingTypes, S!Inside
    <3>11. smPointer.point = S!map_raw(smPointer.raw)
      <4>1. PICK px \in 0..(S!Logical.width - 1), py \in 0..(S!Logical.height - 1) :
              smTarget = S!Point(px, py)
        BY <3>0 DEF S!Points
      <4>2. smTarget.y = py /\ py >= 0 /\ py \in Int
        BY <4>1 DEF S!Point
      <4>3. MappingTouchOffset \in Nat \ {0}
        BY MappingInstance DEF S!MappingAssumption
      <4>4. smPointer.raw.x # 0
        BY <3>8, <4>2, <4>3
      <4>5. smPointer.raw # S!Point(0, 0)
        BY <4>4 DEF S!Point
      <4> QED
        BY <2>0, <4>5 DEF S!PointerInv
    <3>12. ASSUME S!InPixels(smAxes.x, S!Physical.width), S!InPixels(smAxes.y, S!Physical.height)
           PROVE  S!map_raw(smPointer.raw) = smTarget
      BY <2>0, <3>0, <3>8, <3>12, SeenWhereTapped
    <3> QED
      BY <3>9, <3>10, <3>11, <3>12
  <2> QED
    BY <2>1, <2>2 DEF TouchIsWhereDrawn, S!TouchIsWhereDrawn
<1> QED
  BY <1>1, MappingInvariant, PTL

-----------------------------------------------------------------------------
(* What 2048 keeps (Game2048).                                             *)

\* There is a cell whatever two cells are taken, and none of a new game's tiles wins
\* (Game2048Model::reset).
LEMMA CellsAreEnough ==
    /\ GameWinValue \in Nat /\ GameWinValue > 4
    /\ {0, 1, 2} \subseteq G!Cells
<1>1. GameRows \in Nat /\ GameColumns \in Nat /\ GameRows * GameColumns > 2
      /\ GameWinValue \in Nat /\ GameWinValue > 4
  BY GameInstance DEF G!GameAssumption
<1>2. PICK n \in Int : n = GameRows * GameColumns
  BY <1>1
<1>3. n > 2 /\ G!Cells = 0..(n - 1)
  BY <1>1, <1>2 DEF G!Cells
<1> QED
  BY <1>1, <1>3

\* A board with an empty cell and without a high tile is one to play on
\* (phase_for_board).
LEMMA OpenBoardPlays ==
    ASSUME NEW board, NEW e \in G!Cells, board[e] = 0,
           \A c \in G!Cells : board[c] \in {0, 2, 4}
    PROVE  G!phase_for_board(board) = "playing"
<1>1. ~\E c \in G!Cells : board[c] >= GameWinValue
  BY CellsAreEnough
<1> QED
  BY <1>1 DEF G!phase_for_board

\* So is the empty one, which is what undo_ holds before the first move.
LEMMA NoGamePlays ==
    /\ G!phase_for_board(G!NoGame.board) = "playing"
    /\ G!NoGame.phase = "playing" /\ G!NoGame.score = 0
<1>1. \A c \in G!Cells : G!EmptyBoard[c] = 0
  BY DEF G!EmptyBoard
<1>2. 0 \in G!Cells
  BY CellsAreEnough
<1>3. G!phase_for_board(G!EmptyBoard) = "playing"
  BY <1>1, <1>2, OpenBoardPlays
<1> QED
  BY <1>3 DEF G!NoGame

\* A new game has two tiles and goes on (Game2048Model::reset).
LEMMA FreshPlays ==
    ASSUME NEW g \in G!Fresh
    PROVE  G!phase_for_board(g.board) = "playing" /\ g.phase = "playing" /\ g.score = 0
<1>1. /\ g.board \in UNION {G!Spawned(b) : b \in G!Spawned(G!EmptyBoard)}
      /\ g.phase = "playing" /\ g.score = 0
  BY DEF G!Fresh
<1>2. PICK b \in G!Spawned(G!EmptyBoard) : g.board \in G!Spawned(b)
  BY <1>1
<1>3. PICK c \in G!Cells, v \in {2, 4} : b = [G!EmptyBoard EXCEPT ![c] = v]
  BY <1>2 DEF G!Spawned
<1>4. PICK d \in G!Cells, w \in {2, 4} : g.board = [b EXCEPT ![d] = w]
  BY <1>2 DEF G!Spawned
<1>5. \A x \in G!Cells : b[x] = IF x = c THEN v ELSE 0
  BY <1>3 DEF G!EmptyBoard
<1>6. DOMAIN b = G!Cells
  BY <1>3 DEF G!EmptyBoard
<1>7. \A x \in G!Cells : g.board[x] = IF x = d THEN w ELSE IF x = c THEN v ELSE 0
  BY <1>4, <1>5, <1>6
<1>8. PICK e \in {0, 1, 2} : e # c /\ e # d
  OBVIOUS
<1>9. e \in G!Cells /\ g.board[e] = 0
  BY <1>7, <1>8, CellsAreEnough
<1>10. \A x \in G!Cells : g.board[x] \in {0, 2, 4}
  BY <1>7
<1>11. G!phase_for_board(g.board) = "playing"
  BY <1>9, <1>10, OpenBoardPlays
<1> QED
  BY <1>1, <1>11

\* A move leads to the phase of the board it makes and never past the best score
\* (run_move); the game it started from is the one undo goes back to.
LEMMA MoveIsSound ==
    ASSUME G!GameInv, NEW direction, G!RunMove(direction)
    PROVE  /\ gBest' \in Nat /\ gBest' >= gBest
           /\ G!Sound(gGame)' /\ G!Sound(gUndoState)'
<1>1. gBest \in Nat /\ G!Sound(gGame) /\ G!Sound(gUndoState)
  BY DEF G!GameInv
<1>2. CASE gAnimating' = "no" /\ UNCHANGED G!rules
  BY <1>1, <1>2 DEF G!rules, G!Sound
<1>3. CASE ~(gAnimating' = "no" /\ UNCHANGED G!rules)
  <2>1. /\ \E score \in 0..GameMaxScore, b \in G!Spawned(G!Moved(gGame.board, direction)) :
                /\ score = gGame.score + G!Score(gGame.board, direction)
                /\ gGame' = [board |-> b, score |-> score, phase |-> G!phase_for_board(b)]
        /\ gBest' = G!Larger(gBest, gGame'.score)
        /\ gUndoState' = gGame
    BY <1>3 DEF G!RunMove, G!GameOf
  <2>2. PICK score \in 0..GameMaxScore, b \in G!Spawned(G!Moved(gGame.board, direction)) :
             gGame' = [board |-> b, score |-> score, phase |-> G!phase_for_board(b)]
    BY <2>1
  <2>3. gGame'.board = b /\ gGame'.score = score /\ gGame'.phase = G!phase_for_board(b)
    BY <2>2
  <2>4. score \in Nat
    BY GameInstance DEF G!GameAssumption
  <2>5. gBest' \in Nat /\ gBest' >= gBest /\ score <= gBest'
    BY <1>1, <2>1, <2>3, <2>4 DEF G!Larger
  <2>6. G!Sound(gGame)'
    BY <2>3, <2>4, <2>5 DEF G!Sound
  <2>7. gGame.score \in Nat /\ gGame.score <= gBest /\ G!phase_for_board(gGame.board) = gGame.phase
    BY <1>1 DEF G!Sound
  <2>8. gGame.score <= gBest'
    BY <1>1, <2>5, <2>7
  <2>9. G!Sound(gUndoState)'
    BY <2>1, <2>7, <2>8 DEF G!Sound
  <2> QED
    BY <2>5, <2>6, <2>9
<1> QED
  BY <1>2, <1>3

\* What is known of the record survives what does not write it and does not lower the
\* best score (every handler between two saves).
LEMMA RecordStays ==
    ASSUME G!GameInv, gSaved' = gSaved, gForgotten' = gForgotten,
           gBest' \in Nat, gRunning' => gRunning /\ gBest' >= gBest
    PROVE  gSaved' # G!NoRecord =>
               /\ {gSaved'.best, gSaved'.game.score, gSaved'.undo.score} \subseteq Nat
               /\ G!Restorable(gSaved')
               /\ gRunning' /\ ~gForgotten' => gSaved'.best <= gBest'
<1> SUFFICES ASSUME gSaved # G!NoRecord
             PROVE  /\ {gSaved.best, gSaved.game.score, gSaved.undo.score} \subseteq Nat
                    /\ G!Restorable(gSaved)
                    /\ gRunning' /\ ~gForgotten' => gSaved.best <= gBest'
  OBVIOUS
<1>1. /\ {gSaved.best, gSaved.game.score, gSaved.undo.score} \subseteq Nat
      /\ G!Restorable(gSaved)
      /\ gRunning /\ ~gForgotten => gSaved.best <= gBest
      /\ gBest \in Nat
  BY DEF G!GameInv
<1>2. CASE gRunning' /\ ~gForgotten'
  BY <1>1, <1>2
<1> QED
  BY <1>1, <1>2

\* The record of sound rules can be restored, and its best score is the one shown
\* (save_game_state).
LEMMA RecordIsSound ==
    ASSUME NEW g, NEW u, NEW b \in Nat, NEW v,
           G!phase_for_board(g.board) = g.phase, g.score \in Nat, g.score <= b,
           G!phase_for_board(u.board) = u.phase, u.score \in Nat, u.score <= b,
           NEW record, record = [game |-> g, best |-> b, undo |-> u, valid |-> v]
    PROVE  /\ {record.best, record.game.score, record.undo.score} \subseteq Nat
           /\ G!Restorable(record) /\ record.best = b
<1>1. record.game = g /\ record.best = b /\ record.undo = u
  OBVIOUS
<1> QED
  BY <1>1 DEF G!Restorable

\* A start takes the game of the record or makes a new one (create).
LEMMA StartIsSound == G!GameInv /\ G!create => G!GameInv'
<1> SUFFICES ASSUME G!GameInv, G!create PROVE G!GameInv'
  OBVIOUS
<1>1. gRunning' /\ gSaved' = gSaved /\ gAnimating' = gAnimating /\ gConfirming' = gConfirming
  BY DEF G!create
<1>2. gSaved # G!NoRecord =>
          /\ {gSaved.best, gSaved.game.score, gSaved.undo.score} \subseteq Nat
          /\ G!Restorable(gSaved)
  BY DEF G!GameInv
<1>3. CASE /\ gSaved # G!NoRecord
           /\ gGame' = gSaved.game /\ gBest' = gSaved.best /\ gUndoState' = gSaved.undo
  <2>1. gBest' \in Nat
    BY <1>2, <1>3
  <2>2. G!Sound(gGame)'
    BY <1>2, <1>3 DEF G!Sound, G!Restorable
  <2>3. G!Sound(gUndoState)'
    BY <1>2, <1>3 DEF G!Sound, G!Restorable
  <2>4. gSaved'.best <= gBest'
    BY <1>1, <1>2, <1>3
  <2> QED
    BY <1>1, <1>2, <2>1, <2>2, <2>3, <2>4 DEF G!GameInv
<1>4. CASE /\ gGame' \in G!Fresh /\ gBest' = 0 /\ gUndoState' = G!NoGame
           /\ gForgotten' = (gForgotten \/ gSaved # G!NoRecord)
  <2>1. G!Sound(gGame)'
    BY <1>4, FreshPlays DEF G!Sound
  <2>2. G!Sound(gUndoState)'
    BY <1>4, NoGamePlays DEF G!Sound
  <2>3. gSaved' # G!NoRecord => gForgotten'
    BY <1>1, <1>4
  <2> QED
    BY <1>1, <1>2, <1>4, <2>1, <2>2, <2>3 DEF G!GameInv
<1> QED
  BY <1>3, <1>4 DEF G!create

\* A handler that writes the record writes one that can be restored (persist).
LEMMA SaveIsSound ==
    ASSUME G!GameInv, gRunning,
           gBest' \in Nat, gBest' >= gBest, gForgotten' = gForgotten,
           \/ gSaved' = gSaved
           \/ gSaved' = G!Record
           \/ gSaved' = G!Record' /\ G!Sound(gGame)' /\ G!Sound(gUndoState)'
    PROVE  gSaved' # G!NoRecord =>
               /\ {gSaved'.best, gSaved'.game.score, gSaved'.undo.score} \subseteq Nat
               /\ G!Restorable(gSaved')
               /\ gRunning' /\ ~gForgotten' => gSaved'.best <= gBest'
<1>1. CASE gSaved' = gSaved
  BY <1>1, RecordStays
<1>2. CASE gSaved' = G!Record
  <2>1. gBest \in Nat /\ G!Sound(gGame) /\ G!Sound(gUndoState)
    BY DEF G!GameInv
  <2>2. gSaved' = [game |-> gGame, best |-> gBest, undo |-> gUndoState, valid |-> gUndoValid]
    BY <1>2 DEF G!Record
  <2>3. /\ {gSaved'.best, gSaved'.game.score, gSaved'.undo.score} \subseteq Nat
        /\ G!Restorable(gSaved') /\ gSaved'.best = gBest
    BY <2>1, <2>2, RecordIsSound DEF G!Sound
  <2> QED
    BY <2>1, <2>3
<1>3. CASE gSaved' = G!Record' /\ G!Sound(gGame)' /\ G!Sound(gUndoState)'
  <2>1. gSaved' = [game |-> gGame', best |-> gBest', undo |-> gUndoState', valid |-> gUndoValid']
    BY <1>3 DEF G!Record
  <2>2. /\ G!phase_for_board(gGame'.board) = gGame'.phase
        /\ gGame'.score \in Nat /\ gGame'.score <= gBest'
    BY <1>3 DEF G!Sound
  <2>3. /\ G!phase_for_board(gUndoState'.board) = gUndoState'.phase
        /\ gUndoState'.score \in Nat /\ gUndoState'.score <= gBest'
    BY <1>3 DEF G!Sound
  <2>4. /\ {gSaved'.best, gSaved'.game.score, gSaved'.undo.score} \subseteq Nat
        /\ G!Restorable(gSaved') /\ gSaved'.best = gBest'
    BY <2>1, <2>2, <2>3, RecordIsSound
  <2> QED
    BY <2>4
<1> QED
  BY <1>1, <1>2, <1>3

\* A step of the program keeps what is known of the game, of the one undo goes back
\* to and of the record (game_2048_ui.cpp).
LEMMA GameStep == G!GameInv /\ [G!Next]_(G!vars) => G!GameInv'
<1> SUFFICES ASSUME G!GameInv, [G!Next]_(G!vars) PROVE G!GameInv'
  OBVIOUS
<1>i. gBest \in Nat /\ gBest >= gBest /\ G!Sound(gGame) /\ G!Sound(gUndoState)
      /\ (gAnimating # "no" \/ gConfirming => gRunning)
  BY DEF G!GameInv
<1>1. CASE G!create
  BY <1>1, StartIsSound
<1>2. CASE G!Swipe
  <2>1. gRunning /\ gRunning' /\ gSaved' = gSaved /\ gForgotten' = gForgotten
    BY <1>2 DEF G!Swipe
  <2>2. gBest' \in Nat /\ gBest' >= gBest /\ G!Sound(gGame)' /\ G!Sound(gUndoState)'
    <3>1. CASE UNCHANGED G!rules
      BY <1>i, <3>1 DEF G!rules, G!Sound
    <3>2. CASE \E d \in G!Directions : G!RunMove(d)
      BY <3>2, MoveIsSound
    <3> QED
      BY <1>2, <3>1, <3>2 DEF G!Swipe
  <2> QED
    BY <2>1, <2>2, RecordStays DEF G!GameInv
<1>3. CASE G!MotionEnds
  <2>1. gRunning /\ gRunning' /\ gSaved' = gSaved /\ gForgotten' = gForgotten
        /\ UNCHANGED G!rules
    BY <1>3, <1>i DEF G!MotionEnds
  <2>2. gBest' \in Nat /\ gBest' >= gBest /\ G!Sound(gGame)' /\ G!Sound(gUndoState)'
    BY <1>i, <2>1 DEF G!rules, G!Sound
  <2> QED
    BY <2>1, <2>2, RecordStays DEF G!GameInv
<1>4. CASE G!finish_move
  <2>1. gRunning /\ gRunning' /\ gForgotten' = gForgotten
        /\ (gSaved' = gSaved \/ gSaved' = G!Record)
    BY <1>4, <1>i DEF G!finish_move
  <2>2. gBest' \in Nat /\ gBest' >= gBest /\ G!Sound(gGame)' /\ G!Sound(gUndoState)'
    <3>1. CASE UNCHANGED G!rules
      BY <1>i, <3>1 DEF G!rules, G!Sound
    <3>2. CASE G!RunMove(gQueued)
      BY <3>2, MoveIsSound
    <3> QED
      BY <1>4, <3>1, <3>2 DEF G!finish_move
  <2> QED
    BY <2>1, <2>2, SaveIsSound DEF G!GameInv
<1>5. CASE G!undo_event
  <2>1. gRunning /\ gRunning' /\ gForgotten' = gForgotten
        /\ (gSaved' = gSaved \/ gSaved' = G!Record')
        /\ gGame' = gUndoState /\ gUndoState' = gUndoState /\ gBest' = gBest
    BY <1>5 DEF G!undo_event, G!persist, G!ui, G!Undone
  <2>2. gBest' \in Nat /\ gBest' >= gBest /\ G!Sound(gGame)' /\ G!Sound(gUndoState)'
    BY <1>i, <2>1 DEF G!Sound
  <2> QED
    BY <2>1, <2>2, SaveIsSound DEF G!GameInv
<1>6. CASE G!restart_event \/ G!cancel_restart_event
  <2>1. gRunning /\ gRunning' /\ gSaved' = gSaved /\ gForgotten' = gForgotten
        /\ UNCHANGED G!rules
    BY <1>6, <1>i DEF G!restart_event, G!cancel_restart_event
  <2>2. gBest' \in Nat /\ gBest' >= gBest /\ G!Sound(gGame)' /\ G!Sound(gUndoState)'
    BY <1>i, <2>1 DEF G!rules, G!Sound
  <2> QED
    BY <2>1, <2>2, RecordStays DEF G!GameInv
<1>7. CASE G!confirm_restart_event
  <2>1. gRunning /\ gRunning' /\ gForgotten' = gForgotten
        /\ (gSaved' = gSaved \/ gSaved' = G!Record')
        /\ gGame' \in G!Fresh /\ gUndoState' = gUndoState /\ gBest' = gBest
    BY <1>7, <1>i DEF G!confirm_restart_event, G!persist, G!BestAfterReset
  <2>2. gBest' \in Nat /\ gBest' >= gBest
    BY <1>i, <2>1
  <2>3. G!Sound(gGame)'
    BY <1>i, <2>1, FreshPlays DEF G!Sound
  <2>4. G!Sound(gUndoState)'
    BY <1>i, <2>1 DEF G!Sound
  <2> QED
    BY <2>1, <2>2, <2>3, <2>4, SaveIsSound DEF G!GameInv
<1>8. CASE G!Ends
  <2>1. gRunning /\ ~gRunning' /\ gForgotten' = gForgotten
        /\ (gSaved' = gSaved \/ gSaved' = G!Record)
        /\ gAnimating' = "no" /\ ~gConfirming'
        /\ gGame' = G!NoGame /\ gUndoState' = G!NoGame /\ gBest' = 0
    BY <1>8 DEF G!Ends
  <2>2. gBest' \in Nat /\ G!Sound(gGame)' /\ G!Sound(gUndoState)'
    BY <2>1, NoGamePlays DEF G!Sound
  <2>3. gSaved' # G!NoRecord =>
            /\ {gSaved'.best, gSaved'.game.score, gSaved'.undo.score} \subseteq Nat
            /\ G!Restorable(gSaved')
    <3>1. CASE gSaved' = gSaved
      BY <3>1 DEF G!GameInv
    <3>2. CASE gSaved' = G!Record
      <4>1. gSaved' = [game |-> gGame, best |-> gBest, undo |-> gUndoState, valid |-> gUndoValid]
        BY <3>2 DEF G!Record
      <4> QED
        BY <1>i, <4>1, RecordIsSound DEF G!Sound
    <3> QED
      BY <2>1, <3>1, <3>2
  <2> QED
    BY <2>1, <2>2, <2>3 DEF G!GameInv
<1>9. CASE UNCHANGED G!vars
  <2>1. /\ gGame' = gGame /\ gBest' = gBest /\ gUndoState' = gUndoState
        /\ gRunning' = gRunning /\ gAnimating' = gAnimating /\ gConfirming' = gConfirming
        /\ gSaved' = gSaved /\ gForgotten' = gForgotten
    BY <1>9 DEF G!vars, G!rules, G!ui
  <2> QED
    BY <2>1 DEF G!GameInv, G!Sound
<1> QED
  BY <1>1, <1>2, <1>3, <1>4, <1>5, <1>6, <1>7, <1>8, <1>9 DEF G!Next

\* Nothing runs before the first start, and what an earlier one has left on storage
\* can be restored.
LEMMA GameStarts == G!Init => G!GameInv
<1> SUFFICES ASSUME G!Init PROVE G!GameInv
  OBVIOUS
<1>1. /\ gGame = G!NoGame /\ gBest = 0 /\ gUndoState = G!NoGame
      /\ ~gRunning /\ gAnimating = "no" /\ ~gConfirming
      /\ gSaved \in {G!NoRecord} \cup {G!Kept(G!GameOf(e.board, e.score)) : e \in GameEarlier}
  BY DEF G!Init
<1>2. gBest \in Nat /\ G!Sound(gGame) /\ G!Sound(gUndoState)
  BY <1>1, NoGamePlays DEF G!Sound
<1>3. ASSUME gSaved # G!NoRecord
      PROVE  {gSaved.best, gSaved.game.score, gSaved.undo.score} \subseteq Nat /\ G!Restorable(gSaved)
  <2>1. PICK e \in GameEarlier : gSaved = G!Kept(G!GameOf(e.board, e.score))
    BY <1>1, <1>3
  <2>2. PICK g : g = G!GameOf(e.board, e.score)
    OBVIOUS
  <2>3. e.score \in Nat
    BY GameInstance DEF G!GameAssumption
  <2>4. g.board = e.board /\ g.score = e.score /\ g.phase = G!phase_for_board(g.board)
    BY <2>2 DEF G!GameOf
  <2>5. gSaved = [game |-> g, best |-> g.score, undo |-> g, valid |-> FALSE]
    BY <2>1, <2>2 DEF G!Kept
  <2>6. g.score \in Nat /\ g.score <= g.score
    BY <2>3, <2>4
  <2> QED
    BY <2>4, <2>5, <2>6, RecordIsSound
<1> QED
  BY <1>1, <1>2, <1>3 DEF G!GameInv

\* Whatever 2048 saves, at whatever point of a move, an undo or a reset, its next
\* start can load (save_game_state, restore_state).
THEOREM GamesAreRestorable == G!Spec => []SavedIsRestorable
<1>1. G!GameInv => SavedIsRestorable
  BY DEF G!GameInv, SavedIsRestorable, G!SavedIsRestorable
<1> QED
  BY <1>1, GameStarts, GameStep, PTL DEF G!Spec

\* No step puts a lower best score into the record than it had, unless a start took a
\* failed read for a first start (set_best_score, load_game_state).
THEOREM BestIsKept == G!Spec => BestSurvives
<1>1. ASSUME G!GameInv, [G!Next]_(G!vars), gSaved # G!NoRecord, gSaved'.best < gSaved.best
      PROVE  gForgotten
  <2> SUFFICES ASSUME ~gForgotten PROVE FALSE
    OBVIOUS
  <2>i. /\ gSaved.best \in Nat /\ gBest \in Nat /\ (gRunning => gSaved.best <= gBest)
        /\ (gAnimating # "no" \/ gConfirming => gRunning)
    BY <1>1 DEF G!GameInv
  <2>1. gSaved' # gSaved
    BY <1>1, <2>i
  <2>2. CASE gRunning /\ (gSaved' = G!Record \/ (gSaved' = G!Record' /\ gBest' = gBest))
    <3>1. gSaved'.best = gBest
      BY <2>2 DEF G!Record
    <3> QED
      BY <1>1, <2>i, <2>2, <3>1
  <2>3. CASE G!finish_move \/ G!Ends
    BY <2>i, <2>1, <2>2, <2>3 DEF G!finish_move, G!Ends
  <2>4. CASE G!undo_event
    BY <2>1, <2>2, <2>4 DEF G!undo_event, G!persist
  <2>5. CASE G!confirm_restart_event
    BY <2>i, <2>1, <2>2, <2>5 DEF G!confirm_restart_event, G!persist, G!BestAfterReset
  <2>6. CASE G!create \/ G!Swipe \/ G!MotionEnds \/ G!restart_event \/ G!cancel_restart_event
    BY <2>1, <2>6 DEF G!create, G!Swipe, G!MotionEnds, G!restart_event, G!cancel_restart_event
  <2>7. CASE UNCHANGED G!vars
    BY <2>1, <2>7 DEF G!vars
  <2> QED
    BY <1>1, <2>3, <2>4, <2>5, <2>6, <2>7 DEF G!Next
<1>2. G!GameInv /\ [G!Next]_(G!vars)
          => [(gSaved # G!NoRecord /\ gSaved'.best < gSaved.best) => gForgotten]_(G!vars)
  BY <1>1
<1> QED
  BY <1>2, GameStarts, GameStep, PTL DEF G!Spec, BestSurvives, G!BestSurvives

-----------------------------------------------------------------------------
(* What is kept for an object under its address (JsObjects).               *)

\* Destroying a detached object leaves nothing of it (~JQBaseObject, _on_js_detach).
LEMMA NothingKept ==
    ASSUME NEW member, DOMAIN member = B!Members,
           member["gc_register"] = 0, member["value_holder"] = 0
    PROVE  /\ DOMAIN B!destroyed(member) = B!Members
           /\ \A m \in B!Members : B!destroyed(member)[m] = 0
  BY DEF B!destroyed, B!Members

\* Detaching gives back what only an attached object is given, and nothing is made for
\* another object.
LEMMA DetachedKeeps ==
    ASSUME NEW member, DOMAIN member = B!Members
    PROVE  /\ DOMAIN B!detached(member) = B!Members
           /\ B!detached(member)["gc_register"] = 0 /\ B!detached(member)["value_holder"] = 0
           /\ \A m \in B!Members : B!detached(member)[m] \in {0, member[m]}
  BY DEF B!detached, B!Members

\* What is found under the address when it is used (getOrCreate...) was made for the
\* object that has it.
LEMMA MemberIsUsed ==
    ASSUME B!MembersInv, NEW m \in B!Members, B!UseMember(m)
    PROVE  B!MembersInv'
<1>1. /\ joObject' = joObject /\ joLife' = joLife /\ joLife \in {"attached", "detached"}
      /\ joMember' = [joMember EXCEPT ![m] = B!Found(m)]
      /\ joLife = "detached" => m \in {"signal_register", "executor"}
  BY DEF B!UseMember
<1>2. /\ joObject \in Nat /\ DOMAIN joMember = B!Members
      /\ \A n \in B!Members : joMember[n] \in {0, joObject}
      /\ joLife = "detached" => joMember["gc_register"] = 0 /\ joMember["value_holder"] = 0
  BY DEF B!MembersInv, B!OwnMembers
<1>3. B!Found(m) = joObject
  BY <1>1, <1>2 DEF B!Found
<1>4. DOMAIN joMember' = B!Members /\ \A n \in B!Members : joMember'[n] \in {0, joObject}
  BY <1>1, <1>2, <1>3
<1>5. joLife' = "detached" => joMember'["gc_register"] = 0 /\ joMember'["value_holder"] = 0
  BY <1>1, <1>2 DEF B!Members
<1> QED
  BY <1>1, <1>2, <1>4, <1>5 DEF B!MembersInv, B!OwnMembers

\* The last reference goes: the object does, and what it was given after it was
\* detached (_OnPublish, ~JQBaseObject).
LEMMA ObjectEnds ==
    ASSUME B!MembersInv, joLife # "attached", joObject' = joObject,
           \/ joLife' = "none" /\ joMember' = B!destroyed(joMember)
           \/ joLife' = joLife /\ joMember' = joMember
    PROVE  B!MembersInv'
<1>i. /\ joObject \in Nat /\ DOMAIN joMember = B!Members /\ B!OwnMembers
      /\ joLife \in {"none", "attached", "detached"}
      /\ joLife = "detached" => joMember["gc_register"] = 0 /\ joMember["value_holder"] = 0
  BY DEF B!MembersInv
<1>1. CASE joLife' = joLife /\ joMember' = joMember
  BY <1>i, <1>1 DEF B!MembersInv, B!OwnMembers
<1>2. CASE joLife' = "none" /\ joMember' = B!destroyed(joMember) /\ joLife \in {"none", "detached"}
  <2>1. joMember["gc_register"] = 0 /\ joMember["value_holder"] = 0
    BY <1>i, <1>2 DEF B!OwnMembers, B!Members
  <2>2. DOMAIN joMember' = B!Members /\ \A m \in B!Members : joMember'[m] = 0
    BY <1>i, <1>2, <2>1, NothingKept
  <2> QED
    BY <1>i, <1>2, <2>2 DEF B!MembersInv, B!OwnMembers
<1> QED
  BY <1>1, <1>2 DEF B!MembersInv

\* A step keeps what is known of the members (JQObjectTemplate.cpp).
LEMMA ObjectsStep == B!MembersInv /\ [B!Next]_(B!vars) => B!MembersInv'
<1> SUFFICES ASSUME B!MembersInv, [B!Next]_(B!vars) PROVE B!MembersInv'
  OBVIOUS
<1>i. /\ joObject \in Nat /\ DOMAIN joMember = B!Members /\ B!OwnMembers
      /\ joLife \in {"none", "attached", "detached"}
      /\ joLife = "detached" => joMember["gc_register"] = 0 /\ joMember["value_holder"] = 0
  BY DEF B!MembersInv
<1>1. CASE B!NewObject
  <2>1. /\ joLife = "none" /\ joObject' = joObject + 1 /\ joLife' = "attached"
        /\ joMember' = [joMember EXCEPT !["gc_register"] = B!Found("gc_register")]
    BY <1>1 DEF B!NewObject
  <2>2. \A m \in B!Members : joMember[m] = 0
    BY <1>i, <2>1 DEF B!OwnMembers
  <2>3. B!Found("gc_register") = joObject'
    BY <2>2 DEF B!Found, B!Members
  <2>4. DOMAIN joMember' = B!Members /\ \A m \in B!Members : joMember'[m] \in {0, joObject'}
    BY <1>i, <2>1, <2>2, <2>3
  <2> QED
    BY <1>i, <2>1, <2>4 DEF B!MembersInv, B!OwnMembers
<1>2. CASE \E m \in B!Members : B!UseMember(m)
  BY <1>2, MemberIsUsed
<1>3. CASE B!Detach
  <2>1. /\ joObject' = joObject
        /\ \/ joLife' = "detached" /\ joMember' = B!detached(joMember)
           \/ joLife' = "none" /\ joMember' = B!destroyed(B!detached(joMember))
    BY <1>3 DEF B!Detach
  <2>2. PICK left : left = B!detached(joMember)
    OBVIOUS
  <2>3. /\ DOMAIN left = B!Members
        /\ left["gc_register"] = 0 /\ left["value_holder"] = 0
        /\ \A m \in B!Members : left[m] \in {0, joObject}
    BY <1>i, <2>2, DetachedKeeps DEF B!OwnMembers
  <2>4. CASE joLife' = "detached" /\ joMember' = left
    BY <1>i, <2>1, <2>3, <2>4 DEF B!MembersInv, B!OwnMembers
  <2>5. CASE joLife' = "none" /\ joMember' = B!destroyed(left)
    <3>1. DOMAIN joMember' = B!Members /\ \A m \in B!Members : joMember'[m] = 0
      BY <2>3, <2>5, NothingKept
    <3> QED
      BY <1>i, <2>1, <2>5, <3>1 DEF B!MembersInv, B!OwnMembers
  <2> QED
    BY <2>1, <2>2, <2>4, <2>5
<1>u. CASE UNCHANGED <<joObject, joLife, joMember>>
  BY <1>i, <1>u DEF B!MembersInv, B!OwnMembers
<1>4. CASE B!RunTask
  <2>1. CASE joLife = "attached"
    BY <1>4, <1>u, <2>1 DEF B!RunTask
  <2>2. CASE joLife # "attached"
    BY <1>4, <2>2, ObjectEnds DEF B!RunTask
  <2> QED
    BY <2>1, <2>2
<1>5. CASE B!EndDelivery
  <2>1. \/ joLife = "detached" /\ joLife' = "none" /\ joMember' = B!destroyed(joMember)
        \/ UNCHANGED <<joLife, joMember>>
    BY <1>5 DEF B!EndDelivery
  <2>2. joObject' = joObject
    BY <1>5 DEF B!EndDelivery
  <2> QED
    BY <1>u, <2>1, <2>2, ObjectEnds
<1>6. CASE B!OffAll \/ B!CallNext \/ B!Returned
  BY <1>6, <1>u DEF B!OffAll, B!CallNext, B!Returned, B!Unsubscribed
<1>7. ASSUME NEW t, B!OffTopic(t) \/ B!PostMessage(t) \/ B!PublishNow(t) \/ B!OffToken(t)
      PROVE  B!MembersInv'
  BY <1>7, <1>u DEF B!OffTopic, B!PostMessage, B!PublishNow, B!OffToken, B!Unsubscribed
<1>8. ASSUME NEW t, NEW f, B!OffFunction(t, f) \/ B!Subscribe(t, f)
      PROVE  B!MembersInv'
  BY <1>8, <1>u DEF B!OffFunction, B!Subscribe, B!Unsubscribed
<1>9. CASE UNCHANGED B!vars
  BY <1>9, <1>u DEF B!vars
<1> QED
  BY <1>1, <1>2, <1>3, <1>4, <1>5, <1>6, <1>7, <1>8, <1>9 DEF B!Next

\* The number of elements is the same seen from inside the instance.
LEMMA ObjectsCount ==
    ASSUME NEW X
    PROVE  /\ B!Cardinality(X) = Cardinality(X)
           /\ B!IsFiniteSet(X) <=> IsFiniteSet(X)
  BY DEF B!Cardinality, Cardinality, B!IsFiniteSet, IsFiniteSet

\* What Uses counts.
LEMMA UsesCount ==
    ASSUME NEW f, NEW X
    PROVE  B!Uses(f, X) = Cardinality({s \in X : s.function = f})
<1> DEFINE ofX == {s \in X : s.function = f}
<1>1. B!Uses(f, X) = B!Cardinality(ofX)
  BY Zenon DEF B!Uses
<1> HIDE DEF ofX
<1>2. B!Cardinality(ofX) = Cardinality(ofX)
  BY ObjectsCount
<1> QED
  BY <1>1, <1>2 DEF ofX

\* The subscriptions of a function among two sets that share none.
LEMMA UsesJoined ==
    ASSUME NEW f, NEW X, NEW Y, IsFiniteSet(X), IsFiniteSet(Y), X \cap Y = {}
    PROVE  /\ B!Uses(f, X) \in Int /\ B!Uses(f, Y) \in Int
           /\ B!Uses(f, X \cup Y) = B!Uses(f, X) + B!Uses(f, Y)
<1> DEFINE ofX == {s \in X : s.function = f}
           ofY == {s \in Y : s.function = f}
<1>1. IsFiniteSet(ofX) /\ IsFiniteSet(ofY)
  BY FS_Subset
<1>2. Cardinality(ofX) \in Int /\ Cardinality(ofY) \in Int
  BY <1>1, FS_CardinalityType
<1>3. Cardinality(ofX \cap ofY) = 0
  <2>1. ofX \cap ofY = {}
    OBVIOUS
  <2>2. Cardinality({}) = 0
    BY FS_EmptySet
  <2> HIDE DEF ofX, ofY
  <2> QED
    BY <2>1, <2>2, Zenon
<1>4. {s \in X \cup Y : s.function = f} = ofX \cup ofY
  OBVIOUS
<1>5. /\ B!Uses(f, X) = Cardinality(ofX) /\ B!Uses(f, Y) = Cardinality(ofY)
      /\ B!Uses(f, X \cup Y) = Cardinality({s \in X \cup Y : s.function = f})
  BY UsesCount
<1> HIDE DEF ofX, ofY
<1>6. Cardinality(ofX \cup ofY)
        = Cardinality(ofX) + Cardinality(ofY) - Cardinality(ofX \cap ofY)
  BY <1>1, FS_Union
<1>7. Cardinality(ofX \cup ofY) = Cardinality(ofX) + Cardinality(ofY)
  BY <1>2, <1>3, <1>6
<1> QED
  BY <1>2, <1>4, <1>5, <1>7

\* Those that are left when some of them go.
LEMMA UsesLeft ==
    ASSUME NEW f, NEW X, IsFiniteSet(X), NEW gone \in SUBSET X
    PROVE  /\ B!Uses(f, X) \in Int /\ B!Uses(f, gone) \in Int
           /\ B!Uses(f, X \ gone) = B!Uses(f, X) - B!Uses(f, gone)
<1>1. IsFiniteSet(gone) /\ IsFiniteSet(X \ gone)
  BY FS_Subset
<1>2. (X \ gone) \cap gone = {} /\ (X \ gone) \cup gone = X
  OBVIOUS
<1>3. /\ B!Uses(f, X \ gone) \in Int /\ B!Uses(f, gone) \in Int
      /\ B!Uses(f, (X \ gone) \cup gone) = B!Uses(f, X \ gone) + B!Uses(f, gone)
  BY <1>1, <1>2, UsesJoined
<1>4. B!Uses(f, X) = B!Uses(f, X \ gone) + B!Uses(f, gone)
  BY <1>2, <1>3
<1> QED
  BY <1>3, <1>4

\* How often the deliveries of a stack took a function.
TakenBy(f, stack) == Cardinality({d \in B!Delivered(stack) : d[2].function = f})

\* Deliveries begin and end innermost: what the stack took is what the rest of it took
\* and what the last of them did.
LEMMA LastDelivery ==
    ASSUME NEW stack, NEW rest, NEW n \in Nat,
           DOMAIN stack = 1..(n + 1), DOMAIN rest = 1..n,
           \A i \in 1..n : stack[i] = rest[i],
           IsFiniteSet(B!Delivered(rest)), IsFiniteSet(stack[n + 1].all)
    PROVE  /\ IsFiniteSet(B!Delivered(stack))
           /\ \A f : /\ TakenBy(f, rest) \in Int /\ B!Uses(f, stack[n + 1].all) \in Int
                     /\ TakenBy(f, stack) = TakenBy(f, rest) + B!Uses(f, stack[n + 1].all)
<1> DEFINE last == {n + 1} \X stack[n + 1].all
<1>1. B!Delivered(stack) = B!Delivered(rest) \cup last
  <2>1. \A d : d \in B!Delivered(stack) <=> \E i \in 1..(n + 1) : d \in {i} \X stack[i].all
    BY DEF B!Delivered
  <2>2. \A d : d \in B!Delivered(rest) <=> \E i \in 1..n : d \in {i} \X rest[i].all
    BY DEF B!Delivered
  <2>3. \A i : i \in 1..(n + 1) <=> (i \in 1..n \/ i = n + 1)
    OBVIOUS
  <2>4. ASSUME NEW d PROVE d \in B!Delivered(stack) <=> d \in B!Delivered(rest) \cup last
    <3>1. CASE \E i \in 1..n : d \in {i} \X rest[i].all
      BY <2>1, <2>2, <2>3, <3>1
    <3>2. CASE ~\E i \in 1..n : d \in {i} \X rest[i].all
      BY <2>1, <2>2, <2>3, <3>2
    <3> QED
      BY <3>1, <3>2
  <2> QED
    BY <2>4
<1>2. \A d \in B!Delivered(rest) : d \notin last
  BY DEF B!Delivered
<1>3. IsFiniteSet({n + 1}) /\ Cardinality({n + 1}) = 1
  BY FS_Singleton
<1>4. IsFiniteSet(last)
  BY <1>3, FS_Product
<1>5. IsFiniteSet(B!Delivered(stack))
  <2> HIDE DEF last
  <2>1. IsFiniteSet(B!Delivered(rest) \cup last)
    BY <1>4, FS_Union
  <2> QED
    BY <1>1, <2>1, Zenon
<1>6. ASSUME NEW f
      PROVE  /\ TakenBy(f, rest) \in Int /\ B!Uses(f, stack[n + 1].all) \in Int
             /\ TakenBy(f, stack) = TakenBy(f, rest) + B!Uses(f, stack[n + 1].all)
  <2> DEFINE earlier == {d \in B!Delivered(rest) : d[2].function = f}
             wanted == {s \in stack[n + 1].all : s.function = f}
             latest == {d \in last : d[2].function = f}
  <2>1. IsFiniteSet(earlier) /\ IsFiniteSet(latest) /\ IsFiniteSet(wanted)
    BY <1>4, FS_Subset
  <2>2. /\ Cardinality(earlier) \in Int /\ Cardinality(latest) \in Int
        /\ Cardinality(wanted) \in Int
    BY <2>1, FS_CardinalityType
  <2>3. latest = {n + 1} \X wanted
    OBVIOUS
  <2>4. {d \in B!Delivered(stack) : d[2].function = f} = earlier \cup latest
    BY <1>1
  <2>5. Cardinality(earlier \cap latest) = 0
    <3>1. earlier \cap latest = {}
      BY <1>2
    <3>2. Cardinality({}) = 0
      BY FS_EmptySet
    <3> HIDE DEF earlier, latest
    <3> QED
      BY <3>1, <3>2, Zenon
  <2>6. B!Uses(f, stack[n + 1].all) = Cardinality(wanted)
    BY UsesCount
  <2>7. /\ TakenBy(f, rest) = Cardinality(earlier)
        /\ TakenBy(f, stack) = Cardinality(earlier \cup latest)
    BY <2>4, Zenon DEF TakenBy
  <2> HIDE DEF earlier, latest, wanted
  <2>8. Cardinality({n + 1} \X wanted) = Cardinality({n + 1}) * Cardinality(wanted)
    BY <1>3, <2>1, FS_Product
  <2>9. Cardinality(latest) = Cardinality(wanted)
    BY <1>3, <2>2, <2>3, <2>8
  <2>10. Cardinality(earlier \cup latest)
           = Cardinality(earlier) + Cardinality(latest) - Cardinality(earlier \cap latest)
    BY <2>1, FS_Union
  <2>11. Cardinality(earlier \cup latest) = Cardinality(earlier) + Cardinality(wanted)
    BY <2>2, <2>5, <2>9, <2>10
  <2> QED
    BY <2>2, <2>6, <2>7, <2>11
<1> QED
  BY <1>5, <1>6

\* What the invariant says of a state, counted in FiniteSets itself.
LEMMA ReferencesNow ==
    ASSUME B!ReferencesInv
    PROVE  /\ joToken \in Nat
           /\ joCallbacks \subseteq B!Subscriptions /\ IsFiniteSet(joCallbacks)
           /\ \A s \in joCallbacks : s.token <= joToken
           /\ joLife # "attached" => joCallbacks = {}
           /\ joCalls \in Seq(B!Deliveries) /\ IsFiniteSet(B!Delivered(joCalls))
           /\ joHeld \in [ObjectsFunctions -> Int]
           /\ \A f \in ObjectsFunctions : joHeld[f] = B!Uses(f, joCallbacks) + TakenBy(f, joCalls)
<1>1. \A f : B!References(f) = B!Uses(f, joCallbacks) + TakenBy(f, joCalls)
  <2> SUFFICES ASSUME NEW f PROVE B!References(f) = B!Uses(f, joCallbacks) + TakenBy(f, joCalls)
    OBVIOUS
  <2> DEFINE taken == {d \in B!Delivered(joCalls) : d[2].function = f}
  <2>1. /\ B!References(f) = B!Uses(f, joCallbacks) + B!Cardinality(taken)
        /\ TakenBy(f, joCalls) = Cardinality(taken)
    BY Zenon DEF B!References, TakenBy
  <2> HIDE DEF taken
  <2>2. B!Cardinality(taken) = Cardinality(taken)
    BY ObjectsCount
  <2> QED
    BY <2>1, <2>2
<1>2. B!IsFiniteSet(joCallbacks) <=> IsFiniteSet(joCallbacks)
  BY ObjectsCount
<1>3. B!IsFiniteSet(B!Delivered(joCalls)) <=> IsFiniteSet(B!Delivered(joCalls))
  BY ObjectsCount
<1> QED
  BY <1>1, <1>2, <1>3 DEF B!ReferencesInv

\* The same for the next state, from what it holds.
LEMMA ReferencesNext ==
    ASSUME joToken' \in Nat,
           joCallbacks' \subseteq B!Subscriptions, IsFiniteSet(joCallbacks'),
           \A s \in joCallbacks' : s.token <= joToken',
           joLife' # "attached" => joCallbacks' = {},
           joCalls' \in Seq(B!Deliveries), IsFiniteSet(B!Delivered(joCalls')),
           joHeld' \in [ObjectsFunctions -> Int],
           \A f \in ObjectsFunctions : joHeld'[f] = B!Uses(f, joCallbacks') + TakenBy(f, joCalls')
    PROVE  B!ReferencesInv'
<1>1. ASSUME NEW f PROVE B!References(f)' = B!Uses(f, joCallbacks') + TakenBy(f, joCalls')
  <2> DEFINE taken == {d \in B!Delivered(joCalls') : d[2].function = f}
  <2>1. /\ B!References(f)' = B!Uses(f, joCallbacks') + B!Cardinality(taken)
        /\ TakenBy(f, joCalls') = Cardinality(taken)
    BY Zenon DEF B!References, TakenBy
  <2> HIDE DEF taken
  <2>2. B!Cardinality(taken) = Cardinality(taken)
    BY ObjectsCount
  <2> QED
    BY <2>1, <2>2
<1>2. B!IsFiniteSet(joCallbacks') <=> IsFiniteSet(joCallbacks')
  BY ObjectsCount
<1>3. B!IsFiniteSet(B!Delivered(joCalls')) <=> IsFiniteSet(B!Delivered(joCalls'))
  BY ObjectsCount
<1> QED
  BY <1>1, <1>2, <1>3 DEF B!ReferencesInv

\* What a stack took can be counted.
LEMMA TakenIsCounted ==
    ASSUME NEW stack, IsFiniteSet(B!Delivered(stack)), NEW f
    PROVE  TakenBy(f, stack) \in Int
<1> DEFINE taken == {d \in B!Delivered(stack) : d[2].function = f}
<1>1. IsFiniteSet(taken)
  BY FS_Subset
<1>2. Cardinality(taken) \in Int
  BY <1>1, FS_CardinalityType
<1> QED
  BY <1>2 DEF TakenBy

\* Nothing changes among the subscriptions and the deliveries (UseMember, PostMessage,
\* NewObject, a task of a detached object).
LEMMA ReferencesStay ==
    ASSUME B!ReferencesInv, UNCHANGED <<joCallbacks, joHeld, joCalls>>,
           joToken' = joToken \/ (joToken' = 0 /\ joCallbacks = {}),
           joLife' # "attached" => joLife # "attached"
    PROVE  B!ReferencesInv'
  BY ReferencesNow, ReferencesNext

\* Subscriptions go, and their references with them (_UnsubscribeTopic, OnInit's hook).
LEMMA SubscriptionsGo ==
    ASSUME B!ReferencesInv, NEW gone \in SUBSET joCallbacks,
           joCallbacks' = joCallbacks \ gone, B!Free(gone),
           UNCHANGED <<joToken, joCalls>>,
           joLife' = "attached" \/ gone = joCallbacks
    PROVE  B!ReferencesInv'
<1>1. /\ joToken \in Nat
      /\ joCallbacks \subseteq B!Subscriptions /\ IsFiniteSet(joCallbacks)
      /\ \A s \in joCallbacks : s.token <= joToken
      /\ joCalls \in Seq(B!Deliveries) /\ IsFiniteSet(B!Delivered(joCalls))
      /\ joHeld \in [ObjectsFunctions -> Int]
      /\ \A f \in ObjectsFunctions : joHeld[f] = B!Uses(f, joCallbacks) + TakenBy(f, joCalls)
  BY ReferencesNow
<1>2. joHeld' = [f \in ObjectsFunctions |-> joHeld[f] - B!Uses(f, gone)]
  BY DEF B!Free
<1>3. \A f : /\ B!Uses(f, joCallbacks) \in Int /\ B!Uses(f, gone) \in Int
             /\ B!Uses(f, joCallbacks \ gone) = B!Uses(f, joCallbacks) - B!Uses(f, gone)
  BY <1>1, UsesLeft
<1>4. \A f : TakenBy(f, joCalls) \in Int
  BY <1>1, TakenIsCounted
<1>5. joHeld' \in [ObjectsFunctions -> Int]
  BY <1>1, <1>2, <1>3
<1>6. IsFiniteSet(joCallbacks')
  BY <1>1, FS_Subset
<1>7. ASSUME NEW f \in ObjectsFunctions
      PROVE  joHeld'[f] = B!Uses(f, joCallbacks') + TakenBy(f, joCalls')
  <2>1. joHeld'[f] = joHeld[f] - B!Uses(f, gone)
    BY <1>2
  <2>2. joHeld[f] = B!Uses(f, joCallbacks) + TakenBy(f, joCalls)
    BY <1>1
  <2>3. B!Uses(f, joCallbacks') = B!Uses(f, joCallbacks) - B!Uses(f, gone)
    BY <1>3
  <2>4. TakenBy(f, joCalls') = TakenBy(f, joCalls)
    OBVIOUS
  <2> QED
    BY <1>3, <1>4, <2>1, <2>2, <2>3, <2>4
<1>8. joLife' # "attached" => joCallbacks' = {}
  OBVIOUS
<1>9. /\ joCallbacks' \subseteq B!Subscriptions /\ joToken' \in Nat
      /\ \A s \in joCallbacks' : s.token <= joToken'
      /\ joCalls' \in Seq(B!Deliveries) /\ IsFiniteSet(B!Delivered(joCalls'))
  BY <1>1
<1> QED
  BY <1>5, <1>6, <1>7, <1>8, <1>9, ReferencesNext

\* A subscription comes, and a reference with it (_SubscribeTopic).
LEMMA SubscriptionComes ==
    ASSUME B!ReferencesInv, NEW t \in ObjectsTopics,
           NEW f \in ObjectsFunctions \cup {B!NotAFunction}, B!Subscribe(t, f)
    PROVE  B!ReferencesInv'
<1>1. /\ joToken \in Nat
      /\ joCallbacks \subseteq B!Subscriptions /\ IsFiniteSet(joCallbacks)
      /\ \A s \in joCallbacks : s.token <= joToken
      /\ joCalls \in Seq(B!Deliveries) /\ IsFiniteSet(B!Delivered(joCalls))
      /\ joHeld \in [ObjectsFunctions -> Int]
      /\ \A g \in ObjectsFunctions : joHeld[g] = B!Uses(g, joCallbacks) + TakenBy(g, joCalls)
  BY ReferencesNow
<1>2. PICK new : new = [topic |-> t, token |-> joToken', function |-> f]
  OBVIOUS
<1>o. PICK one : one = {new}
  OBVIOUS
<1>3. /\ joToken' = joToken + 1 /\ joLife' = "attached" /\ joCalls' = joCalls
      /\ joCallbacks' = joCallbacks \cup one
      /\ joHeld' = [g \in ObjectsFunctions |-> joHeld[g] + B!Uses(g, one)]
  BY <1>2, <1>o DEF B!Subscribe, B!PageRuns, B!Dup
<1>4. new.token = joToken + 1 /\ new \in B!Subscriptions
  BY <1>1, <1>2, <1>3 DEF B!Subscriptions
<1>5. joCallbacks \cap one = {}
  BY <1>1, <1>4, <1>o
<1>6. IsFiniteSet(one) /\ IsFiniteSet(joCallbacks')
  BY <1>1, <1>3, <1>o, FS_Singleton, FS_Union
<1>7. \A g : /\ B!Uses(g, joCallbacks) \in Int /\ B!Uses(g, one) \in Int
             /\ B!Uses(g, joCallbacks \cup one) = B!Uses(g, joCallbacks) + B!Uses(g, one)
  BY <1>1, <1>5, <1>6, UsesJoined
<1>8. \A g : TakenBy(g, joCalls) \in Int
  BY <1>1, TakenIsCounted
<1>9. joHeld' \in [ObjectsFunctions -> Int]
  BY <1>1, <1>3, <1>7
<1>10. ASSUME NEW g \in ObjectsFunctions
       PROVE  joHeld'[g] = B!Uses(g, joCallbacks') + TakenBy(g, joCalls')
  <2>1. joHeld'[g] = joHeld[g] + B!Uses(g, one)
    BY <1>3
  <2>2. joHeld[g] = B!Uses(g, joCallbacks) + TakenBy(g, joCalls)
    BY <1>1
  <2>3. B!Uses(g, joCallbacks') = B!Uses(g, joCallbacks) + B!Uses(g, one)
    BY <1>3, <1>7
  <2>4. TakenBy(g, joCalls') = TakenBy(g, joCalls)
    BY <1>3
  <2> QED
    BY <1>7, <1>8, <2>1, <2>2, <2>3, <2>4
<1>11. /\ joCallbacks' \subseteq B!Subscriptions /\ joToken' \in Nat
       /\ joCalls' \in Seq(B!Deliveries) /\ IsFiniteSet(B!Delivered(joCalls'))
  BY <1>1, <1>3, <1>4, <1>o
<1>12. ASSUME NEW s \in joCallbacks' PROVE s.token <= joToken'
  <2>1. CASE s \in joCallbacks
    <3>1. s.token \in Nat /\ s.token <= joToken
      BY <1>1, <2>1 DEF B!Subscriptions
    <3> QED
      BY <1>1, <1>3, <3>1
  <2>2. CASE s = new
    BY <1>1, <1>3, <1>4, <2>2
  <2> QED
    BY <1>3, <1>o, <2>1, <2>2
<1> QED
  BY <1>3, <1>6, <1>9, <1>10, <1>11, <1>12, ReferencesNext

\* What a delivery took is finite when its pairs with the delivery are.
LEMMA ProductIsFinite ==
    ASSUME NEW x, NEW X, IsFiniteSet({x} \X X)
    PROVE  IsFiniteSet(X)
<1> DEFINE f == [p \in {x} \X X |-> p[2]]
<1>1. \A p \in {x} \X X : p[2] \in X
  OBVIOUS
<1>2. f \in [{x} \X X -> X]
  BY <1>1
<1>3. \A s \in X : <<x, s>> \in {x} \X X /\ f[<<x, s>>] = s
  OBVIOUS
<1> HIDE DEF f
<1>4. f \in Surjection({x} \X X, X)
  BY <1>2, <1>3 DEF Surjection
<1> QED
  BY <1>4, FS_Surjection

\* A message begins to be delivered: the functions are taken with a reference each
\* (_OnPublish).
LEMMA DeliveryBegins ==
    ASSUME B!ReferencesInv, NEW t, NEW task \in BOOLEAN, B!Deliver(t, task),
           UNCHANGED <<joCallbacks, joToken, joLife>>
    PROVE  B!ReferencesInv'
<1>1. /\ joToken \in Nat
      /\ joCallbacks \subseteq B!Subscriptions /\ IsFiniteSet(joCallbacks)
      /\ \A s \in joCallbacks : s.token <= joToken
      /\ joLife # "attached" => joCallbacks = {}
      /\ joCalls \in Seq(B!Deliveries) /\ IsFiniteSet(B!Delivered(joCalls))
      /\ joHeld \in [ObjectsFunctions -> Int]
      /\ \A f \in ObjectsFunctions : joHeld[f] = B!Uses(f, joCallbacks) + TakenBy(f, joCalls)
  BY ReferencesNow
<1>2. PICK taken : taken = B!Of(t)
  OBVIOUS
<1>3. PICK new : new = [left |-> taken, all |-> taken, inside |-> FALSE, task |-> task]
  OBVIOUS
<1>4. /\ joCalls' = Append(joCalls, new)
      /\ joHeld' = [f \in ObjectsFunctions |-> joHeld[f] + B!Uses(f, taken)]
  BY <1>2, <1>3 DEF B!Deliver, B!Taken, B!Dup
<1>5. taken \subseteq joCallbacks
  BY <1>2 DEF B!Of
<1>6. IsFiniteSet(taken)
  BY <1>1, <1>5, FS_Subset
<1>7. new \in B!Deliveries /\ new.all = taken
  BY <1>1, <1>3, <1>5 DEF B!Deliveries
<1>8. PICK n : n = Len(joCalls)
  OBVIOUS
<1>9. /\ n \in Nat /\ joCalls' \in Seq(B!Deliveries) /\ Len(joCalls') = n + 1
      /\ \A i \in 1..n : joCalls'[i] = joCalls[i]
      /\ joCalls'[n + 1] = new
  BY <1>1, <1>4, <1>7, <1>8, AppendTo
<1>10. DOMAIN joCalls = 1..n /\ DOMAIN joCalls' = 1..(n + 1)
  BY <1>1, <1>8, <1>9, LenProperties
<1>11. joCalls'[n + 1].all = taken
  BY <1>7, <1>9
<1>12. /\ IsFiniteSet(B!Delivered(joCalls'))
       /\ \A f : /\ TakenBy(f, joCalls) \in Int /\ B!Uses(f, joCalls'[n + 1].all) \in Int
                 /\ TakenBy(f, joCalls') = TakenBy(f, joCalls) + B!Uses(f, joCalls'[n + 1].all)
  BY <1>1, <1>6, <1>9, <1>10, <1>11, LastDelivery
<1>13. \A f : B!Uses(f, joCallbacks) \in Int
  BY <1>1, UsesLeft
<1>14. joHeld' \in [ObjectsFunctions -> Int]
  BY <1>1, <1>4, <1>11, <1>12
<1>15. ASSUME NEW f \in ObjectsFunctions
       PROVE  joHeld'[f] = B!Uses(f, joCallbacks') + TakenBy(f, joCalls')
  <2>1. joHeld'[f] = joHeld[f] + B!Uses(f, taken)
    BY <1>4
  <2>2. joHeld[f] = B!Uses(f, joCallbacks) + TakenBy(f, joCalls)
    BY <1>1
  <2>3. TakenBy(f, joCalls') = TakenBy(f, joCalls) + B!Uses(f, taken)
        /\ TakenBy(f, joCalls) \in Int /\ B!Uses(f, taken) \in Int
    BY <1>11, <1>12
  <2>4. B!Uses(f, joCallbacks') = B!Uses(f, joCallbacks)
    OBVIOUS
  <2> QED
    BY <1>13, <2>1, <2>2, <2>3, <2>4
<1> QED
  BY <1>1, <1>9, <1>12, <1>14, <1>15, ReferencesNext

\* It ends, all called or not, and gives its references back (_OnPublish's exit).
LEMMA DeliveryEnds ==
    ASSUME B!ReferencesInv, B!EndDelivery
    PROVE  B!ReferencesInv'
<1>1. /\ joToken \in Nat
      /\ joCallbacks \subseteq B!Subscriptions /\ IsFiniteSet(joCallbacks)
      /\ \A s \in joCallbacks : s.token <= joToken
      /\ joLife # "attached" => joCallbacks = {}
      /\ joCalls \in Seq(B!Deliveries) /\ IsFiniteSet(B!Delivered(joCalls))
      /\ joHeld \in [ObjectsFunctions -> Int]
      /\ \A f \in ObjectsFunctions : joHeld[f] = B!Uses(f, joCallbacks) + TakenBy(f, joCalls)
  BY ReferencesNow
<1>2. PICK n : n = Len(joCalls) - 1
  OBVIOUS
<1>3. joCalls # <<>> /\ UNCHANGED <<joCallbacks, joToken>>
      /\ (joLife' # "attached" => joLife # "attached")
  BY DEF B!EndDelivery
<1>4. Len(joCalls) \in Nat /\ Len(joCalls) # 0 /\ DOMAIN joCalls = 1..Len(joCalls)
  BY <1>1, <1>3, EmptySeq, LenProperties
<1>5. n \in Nat /\ Len(joCalls) = n + 1 /\ DOMAIN joCalls = 1..(n + 1)
  BY <1>2, <1>4
<1>6. joCalls' = SubSeq(joCalls, 1, n)
  BY <1>2 DEF B!EndDelivery, B!Front
<1>7. PICK taken : taken = joCalls[n + 1].all
  OBVIOUS
<1>8. joHeld' = [f \in ObjectsFunctions |-> joHeld[f] - B!Uses(f, taken)]
  BY <1>5, <1>7 DEF B!EndDelivery, B!Free, B!Last
<1>9. \A i \in 1..n : i \in 1..(n + 1) /\ joCalls[i] \in B!Deliveries
  BY <1>1, <1>5, ElementOfSeq
<1>10. /\ joCalls' \in Seq(B!Deliveries)
       /\ Len(joCalls') = IF 1 <= n THEN n - 1 + 1 ELSE 0
       /\ \A i \in 1..(n - 1 + 1) : joCalls'[i] = joCalls[1 + i - 1]
  BY <1>5, <1>6, <1>9, SubSeqProperties
<1>11. Len(joCalls') = n /\ \A i \in 1..n : joCalls[i] = joCalls'[i]
  BY <1>5, <1>10
<1>12. DOMAIN joCalls' = 1..n
  BY <1>10, <1>11, LenProperties
<1>13. B!Delivered(joCalls') \subseteq B!Delivered(joCalls)
  BY <1>5, <1>9, <1>11, <1>12 DEF B!Delivered
<1>14. IsFiniteSet(B!Delivered(joCalls'))
  BY <1>1, <1>13, FS_Subset
<1>15. IsFiniteSet(taken)
  <2>1. {n + 1} \X taken \subseteq B!Delivered(joCalls)
    BY <1>5, <1>7 DEF B!Delivered
  <2>2. IsFiniteSet({n + 1} \X taken)
    BY <1>1, <2>1, FS_Subset
  <2> QED
    BY <2>2, ProductIsFinite
<1>16. \A f : /\ TakenBy(f, joCalls') \in Int /\ B!Uses(f, joCalls[n + 1].all) \in Int
              /\ TakenBy(f, joCalls) = TakenBy(f, joCalls') + B!Uses(f, joCalls[n + 1].all)
  BY <1>5, <1>7, <1>11, <1>12, <1>14, <1>15, LastDelivery
<1>17. \A f : B!Uses(f, joCallbacks) \in Int
  BY <1>1, UsesLeft
<1>18. joHeld' \in [ObjectsFunctions -> Int]
  BY <1>1, <1>7, <1>8, <1>16
<1>19. ASSUME NEW f \in ObjectsFunctions
       PROVE  joHeld'[f] = B!Uses(f, joCallbacks') + TakenBy(f, joCalls')
  <2>1. joHeld'[f] = joHeld[f] - B!Uses(f, taken)
    BY <1>8
  <2>2. joHeld[f] = B!Uses(f, joCallbacks) + TakenBy(f, joCalls)
    BY <1>1
  <2>3. TakenBy(f, joCalls) = TakenBy(f, joCalls') + B!Uses(f, taken)
        /\ TakenBy(f, joCalls') \in Int /\ B!Uses(f, taken) \in Int
    BY <1>7, <1>16
  <2>4. B!Uses(f, joCallbacks') = B!Uses(f, joCallbacks)
    BY <1>3
  <2> QED
    BY <1>17, <2>1, <2>2, <2>3, <2>4
<1> QED
  BY <1>1, <1>3, <1>10, <1>14, <1>18, <1>19, ReferencesNext

\* A function is called or returns; what the delivery took stays taken.
LEMMA DeliveryGoesOn ==
    ASSUME B!ReferencesInv, B!CallNext \/ B!Returned
    PROVE  B!ReferencesInv'
<1>1. /\ joToken \in Nat
      /\ joCallbacks \subseteq B!Subscriptions /\ IsFiniteSet(joCallbacks)
      /\ \A s \in joCallbacks : s.token <= joToken
      /\ joLife # "attached" => joCallbacks = {}
      /\ joCalls \in Seq(B!Deliveries) /\ IsFiniteSet(B!Delivered(joCalls))
      /\ joHeld \in [ObjectsFunctions -> Int]
      /\ \A f \in ObjectsFunctions : joHeld[f] = B!Uses(f, joCallbacks) + TakenBy(f, joCalls)
  BY ReferencesNow
<1>2. joCalls # <<>> /\ UNCHANGED <<joCallbacks, joToken, joLife, joHeld>>
  BY DEF B!CallNext, B!Returned, B!NextIs
<1>3. PICK n : n = Len(joCalls)
  OBVIOUS
<1>4. n \in Nat /\ n # 0 /\ DOMAIN joCalls = 1..n /\ n \in 1..n
  BY <1>1, <1>2, <1>3, EmptySeq, LenProperties
<1>5. PICK old : old = joCalls[n]
  OBVIOUS
<1>6. old \in B!Deliveries
  BY <1>1, <1>3, <1>4, <1>5, ElementOfSeq
<1>7. \E new \in B!Deliveries : new.all = old.all /\ joCalls' = [joCalls EXCEPT ![n] = new]
  <2>1. CASE B!CallNext
    <3>1. joCalls' = [joCalls EXCEPT ![n] = [old EXCEPT !.inside = TRUE]]
      BY <1>3, <1>5, <2>1 DEF B!CallNext
    <3>2. /\ [old EXCEPT !.inside = TRUE] \in B!Deliveries
          /\ [old EXCEPT !.inside = TRUE].all = old.all
      BY <1>6 DEF B!Deliveries
    <3> QED
      BY <3>1, <3>2
  <2>2. CASE B!Returned
    <3>1. PICK rest : rest = old.left \ B!Oldest(old.left)
      OBVIOUS
    <3>2. joCalls' = [joCalls EXCEPT ![n] = [old EXCEPT !.inside = FALSE, !.left = rest]]
      BY <1>3, <1>5, <2>2, <3>1 DEF B!Returned
    <3>3. rest \subseteq B!Subscriptions
      BY <1>6, <3>1 DEF B!Deliveries
    <3>4. /\ [old EXCEPT !.inside = FALSE, !.left = rest] \in B!Deliveries
          /\ [old EXCEPT !.inside = FALSE, !.left = rest].all = old.all
      BY <1>6, <3>3 DEF B!Deliveries
    <3> QED
      BY <3>2, <3>4
  <2> QED
    BY <2>1, <2>2
<1>8. PICK new \in B!Deliveries : new.all = old.all /\ joCalls' = [joCalls EXCEPT ![n] = new]
  BY <1>7
<1>9. joCalls' \in Seq(B!Deliveries)
  BY <1>1, <1>4, <1>3, <1>8, ExceptSeq
<1>10. /\ DOMAIN joCalls' = DOMAIN joCalls
       /\ \A i \in DOMAIN joCalls : joCalls'[i].all = joCalls[i].all
  BY <1>4, <1>5, <1>8
<1>11. B!Delivered(joCalls') = B!Delivered(joCalls)
  BY <1>10 DEF B!Delivered
<1>12. \A f : TakenBy(f, joCalls') = TakenBy(f, joCalls)
  BY <1>11, Zenon DEF TakenBy
<1>13. IsFiniteSet(B!Delivered(joCalls'))
  BY <1>1, <1>11, Zenon
<1> QED
  BY <1>1, <1>2, <1>9, <1>12, <1>13, ReferencesNext

\* A step keeps the counts (JQPublishObject.cpp).
LEMMA ReferencesStep == B!ReferencesInv /\ [B!Next]_(B!vars) => B!ReferencesInv'
<1> SUFFICES ASSUME B!ReferencesInv, [B!Next]_(B!vars) PROVE B!ReferencesInv'
  OBVIOUS
<1>i. joLife # "attached" => joCallbacks = {}
  BY ReferencesNow
<1>1. CASE B!NewObject
  BY <1>1, <1>i, ReferencesStay DEF B!NewObject
<1>2. CASE B!Detach
  <2>1. /\ joCallbacks' = joCallbacks \ joCallbacks /\ B!Free(joCallbacks)
        /\ UNCHANGED <<joToken, joCalls>>
    BY <1>2 DEF B!Detach
  <2> QED
    BY <2>1, SubscriptionsGo
<1>3. ASSUME NEW gone \in SUBSET joCallbacks, B!Unsubscribed(gone) PROVE B!ReferencesInv'
  BY <1>3, SubscriptionsGo DEF B!Unsubscribed, B!PageRuns
<1>4. CASE B!OffAll
  BY <1>3, <1>4 DEF B!OffAll
<1>5. CASE B!RunTask
  <2>1. CASE joLife = "attached"
    BY <1>5, <2>1, DeliveryBegins DEF B!RunTask
  <2>2. CASE joLife # "attached"
    BY <1>5, <2>2, ReferencesStay DEF B!RunTask
  <2> QED
    BY <2>1, <2>2
<1>6. CASE B!CallNext \/ B!Returned
  BY <1>6, DeliveryGoesOn
<1>7. CASE B!EndDelivery
  BY <1>7, DeliveryEnds
<1>8. ASSUME NEW m \in B!Members, B!UseMember(m) PROVE B!ReferencesInv'
  BY <1>8, ReferencesStay DEF B!UseMember
<1>9. ASSUME NEW t \in ObjectsTopics, B!OffTopic(t) PROVE B!ReferencesInv'
  BY <1>3, <1>9 DEF B!OffTopic, B!Of
<1>10. ASSUME NEW t \in ObjectsTopics, B!PostMessage(t) PROVE B!ReferencesInv'
  BY <1>10, ReferencesStay DEF B!PostMessage
<1>11. ASSUME NEW t \in ObjectsTopics, B!PublishNow(t) PROVE B!ReferencesInv'
  BY <1>11, DeliveryBegins DEF B!PublishNow
<1>12. ASSUME NEW t \in ObjectsTopics, NEW f, B!OffFunction(t, f) PROVE B!ReferencesInv'
  BY <1>3, <1>12 DEF B!OffFunction, B!Of, B!Oldest
<1>13. ASSUME NEW t \in ObjectsTopics, NEW f \in ObjectsFunctions \cup {B!NotAFunction},
              B!Subscribe(t, f)
       PROVE  B!ReferencesInv'
  BY <1>13, SubscriptionComes
<1>14. ASSUME NEW s \in joCallbacks, B!OffToken(s) PROVE B!ReferencesInv'
  BY <1>3, <1>14 DEF B!OffToken
<1>15. CASE UNCHANGED B!vars
  BY <1>15, ReferencesStay DEF B!vars
<1> QED
  BY <1>1, <1>2, <1>4, <1>5, <1>6, <1>7, <1>8, <1>9, <1>10, <1>11, <1>12, <1>13, <1>14,
     <1>15 DEF B!Next

\* Nothing is held at the start.
LEMMA ReferencesStart == B!Init => B!ReferencesInv
<1> SUFFICES ASSUME B!Init PROVE B!ReferencesInv
  OBVIOUS
<1>1. /\ joToken = 0 /\ joCallbacks = {} /\ joCalls = <<>>
      /\ joHeld = [f \in ObjectsFunctions |-> 0]
  BY DEF B!Init
<1>2. <<>> \in Seq(B!Deliveries) /\ B!Delivered(<<>>) = {}
  BY EmptySeq DEF B!Delivered
<1>3. B!Cardinality({}) = 0 /\ B!IsFiniteSet({})
  BY FS_EmptySet, ObjectsCount
<1>4. ASSUME NEW f \in ObjectsFunctions PROVE B!References(f) = 0
  <2>1. {s \in {} : s.function = f} = {} /\ {d \in {} : d[2].function = f} = {}
    OBVIOUS
  <2>2. B!Uses(f, {}) = 0
    BY <1>3, <2>1, Zenon DEF B!Uses
  <2>3. B!Cardinality({d \in B!Delivered(<<>>) : d[2].function = f}) = 0
    BY <1>2, <1>3, <2>1, Zenon
  <2> QED
    BY <1>1, <2>2, <2>3 DEF B!References
<1> QED
  BY <1>1, <1>2, <1>3, <1>4 DEF B!ReferencesInv

\* An object that gets the address of another takes over none of its members, one that
\* is gone leaves none, and every function is referenced as often as the subscriptions
\* and the deliveries under way need it (JQObjectTemplate's maps, which are keyed by
\* address; JQPublishObject).
THEOREM ObjectsLeaveNothing == B!Spec => []NothingLeftBehind
<1>1. B!Init => B!MembersInv
  BY DEF B!Init, B!MembersInv, B!OwnMembers
<1>2. B!MembersInv /\ B!ReferencesInv => NothingLeftBehind
  BY DEF B!MembersInv, B!ReferencesInv, NothingLeftBehind, B!NothingLeftBehind
<1> QED
  BY <1>1, <1>2, ObjectsStep, ReferencesStart, ReferencesStep, PTL DEF B!Spec
=============================================================================
