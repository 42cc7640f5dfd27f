------------------------------ MODULE Programs ------------------------------
(***************************************************************************)
(* The programs and what serves them, side by side: each has constants and *)
(* variables of its own and is an instance of its module.                  *)
(***************************************************************************)
EXTENDS Integers

CONSTANTS
    TouchFingers, TouchContacts, TouchCapacity, TouchMaxSequence, TouchMaxSwitches,
    TouchMaxFaults,
    MappingSizes, MappingOffsets, MappingRanges, MappingScreen, MappingDisplayOffset,
    MappingTouchOffset, MappingMaxUnread,
    DisplayMaxPrograms, DisplayMaxFrames, DisplayMaxRecoveries,
    RuntimeHeight, RuntimeMaxBoxes, RuntimeMaxSendFaults,
    GameRows, GameColumns, GameWinValue, GameMaxTile, GameEarlier, GameMaxMoves,
    GameMaxScore, GameMaxStarts, GameMaxFaults,
    TimerPresets, TimerDefaultPreset, TimerTicksPerSecond, TimerMaxPauses,
    ManagerReleases, ManagerNodeLimit, ManagerMaxShows, ManagerMaxSessions,
    ManagerMaxRequests, ManagerMaxPending, ManagerMaxFaults,
    ObjectsTopics, ObjectsFunctions, ObjectsMaxObjects, ObjectsMaxTokens,
    ObjectsMaxMessages, ObjectsMaxDepth

VARIABLES
    tpDown, tpSlots, tpInputReady, tpTouchNonce, tpTouchSequence, tpWire, tpNonce,
    tpReady, tpLastSequence, tpContacts, tpQueue, tpPressed, tpSwitches, tpFaults,
    tpMissed, tpDeaf,
    smProfile, smTool, smTarget, smAxes, smKernel, smQueue, smPointer,
    dpOverlay, dpSandboxed, dpPhase, dpProgram, dpHolders, dpActive, dpDrawing,
    dpModeset, dpFlipPending, dpRecoveries, dpShown, dpQueued, dpFlipEvent, dpFrames,
    dpKilledByFilter,
    arIsLauncher, arSession, arPc, arResult, arGStop, arFailed, arPresented,
    arReadyReported, arStop, arSent, arFaults, arPressed, arPanel, arY, arStartY,
    arTarget, arScrim, arBoxes,
    gGame, gBest, gUndoState, gUndoValid, gRunning, gAnimating, gQueued, gConfirming,
    gOutcome, gSaved, gMoves, gStarts, gFaults, gForgotten,
    ftState, ftDuration, ftPaused, ftLeft, ftRefreshDue, ftRan, ftPauses,
    fmRoot, fmReleases, fmLink, fmStored, fmDegraded, fmDebris, fmBundled, fmSession,
    fmFile, fmLate, fmCalls, fmAnswers, fmPc, fmLoaded, fmActive, fmBusy, fmOverlay,
    fmConfirmingRemove, fmSnapshot, fmShows, fmSessions, fmRequests, fmFaults,
    joObject, joLife, joMember, joCallbacks, joToken, joHeld, joTasks, joCalls, joMessages

H == INSTANCE TouchPath WITH
    Fingers <- TouchFingers, Contacts <- TouchContacts, Capacity <- TouchCapacity,
    MaxSequence <- TouchMaxSequence, MaxSwitches <- TouchMaxSwitches,
    MaxFaults <- TouchMaxFaults, down <- tpDown, slots <- tpSlots,
    inputReady <- tpInputReady, touchNonce <- tpTouchNonce,
    touchSequence <- tpTouchSequence, wire <- tpWire, nonce <- tpNonce,
    ready <- tpReady, lastSequence <- tpLastSequence, contacts <- tpContacts,
    queue <- tpQueue, pressed <- tpPressed, switches <- tpSwitches, faults <- tpFaults,
    missed <- tpMissed, deaf <- tpDeaf

S == INSTANCE ScreenMapping WITH
    Sizes <- MappingSizes, Offsets <- MappingOffsets, Ranges <- MappingRanges,
    Screen <- MappingScreen, DisplayOffset <- MappingDisplayOffset,
    TouchOffset <- MappingTouchOffset, MaxUnread <- MappingMaxUnread,
    profile <- smProfile, tool <- smTool, target <- smTarget,
    axes <- smAxes, kernel <- smKernel, queue <- smQueue, pointer <- smPointer

D == INSTANCE DisplayPath WITH
    MaxPrograms <- DisplayMaxPrograms, MaxFrames <- DisplayMaxFrames,
    kMaxPageFlipRecoveries <- DisplayMaxRecoveries, overlay <- dpOverlay,
    sandboxed <- dpSandboxed, phase <- dpPhase, program <- dpProgram,
    holders <- dpHolders, active <- dpActive, drawing <- dpDrawing,
    modeset <- dpModeset, flipPending <- dpFlipPending, recoveries <- dpRecoveries,
    shown <- dpShown, queued <- dpQueued, flipEvent <- dpFlipEvent, frames <- dpFrames,
    killedByFilter <- dpKilledByFilter

A == INSTANCE AppRuntime WITH
    Height <- RuntimeHeight, MaxBoxes <- RuntimeMaxBoxes,
    MaxSendFaults <- RuntimeMaxSendFaults, isLauncher <- arIsLauncher,
    session <- arSession, pc <- arPc, result <- arResult, gStop <- arGStop,
    failed <- arFailed, presented <- arPresented, readyReported <- arReadyReported,
    stop <- arStop, sent <- arSent, faults <- arFaults, pressed <- arPressed,
    panel <- arPanel, y <- arY, startY <- arStartY, target <- arTarget,
    scrim <- arScrim, boxes <- arBoxes

G == INSTANCE Game2048 WITH
    Rows <- GameRows, Columns <- GameColumns, WinValue <- GameWinValue,
    MaxTile <- GameMaxTile, Earlier <- GameEarlier,
    MaxMoves <- GameMaxMoves, MaxScore <- GameMaxScore,
    MaxStarts <- GameMaxStarts, MaxFaults <- GameMaxFaults,
    game <- gGame, best <- gBest, undoState <- gUndoState, undoValid <- gUndoValid,
    running <- gRunning, animating <- gAnimating, queued <- gQueued,
    confirming <- gConfirming, outcome <- gOutcome, saved <- gSaved, moves <- gMoves,
    starts <- gStarts, faults <- gFaults, forgotten <- gForgotten

T == INSTANCE FocusTimer WITH
    Presets <- TimerPresets, DefaultPreset <- TimerDefaultPreset,
    TicksPerSecond <- TimerTicksPerSecond, MaxPauses <- TimerMaxPauses,
    state <- ftState, duration <- ftDuration, paused <- ftPaused, left <- ftLeft,
    refreshDue <- ftRefreshDue, ran <- ftRan, pauses <- ftPauses

M == INSTANCE FalconManager WITH
    Releases <- ManagerReleases, NodeLimit <- ManagerNodeLimit,
    MaxShows <- ManagerMaxShows, MaxSessions <- ManagerMaxSessions,
    MaxRequests <- ManagerMaxRequests, MaxPending <- ManagerMaxPending,
    MaxFaults <- ManagerMaxFaults, root <- fmRoot, releases <- fmReleases,
    link <- fmLink, stored <- fmStored, degraded <- fmDegraded, debris <- fmDebris,
    bundled <- fmBundled, session <- fmSession, file <- fmFile, late <- fmLate, calls <- fmCalls,
    answers <- fmAnswers, pc <- fmPc, loaded <- fmLoaded, active <- fmActive,
    busy <- fmBusy, overlay <- fmOverlay, confirmingRemove <- fmConfirmingRemove,
    snapshot <- fmSnapshot, shows <- fmShows, sessions <- fmSessions,
    requests <- fmRequests, faults <- fmFaults

B == INSTANCE JsObjects WITH
    Topics <- ObjectsTopics, Functions <- ObjectsFunctions,
    MaxObjects <- ObjectsMaxObjects, MaxTokens <- ObjectsMaxTokens,
    MaxMessages <- ObjectsMaxMessages, MaxDepth <- ObjectsMaxDepth, object <- joObject,
    life <- joLife, member <- joMember, callbacks <- joCallbacks, token <- joToken,
    held <- joHeld, tasks <- joTasks, calls <- joCalls, messages <- joMessages

\* The constants of each component as its module assumes them.
ASSUME TouchInstance == H!TouchAssumption
ASSUME MappingInstance == S!MappingAssumption
ASSUME TimerInstance == T!TimerAssumption
ASSUME GameInstance == G!GameAssumption

-----------------------------------------------------------------------------
(* What each of them promises, stated in the module of its component.      *)

\* No frame refused, one lost start at most, no press left over (TouchContactGuard).
GesturesHeal == H!GesturesHeal

\* Touches mean the pixel they are on (parse_device_profile, map_raw).
TouchIsWhereDrawn == S!TouchIsWhereDrawn

\* No frame is drawn into the buffer on the screen (present_logical).
NeverDrawOnScreen == D!NeverDrawOnScreen

\* Nothing of an ended program is left on the screen (DrmBackend::close).
PictureHasOwner == D!PictureHasOwner

\* A program reports ready first and asks once (run_platform_application).
ReadyThenOneRequest == A!ReadyThenOneRequest

\* What 2048 saves it can load (restore_state).
SavedIsRestorable == G!SavedIsRestorable

\* The best score on storage never goes down (set_best_score).
BestSurvives == G!BestSurvives

\* A completed round has run its whole duration (remaining_seconds).
RoundIsHonest == T!RoundIsHonest

\* What the page and `current` say is there (refresh, activateRelease).
PlatformAsShown == M!PlatformAsShown

\* The platform is removed under no session that was there when it was decided
\* (sessionRemovalAllowed).
RemovalSparesSession == M!RemovalSparesSession

\* Objects and subscriptions return all they hold (JQPublishObject).
NothingLeftBehind == B!NothingLeftBehind
=============================================================================
