----------------------------- MODULE MCPrograms -----------------------------
(***************************************************************************)
(* Model-checking instance of the programs and what serves them: one       *)
(* of them, chosen in the initial state, runs on its own, under the bounds *)
(* given in its configuration.                                             *)
(***************************************************************************)
EXTENDS MCStorageBroker, Programs

CONSTANT Chosen       \* the components to check

\* mapping: screens small enough to look at every pixel.
SmallSizes  == {[width |-> 2, height |-> 2], [width |-> 2, height |-> 3], [width |-> 4, height |-> 3]}
SmallScreen == [logical |-> [width |-> 3, height |-> 2], physical |-> [width |-> 4, height |-> 3]]

\* mapping: axes that end with the last pixel or with their number, one that is finer
\* and does not begin at 0, and one without a range.
Axes(l, h, k) == [x |-> [low |-> l, high |-> h], y |-> [low |-> 0, high |-> k]]
SmallRanges   == {Axes(0, 3, 2), Axes(0, 3, 3), Axes(0, 4, 2), Axes(1, 8, 6), Axes(0, 4, 0)}

\* text: a value of each kind, objects with a name that begins another one.
Int32(chars)   == <<"int32", chars>>
Float64(chars) == <<"float64", chars>>
PageValues ==
    {Int32(<<"1">>), Int32(<<"1", "1", "0">>), Float64(<<"1">>), Float64(<<"-", "0">>),
     Float64(<<"-", "1", ".", "1">>), Float64(<<"1", "1", "1", "1">>), Float64(<<"nan">>), <<"undefined">>, <<"view", <<"1">>, <<"1", "0">> >>,
     <<"string", <<"n", "\"", "\\", "ls">> >>, <<"string", <<"n", "nul", "n", "c0">> >>,
     <<"string", <<"\n">> >>, <<"array", <<Int32(<<"0">>), <<"word", "null">> >> >>,
     <<"array", << <<"array", << <<"array", <<>> >> >> >> >> >>,
     <<"object", << << <<"n">>, Float64(<<"1", "1">>) >>, << <<"n", "n">>, <<"word", "true">> >> >> >>}
TextSymbols ==
    {"{", "}", "[", "]", ":", ",", "\"", "\\", "n", "u", "0", "1", "-", ".", "e", "+",
     "true", " ", "\n", "/", "*", "d83d", "de00"}

\* board: the board of the code, with tiles of up to 8, and games in which a move merges
\* twice in a line, three and four equal ones, over gaps, and what cannot be doubled.
WideLines  == {<<2, 2, 4, 4>>, <<2, 2, 2, 2>>, <<4, 4, 4, 2>>, <<8, 8, 8, 8>>, <<2, 0, 2, 4>>,
               <<0, 8, 8, 2>>, <<4, 2, 2, 4>>, <<2, 0, 0, 2>>, <<8, 4, 4, 8>>}
OtherLines == {<<2, 2, 4, 4>>, <<0, 8, 2, 4>>, <<8, 2, 0, 2>>}
WideBoard(a, b) == [c \in 0..15 |-> <<a, b, [i \in 1..4 |-> a[5 - i]], b>>[(c \div 4) + 1][(c % 4) + 1]]
\* An 8 is made of two 4s at least.
WideGame(board) == [board |-> board, score |-> 8 * Cardinality({c \in 0..15 : board[c] = 8})]
WideGames == {WideGame(WideBoard(a, b)) : a \in WideLines, b \in OtherLines}

VARIABLES
    turn,          \* the component that runs in this behaviour
    jtValue, jtComments, jtText, jtEdits,
    wGame, wBest, wUndoState, wUndoValid, wRunning, wAnimating, wQueued, wConfirming,
    wOutcome, wSaved, wMoves, wStarts, wFaults, wForgotten

HVars ==
    <<tpDown, tpSlots, tpInputReady, tpTouchNonce, tpTouchSequence, tpWire, tpNonce,
    tpReady, tpLastSequence, tpContacts, tpQueue, tpPressed, tpSwitches, tpFaults,
    tpMissed, tpDeaf>>
SVars ==
    <<smProfile, smTool, smTarget, smAxes, smKernel, smQueue, smPointer>>
JVars ==
    <<jtValue, jtComments, jtText, jtEdits>>
DVars ==
    <<dpOverlay, dpSandboxed, dpPhase, dpProgram, dpHolders, dpActive, dpDrawing,
    dpModeset, dpFlipPending, dpRecoveries, dpShown, dpQueued, dpFlipEvent, dpFrames,
    dpKilledByFilter>>
AVars ==
    <<arIsLauncher, arSession, arPc, arResult, arGStop, arFailed, arPresented,
    arReadyReported, arStop, arSent, arFaults, arPressed, arPanel, arY, arStartY,
    arTarget, arScrim, arBoxes>>
GVars ==
    <<gGame, gBest, gUndoState, gUndoValid, gRunning, gAnimating, gQueued, gConfirming,
    gOutcome, gSaved, gMoves, gStarts, gFaults, gForgotten>>
WVars ==
    <<wGame, wBest, wUndoState, wUndoValid, wRunning, wAnimating, wQueued, wConfirming,
    wOutcome, wSaved, wMoves, wStarts, wFaults, wForgotten>>
TVars ==
    <<ftState, ftDuration, ftPaused, ftLeft, ftRefreshDue, ftRan, ftPauses>>
MVars ==
    <<fmRoot, fmReleases, fmLink, fmStored, fmDegraded, fmDebris, fmBundled, fmSession,
    fmFile, fmLate, fmCalls, fmAnswers, fmPc, fmLoaded, fmActive, fmBusy, fmOverlay,
    fmConfirmingRemove, fmSnapshot, fmShows, fmSessions, fmRequests, fmFaults>>
BVars ==
    <<joObject, joLife, joMember, joCallbacks, joToken, joHeld, joTasks, joCalls, joMessages>>

J == INSTANCE JsonText WITH
    Sent <- PageValues, Symbols <- TextSymbols, max_depth <- 2, MaxIntLength <- 2,
    Int32Length <- 3, SafeLength <- 3, MaxEdits <- 2, MaxLength <- 3, value <- jtValue,
    comments <- jtComments, text <- jtText, edits <- jtEdits

W == INSTANCE Game2048 WITH
    Rows <- 4, Columns <- 4, WinValue <- 8, MaxTile <- 15, Earlier <- WideGames,
    MaxMoves <- 1, MaxScore <- 200, MaxStarts <- 1, MaxFaults <- 0,
    game <- wGame, best <- wBest, undoState <- wUndoState, undoValid <- wUndoValid,
    running <- wRunning, animating <- wAnimating, queued <- wQueued,
    confirming <- wConfirming, outcome <- wOutcome, saved <- wSaved, moves <- wMoves,
    starts <- wStarts, faults <- wFaults, forgotten <- wForgotten

any == <<turn, vars, HVars, SVars, JVars, DVars, AVars, GVars, WVars, TVars, MVars, BVars>>

\* One component runs, the others keep their first state.
AnyInit ==
    /\ turn \in Chosen
    /\ Init
    /\ H!Init
    /\ S!Init /\ (turn # "mapping" => smAxes = S!ByScreen)
    /\ J!Init /\ (turn # "text" => jtValue = <<"undefined">> /\ ~jtComments)
    /\ D!Init /\ (turn # "display" => ~dpOverlay)
    /\ A!Init /\ (turn # "application" => arIsLauncher /\ arSession)
    /\ G!Init
    /\ W!Init /\ (turn = "board" <=> wSaved # W!NoRecord)
    /\ T!Init
    /\ M!Init
    /\ B!Init

AnyNext ==
    \/ /\ turn = "storage" /\ Next
       /\ UNCHANGED <<turn, HVars, SVars, JVars, DVars, AVars, GVars, WVars, TVars, MVars, BVars>>
    \/ /\ turn = "touch" /\ H!Next
       /\ UNCHANGED <<turn, vars, SVars, JVars, DVars, AVars, GVars, WVars, TVars, MVars,
                       BVars>>
    \/ /\ turn = "mapping" /\ S!Next
       /\ UNCHANGED <<turn, vars, HVars, JVars, DVars, AVars, GVars, WVars, TVars, MVars,
                       BVars>>
    \/ /\ turn = "text" /\ J!Next
       /\ UNCHANGED <<turn, vars, HVars, SVars, DVars, AVars, GVars, WVars, TVars, MVars,
                       BVars>>
    \/ /\ turn = "display" /\ D!Next
       /\ UNCHANGED <<turn, vars, HVars, SVars, JVars, AVars, GVars, WVars, TVars, MVars,
                       BVars>>
    \/ /\ turn = "application" /\ A!Next
       /\ UNCHANGED <<turn, vars, HVars, SVars, JVars, DVars, GVars, WVars, TVars, MVars,
                       BVars>>
    \/ /\ turn = "game" /\ G!Next
       /\ UNCHANGED <<turn, vars, HVars, SVars, JVars, DVars, AVars, WVars, TVars, MVars,
                       BVars>>
    \/ /\ turn = "board" /\ W!Next
       /\ UNCHANGED <<turn, vars, HVars, SVars, JVars, DVars, AVars, GVars, TVars, MVars,
                       BVars>>
    \/ /\ turn = "timer" /\ T!Next
       /\ UNCHANGED <<turn, vars, HVars, SVars, JVars, DVars, AVars, GVars, WVars, MVars,
                       BVars>>
    \/ /\ turn = "manager" /\ M!Next
       /\ UNCHANGED <<turn, vars, HVars, SVars, JVars, DVars, AVars, GVars, WVars, TVars,
                       BVars>>
    \/ /\ turn = "objects" /\ B!Next
       /\ UNCHANGED <<turn, vars, HVars, SVars, JVars, DVars, AVars, GVars, WVars, TVars,
                       MVars>>

AnySpec == AnyInit /\ [][AnyNext]_any

-----------------------------------------------------------------------------
(* The properties of Programs and StorageBroker, those of JsonText, and one   *)
(* on both boards.                                                            *)

\* JSON texts are read as what was written (BsonParser, dump).  While another component
\* runs, the text stays that of "undefined", which the turn "text" looks at too.
TextIsRead == turn = "text" => J!TextIsRead

\* A manifest has one text the device accepts (canonical_json).
OneTextPerManifest == turn = "text" => J!OneTextPerManifest

\* The tiles seen moving make up the board shown (Game2048::move, collapse_line).
MotionsMatch == G!MotionsMatch /\ W!MotionsMatch
=============================================================================
