------------------------------ MODULE Game2048 ------------------------------
(***************************************************************************)
(* apps/game-2048: the rules (game_2048_model.cpp), the record that keeps  *)
(* a game (game_2048_persistence.cpp) and the program around them          *)
(* (game_2048_ui.cpp, main.cpp), which shows a move in two animations and  *)
(* saves the game after the second.  The user goes on swiping meanwhile,   *)
(* and the program is stopped or crashes at any time.                      *)
(*                                                                         *)
(* The board has Rows x Columns cells and is won with WinValue; in the     *)
(* code it has 4 x 4 and 2048, and a tile is a 16 bit number.  Which cell  *)
(* gets a new tile is a choice: the state of the random generator, of      *)
(* which only that it is not 0 matters, is left out.                       *)
(***************************************************************************)
EXTENDS Integers, Sequences, SequencesExt, FiniteSets, FiniteSetsExt, Functions

CONSTANTS
    Rows, Columns, WinValue,
    MaxTile,       \* what a tile can hold (uint16_t)
    Earlier,       \* games that may be on storage, [board, score], as after an undo
    MaxMoves,      \* bound on the moves, undone or not
    MaxScore,      \* bound on the score a move may lead to
    MaxStarts,     \* bound on how often the program is started, or the game reset
    MaxFaults      \* bound on crashes and failed storage requests

GameAssumption ==
    /\ {Rows, Columns, WinValue, MaxTile, MaxMoves, MaxScore, MaxStarts, MaxFaults} \subseteq Nat
    /\ Rows * Columns > 2 /\ WinValue > 4
    /\ \A e \in Earlier : e.score \in Nat

VARIABLES
    game,          \* board_, score_, phase_
    best,          \* best_score_
    undoState, undoValid,                   \* undo_, undo_valid_
    running, animating, queued, confirming, \* the program
    outcome,       \* motions and merged board of the last move
    saved,         \* the record state.v1
    moves, starts, faults,
    forgotten      \* history: a start found no game although there was one

rules  == <<game, best, undoState, undoValid>>
ui     == <<running, animating, queued, confirming, outcome>>
vars   == <<rules, ui, saved, moves, starts, faults, forgotten>>

Cells      == 0..(Rows * Columns - 1)
Directions == {"left", "right", "up", "down"}
NoMove     == "none"

-----------------------------------------------------------------------------
(* game_2048_model.cpp *)

Neighbours(c) ==
    (IF c % Columns < Columns - 1 THEN {c + 1} ELSE {}) \cup (IF c + Columns \in Cells THEN {c + Columns} ELSE {})

phase_for_board(board) ==
    IF \E c \in Cells : board[c] >= WinValue THEN "won"
    ELSE IF \E c \in Cells : board[c] = 0 \/ \E d \in Neighbours(c) : board[c] = board[d]
         THEN "playing" ELSE "lost"

\* The cells of each line, from the side the tiles move to.
Lines(direction) ==
    CASE direction = "left"  -> {[i \in 1..Columns |-> r * Columns + i - 1] : r \in 0..(Rows - 1)}
      [] direction = "right" -> {[i \in 1..Columns |-> r * Columns + Columns - i] : r \in 0..(Rows - 1)}
      [] direction = "up"    -> {[i \in 1..Rows |-> (i - 1) * Columns + c] : c \in 0..(Columns - 1)}
      [] direction = "down"  -> {[i \in 1..Rows |-> (Rows - i) * Columns + c] : c \in 0..(Columns - 1)}

\* A tile that cannot be doubled stays what it is.
Doubled(value) == IF value <= MaxTile \div 2 THEN 2 * value ELSE value

\* A LineMove: the tiles of a line, whether the last may merge, and what they score.
LineMove(values, open, score_delta) == [values |-> values, open |-> open, score_delta |-> score_delta]
Pushed(line, v)  == LineMove(Append(line.values, v), TRUE, line.score_delta)
MergedIn(line, v, open) ==
    LineMove(Append(Front(line.values), Doubled(v)), open, line.score_delta + Doubled(v))

\* Wrong variant: a tile that comes from a merge merges again.
collapse_line_Chain(values) ==
    LET Push(line, v) == IF line.open /\ Last(line.values) = v THEN MergedIn(line, v, TRUE) ELSE Pushed(line, v)
    IN FoldLeft(Push, LineMove(<<>>, FALSE, 0), SelectSeq(values, LAMBDA v : v # 0))

\* The tiles of a line without gaps, equal neighbours merged once.
collapse_line(values) ==
    LET Push(line, v) == IF line.open /\ Last(line.values) = v THEN MergedIn(line, v, FALSE) ELSE Pushed(line, v)
    IN FoldLeft(Push, LineMove(<<>>, FALSE, 0), SelectSeq(values, LAMBDA v : v # 0))

\* What move() tells the program about a line: which cell's tile goes where.
\* The pairs are found among the tiles as they lie, not from the merged line.
LineMotions(board, line) ==
    LET tiles == SelectSeq(line, LAMBDA c : board[c] # 0)
        Twin(i) == i < Len(tiles) /\ board[tiles[i]] = board[tiles[i + 1]]
        second[i \in 0..Len(tiles)] == i > 1 /\ Twin(i - 1) /\ ~second[i - 1]
        Place(i) == i - Cardinality({j \in 1..i : second[j]})
    IN {[from |-> tiles[i], to |-> line[Place(i)], value |-> board[tiles[i]]] : i \in 1..Len(tiles)}

Collapsed(board, line) == collapse_line([i \in DOMAIN line |-> board[line[i]]])

Moved(board, direction) ==
    [c \in Cells |->
        LET line == CHOOSE l \in Lines(direction) : c \in Range(l)
            tiles == Collapsed(board, line).values
            place == CHOOSE i \in DOMAIN line : line[i] = c
        IN IF place <= Len(tiles) THEN tiles[place] ELSE 0]

Motions(board, direction) == UNION {LineMotions(board, l) : l \in Lines(direction)}

Score(board, direction) ==
    FoldSet(LAMBDA line, sum : sum + Collapsed(board, line).score_delta, 0, Lines(direction))

Larger(m, n) == IF m > n THEN m ELSE n

Spawned(board) == {[board EXCEPT ![c] = v] : c \in {d \in Cells : board[d] = 0}, v \in {2, 4}}

EmptyBoard == [c \in Cells |-> 0]
NoGame     == [board |-> EmptyBoard, score |-> 0, phase |-> "playing"]
Fresh      == [board : UNION {Spawned(b) : b \in Spawned(EmptyBoard)}, score : {0}, phase : {"playing"}]

\* restore_state after decode_game_state
Restorable(record) ==
    /\ phase_for_board(record.game.board) = record.game.phase
    /\ phase_for_board(record.undo.board) = record.undo.phase
    /\ record.best >= record.game.score
    /\ record.undo.score <= record.best

-----------------------------------------------------------------------------
(* game_2048_ui.cpp *)

NoOutcome == [motions |-> {}, merged |-> EmptyBoard]
NoRecord  == [none |-> TRUE]
Record    == [game |-> game, best |-> best, undo |-> undoState, valid |-> undoValid]

GameOf(board, score) == [board |-> board, score |-> score, phase |-> phase_for_board(board)]
Kept(g) == [game |-> g, best |-> g.score, undo |-> g, valid |-> FALSE]

Fault == faults < MaxFaults /\ faults' = faults + 1

\* persist: a failure is not noticed.
persist ==
    \/ saved' = Record' /\ UNCHANGED faults
    \/ Fault /\ UNCHANGED saved

Init ==
    /\ game = NoGame /\ best = 0 /\ undoState = NoGame /\ undoValid = FALSE
    /\ running = FALSE /\ animating = "no" /\ queued = NoMove /\ confirming = FALSE
    /\ outcome = NoOutcome
    /\ saved \in {NoRecord} \cup {Kept(GameOf(e.board, e.score)) : e \in Earlier}
    /\ moves = 0 /\ starts = 0 /\ faults = 0 /\ forgotten = FALSE

\* Game2048, create with load_game_state: a failed read is taken for a first start.
create ==
    /\ ~running /\ starts < MaxStarts
    /\ starts' = starts + 1
    /\ running' = TRUE
    /\ \/ /\ saved # NoRecord
          /\ Restorable(saved)
          /\ game' = saved.game /\ best' = saved.best
          /\ undoState' = saved.undo /\ undoValid' = saved.valid
          /\ UNCHANGED <<faults, forgotten>>
       \/ /\ \/ saved = NoRecord /\ UNCHANGED faults
             \/ saved # NoRecord /\ ~Restorable(saved) /\ UNCHANGED faults
             \/ saved # NoRecord /\ Fault
          /\ game' \in Fresh /\ best' = 0
          /\ undoState' = NoGame /\ undoValid' = FALSE
          /\ forgotten' = (forgotten \/ saved # NoRecord)
    /\ UNCHANGED <<animating, queued, confirming, outcome, saved, moves>>

\* run_move: the rules change at once, the screen and the record later.
RunMove(direction) ==
    LET merged == Moved(game.board, direction)
    IN IF game.phase = "lost" \/ merged = game.board
       THEN animating' = "no" /\ outcome' = NoOutcome /\ UNCHANGED rules
       ELSE /\ \E score \in 0..MaxScore, b \in Spawned(merged) :
                  /\ score = game.score + Score(game.board, direction)
                  /\ game' = GameOf(b, score)
            /\ best' = Larger(best, game'.score)
            /\ undoState' = game /\ undoValid' = TRUE
            /\ animating' = "motion"
            /\ outcome' = [motions |-> Motions(game.board, direction), merged |-> merged]

\* gesture_event and request_move
Swipe ==
    /\ running /\ ~confirming
    /\ moves < MaxMoves
    /\ moves' = moves + 1
    /\ \E d \in Directions :
          \/ animating = "no" /\ RunMove(d) /\ UNCHANGED queued
          \/ animating # "no" /\ queued' = d /\ UNCHANGED <<rules, animating, outcome>>
    /\ UNCHANGED <<running, confirming, saved, starts, faults, forgotten>>

MotionEnds ==
    /\ animating = "motion"
    /\ animating' = "resolution"
    /\ UNCHANGED <<rules, running, queued, confirming, outcome, saved, moves, starts, faults, forgotten>>

\* finish_move; the record is written before the queued move is run.
finish_move ==
    /\ animating = "resolution"
    /\ \/ saved' = Record /\ UNCHANGED faults
       \/ Fault /\ UNCHANGED saved
    /\ queued' = NoMove
    /\ IF queued = NoMove THEN animating' = "no" /\ outcome' = NoOutcome /\ UNCHANGED rules
       ELSE RunMove(queued)
    /\ UNCHANGED <<running, confirming, moves, starts, forgotten>>

\* Wrong variant: the phase the undone move led to is kept.
Undone_KeepsPhase == [undoState EXCEPT !.phase = game.phase]

Undone == undoState

undo_event ==
    /\ running /\ animating = "no" /\ undoValid
    /\ game' = Undone /\ undoValid' = FALSE
    /\ UNCHANGED <<best, undoState>>
    /\ persist
    /\ UNCHANGED <<ui, moves, starts, forgotten>>

restart_event ==
    /\ running /\ animating = "no" /\ ~confirming
    /\ confirming' = TRUE
    /\ UNCHANGED <<rules, running, animating, queued, outcome, saved, moves, starts, faults, forgotten>>

cancel_restart_event ==
    /\ confirming
    /\ confirming' = FALSE
    /\ UNCHANGED <<rules, running, animating, queued, outcome, saved, moves, starts, faults, forgotten>>

\* Wrong variant: the best score starts again, too.
BestAfterReset_Zero == 0

\* reset leaves the best score alone, and set_best_score sets the one read before.
BestAfterReset == best

confirm_restart_event ==
    /\ confirming /\ starts < MaxStarts
    /\ starts' = starts + 1
    /\ confirming' = FALSE
    /\ game' \in Fresh
    /\ best' = BestAfterReset
    /\ undoValid' = FALSE
    /\ queued' = NoMove /\ animating' = "no"
    /\ UNCHANGED <<undoState, running, outcome, moves, forgotten>>
    /\ persist

\* The program is told to stop and saves what it has (destroy), or dies.
Ends ==
    /\ running
    /\ running' = FALSE
    /\ \/ saved' = Record /\ UNCHANGED faults
       \/ Fault /\ UNCHANGED saved
    /\ animating' = "no" /\ queued' = NoMove /\ confirming' = FALSE /\ outcome' = NoOutcome
    /\ game' = NoGame /\ best' = 0 /\ undoState' = NoGame /\ undoValid' = FALSE
    /\ UNCHANGED <<moves, starts, forgotten>>

Next ==
    \/ create \/ Ends
    \/ Swipe \/ MotionEnds \/ finish_move
    \/ undo_event \/ restart_event \/ cancel_restart_event \/ confirm_restart_event

Spec == Init /\ [][Next]_vars

-----------------------------------------------------------------------------
(* Properties *)

\* Whatever is saved can be loaded: restore_state refuses no game that was played,
\* undone, reset or won, and the next start would overwrite a refused one.
SavedIsRestorable == saved # NoRecord => Restorable(saved)

\* The tiles that are seen moving are those of the board before the move, each once;
\* on a cell of the board shown after them is the one that arrives there, or what two
\* equal ones that arrive there make; and it is those that the move scores.  The program
\* finds the motions in the board, not in the lines that collapse_line has merged.
MotionsMatch ==
    outcome # NoOutcome =>
        LET arriving(c) == {m \in outcome.motions : m.to = c}
            merges == {c \in Cells : Cardinality(arriving(c)) > 1}
        IN /\ Cardinality(outcome.motions) = Cardinality({m.from : m \in outcome.motions})
           /\ {<<m.from, m.value>> : m \in outcome.motions} =
                  {<<c, undoState.board[c]>> : c \in {d \in Cells : undoState.board[d] # 0}}
           /\ \A c \in Cells :
                  \/ arriving(c) = {} /\ outcome.merged[c] = 0
                  \/ \E m, n \in arriving(c) :
                        /\ arriving(c) = {m, n} /\ m.value = n.value
                        /\ outcome.merged[c] = IF m = n THEN m.value ELSE Doubled(m.value)
           /\ game.score - undoState.score = FoldSet(LAMBDA c, sum : sum + outcome.merged[c], 0, merges)

\* The best score on storage never goes down, whatever is undone, reset or lost in a
\* crash, unless a start could not read it.
BestSurvives ==
    [][(saved # NoRecord /\ saved'.best < saved.best) => forgotten]_vars

\* Why.  The game and the one undo goes back to have the phase of their board and no
\* more than the best score, which only a start may lower.
Sound(g) == /\ phase_for_board(g.board) = g.phase
            /\ g.score \in Nat /\ g.score <= best

GameInv ==
    /\ best \in Nat /\ Sound(game) /\ Sound(undoState)
    /\ animating # "no" \/ confirming => running
    /\ saved # NoRecord =>
        /\ {saved.best, saved.game.score, saved.undo.score} \subseteq Nat /\ Restorable(saved)
        /\ running /\ ~forgotten => saved.best <= best

=============================================================================
