-------------------------------- MODULE Tetris --------------------------------
(***************************************************************************)
(* The falling-blocks game, src/ui/terminal_games/game_tetris/             *)
(* game_tetris.c.  A piece is one cell.  The state is global: keys of any  *)
(* terminal in game mode, updates and draws of the main loop and the       *)
(* shells' tetris commands interleave, and keys still move the piece of a  *)
(* game that another terminal has ended.                                   *)
(***************************************************************************)
EXTENDS Integers, FiniteSets, FiniteSetsExt

CONSTANTS
    BOARD_WIDTH, BOARD_HEIGHT,
    TETRIS_UPDATE_INTERVAL,
    ScoreMod    \* 2^32: the score is unsigned

ASSUME BoardAssumption ==
    /\ BOARD_WIDTH \in Nat \ {0} /\ BOARD_HEIGHT \in Nat \ {0}
    /\ TETRIS_UPDATE_INTERVAL \in Nat \ {0}
    /\ ScoreMod \in Nat \ {0}

Columns == 0 .. BOARD_WIDTH - 1
Rows == 0 .. BOARD_HEIGHT - 1
Boards == [Rows -> [Columns -> BOOLEAN]]

VARIABLES
    board,         \* by row and column, whether a piece was locked there
    piece,         \* <<x, y>>, empty before the first game
    score,
    game_over,
    game_running,
    needs_redraw,
    update_counter,
    landings       \* auxiliary: pieces come and gone, modulo 2

flags == <<game_over, game_running, needs_redraw, update_counter>>
vars == <<board, piece, score, flags, landings>>

EmptyRow == [x \in Columns |-> FALSE]
EmptyBoard == [y \in Rows |-> EmptyRow]

Init ==
    /\ board = EmptyBoard
    /\ piece = << >>
    /\ score = 0
    /\ game_over = FALSE /\ game_running = FALSE
    /\ needs_redraw = TRUE
    /\ update_counter = 0
    /\ landings = 0

-----------------------------------------------------------------------------
is_valid_position(x, y) == x \in Columns /\ y \in Rows /\ ~ board[y][x]

Below(p) == <<p[1], p[2] + 1>>
Beside(p, dx) == <<p[1] + dx, p[2]>>
Valid(p) == is_valid_position(p[1], p[2])

lock_piece(p) == [board EXCEPT ![p[2]][p[1]] = TRUE]

Full(b, y) == \A x \in Columns : b[y][x]
RemoveRow(b, y) ==
    [r \in Rows |-> IF r > y THEN b[r] ELSE IF r = 0 THEN EmptyRow ELSE b[r - 1]]

\* Mutant of CheckRow: the row that came down is not looked at.
CheckRowOnce(at) ==
    IF at.y = -1 THEN at
    ELSE IF Full(at.board, at.y)
    THEN [y |-> at.y - 1, board |-> RemoveRow(at.board, at.y), lines |-> at.lines + 1]
    ELSE [at EXCEPT !.y = @ - 1]

\* A turn of the loop: a full row is removed and the row in its place is next.
CheckRow(at) ==
    IF at.y = -1 THEN at
    ELSE IF Full(at.board, at.y)
    THEN [at EXCEPT !.board = RemoveRow(@, at.y), !.lines = @ + 1]
    ELSE [at EXCEPT !.y = @ - 1]

\* The loop from the bottom up, and how many rows it found full.  It ends at
\* y = -1, after a turn for every row and one more for every full one.
check_lines(b) ==
    LET checked[n \in 0 .. 2 * BOARD_HEIGHT] ==
          IF n = 0 THEN [y |-> BOARD_HEIGHT - 1, board |-> b, lines |-> 0]
          ELSE CheckRow(checked[n - 1])
    IN  checked[2 * BOARD_HEIGHT]

Start == <<BOARD_WIDTH \div 2, 0>>
Scored(points) == score' = (score + points) % ScoreMod

\* Mutant of spawn_new_piece: the place is not looked at.
spawn_new_pieceAnyway ==
    /\ piece' = Start
    /\ UNCHANGED game_over
    /\ needs_redraw' = TRUE

spawn_new_piece ==
    /\ piece' = Start
    /\ game_over' = (game_over \/ board'[0][BOARD_WIDTH \div 2])
    /\ needs_redraw' = TRUE

\* lock_piece, check_lines, spawn_new_piece.
Land(p, bonus) ==
    /\ LET checked == check_lines(lock_piece(p))
       IN  board' = checked.board /\ Scored(100 * checked.lines + bonus)
    /\ spawn_new_piece
    /\ landings' = 1 - landings

MoveTo(p, points) ==
    /\ Valid(p)
    /\ piece' = p
    /\ needs_redraw' = TRUE
    /\ Scored(points)
    /\ UNCHANGED <<board, game_over, landings>>

-----------------------------------------------------------------------------
tetris_init ==
    /\ board' = EmptyBoard
    /\ piece' = Start
    /\ score' = 0
    /\ game_over' = FALSE /\ game_running' = TRUE
    /\ needs_redraw' = TRUE
    /\ update_counter' = 0
    /\ landings' = 1 - landings

\* Mutant of tetris_update: the piece lands on the last row only.
tetris_updateBottom ==
    /\ game_running
    /\ update_counter' = (update_counter + 1) % TETRIS_UPDATE_INTERVAL
    /\ IF update_counter' # 0
       THEN UNCHANGED <<board, piece, score, game_over, needs_redraw, landings>>
       ELSE IF game_over
       THEN needs_redraw' = TRUE /\ UNCHANGED <<board, piece, score, game_over, landings>>
       ELSE \/ MoveTo(Below(piece), 0)
            \/ piece[2] = BOARD_HEIGHT - 1 /\ Land(piece, 0)
            \/ /\ piece[2] < BOARD_HEIGHT - 1 /\ ~ Valid(Below(piece))
               /\ UNCHANGED <<board, piece, score, game_over, needs_redraw, landings>>
    /\ UNCHANGED game_running

tetris_update ==
    /\ game_running
    /\ update_counter' = (update_counter + 1) % TETRIS_UPDATE_INTERVAL
    /\ IF update_counter' # 0
       THEN UNCHANGED <<board, piece, score, game_over, needs_redraw, landings>>
       ELSE IF game_over
       THEN needs_redraw' = TRUE /\ UNCHANGED <<board, piece, score, game_over, landings>>
       ELSE IF Valid(Below(piece)) THEN MoveTo(Below(piece), 0)
       ELSE Land(piece, 0)
    /\ UNCHANGED game_running

\* A terminal in front plays the game.  (The first draw also clears the screen:
\* `initialized' is in Ttys.)
tetris_draw ==
    /\ needs_redraw' = FALSE
    /\ UNCHANGED <<board, piece, score, game_over, game_running, update_counter, landings>>

\* Left, right, and down for a point, as letters or arrows.
MoveKey ==
    /\ ~ game_over
    /\ \/ \E dx \in {-1, 1} : MoveTo(Beside(piece, dx), 0)
       \/ MoveTo(Below(piece), 1)
    /\ UNCHANGED <<game_running, update_counter>>

\* The rows the piece falls through until the next cell below is not free.
FallsTo == {y \in Rows : y > piece[2] /\ \A r \in piece[2] + 1 .. y : Valid(<<piece[1], r>>)}

\* Space: to the bottom, locked at once, for twenty points.
HardDrop ==
    /\ ~ game_over
    /\ Land(<<piece[1], Max(FallsTo \cup {piece[2]})>>, 20)
    /\ UNCHANGED <<game_running, update_counter>>

Escape ==
    /\ game_running' = FALSE
    /\ UNCHANGED <<board, piece, score, game_over, needs_redraw, update_counter, landings>>

Restart == game_over /\ tetris_init

Next ==
    \/ tetris_init  \* the shell's tetris
    \/ tetris_update
    \/ piece # << >> /\ (tetris_draw \/ MoveKey \/ HardDrop \/ Escape \/ Restart)

\* The main loop updates the games of all terminals in every turn.
Spec == Init /\ [][Next]_vars /\ WF_vars(tetris_update)

-----------------------------------------------------------------------------
\* check_lines takes exactly the full rows out of any board, whichever they are
\* and however many: every other row comes down by the number of full rows below
\* it, and as many empty rows are on top ("Check this line again", game_tetris.c:69).  No play shows it, as a
\* cell fills one row, so it is said of every board, before the first game.
LinesCleared ==
    piece = << >> =>
        \A b \in Boards :
            LET full == {y \in Rows : \A x \in Columns : b[y][x]}
                Fall(y) == Cardinality({r \in full : r > y})
                cleared == check_lines(b)
            IN  /\ cleared.lines = Cardinality(full)
                /\ cleared.board \in Boards
                /\ \A y \in Rows \ full : cleared.board[y + Fall(y)] = b[y]
                /\ \A y \in Rows : y < Cardinality(full) => cleared.board[y] = EmptyRow

\* The piece is on the board, on a cell that is free until the game is over and
\* taken from then on: moves, clears and restarts of several terminals neither
\* put it into the stack nor end a game that could go on.
PieceFree ==
    piece # << >> =>
        /\ piece \in Columns \X Rows
        /\ game_over <=> board[piece[2]][piece[1]]

\* While the game runs, no keys keep a piece in the air: it lands, or the game
\* is over, ended or started again.
PieceLands ==
    \A n \in 0 .. 1 :
        game_running /\ ~ game_over /\ landings = n ~>
            landings # n \/ game_over \/ ~ game_running
=============================================================================
