-------------------------------- MODULE Snake --------------------------------
(***************************************************************************)
(* The snake game, src/ui/terminal_games/game_snake/game_snake.c.  Its     *)
(* state is global: whichever terminals play it, their keys, the updates   *)
(* and draws of the main loop and the shells' snake commands interleave.   *)
(* A random number is what the generator can give from some tick count.    *)
(***************************************************************************)
EXTENDS Integers, Sequences, SequencesExt

CONSTANTS
    GRID_WIDTH, GRID_HEIGHT,  \* with the walls
    MAX_SNAKE_LENGTH,
    SNAKE_UPDATE_INTERVAL

Field == (1 .. GRID_WIDTH - 2) \X (1 .. GRID_HEIGHT - 2)

\* The sides are even, as 40 and 20 are, there is room for the snake of
\* snake_init, and a snake that covers the field fits its array.
ASSUME GridAssumption ==
    /\ GRID_WIDTH \in Nat /\ GRID_WIDTH >= 6 /\ GRID_WIDTH % 2 = 0
    /\ GRID_HEIGHT \in Nat /\ GRID_HEIGHT >= 4 /\ GRID_HEIGHT % 2 = 0
    /\ MAX_SNAKE_LENGTH > Cardinality(Field)
    /\ SNAKE_UPDATE_INTERVAL \in Nat \ {0}

VARIABLES
    snake,         \* the cells of its segments, the head's first; empty before the first game
    food,
    heading,       \* <<dx, dy>>
    score,
    game_over,
    game_running,
    needs_redraw,
    update_counter,
    searching      \* spawn_food's loop cannot end: the kernel does nothing else any more

flags == <<game_over, game_running, needs_redraw, update_counter>>
vars == <<snake, food, heading, score, flags, searching>>

UP == <<0, -1>>
DOWN == <<0, 1>>
LEFT == <<-1, 0>>
RIGHT == <<1, 0>>

Init ==
    /\ snake = << >> /\ food = <<0, 0>> /\ heading = <<0, 0>>
    /\ score = 0
    /\ game_over = FALSE /\ game_running = FALSE
    /\ needs_redraw = TRUE
    /\ update_counter = 0
    /\ searching = FALSE

-----------------------------------------------------------------------------
\* Mutant of FoodCells: one number of the generator gives both coordinates.
FoodCellsOneNumber(ticks) == {c \in Field : c[1] % 2 = ticks /\ (c[1] - c[2]) % 4 = 0}

\* The cells the generator can draw from an even or an odd tick count, however
\* often it draws: each number is the last times an odd number plus an odd
\* number, so that they are odd and even by turns, and so is the remainder by
\* an even side.
FoodCells(ticks) == {c \in Field : c[1] % 2 = ticks /\ c[2] % 2 # ticks}

\* Mutant of spawn_food: the head is not asked about.
spawn_foodTail(s) ==
    \E ticks \in 0 .. 1 :
        LET free == FoodCells(ticks) \ Range(Tail(s))
        IN  IF free = {} THEN searching' = TRUE /\ UNCHANGED food
            ELSE food' \in free /\ UNCHANGED searching

\* spawn_food, with the snake s: it draws until a cell is not on it.
spawn_food(s) ==
    \E ticks \in 0 .. 1 :
        LET free == FoodCells(ticks) \ Range(s)
        IN  IF free = {} THEN searching' = TRUE /\ UNCHANGED food
            ELSE food' \in free /\ UNCHANGED searching

snake_init ==
    /\ snake' = [i \in 1 .. 3 |-> <<GRID_WIDTH \div 2 - (i - 1), GRID_HEIGHT \div 2>>]
    /\ heading' = RIGHT
    /\ score' = 0
    /\ game_over' = FALSE /\ game_running' = TRUE
    /\ needs_redraw' = TRUE
    /\ update_counter' = 0
    /\ spawn_food(snake')

-----------------------------------------------------------------------------
NewHead == <<snake[1][1] + heading[1], snake[1][2] + heading[2]>>

\* Mutant of Collision: the neck and the tail are not asked about.
CollisionMiddle == NewHead \notin Field \/ \E i \in 3 .. Len(snake) - 1 : snake[i] = NewHead

Collision == NewHead \notin Field \/ \E i \in 2 .. Len(snake) : snake[i] = NewHead

\* Mutant of Crash: the end is not drawn.
CrashUnseen ==
    /\ game_over' = TRUE
    /\ UNCHANGED <<snake, food, heading, score, searching, needs_redraw>>

Crash ==
    /\ game_over' = TRUE /\ needs_redraw' = TRUE
    /\ UNCHANGED <<snake, food, heading, score, searching>>

\* The body follows the head.  With food there is one segment more, where the
\* tail is, and new food; its search comes before the redraw.
Advance ==
    LET moved == <<NewHead>> \o SubSeq(snake, 1, Len(snake) - 1)
    IN  /\ IF NewHead = food
           THEN /\ score' = score + 10
                /\ snake' = IF Len(snake) < MAX_SNAKE_LENGTH
                            THEN Append(moved, Last(moved)) ELSE moved
                /\ spawn_food(snake')
           ELSE snake' = moved /\ UNCHANGED <<score, food, searching>>
        /\ needs_redraw' = (needs_redraw \/ ~ searching')
        /\ UNCHANGED <<heading, game_over>>

snake_update ==
    /\ game_running
    /\ update_counter' = (update_counter + 1) % SNAKE_UPDATE_INTERVAL
    /\ IF update_counter' # 0
       THEN UNCHANGED <<snake, food, heading, score, game_over, needs_redraw, searching>>
       ELSE IF game_over
       THEN needs_redraw' = TRUE /\ UNCHANGED <<snake, food, heading, score, game_over, searching>>
       ELSE IF Collision THEN Crash
       ELSE Advance
    /\ UNCHANGED game_running

\* A terminal in front plays the game.  (The first draw also clears the screen:
\* `initialized' is in Ttys.)
snake_draw ==
    /\ needs_redraw' = FALSE
    /\ UNCHANGED <<snake, food, heading, score, game_over, game_running, update_counter, searching>>

snake_input ==
    \/ /\ game_running' = FALSE
       /\ UNCHANGED <<snake, food, heading, score, game_over, needs_redraw, update_counter,
                      searching>>
    \/ game_over /\ snake_init

\* An arrow key, except back.
snake_special_input ==
    /\ ~ game_over
    /\ \E arrow \in {UP, DOWN, LEFT, RIGHT} :
          /\ heading # <<- arrow[1], - arrow[2]>>
          /\ heading' = arrow
    /\ UNCHANGED <<snake, food, score, flags, searching>>

Next ==
    /\ ~ searching
    /\ \/ snake_init  \* the shell's snake
       \/ snake_update
       \/ snake # << >> /\ (snake_draw \/ snake_input \/ snake_special_input)

Spec == Init /\ [][Next]_vars

-----------------------------------------------------------------------------
\* The snake lies in the field and does not cross itself, its segments one
\* behind the other, but for the one that has just grown, which is where the
\* tail is until the next move.
SnakeIsPath ==
    /\ Range(snake) \subseteq Field
    /\ \A i, j \in DOMAIN snake :
          i < j /\ snake[i] = snake[j] => i = Len(snake) - 1 /\ j = Len(snake)
    /\ \A i \in 1 .. Len(snake) - 1 :
          \/ <<snake[i + 1][1] - snake[i][1], snake[i + 1][2] - snake[i][2]>>
                \in {UP, DOWN, LEFT, RIGHT}
          \/ i = Len(snake) - 1 /\ snake[i] = snake[i + 1]

\* The food is never on the snake, whatever moves and restarts came since it was
\* put there, except while a search for another cell goes on.
FoodFree == food \notin Range(snake) \/ searching

\* The search for food ends, that is, the kernel does not stop, while the snake
\* is too short to cover every second cell of every second row, which are all
\* the cells the generator draws from one tick count: 341 segments at 40 by 20,
\* half of what the field and the array have room for.
SearchEnds ==
    searching =>
        Cardinality(Range(snake)) >= (GRID_WIDTH - 2) * ((GRID_HEIGHT - 2) \div 2) - 1

\* A step that changes what the game shows has it drawn: nothing on the screen
\* stays behind the game, by an update, a restart or a game of another terminal.
Picture == <<snake, food, score, game_over>>
PictureIsDrawn == [][Picture' # Picture /\ ~ searching' => needs_redraw']_vars

\* "Can't reverse direction" (game_snake.c:252, 258, 264, 270): no game ends
\* because the snake turns into its own neck.
CannotReverse == [][~ game_over /\ game_over' => NewHead # snake[2]]_vars
=============================================================================
