-------------------------------- MODULE Ttys --------------------------------
(***************************************************************************)
(* The text terminals, src/ui/tty/tty.c, with what decides which program   *)
(* a terminal runs and what the screen shows: Enter in shell.c, the start, *)
(* restart and end of a game, and the frame of kernel_main, which updates  *)
(* every terminal's program and draws the one in front.  A game keeps its  *)
(* state in globals of its file: one for all the terminals that play it.   *)
(*                                                                         *)
(* One thread runs all of this, so each key and each frame is a step.  A   *)
(* command line is a sequence of words; the rules of the games, and the    *)
(* editing of a line, are modules of their own.                            *)
(***************************************************************************)
EXTENDS Integers, Sequences, FiniteSets, SequencesExt

CONSTANTS
    TTYs,      \* the terminals shell_init registers
    Games,     \* commands that start a game, named as the game
    Words,     \* other words
    MaxWords,  \* words of a line
    Interval   \* SNAKE_UPDATE_INTERVAL, TETRIS_UPDATE_INTERVAL

NUL == "NUL"      \* the 0 the parse writes behind the command
SHELL == "shell"  \* the shell's four functions

ASSUME TtysAssumption ==
    /\ 0 \in TTYs /\ IsFiniteSet(TTYs) /\ MaxWords \in Nat /\ Interval \in Nat \ {0}
    /\ SHELL \notin Games /\ NUL \notin Games \cup Words /\ Games \cap Words = {}

VARIABLES
    ttys,         \* a terminal's mode, its program's functions, its command line
    tty_backup,   \* what tty_change_mode saved of each
    current_tty,  \* the terminal in front
    game,         \* the globals of each game
    screen        \* what is on the screen: whose picture, with the line behind the
                  \* last prompt, and whether the cursor is visible

vars == <<ttys, tty_backup, current_tty, game, screen>>

-----------------------------------------------------------------------------
Shell(line) == [mode |-> "SHELL", program |-> SHELL, needs_redraw |-> TRUE, command |-> line]

\* console_write stops at a NUL.
Printed(line) == SelectInSeq(line, LAMBDA word : word = NUL)
Written(line) == IF Printed(line) = 0 THEN line ELSE SubSeq(line, 1, Printed(line) - 1)

Prompt(line) == [shows |-> SHELL, text |-> Written(line)]
Blank == [shows |-> "nothing", text |-> << >>]
Picture(g) == [shows |-> g, text |-> << >>]

\* A game's globals after its init function.
Fresh == [running |-> TRUE, over |-> FALSE, initialized |-> FALSE, needs_redraw |-> TRUE,
          counter |-> 0]

front == ttys[current_tty]
Playing(g) == front.program = g

\* tty_init and shell_init.
Init ==
    /\ current_tty = 0
    /\ ttys = [t \in TTYs |-> Shell(<< >>)]
    /\ tty_backup = [t \in TTYs |-> Shell(<< >>)]
    /\ game = [g \in Games |-> [Fresh EXCEPT !.running = FALSE]]
    /\ screen = [picture |-> Prompt(<< >>), cursor |-> TRUE]

-----------------------------------------------------------------------------
\* The shell in front.
TypeWord ==
    /\ front.program = SHELL
    /\ Len(front.command) < MaxWords
    /\ \E word \in Games \cup Words :
          /\ ttys' = [ttys EXCEPT ![current_tty].command = Append(@, word)]
          /\ screen' = [screen EXCEPT !.picture.text = Append(@, word)]
    /\ UNCHANGED <<tty_backup, current_tty, game>>

\* Ctrl+C: a new line.
Interrupt ==
    /\ front.program = SHELL
    /\ ttys' = [ttys EXCEPT ![current_tty].command = << >>]
    /\ screen' = [screen EXCEPT !.picture = Prompt(<< >>)]
    /\ UNCHANGED <<tty_backup, current_tty, game>>

\* The line when its command runs: a NUL is behind the first word if more follow.
Parsed(line) ==
    IF Len(line) > 1 /\ line[2] # NUL THEN <<line[1], NUL>> \o Tail(line) ELSE line

NamesGame(line) == line # << >> /\ line[1] \in Games

\* Mutant of tty_change_mode: the backup is taken when the mode is the new one.
tty_change_modeLate(tty, g) ==
    LET changed == [tty EXCEPT !.mode = "GAME", !.program = g, !.needs_redraw = TRUE]
    IN  [tty |-> changed, backup |-> changed]

\* tty_change_mode(TTY_MODE_GAME, the functions of g): the terminal and its backup.
tty_change_mode(tty, g) ==
    [tty    |-> [tty EXCEPT !.mode = "GAME", !.program = g, !.needs_redraw = TRUE],
     backup |-> tty]

\* Enter on any other line: it runs and a new prompt is printed.
RunCommand ==
    /\ front.program = SHELL
    /\ ~ NamesGame(front.command)
    /\ ttys' = [ttys EXCEPT ![current_tty].command = << >>]
    /\ screen' = [screen EXCEPT !.picture = Prompt(<< >>)]
    /\ UNCHANGED <<tty_backup, current_tty, game>>

\* Enter on a game's name, cmd_snake or cmd_tetris: after it shell_handle_char
\* goes on, empties the line and prints the shell's prompt on the cleared screen.
StartGame ==
    /\ front.program = SHELL
    /\ NamesGame(front.command)
    /\ LET g == front.command[1]
           changed == tty_change_mode([front EXCEPT !.command = Parsed(@)], g)
       IN  /\ ttys' = [ttys EXCEPT ![current_tty] = [changed.tty EXCEPT !.command = << >>]]
           /\ tty_backup' = [tty_backup EXCEPT ![current_tty] = changed.backup]
           /\ game' = [game EXCEPT ![g] = Fresh]
           /\ screen' = [picture |-> Prompt(<< >>), cursor |-> FALSE]
    /\ UNCHANGED current_tty

shell_handle_char == TypeWord \/ Interrupt \/ RunCommand \/ StartGame

-----------------------------------------------------------------------------
tty_restore_to_shell ==
    LET line == tty_backup[current_tty].command
    IN  /\ ttys' = [ttys EXCEPT ![current_tty] =
                      [Shell(line) EXCEPT !.program = tty_backup[current_tty].program]]
        /\ screen' = [picture |-> Prompt(line), cursor |-> TRUE]

\* Mutant of Escape: the game goes on.
EscapeRunning ==
    /\ front.program \in Games
    /\ tty_restore_to_shell
    /\ UNCHANGED <<tty_backup, current_tty, game>>

\* ESC in a game.
Escape ==
    /\ front.program \in Games
    /\ game' = [game EXCEPT ![front.program].running = FALSE]
    /\ tty_restore_to_shell
    /\ UNCHANGED <<tty_backup, current_tty>>

\* R when the game is over.
Restart ==
    /\ front.program \in Games
    /\ game[front.program].over
    /\ game' = [game EXCEPT ![front.program] = Fresh]
    /\ UNCHANGED <<ttys, tty_backup, current_tty, screen>>

\* Mutant of tty_switch: the line of the shell is not printed again.
tty_switchNoLine(t) ==
    /\ t # current_tty
    /\ current_tty' = t
    /\ ttys' = [ttys EXCEPT ![t].needs_redraw = TRUE]
    /\ screen' = [picture |-> IF ttys[t].mode = "SHELL" THEN Prompt(<< >>) ELSE Blank,
                  cursor  |-> ttys[t].mode # "GAME"]
    /\ UNCHANGED <<tty_backup, game>>

\* Alt+Fn: the screen is cleared; a shell prints its prompt and its line.
tty_switch(t) ==
    /\ t # current_tty
    /\ current_tty' = t
    /\ ttys' = [ttys EXCEPT ![t].needs_redraw = TRUE]
    /\ screen' = [picture |-> IF ttys[t].mode = "SHELL" THEN Prompt(ttys[t].command) ELSE Blank,
                  cursor  |-> ttys[t].mode # "GAME"]
    /\ UNCHANGED <<tty_backup, game>>

-----------------------------------------------------------------------------
\* Mutant of Updated: a game that is over is not drawn again.
UpdatedUnlessOver(g, n, ends) ==
    LET calls == game[g].counter + n
    IN  IF ~ game[g].running THEN game[g]
        ELSE [game[g] EXCEPT
                !.counter = calls % Interval,
                !.needs_redraw = @ \/ (calls >= Interval /\ ~ game[g].over),
                !.over = @ \/ (calls >= Interval /\ ends)]

\* What n calls of a game's update function leave, the game ending or not when
\* it moves: it moves, or is drawn again when over, with every Interval-th call.
Updated(g, n, ends) ==
    LET calls == game[g].counter + n
    IN  IF ~ game[g].running THEN game[g]
        ELSE [game[g] EXCEPT
                !.counter = calls % Interval,
                !.needs_redraw = @ \/ calls >= Interval,
                !.over = @ \/ (calls >= Interval /\ ends)]

Players(g) == Cardinality({t \in TTYs : ttys[t].program = g})

\* draw_func of the terminal in front, of a game or of the shell.
DrawGame(g, state) ==
    /\ game' = [state EXCEPT ![g].initialized = TRUE, ![g].needs_redraw = FALSE]
    /\ screen' =
          IF state[g].needs_redraw \/ ~ state[g].initialized
          THEN [picture |-> Picture(g), cursor |-> screen.cursor /\ state[g].initialized]
          ELSE screen
    /\ UNCHANGED ttys
DrawShell(state) ==
    /\ game' = state
    /\ ttys' = [ttys EXCEPT ![current_tty].needs_redraw = FALSE]
    /\ UNCHANGED screen

\* One turn of kernel_main's loop behind its keys.
Frame ==
    /\ \E ends \in [Games -> BOOLEAN] :
          LET state == [g \in Games |-> Updated(g, Players(g), ends[g])]
          IN  IF front.program = SHELL THEN DrawShell(state) ELSE DrawGame(front.program, state)
    /\ UNCHANGED <<tty_backup, current_tty>>

Next ==
    \/ shell_handle_char
    \/ Escape \/ Restart
    \/ \E t \in TTYs : tty_switch(t)
    \/ Frame

\* The loop of kernel_main goes on: the timer ends every hlt.
Spec == Init /\ [][Next]_vars /\ WF_vars(Frame)

-----------------------------------------------------------------------------
\* The mode of a terminal and its functions agree, and ESC in a game comes back
\* to the shell: what tty_change_mode saved is never a game.
ModesAgree ==
    \A t \in TTYs :
        /\ ttys[t].mode = "GAME" <=> ttys[t].program \in Games
        /\ ttys[t].mode = "GAME" => tty_backup[t].program = SHELL

\* With a shell in front, the line on the screen is the line Enter would run,
\* however many switches, games and frames came between its words; of a line that
\* ran a game and came back with the parse's NUL in it, the command at least is.
\* The cursor can be seen then, and only then: four functions show or hide it.
LineOnScreen ==
    /\ screen.cursor <=> front.mode = "SHELL"
    /\ front.program = SHELL =>
          /\ screen.picture.shows = SHELL
          /\ NUL \notin Range(front.command) => screen.picture.text = front.command
          /\ front.command # << >> =>
                screen.picture.text # << >> /\ screen.picture.text[1] = front.command[1]

\* A game that runs can be reached and ended: some terminal plays it.
RunningIsPlayed ==
    \A g \in Games : game[g].running => \E t \in TTYs : ttys[t].program = g

\* The terminal in front shows its game if it runs, and again after every switch
\* to it, although frames draw a game only when the game's own flag says so.
GameIsShown ==
    \A g \in Games :
        Playing(g) /\ game[g].running ~>
            screen.picture.shows = g \/ ~ Playing(g) \/ ~ game[g].running
=============================================================================
