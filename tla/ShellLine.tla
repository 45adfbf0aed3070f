------------------------------ MODULE ShellLine ------------------------------
(***************************************************************************)
(* The shell's command line, src/ui/shell/shell.c, and its history and     *)
(* completion, shell_history.c: one terminal's buffer, cursor and history, *)
(* one action per key.  What a command prints or does is not part of it,   *)
(* but the return from a game, which brings the line of its start back.    *)
(***************************************************************************)
EXTENDS Integers, Sequences, SequencesExt

CONSTANTS
    Letters,             \* printable characters but the space
    SHELL_BUFFER_SIZE,
    SHELL_HISTORY_SIZE,
    available_commands,  \* strings completed at the start of a line
    file_commands,       \* the commands whose argument is a file
    games,               \* the commands that start a game
    Files,               \* entries of the working directory: [name, slash]
    Runs                 \* bound: the lines users run

SPACE == " "
NUL == "NUL"
Slash == "/"
Typed == Letters \cup {SPACE, Slash}
Chars == Typed \cup {NUL}
Positions == 0 .. SHELL_BUFFER_SIZE - 1

ASSUME SizesAssumption == SHELL_BUFFER_SIZE \in Nat \ {0} /\ SHELL_HISTORY_SIZE \in Nat \ {0}
ASSUME StringsAssumption ==
    /\ SPACE \notin Letters /\ NUL \notin Typed
    /\ \A s \in available_commands : s \in Seq(Letters) /\ Len(s) < SHELL_BUFFER_SIZE
    /\ \A file \in Files : file.name \in Seq(Typed) /\ file.slash \in BOOLEAN

VARIABLES
    command_buffer,
    buffer_index,
    cursor_position,
    command_history,
    history_count,
    history_index,
    temp_buffer,      \* the string in it
    tty_backup        \* the line kept while a game has the terminal

line == <<command_buffer, buffer_index, cursor_position>>
history == <<command_history, history_count>>
vars == <<line, history, history_index, temp_buffer, tty_backup>>

NoGame == [playing |-> FALSE]

Init ==
    /\ command_buffer = [i \in Positions |-> NUL]
    /\ buffer_index = 0
    /\ cursor_position = 0
    /\ command_history = [i \in 0 .. SHELL_HISTORY_SIZE - 1 |-> << >>]
    /\ history_count = 0
    /\ history_index = -1
    /\ temp_buffer = << >>
    /\ tty_backup = NoGame

-----------------------------------------------------------------------------
\* The characters up to buffer_index, and those C's functions see.
Text == [i \in 1 .. buffer_index |-> command_buffer[i - 1]]
CString(s) ==
    LET nul == SelectInSeq(s, LAMBDA c : c = NUL)
    IN  IF nul = 0 THEN s ELSE SubSeq(s, 1, nul - 1)

Str == CString([i \in 1 .. SHELL_BUFFER_SIZE |-> command_buffer[i - 1]])

\* Mutant of Stored: the 0 is not written.
StoredNoNul(s) == [i \in Positions |-> IF i < Len(s) THEN s[i + 1] ELSE command_buffer[i]]

\* The buffer with s and a 0 behind it, as strcpy writes it.
Stored(s) ==
    [i \in Positions |-> IF i < Len(s) THEN s[i + 1] ELSE IF i = Len(s) THEN NUL
                         ELSE command_buffer[i]]

\* strcpy, buffer_index = strlen and the cursor at the end.
SetLine(s) ==
    /\ command_buffer' = Stored(s)
    /\ buffer_index' = Len(s)
    /\ cursor_position' = Len(s)

Emptied ==
    /\ command_buffer' = [command_buffer EXCEPT ![0] = NUL]
    /\ buffer_index' = 0
    /\ cursor_position' = 0

-----------------------------------------------------------------------------
\* Left, Right, Home, End, Ctrl+A, Ctrl+E.
MoveCursor ==
    /\ cursor_position' \in {cursor_position - 1, cursor_position + 1, 0, buffer_index}
    /\ cursor_position' \in 0 .. buffer_index
    /\ UNCHANGED <<command_buffer, buffer_index, history, history_index, temp_buffer, tty_backup>>

\* The loop that moves the characters behind `from' left by one, and the new end.
TakenOut(from) ==
    [i \in Positions |->
        IF i = buffer_index - 1 THEN NUL
        ELSE IF from <= i /\ i < buffer_index - 1 THEN command_buffer[i + 1]
        ELSE command_buffer[i]]

DeleteKey ==
    /\ cursor_position < buffer_index
    /\ command_buffer' = TakenOut(cursor_position)
    /\ buffer_index' = buffer_index - 1
    /\ UNCHANGED <<cursor_position, history, history_index, temp_buffer, tty_backup>>

Backspace ==
    /\ cursor_position > 0
    /\ command_buffer' = TakenOut(cursor_position - 1)
    /\ buffer_index' = buffer_index - 1
    /\ cursor_position' = cursor_position - 1
    /\ UNCHANGED <<history, history_index, temp_buffer, tty_backup>>

\* Ctrl+K, Ctrl+U, Ctrl+C.
KillToEnd ==
    /\ buffer_index' = cursor_position
    /\ command_buffer' = [command_buffer EXCEPT ![cursor_position] = NUL]
    /\ UNCHANGED <<cursor_position, history, history_index, temp_buffer, tty_backup>>
KillLine == Emptied /\ UNCHANGED <<history, history_index, temp_buffer, tty_backup>>
Cancel == Emptied /\ history_index' = -1 /\ UNCHANGED <<history, temp_buffer, tty_backup>>

Room == buffer_index < SHELL_BUFFER_SIZE - 1

\* A printable key.
InsertChar(c) ==
    /\ Room
    /\ command_buffer' =
          [i \in Positions |->
              IF i = buffer_index + 1 THEN NUL
              ELSE IF i = cursor_position THEN c
              ELSE IF cursor_position < i /\ i <= buffer_index THEN command_buffer[i - 1]
              ELSE command_buffer[i]]
    /\ buffer_index' = buffer_index + 1
    /\ cursor_position' = cursor_position + 1
    /\ history_index' = -1
    /\ UNCHANGED <<history, temp_buffer, tty_backup>>

-----------------------------------------------------------------------------
\* handle_history_navigation.
Up ==
    /\ history_count > 0 /\ history_index < history_count - 1
    /\ history_index' = history_index + 1
    /\ temp_buffer' = IF history_index = -1 THEN Str ELSE temp_buffer
    /\ SetLine(command_history[history_index + 1])
    /\ UNCHANGED <<history, tty_backup>>

\* Mutant of Down: from the newest line nothing is brought back.
DownKeeps ==
    /\ history_index >= 0
    /\ history_index' = history_index - 1
    /\ IF history_index = 0 THEN UNCHANGED line ELSE SetLine(command_history[history_index - 1])
    /\ UNCHANGED <<history, temp_buffer, tty_backup>>

Down ==
    /\ history_index >= 0
    /\ history_index' = history_index - 1
    /\ SetLine(IF history_index = 0 THEN temp_buffer ELSE command_history[history_index - 1])
    /\ UNCHANGED <<history, temp_buffer, tty_backup>>

-----------------------------------------------------------------------------
\* The first place from i on where s has (no) space, or the place behind its end.
SpaceFrom(s, i) == Min({j \in i .. Len(s) : s[j] = SPACE} \cup {Len(s) + 1})
WordFrom(s, i) == Min({j \in i .. Len(s) : s[j] # SPACE} \cup {Len(s) + 1})

\* The first word of a string, and the rest of its characters but the spaces.
Word(s) == SubSeq(s, WordFrom(s, 1), SpaceFrom(s, WordFrom(s, 1)) - 1)
Argument(s) ==
    SelectSeq(SubSeq(s, SpaceFrom(s, WordFrom(s, 1)), Len(s)), LAMBDA c : c # SPACE)
HasArgument(s) == SpaceFrom(s, WordFrom(s, 1)) <= Len(s)

\* complete_command: the command of which the line is the start, if it is one.
Completions == {command \in available_commands : IsPrefix(Str, command)}
CompletesCommand(s) ==
    /\ Completions = {s}
    /\ SetLine(s)

\* complete_filesystem_path: the file of which the argument is the start, if it
\* is one, behind the first word and its spaces.
Matching == {file \in Files : IsPrefix(CString(Argument(Text)), file.name)}
Kept == SubSeq(Text, 1, WordFrom(Text, SpaceFrom(Text, 1)) - 1)
Listed(file) == file.name \o (IF file.slash THEN <<Slash>> ELSE << >>)
CompletesFile(file) ==
    /\ Matching = {file}
    /\ LET s == Kept \o Listed(file)
       IN  /\ Len(s) < SHELL_BUFFER_SIZE  \* bound: the code does not ask whether it fits
           /\ SetLine(s)

\* handle_tab_completion.
NamesFile == CString(Word(Text)) \in file_commands /\ HasArgument(Text)
Tab ==
    /\ buffer_index # 0
    /\ \/ ~ NamesFile /\ \E s \in available_commands : CompletesCommand(s)
       \/ NamesFile /\ \E file \in Files : CompletesFile(file)
    /\ UNCHANGED <<history, history_index, temp_buffer, tty_backup>>

-----------------------------------------------------------------------------
add_to_history(s) ==
    IF s = << >> \/ (history_count > 0 /\ command_history[0] = s) THEN UNCHANGED history
    ELSE /\ command_history' = [i \in DOMAIN command_history |->
                                  IF i = 0 THEN s ELSE command_history[i - 1]]
         /\ history_count' = Min({history_count + 1, SHELL_HISTORY_SIZE})

\* The buffer when the command runs: a 0 is behind its word if a space is.
Parsed ==
    LET end == SpaceFrom(Str, WordFrom(Str, 1))
    IN  IF end <= Len(Str) THEN [command_buffer EXCEPT ![end - 1] = NUL] ELSE command_buffer

\* Enter.  A game takes a copy of the line as the parse left it.
Enter ==
    /\ Str \in Runs
    /\ add_to_history(SubSeq(Str, WordFrom(Str, 1), Len(Str)))
    /\ tty_backup' =
          IF Word(Str) \in games
          THEN [playing |-> TRUE, command_buffer |-> Parsed, buffer_index |-> buffer_index,
                cursor_position |-> cursor_position]
          ELSE NoGame
    /\ command_buffer' = [Parsed EXCEPT ![0] = NUL]
    /\ buffer_index' = 0
    /\ cursor_position' = 0
    /\ history_index' = -1
    /\ UNCHANGED temp_buffer

\* ESC in the game: tty_restore_to_shell.
Escape ==
    /\ tty_backup.playing
    /\ command_buffer' = tty_backup.command_buffer
    /\ buffer_index' = tty_backup.buffer_index
    /\ cursor_position' = tty_backup.cursor_position
    /\ tty_backup' = NoGame
    /\ UNCHANGED <<history, history_index, temp_buffer>>

shell_handle_special_key == Up \/ Down \/ MoveCursor \/ DeleteKey
shell_handle_char ==
    \/ Cancel \/ KillToEnd \/ KillLine \/ Tab \/ Backspace \/ Enter
    \/ \E c \in Letters \cup {SPACE} : InsertChar(c)

Next ==
    \/ ~ tty_backup.playing /\ (shell_handle_special_key \/ shell_handle_char)
    \/ Escape

Spec == Init /\ [][Next]_vars

-----------------------------------------------------------------------------
\* The indices are in the buffer, the cursor in the line, and the strings fit.
String == {s \in Seq(Typed) : Len(s) < SHELL_BUFFER_SIZE}
TypeOK ==
    /\ command_buffer \in [Positions -> Chars]
    /\ buffer_index \in Positions
    /\ cursor_position \in 0 .. buffer_index
    /\ command_history \in [0 .. SHELL_HISTORY_SIZE - 1 -> String]
    /\ history_count \in 0 .. SHELL_HISTORY_SIZE
    /\ history_index \in -1 .. history_count - 1
    /\ temp_buffer \in String
    /\ tty_backup.playing =>
          /\ tty_backup.command_buffer \in [Positions -> Chars]
          /\ tty_backup.buffer_index \in Positions
          /\ tty_backup.cursor_position \in 0 .. tty_backup.buffer_index

\* Every strcpy, strlen and console_write of the buffer ends at buffer_index: a
\* 0 is there whatever keys were typed, cut, completed or brought back, also of
\* the line a game brings back.
Terminated ==
    /\ TypeOK
    /\ command_buffer[buffer_index] = NUL
    /\ tty_backup.playing => tty_backup.command_buffer[tty_backup.buffer_index] = NUL

\* The buffer, its indices and the history are an editor of lines: characters
\* are put in and taken out where the cursor is, and after any number of Ups
\* the same number of Downs brings back the line that was being typed.
E == INSTANCE LineEditor WITH
        MaxLength <- SHELL_BUFFER_SIZE - 1,
        MaxPast   <- SHELL_HISTORY_SIZE,
        Blank     <- SPACE,
        End       <- NUL,
        text      <- Text,
        cursor    <- cursor_position,
        past      <- [i \in 1 .. history_count |-> command_history[i - 1]],
        at        <- history_index + 1,
        draft     <- IF history_index = -1 THEN << >> ELSE temp_buffer,
        aside     <-
            IF ~ tty_backup.playing THEN << >>
            ELSE <<[i \in 1 .. tty_backup.buffer_index |-> tty_backup.command_buffer[i - 1]],
                   tty_backup.cursor_position>>
RefinesLineEditor == E!Spec

\* "Auto-complete - replace the argument part" (shell_history.c:174): completing
\* a file leaves the command's word.
CompletionKeepsCommand ==
    [][\A file \in Files :
          NamesFile /\ CompletesFile(file) => Word(Text') = Word(Text)]_vars
=============================================================================
