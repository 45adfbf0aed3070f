------------------------------ MODULE ShellScreen ------------------------------
(***************************************************************************)
(* The shell's line together with the console it is shown on: what each    *)
(* key of shell.c and shell_history.c draws, beside what it does to the    *)
(* line, and the returns to the shell of tty.c, which draw the line again. *)
(***************************************************************************)
EXTENDS ShellLine

CONSTANTS
    Width, Height,  \* of the screen
    Prompt,         \* what shell_print_prompt writes
    Outputs         \* what a command writes, besides what clears the screen

VARIABLES
    console,
    anchor,     \* auxiliary: where the last prompt ended
    parted      \* auxiliary: a key since then has drawn what the line is not

Con == INSTANCE Console WITH Printable <- Typed \cup Range(Prompt) \cup {"^", "C"}
NEWLINE == "newline"

ASSUME ScreenAssumption ==
    /\ Width \in Nat \ {0} /\ Height \in Nat \ {0}
    /\ Prompt \in Seq(Range(Prompt)) /\ Len(Prompt) < Width
    /\ NEWLINE \notin Typed \cup Range(Prompt)
    \* Every command ends its output with a new line.
    /\ \A out \in Outputs : out \in Seq(Range(out)) /\ out # << >> /\ Last(out) = NEWLINE
    /\ IsFiniteSet(available_commands) /\ IsFiniteSet(Files)

screen == <<console, anchor, parted>>

-----------------------------------------------------------------------------
Repeated(Op(_), con, n) ==
    LET after[i \in 0 .. Max({0, n})] == IF i = 0 THEN con ELSE Op(after[i - 1])
    IN  after[Max({0, n})]

\* console_putchar for each character of s.
Putchars(con, s) ==
    LET after[i \in 0 .. Len(s)] ==
          IF i = 0 THEN con ELSE Con!fb_console_putchar(after[i - 1], s[i])
    IN  after[Len(s)]

Left(con, n) == Repeated(Con!fb_console_move_cursor_left, con, n)
Right(con, n) == Repeated(Con!fb_console_move_cursor_right, con, n)
Backspaced(con, n) == Repeated(Con!fb_console_backspace, con, n)

\* The characters are written at the cursor and the cursor goes back.
Rewritten(con, s) == Con!fb_console_set_cursor_pos(Putchars(con, s), Con!Place(con))

\* Mutant of redraw_line_from_cursor: no space after the last character.
redraw_line_from_cursorShort(con) == Rewritten(con, SubSeq(Text', cursor_position' + 1, buffer_index'))

redraw_line_from_cursor(con) ==
    Rewritten(con, SubSeq(Text', cursor_position' + 1, buffer_index') \o <<SPACE>>)

\* The loops of Ctrl+K and Ctrl+U: a cell is cleared and a space written over
\* it, with the cursor one further.
Wiped(con, n) ==
    LET WipeOne(c) == Con!fb_console_putchar(Con!fb_console_delete_char_at_cursor(c), SPACE)
    IN  Repeated(WipeOne, con, n)

-----------------------------------------------------------------------------
\* The line ends before the last column, so that no key writes there.
Fits == anchor[1] + buffer_index < Width

\* A key's drawing, and whether it leaves cells or the cursor elsewhere.
Drawn(con, parts) ==
    /\ console' = con
    /\ UNCHANGED anchor
    /\ parted' = (parted \/ parts \/ ~ Fits')

\* The cursor is at the end of the line when it asks for cells from there.
AtEnd == cursor_position = buffer_index

\* shell_print_prompt, and the string s behind it.  The cursor stays at its end
\* and what was on the row stays behind it.
Prompted(con, s) ==
    LET shown == Con!fb_console_write(con, Prompt)
    IN  /\ anchor' = Con!Place(shown)
        /\ console' = Con!fb_console_write(shown, s)
        /\ parted' = \/ ~ AtEnd' \/ s # Text' \/ ~ Fits'
                     \/ \E x \in shown.x .. Width - 1 : shown.cells[shown.y][x] # SPACE

ScreenInit ==
    LET top == Con!fb_console_write(Con!Started, [i \in 1 .. Height |-> NEWLINE])
    IN  /\ Init
        /\ console = Con!fb_console_write(top, Prompt)
        /\ anchor = Con!Place(console)
        /\ parted = FALSE

\* Left, Right, Home, End, Ctrl+A, Ctrl+E: one step for each character.
Move ==
    /\ MoveCursor
    /\ Drawn(Right(Left(console, cursor_position - cursor_position'),
                   cursor_position' - cursor_position), FALSE)

Delete == DeleteKey /\ Drawn(redraw_line_from_cursor(console), FALSE)
Erase == Backspace /\ Drawn(redraw_line_from_cursor(Left(console, 1)), FALSE)

Type(c) ==
    /\ InsertChar(c)
    /\ Drawn(Right(Rewritten(console, SubSeq(Text', cursor_position', buffer_index')), 1), FALSE)

\* Ctrl+K and Ctrl+U leave the cursor behind the spaces they write.
CtrlK == KillToEnd /\ Drawn(Wiped(console, buffer_index - cursor_position), ~ AtEnd)
CtrlU == KillLine /\ Drawn(Wiped(Left(console, cursor_position), buffer_index), buffer_index > 0)

\* History and completion take as many characters back from the cursor as the
\* line has behind `from', and write the new ones there.
Replaced(from, s) ==
    Drawn(Putchars(Backspaced(console, buffer_index - from), s), ~ AtEnd)

Recall == (Up \/ Down) /\ Replaced(0, Str')
Complete ==
    /\ Tab
    /\ IF NamesFile THEN Replaced(Len(Kept), SubSeq(Text', Len(Kept) + 1, buffer_index'))
       ELSE Replaced(0, Str')

\* Tab with several matches: each on a line, then the prompt and the line again.
List ==
    LET names == IF NamesFile THEN {Listed(file) : file \in Matching} ELSE Completions
        listed == FlattenSeq(SetToSeq({<<SPACE, SPACE>> \o name \o <<NEWLINE>> : name \in names}))
    IN  /\ buffer_index # 0 /\ Cardinality(names) > 1
        /\ UNCHANGED vars
        /\ Prompted(Con!fb_console_write(console, <<NEWLINE>> \o listed), Str)

CtrlC == Cancel /\ Prompted(Con!fb_console_write(console, <<"^", "C", NEWLINE>>), << >>)

\* A game clears the screen and hides the cursor before the prompt is written;
\* any other command may clear it or write.
Run ==
    LET below == Con!fb_console_write(console, <<NEWLINE>>)
    IN  /\ Enter
        /\ IF Word(Str) \in games
           THEN Prompted(Con!fb_console_show_cursor(Con!fb_console_clear(below), FALSE), << >>)
           ELSE \/ Word(Str) = << >> /\ Prompted(below, << >>)
                \/ /\ Word(Str) # << >>
                   /\ \E out \in Outputs : Prompted(Con!fb_console_write(below, out), << >>)
                \/ Word(Str) # << >> /\ Prompted(Con!fb_console_clear(below), << >>)

\* The screen is cleared and the line written again: ESC in a game, and Alt+Fn
\* back from another terminal, below four lines.
Return ==
    /\ Escape
    /\ Prompted(Con!fb_console_clear(Con!fb_console_show_cursor(console, TRUE)), Str')
SwitchBack ==
    /\ ~ tty_backup.playing
    /\ UNCHANGED vars
    /\ Prompted(Con!fb_console_write(
                   Con!fb_console_show_cursor(Con!fb_console_clear(console), TRUE),
                   [i \in 1 .. 4 |-> NEWLINE]), Str)

ScreenNext ==
    \/ /\ ~ tty_backup.playing
       /\ \/ Move \/ Delete \/ Erase \/ CtrlK \/ CtrlU \/ Recall \/ Complete \/ List \/ CtrlC \/ Run
          \/ \E c \in Letters \cup {SPACE} : Type(c)
          \/ SwitchBack
    \/ Return

ScreenSpec == ScreenInit /\ [][ScreenNext]_<<vars, screen>>

-----------------------------------------------------------------------------
\* While no key has parted them, the row shows the prompt, the line and nothing
\* behind it, and the cursor is on the character that the next key changes.  One
\* underscore is on the screen, where the cursor is, or none while it is hidden:
\* also where keys have parted row and line.
RowShowsLine ==
    LET row == console.cells[anchor[2]]
        shown == Prompt \o Text
    IN  /\ console.x \in 0 .. Width - 1 /\ console.y \in 0 .. Height - 1
        /\ console.marks = IF console.visible THEN {Con!Place(console)} ELSE {}
        /\ ~ parted =>
              /\ Con!Place(console) = <<anchor[1] + cursor_position, anchor[2]>>
              /\ \A x \in anchor[1] - Len(Prompt) .. Width - 1 :
                    LET i == x - anchor[1] + Len(Prompt) + 1
                    IN  row[x] = IF i <= Len(shown) THEN shown[i] ELSE SPACE
=============================================================================
