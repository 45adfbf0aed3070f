-------------------------------- MODULE Console --------------------------------
(***************************************************************************)
(* The framebuffer console, src/ui/fb_console.c: what each of its          *)
(* functions does to a screen of character cells.  A cell is as large as a *)
(* glyph at the scale in use and the screen is a whole number of cells, as *)
(* 1024 by 768 at scale 2 is.  Colours are left out, and the foot that the *)
(* underscore of the cursor takes from a glyph it was drawn over.          *)
(***************************************************************************)
EXTENDS Integers, Sequences

CONSTANTS
    Width, Height,  \* of the screen, in cells
    Printable       \* characters with a glyph, the blank among them

Blank == " "
NEWLINE == "newline"

Columns == 0 .. Width - 1
Lines == 0 .. Height - 1
BlankLine == [x \in Columns |-> Blank]

\* fb_console_init and the first clear: no underscore is drawn yet.
Started ==
    [cells   |-> [y \in Lines |-> BlankLine],
     x       |-> 0, y |-> 0,     \* cx, cy
     visible |-> TRUE,           \* cursor_visible
     marks   |-> {}]             \* the cells with an underscore at their foot

Place(con) == <<con.x, con.y>>
At(con, p) == [con EXCEPT !.x = p[1], !.y = p[2]]

draw_cursor(con) == IF con.visible THEN [con EXCEPT !.marks = @ \cup {Place(con)}] ELSE con
erase_cursor(con) == [con EXCEPT !.marks = @ \ {Place(con)}]

\* draw_char, and with Blank clear_char_at.
draw_char(con, c) ==
    [con EXCEPT !.cells[con.y][con.x] = c, !.marks = @ \ {Place(con)}]

fb_console_clear(con) ==
    [con EXCEPT !.cells = Started.cells, !.marks = {}, !.x = 0, !.y = 0]

fb_console_show_cursor(con, show) ==
    IF show /\ ~ con.visible THEN draw_cursor([con EXCEPT !.visible = TRUE])
    ELSE IF ~ show /\ con.visible THEN [erase_cursor(con) EXCEPT !.visible = FALSE]
    ELSE con

fb_console_scroll(con) ==
    [con EXCEPT
        !.cells = [y \in Lines |-> IF y = Height - 1 THEN BlankLine ELSE con.cells[y + 1]],
        !.marks = {<<p[1], p[2] - 1>> : p \in {q \in con.marks : q[2] > 0}},
        !.y = Height - 1]

NextLine(con) ==
    LET next == [con EXCEPT !.x = 0, !.y = @ + 1]
    IN  IF next.y + 1 > Height THEN fb_console_scroll(next) ELSE next

\* One character, without the cursor.
Put(con, c) ==
    IF c = NEWLINE THEN NextLine(con)
    ELSE IF c \notin Printable THEN con
    ELSE LET next == [draw_char(con, c) EXCEPT !.x = @ + 1]
         IN  IF next.x + 1 > Width THEN NextLine(next) ELSE next

fb_console_putchar(con, c) == draw_cursor(Put(erase_cursor(con), c))

fb_console_write(con, s) ==
    LET put[n \in 0 .. Len(s)] == IF n = 0 THEN erase_cursor(con) ELSE Put(put[n - 1], s[n])
    IN  draw_cursor(put[Len(s)])

fb_console_backspace(con) ==
    IF con.x >= 1
    THEN draw_cursor(draw_char([erase_cursor(con) EXCEPT !.x = @ - 1], Blank))
    ELSE con

fb_console_move_cursor_left(con) ==
    IF con.x >= 1 THEN draw_cursor([erase_cursor(con) EXCEPT !.x = @ - 1]) ELSE con
fb_console_move_cursor_right(con) ==
    IF con.x + 1 < Width THEN draw_cursor([erase_cursor(con) EXCEPT !.x = @ + 1]) ELSE con

\* To the place p that fb_console_save_cursor_pos found, or any other.
fb_console_set_cursor_pos(con, p) == draw_cursor(At(erase_cursor(con), p))

fb_console_delete_char_at_cursor(con) == draw_char(con, Blank)
=============================================================================
