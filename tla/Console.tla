------------------------------ MODULE Console -------------------------------
(***************************************************************************)
(* The console, src/kernel/console.c, and the line editor that echoes on   *)
(* it, keyboard_read_line of keyboard.c.  The screen is the VGA text page  *)
(* or a framebuffer whose height need not be a multiple of a character's;  *)
(* scrolling moves pixel lines, writing draws cells.  A screen is kept as  *)
(* its pixel lines; the text page is one line per row.                     *)
(***************************************************************************)
EXTENDS Integers, Sequences, SequencesExt

CONSTANTS
    Chars,      \* printable characters other than the space
    Geometries, \* screens: [kind, columns, height, cell]
    Firmware,   \* what the firmware may have left in a column of a pixel line
    Capacity    \* the buffer of keyboard_read_line

VARIABLES
    geo,      \* the screen console_init found
    pix,      \* pix[y][c]: what pixel line y shows in column c
    row, col, \* g_row, g_col
    editing,  \* keyboard_read_line is running
    line,     \* its buffer up to len
    scrolled, \* ghost: how often the picture has moved up, counted to two
    left,     \* ghost: the character left of the line when editing started
    ahead     \* ghost: a carriage return may have left text after the cursor

vars == <<geo, pix, row, col, editing, line, scrolled, left, ahead>>

Space == " "
Background == <<"bg", 0>>
Nothing == "nothing"

\* g_console_rows and the pixel lines; a screen that cannot be used has the
\* size of the text page and shows nothing.
Rows(g) == g.height \div g.cell
Lines(g) == 0 .. g.height - 1
Columns(g) == 0 .. g.columns - 1

ASSUME ConsoleAssumption ==
    /\ Capacity \in Nat \ {0}
    /\ {Space, "bg"} \cap Chars = {}
    /\ Firmware # {}
    /\ \A g \in Geometries :
           /\ g.kind \in {"vga", "framebuffer", "none"}
           /\ {g.columns, g.height, g.cell} \subseteq Nat \ {0}
           /\ g.height >= g.cell

Visible(g) == g.kind # "none"

\* console_init: console_clear paints the cells.  The lines below the last row
\* stay as the firmware left them: it may have set no mode, and what it has
\* printed is still there.
Init ==
    /\ geo \in Geometries
    /\ \E below \in [Rows(geo) * geo.cell .. geo.height - 1 ->
                        [Columns(geo) -> Firmware]] :
           pix = [y \in Lines(geo) |->
                     IF y < Rows(geo) * geo.cell
                     THEN [c \in Columns(geo) |-> Background] ELSE below[y]]
    /\ row = 0
    /\ col = 0
    /\ editing = FALSE
    /\ line = <<>>
    /\ scrolled = 0
    /\ left = Nothing
    /\ ahead = FALSE

-----------------------------------------------------------------------------
\* put_vga_at and put_framebuffer_char_at.
PutAt(p, r, c, ch) ==
    IF ~Visible(geo) THEN p
    ELSE [y \in Lines(geo) |->
             IF y \div geo.cell = r
             THEN [p[y] EXCEPT ![c] = IF ch = Space THEN Background
                                      ELSE <<ch, y % geo.cell>>]
             ELSE p[y]]

\* The picture moves up by one character, the lines below the last row too,
\* and the last lines of the screen are cleared.
Scrolled(p) ==
    [y \in Lines(geo) |->
        IF y >= geo.height - geo.cell
        THEN [c \in Columns(geo) |-> Background] ELSE p[y + geo.cell]]

\* ++g_row and scroll_if_needed.
NextRow(p) ==
    IF row + 1 < Rows(geo)
    THEN pix' = p /\ row' = row + 1 /\ UNCHANGED scrolled
    ELSE /\ pix' = IF Visible(geo) THEN Scrolled(p) ELSE p
         /\ row' = Rows(geo) - 1
         /\ scrolled' = IF scrolled = 0 THEN 1 ELSE 2

\* console_write_char of a character that takes a cell.
PutChar(ch) ==
    IF col + 1 >= geo.columns
    THEN /\ NextRow(PutAt(pix, row, col, ch))
         /\ col' = 0
         /\ ahead' = FALSE
    ELSE /\ pix' = PutAt(pix, row, col, ch)
         /\ col' = col + 1
         /\ UNCHANGED <<row, scrolled, ahead>>

\* console_write_char('\n')
NewLine ==
    /\ NextRow(pix)
    /\ col' = 0
    /\ ahead' = FALSE

\* Mutant of console_backspace: no way back over the start of a row.
console_backspace_InRow ==
    IF col = 0 THEN UNCHANGED <<row, col, pix>>
    ELSE /\ col' = col - 1
         /\ pix' = PutAt(pix, row, col - 1, Space)
         /\ UNCHANGED row

\* console_backspace: over the start of a row to the end of the one above.
console_backspace ==
    IF col = 0 /\ row = 0 THEN UNCHANGED <<row, col, pix>>
    ELSE /\ IF col = 0 THEN row' = row - 1 /\ col' = geo.columns - 1
            ELSE row' = row /\ col' = col - 1
         /\ pix' = PutAt(pix, row', col', Space)

-----------------------------------------------------------------------------
\* Output of the shell and of programs, between two lines of input.
WriteChar ==
    /\ ~editing
    /\ \E ch \in Chars \cup {Space} : PutChar(ch)
    /\ UNCHANGED <<geo, editing, line, left>>

WriteNewLine ==
    /\ ~editing
    /\ NewLine
    /\ UNCHANGED <<geo, editing, line, left>>

WriteReturn ==
    /\ ~editing
    /\ col' = 0
    /\ ahead' = TRUE
    /\ UNCHANGED <<geo, pix, row, editing, line, scrolled, left>>

\* console_clear
Clear ==
    /\ ~editing
    /\ pix' = [y \in Lines(geo) |->
                  IF Visible(geo) /\ y < Rows(geo) * geo.cell
                  THEN [c \in Columns(geo) |-> Background] ELSE pix[y]]
    /\ row' = 0
    /\ col' = 0
    /\ ahead' = FALSE
    /\ UNCHANGED <<geo, editing, line, scrolled, left>>

-----------------------------------------------------------------------------
\* The screen as one reads it.
CellLines(r) == r * geo.cell .. (r + 1) * geo.cell - 1
ShownAt(r, c) ==
    IF \A y \in CellLines(r) : pix[y][c] = Background THEN Space
    ELSE LET ch == pix[r * geo.cell][c][1]
         IN  IF \A y \in CellLines(r) : pix[y][c] = <<ch, y % geo.cell>>
             THEN ch ELSE "garbled"

\* Cells are counted row by row.
Position == row * geo.columns + col
Shown(i) == ShownAt(i \div geo.columns, i % geo.columns)

\* keyboard_read_line starts after the prompt.
StartLine ==
    /\ ~editing
    /\ editing' = TRUE
    /\ line' = <<>>
    /\ left' = IF Position > 0 /\ Visible(geo) THEN Shown(Position - 1)
               ELSE Nothing
    /\ UNCHANGED <<geo, pix, row, col, scrolled, ahead>>

\* A character is stored and echoed, if there is room for it and the NUL.
KeyChar ==
    /\ editing
    /\ Len(line) + 1 < Capacity
    /\ \E ch \in Chars \cup {Space} : PutChar(ch) /\ line' = Append(line, ch)
    /\ UNCHANGED <<geo, editing, left>>

KeyBackspace ==
    /\ editing
    /\ line # <<>>
    /\ line' = Front(line)
    /\ console_backspace
    /\ UNCHANGED <<geo, editing, scrolled, left, ahead>>

KeyEnter ==
    /\ editing
    /\ NewLine
    /\ editing' = FALSE
    /\ left' = Nothing
    /\ line' = <<>>
    /\ UNCHANGED geo

Next ==
    \/ WriteChar
    \/ WriteNewLine
    \/ WriteReturn
    \/ Clear
    \/ StartLine
    \/ KeyChar
    \/ KeyBackspace
    \/ KeyEnter

Spec == Init /\ [][Next]_vars

-----------------------------------------------------------------------------
\* What one sees is what will be executed: while a line is edited, the cells
\* before the cursor show its characters, and before them the end of the
\* prompt, as far as they have not scrolled off, whatever rows the line has
\* been wrapped over, scrolled over and erased back over.
LineShown ==
    editing /\ Visible(geo) =>
        /\ \A i \in 1 .. Len(line) :
               LET at == Position - Len(line) + i - 1
               IN  at >= 0 => Shown(at) = line[i]
        /\ LET at == Position - Len(line) - 1
           IN  at >= 0 /\ left # Nothing => Shown(at) = left

\* The first scroll brings the lines that were below the last row into it:
\* this is what a cell of that row shows then, down to the lines the scroll
\* cleared.
Leftover(p, c) ==
    \A y \in CellLines(Rows(geo) - 1) :
        IF y < geo.height - geo.cell THEN p[y][c] \in Firmware
                                     ELSE p[y][c] = Background

\* What was erased or scrolled away does not come back: every cell from the
\* cursor on is empty, except for the rest of a row the cursor was returned to
\* the start of.  The one thing the kernel does not wipe is what the firmware
\* left below the last row: it is in the last row, and nowhere else, from the
\* first scroll to the second.
BlankAhead ==
    Visible(geo) =>
        \A i \in 0 .. Rows(geo) * geo.columns - 1 :
            /\ i >= Position
            /\ ahead => i \div geo.columns > row
            => \/ Shown(i) = Space
               \/ /\ scrolled = 1
                  /\ i \div geo.columns = Rows(geo) - 1
                  /\ Leftover(pix, i % geo.columns)

\* The screen is right whatever is written, typed, wrapped, scrolled and erased:
\* the cursor stays on it, the line being edited is what it shows, and from the
\* cursor on nothing shows but, between the first scroll and the second, what
\* the firmware left below the last row (console.c, console_write_char,
\* console_backspace, console_clear and scroll_if_needed).
ScreenRight ==
    /\ row < Rows(geo) /\ col < geo.columns
    /\ LineShown
    /\ BlankAhead
=============================================================================
