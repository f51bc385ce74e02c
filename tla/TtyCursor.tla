------------------------------ MODULE TtyCursor ------------------------------
(***************************************************************************)
(* The text cursor of lizard/tty.c: console output moves it, and so does   *)
(* the line editor in the keyboard interrupt.  terminal_row and            *)
(* terminal_column are size_t: SizeMod stands for 2^64.                    *)
(***************************************************************************)
EXTENDS Integers

CONSTANTS
    terminal_text_width,
    terminal_text_height,
    TTY_LINE_MAX,
    TAB_SIZE,
    SizeMod

VARIABLES
    cursor,         \* terminal_row and terminal_column
    tty_line_len    \* characters of the line being edited

vars == <<cursor, tty_line_len>>

\* cmd_start_row and cmd_start_column are never assigned: they stay 0.
is_cursor_after_input == cursor.row > 0 \/ cursor.col > 0

\* tty_breakline, with tty_scroll at the bottom.
tty_breakline(c) ==
    [row |-> IF (c.row + 1) % SizeMod = terminal_text_height
             THEN c.row ELSE (c.row + 1) % SizeMod,
     col |-> 0]

\* tty_putchar of a printable character.
PutPrintable(c) ==
    LET col == (c.col + 1) % SizeMod
    IN  IF col = terminal_text_width THEN tty_breakline(c) ELSE [c EXCEPT !.col = col]

\* tty_tab: spaces up to the next multiple of TAB_SIZE.
tty_tab(c) ==
    LET put[n \in 0..TAB_SIZE] == IF n = 0 THEN c ELSE PutPrintable(put[n - 1])
    IN  put[TAB_SIZE - (c.col % TAB_SIZE)]

tty_putchar(kind, c) ==
    CASE kind = "newline"   -> tty_breakline(c)
      [] kind = "tab"       -> tty_tab(c)
      [] kind = "formfeed"  -> [row |-> 0, col |-> 0]
      [] kind = "printable" -> PutPrintable(c)

\* tty_backspace: one column back, and from column 0 to the end of the row above.
tty_backspace(c) ==
    LET col == (c.col - 1) % SizeMod
    IN  IF ~is_cursor_after_input THEN c
        ELSE IF col # 0 THEN [c EXCEPT !.col = col]
        ELSE [row |-> (c.row - 1) % SizeMod, col |-> terminal_text_width]

-----------------------------------------------------------------------------
\* sys_write or kprintf puts one character on the console.
Output(kind) ==
    /\ cursor' = tty_putchar(kind, cursor)
    /\ UNCHANGED tty_line_len

\* tty_handler_input, by key.
KeyBackspace ==
    /\ tty_line_len > 0
    /\ tty_line_len' = tty_line_len - 1
    /\ cursor' = tty_backspace(cursor)

KeyEnter ==
    /\ cursor' = tty_breakline(cursor)
    /\ tty_line_len' = 0

\* The character is echoed; a cursor just past the row is moved to the next.
KeyChar ==
    /\ tty_line_len < TTY_LINE_MAX - 1
    /\ tty_line_len' = tty_line_len + 1
    /\ LET c == PutPrintable(cursor)
       IN  cursor' = IF c.col = terminal_text_width THEN tty_breakline(c) ELSE c

Init == cursor = [row |-> 0, col |-> 0] /\ tty_line_len = 0

Next ==
    \/ \E kind \in {"newline", "tab", "formfeed", "printable"} : Output(kind)
    \/ KeyBackspace \/ KeyEnter \/ KeyChar

Spec == Init /\ [][Next]_vars

\* tty.c:46-48 says of the text grid: "keep a sane virtual grid so the cursor /
\* text_buffer bookkeeping stays in bounds."  So the cursor is always a cell of
\* the grid.
CursorInGrid ==
    /\ cursor.row < terminal_text_height
    /\ cursor.col < terminal_text_width
=============================================================================
