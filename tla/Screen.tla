-------------------------------- MODULE Screen --------------------------------
(***************************************************************************)
(* The state of the screen that everybody who prints shares: the attribute *)
(* and the cursor of output.c.  What stands in the video memory is left    *)
(* out.  Each operation is one of the operations a piece of code runs.     *)
(***************************************************************************)
EXTENDS Integers, Sequences

CONSTANTS
  IO_COLS, IO_ROWS

ASSUME ScreenAssumption == IO_COLS \in Nat \ {0} /\ IO_ROWS \in Nat \ {0}

IO_CHARS == IO_COLS * IO_ROWS
IO_COORD(x, y) == y * IO_COLS + x
IO_DEFAULT == 7

VARIABLES attr, cursor

\* Text that stands at a place of its own stands at one of these.
Places == 0 .. IO_CHARS - 1

io_attr(new_attr) == attr' = new_attr /\ UNCHANGED cursor

io_cursor(new_cursor) == cursor' = new_cursor /\ UNCHANGED attr

\* A line feed on the last line leaves the cursor behind the screen.
io_putchar(c) ==
  /\ cursor' = IF c = "line_feed" THEN cursor + IO_COLS - (cursor % IO_COLS)
                                  ELSE (cursor + 1) % IO_CHARS
  /\ UNCHANGED attr

\* What an operation has to say: the character, the attribute it is to have, and the
\* place where it is to stand, -1 being wherever the cursor is.
Char(c, colour, place) == [op |-> "io_putchar", c |-> c, colour |-> colour, place |-> place]
Attr(colour) == [op |-> "io_attr", colour |-> colour]
Cursor(place) == [op |-> "io_cursor", place |-> place]
CursorBack == [op |-> "io_cursor_back"]

\* print("%<colour>a%c%a", c): %a resets the attribute to the default.
PrintIn(colour, place) == <<Attr(colour), Char("letter", colour, place), Attr(IO_DEFAULT)>>

=============================================================================
