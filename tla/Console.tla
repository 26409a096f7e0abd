------------------------------- MODULE Console -------------------------------
(***************************************************************************)
(* The text screen, kernel/io/write.c: putchar and the functions below it. *)
(*                                                                         *)
(* A cell is its character; the colour is always the same.  Video memory   *)
(* is the screen and the row of cells after it; a store further on is left *)
(* out.  The screen is what each store of putchar and the functions below  *)
(* it makes of it: Write puts them in order, with exceptions in between.   *)
(***************************************************************************)
EXTENDS Integers, Sequences, SequencesExt

CONSTANTS
  MAX_ROWS, MAX_COLS,
  Chars,      \* the characters that show
  SPACE,
  NEWLINE,
  JUNK        \* what is in video memory when the kernel starts

ASSUME ConsoleAssumption ==
  /\ MAX_ROWS \in Nat \ {0, 1} /\ MAX_COLS \in Nat \ {0, 1}
  /\ SPACE \notin Chars /\ NEWLINE \notin Chars /\ JUNK \notin Chars \cup {SPACE}

VARIABLES
  screen,    \* [buffer, row, col]
  vga,       \* the controller's index and its registers 14 and 15, the cursor
  text,      \* history: the characters so far
  placed,    \* history: a move_cursor_ without an exception came after the last
  disturbed  \* history: an exception's message found a putchar Halfway

console == <<screen, vga, text, placed, disturbed>>

CellCount == MAX_ROWS * MAX_COLS
Video     == 0..(CellCount + MAX_COLS - 1)

ConsoleInit ==
  /\ screen = [buffer |-> [i \in Video |-> JUNK], row |-> 0, col |-> 0]
  /\ vga = [index |-> 14, register |-> [n \in 14..15 |-> 0]]
  /\ text = <<>> /\ placed = FALSE /\ disturbed = FALSE

-----------------------------------------------------------------------------
Origin == screen.col = 0 /\ screen.row = 0

init_buffer_ ==
  [buffer |-> [i \in Video |-> IF i < CellCount THEN SPACE ELSE screen.buffer[i]],
   row |-> 0, col |-> 0]

Position == screen.row * MAX_COLS + screen.col

store(pos, c) ==
  [screen EXCEPT !.buffer = [i \in Video |-> IF i = pos THEN c ELSE screen.buffer[i]]]

\* memmove(buffer, buffer + MAX_COLS, bytes); a cell is two bytes.
move_up(bytes) ==
  [screen EXCEPT !.buffer =
     [i \in Video |-> IF 2 * i < bytes THEN screen.buffer[i + MAX_COLS] ELSE screen.buffer[i]]]

\* Mutant: the bytes of as many cells.
scroll_cells == move_up(MAX_COLS * (MAX_ROWS - 1))

scroll == move_up(2 * MAX_COLS * (MAX_ROWS - 1))

clear_row(row) ==
  [buffer |-> [i \in Video |-> IF i \div MAX_COLS = row THEN SPACE ELSE screen.buffer[i]],
   row |-> row, col |-> screen.col]

\* Where a putchar is between two stores that belong together, or has chosen one
\* by a row and col that another putchar would change.  A point begins with the
\* load that leads to it: in C, loading row and col is not one step either.
Halfway(at) ==
  \/ at \in {"init", "store", "advance", "newrow", "scroll", "clear"}
  \/ at = "wrap" /\ screen.col = MAX_COLS
  \/ at = "full" /\ screen.row = MAX_ROWS

\* Mutant: the halves are exchanged.
move_cursor_exchanged(pos) ==
  << <<"index", 14>>, <<"data", pos % 256>>, <<"index", 15>>, <<"data", pos \div 256>> >>

\* The port writes.
move_cursor_(pos) ==
  << <<"index", 14>>, <<"data", pos \div 256>>, <<"index", 15>>, <<"data", pos % 256>> >>

\* What the controller does with one.
outb(byte) ==
  vga' = IF byte[1] = "index" THEN [vga EXCEPT !.index = byte[2]]
                              ELSE [vga EXCEPT !.register[vga.index] = byte[2]]

-----------------------------------------------------------------------------
(* Properties. *)

\* One more character.
Typed(lines, c) ==
  LET line == Append(Last(lines), c)
  IN  IF c = NEWLINE THEN Append(lines, <<>>)
      ELSE Front(lines) \o (IF Len(line) = MAX_COLS THEN <<line, <<>>>> ELSE <<line>>)

\* The lines a text takes on a screen that wraps: the last one is the one the
\* next character goes to.
LinesOf[t \in Seq(Chars \cup {NEWLINE})] ==
  IF t = <<>> THEN << <<>> >> ELSE Typed(LinesOf[Front(t)], Last(t))

\* The screen shows the last lines of the text, padded with spaces, no cell past
\* it was touched, and a cursor placed last is where the text ends.
ShowsText ==
  LET lines == LinesOf[text]
      above == IF Len(lines) > MAX_ROWS THEN Len(lines) - MAX_ROWS ELSE 0
      Cell(r, k) == IF above + r + 1 <= Len(lines) /\ k + 1 <= Len(lines[above + r + 1])
                    THEN lines[above + r + 1][k + 1]
                    ELSE SPACE
  IN  /\ text # <<>> =>
           \A i \in Video :
             screen.buffer[i] = IF i < CellCount THEN Cell(i \div MAX_COLS, i % MAX_COLS) ELSE JUNK
      /\ placed => 256 * vga.register[14] + vga.register[15] =
           (Len(lines) - above - 1) * MAX_COLS + Len(Last(lines))

=============================================================================
