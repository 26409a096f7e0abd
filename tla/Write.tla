-------------------------------- MODULE Write --------------------------------
(***************************************************************************)
(* write of kernel/io/write.c: a message goes to the serial port and then, *)
(* character by character, to the screen.  An exception may arrive between *)
(* any two steps, and its handler writes a message of its own.             *)
(***************************************************************************)
EXTENDS Serial, Console

ASSUME WriteAssumption == Messages \subseteq Seq(Chars \cup {NEWLINE})

vars == <<serial, console>>

Init == SerialInit /\ ConsoleInit

Setup ==
  /\ \E com \in Ports : serial_init_port(com) \/ serial_set_default_port(com)
  /\ UNCHANGED console

\* A call, by the code or by the handler of an exception.
write(str) ==
  /\ serial_write(str)
  /\ disturbed' = (disturbed \/ (writers # <<>> /\ Halfway(Running.at)))
  /\ UNCHANGED <<screen, vga, text, placed>>

serial_write_step ==
  /\ \/ serial_write_read \/ serial_write_take \/ serial_write_none
     \/ serial_write_byte \/ serial_write_return
  /\ UNCHANGED console

-----------------------------------------------------------------------------
(* putchar, advance_ and new_line_: a step for each store, and each choice by *)
(* what other putchars change.                                                *)

Char == Running.str[Running.bytes + 1]

\* The screen becomes s, and the running writer goes on there.
Goto(there, pos, s) ==
  /\ Goes([Running EXCEPT !.at = there, !.pos = pos])
  /\ screen' = s
  /\ UNCHANGED <<ports, serial_default_port_, sent, count, chosen, vga, disturbed>>

step(here, there, pos, s) ==
  /\ At(here) /\ Goto(there, pos, s)
  /\ UNCHANGED <<text, placed>>

\* The same, and the screen takes the character.
types(here, there, s) ==
  /\ At(here) /\ Goto(there, 0, s)
  /\ text' = Append(text, Char) /\ placed' = FALSE

putchar_first ==
  /\ At("put") /\ Running.bytes < Len(Running.str)
  /\ step("put", IF Origin THEN "init" ELSE "show", 0, screen)

putchar_init == step("init", "show", 0, init_buffer_)

putchar_newline ==
  At("show") /\ Char = NEWLINE /\ types("show", "newrow", [screen EXCEPT !.col = 0])

putchar_cell ==
  At("show") /\ Char # NEWLINE /\ step("show", "store", Position, screen)

putchar_store == types("store", "advance", store(Running.pos, Char))

advance_ == step("advance", "wrap", 0, [screen EXCEPT !.col = @ + 1])

advance_test ==
  IF screen.col = MAX_COLS
  THEN step("wrap", "newrow", 0, [screen EXCEPT !.col = 0])
  ELSE step("wrap", "cursor", Position, screen)

new_line_ == step("newrow", "full", 0, [screen EXCEPT !.row = @ + 1])

new_line_test ==
  IF screen.row = MAX_ROWS
  THEN step("full", "scroll", 0, screen)
  ELSE step("full", "cursor", Position, screen)

new_line_scroll == step("scroll", "clear", 0, scroll)

new_line_clear ==
  step("clear", "cursor", (screen.row - 1) * MAX_COLS + screen.col, clear_row(screen.row - 1))

putchar_step ==
  \/ putchar_first \/ putchar_init \/ putchar_newline \/ putchar_cell \/ putchar_store
  \/ advance_ \/ advance_test
  \/ new_line_ \/ new_line_test \/ new_line_scroll \/ new_line_clear

write_cursor ==
  LET outs == move_cursor_(Running.pos)
      last == Running.outs + 1 = Len(outs)
  IN  /\ At("cursor")
      /\ outb(outs[Running.outs + 1])
      /\ placed' = (last /\ ~Running.torn)
      /\ Goes(IF last THEN [Running EXCEPT !.at = "put", !.bytes = @ + 1, !.outs = 0, !.torn = FALSE]
                      ELSE [Running EXCEPT !.outs = @ + 1])
      /\ UNCHANGED <<ports, serial_default_port_, sent, count, chosen, screen, text, disturbed>>

write_return ==
  /\ At("put") /\ Running.bytes = Len(Running.str)
  /\ writers' = Front(writers)
  /\ UNCHANGED <<ports, serial_default_port_, sent, count, chosen, console>>

Next ==
  \/ Setup
  \/ \E str \in Messages : write(str)
  \/ serial_write_step \/ putchar_step \/ write_cursor \/ write_return

Spec == Init /\ [][Next]_vars

-----------------------------------------------------------------------------
(* Properties. *)

\* As long as no exception's message found a putchar Halfway, the screen shows
\* the last lines of everything written so far, from the first character on,
\* padded with spaces, whenever no putchar is Halfway, and no cell past the
\* screen was touched: at every other point a message does no harm.  The
\* controller's cursor is where the text ends, unless a message came between the
\* writes that placed it: then the next character's are right.
ScreenShowsText ==
  ~disturbed /\ (writers = <<>> \/ ~Halfway(Running.at)) => ShowsText

=============================================================================
