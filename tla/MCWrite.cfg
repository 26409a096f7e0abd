SPECIFICATION Spec
CONSTANTS
  Ports = {760, 1000, 1016, 744}
  Present = {760, 1000, 1016}
  SERIAL_PORTS_MAX = 2
  Messages <- MCMessages
  MaxWriters = 3
  MAX_ROWS = 2
  MAX_COLS = 2
  Chars = {"a", "b"}
  SPACE = SPACE
  NEWLINE = NEWLINE
  JUNK = JUNK
INVARIANTS
  DefaultUsable
  MessagesWhole
  ScreenShowsText
\* The bound on messages ends the run.
CHECK_DEADLOCK FALSE
