SPECIFICATION Spec
CONSTANTS
  Top = 4
  Byte = {0, 1, 2}
INVARIANTS
  TypeOK
  NeverElse
PROPERTIES
  AsIfAtOnce
  Returns
