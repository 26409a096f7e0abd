SPECIFICATION Spec
CONSTANTS
  Alphabet <- MCAlphabet
  Messages <- MCMessages
  Bits = 8
  HexDigits = 2
  DecimalDigits = 3
  Stray = {0, 48}
  BUFSZ = 6
  Slack = 5
  MaxDepth = 2
INVARIANTS
  TypeOK
  TextAsAsked
  ShapeKept
PROPERTY
  CallsReturn
