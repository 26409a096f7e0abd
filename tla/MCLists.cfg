SPECIFICATION ClientSpec
CONSTANTS
  NULL = NULL
  ListHeads = {h1, h2}
  Entries = {e1, e2, e3, e4}
  HlistHeads = {h1, h2}
  HlistNodes = {e1, e2, e3, e4}
SYMMETRY Symmetric
INVARIANTS
  ListsHold
  QueriesAgree
  SafeLoopVisitsAll
  HListsHold
