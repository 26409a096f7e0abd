SPECIFICATION Spec
CONSTANTS
  NULL = 0
  PGSIZE = 2
  NENTRIES = 4
  EXTENDED = 2
  RamStart = 16
  RamEnd = 24
  pr_freepages = pr_freepages
  Junk <- MCJunk
INVARIANT
  ExhaustionReported
\* The kernel stops for good at a failed assertion and at the null page.
CHECK_DEADLOCK FALSE
