SPECIFICATION SwitchSpec
CONSTANTS
  PGSIZE = 2
  NENTRIES = 8
  EXTENDED = 2
  RamStart = 64
  RamEnd = 80
  NoPage = NoPage
  Magic <- MCMagic
  Garbage <- MCGarbage
INVARIANT
  KernelDirectoryLoaded
\* kmv_switch returns, or stops at the null page.
CHECK_DEADLOCK FALSE
