SPECIFICATION Spec
CONSTANTS
  PGSIZE = 2
  NENTRIES = 4
  EXTENDED = 2
  RamStart = 18
  RamEnd = 24
  NoPage = NoPage
  Magic <- MCMagic
  Garbage <- MCGarbage
  Requests <- MCRequests
INVARIANTS
  TablesPrivate
  MappedAsAsked
PROPERTY
  AddressSpaceSpec
\* The kernel stops at a failed assertion and at a stray store.
CHECK_DEADLOCK FALSE
