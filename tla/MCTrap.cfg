SPECIFICATION Spec
CONSTANTS
  Exceptions = {3, 14}
  Lines = {0, 14}
  Keys = {k1, k2, up}
  Letters = {k1, k2}
  NONE = NONE
  Masks <- MCMasks
  LoaderTable <- MCLoaderTable
  LoaderCode = 8
  LoaderData = 16
  TSS <- MCTSS
  MaxEvents = 2
  MaxKeys = 2
INVARIANTS
  SelectorsUsable
  ReadyForInterrupts
  AllAcknowledged
  OnlyTimerSilent
  LettersAsTyped
PROPERTIES
  ContextRestored
  AcknowledgesOwn
  LettersArrive
