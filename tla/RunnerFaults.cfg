SPECIFICATION Spec
CONSTANTS
  WordBits = 8
  ByteBits = 4
  StampWords = 4
  AddrPassMul = 11
  RandPassMul = 13
  StreamPassMul = 5
  Words = 5
  WorkerCount = 2
  CheckChunk = 2
  Mode = "MEMORY_LOAD"
  Seed <- MCSeed
  Pass = 1
  Injects = {FALSE, TRUE}
  HwFaults <- MCAnyMemory
  InitialFill <- MCStaleFill
  FlipBits = {}
  MaxFlips = 0
INVARIANTS
  TypeOK
  NoFalseAlarm
  PassCoversArena
  ProgressExact
  ErrorsInOwnSlice
  StuckBitFails
  AliasInSliceFails
  InjectedMismatchFound
