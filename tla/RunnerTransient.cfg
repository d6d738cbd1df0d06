SPECIFICATION Spec
CONSTANTS
  WordBits = 8
  ByteBits = 4
  StampWords = 4
  AddrPassMul = 11
  RandPassMul = 13
  StreamPassMul = 5
  Words = 3
  WorkerCount = 2
  CheckChunk = 2
  Mode = "QUICK"
  Seed <- MCSeed
  Pass = 1
  Injects = {FALSE}
  HwFaults <- MCHealthy
  InitialFill <- MCZeroFill
  FlipBits = {3}
  MaxFlips = 2
INVARIANTS
  ObservedMismatchFails
