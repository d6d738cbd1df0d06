SPECIFICATION Spec
CONSTANTS
  WordMax = 63
  Scale = 10
  Page = 2
  MinHeap = 4
  SmallHeap = 16
  MediumHeap = 32
  SmallReserve = 4
  LargeReserve = 8
  ExtendedTotal = 40
  PumpArena = 24
  PumpRegion = 14
  PumpBuffer = 3
  CmdBytes = 2
  ShaderBytes = 2
  ResultBytes = 2
  BenchStorage = 18
  BenchSizes = {2, 3, 8}
  OverrideAddrs = {1, 4, 63}
  BarTotals = {0, 3, 60}
INVARIANTS
  TypeOK
  PercentExact
  OwnersApart
  BlocksApart
  NoPageLost
  ArenaIsWhole
  CoverageHonest
