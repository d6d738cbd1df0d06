SPECIFICATION FairSpec
CONSTANTS
  CoreMasks = {{}, {3}}
  MaxWorkers = 2
  MaxPasses = 2
  MaxRuns = 2
INVARIANTS
  TypeOK
  ErrorsAlwaysFail
  NoThreadOutlivesRun
  HelpersRunWithTest
  MergedContextsAreFinal
  PassIsComplete
  CoresNotShared
PROPERTIES
  QuitEnds
  RunEnds
