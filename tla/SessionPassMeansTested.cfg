SPECIFICATION Spec
CONSTANTS
  CoreMasks = {{}, {3}}
  MaxWorkers = 2
  MaxPasses = 2
  MaxRuns = 1
INVARIANT
  PassMeansTested
