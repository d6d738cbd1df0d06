SPECIFICATION Spec
CONSTANTS
  WorkerCount = 3
  Found <- MCFound
  MaxErrors = 2
  MaxPasses = 2
INVARIANTS
  MergedReportExact
