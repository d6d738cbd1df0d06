SPECIFICATION Spec
CONSTANTS
  Steps <- MCSteps
  StorageSizes = {8, 10, 18}
  PageBytes = 2
  CmdBytes = 2
INVARIANT
  AbortsCleanly
