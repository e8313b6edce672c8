SPECIFICATION FileSpec
CONSTANTS
  FileNames = {f1}
  Blocks = 2
  MaxTransfers = 3
  MaxRemovals = 0
INVARIANT UploadIsExact
CHECK_DEADLOCK FALSE
