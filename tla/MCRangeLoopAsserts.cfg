SPECIFICATION LoopSpec
CONSTANTS
  PageSize = 2
  MaxBreaks = 0
  SizeModulus = 32
  MaxCapacity = 8
  UIntModulus = 16
  Kinds = {"gzip"}
  Files <- AllFiles
  BufferSizes = {3}
  Builds = {TRUE}
  Limits = {8}
CHECK_DEADLOCK FALSE
INVARIANT
  NoAssertionFails
