SPECIFICATION LoopSpec
CONSTANTS
  PageSize = 2
  MaxBreaks = 2
  SizeModulus = 32
  MaxCapacity = 8
  UIntModulus = 16
  Kinds = {"gzip"}
  Files <- AllFiles
  BufferSizes = {3}
  Builds = {TRUE, FALSE}
  Limits = {0, 8}
CHECK_DEADLOCK FALSE
PROPERTIES
  LoopGetsMessages
  LoopEnds
