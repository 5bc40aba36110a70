SPECIFICATION Spec
CONSTANTS
  PageSize = 2
  SizeModulus = 32
  MaxCapacity = 8
  UIntModulus = 16
  Kinds = {"gzip"}
  Files <- AllFiles
  BufferSizes = {1}
  Builds = {TRUE, FALSE}
  Limits = {2}
CHECK_DEADLOCK FALSE
PROPERTY
  ReturnsWhenMemoryIsShort
