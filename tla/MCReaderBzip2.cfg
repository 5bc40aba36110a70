SPECIFICATION Spec
CONSTANTS
  PageSize = 2
  SizeModulus = 32
  MaxCapacity = 8
  UIntModulus = 16
  Kinds = {"bzip2"}
  Files <- AllFiles
  BufferSizes = {1}
  Builds = {TRUE, FALSE}
  Limits = {8}
CHECK_DEADLOCK FALSE
PROPERTY
  ReturnsAtEndOfBzip2
