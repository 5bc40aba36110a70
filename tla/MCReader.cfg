SPECIFICATION Spec
CONSTANTS
  PageSize = 2
  SizeModulus = 32
  MaxCapacity = 12
  UIntModulus = 16
  Kinds = {"gzip", "bzip2"}
  Files <- AllFiles
  BufferSizes = {1}
  Builds = {TRUE, FALSE}
  Limits = {0, 2, 12}
CHECK_DEADLOCK FALSE
INVARIANTS
  TypeOK
  SpanIsCurrent
  DecodedInOrder
  FinishedMeansComplete
  ShowsLastDecoded
  FullBufferGrows
PROPERTIES
  ErrorIsFinal
  GrowsOnlyWhenFull
  CallReturns
