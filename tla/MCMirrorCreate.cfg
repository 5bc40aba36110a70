SPECIFICATION Spec
CONSTANTS
  PageSize = 4
  SizeModulus = 32
  MaxCapacity = 12
  Ranges = {r1, r2}
  Null = Null
  MapFailed = MapFailed
  Builds = {TRUE, FALSE}
  Requests = {0, 1, 3, 4, 5, 8, 11, 12, 13, 15, 16, 17, 28, 29, 31}
CHECK_DEADLOCK FALSE
INVARIANTS
  TypeOK
  AllOrNothing
  BothHalvesMirror
  AtLeastRequested
PROPERTY
  CreatesAtOnce
