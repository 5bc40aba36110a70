SPECIFICATION Spec
CONSTANTS
  Objects = {o1, o2}
  Regions = {r1, r2, r3}
  NoRegion = NoRegion
  Bytes = {0, 1}
  Zero = 0
  PageSize = 2
  SizeModulus = 16
  Requests = {0, 1, 4, 15}
  MaxCapacity = 4
PROPERTY
  IsFifo
