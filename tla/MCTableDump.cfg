SPECIFICATION DumpSpec
CONSTANTS
  Types = {13, 16}
  Subtypes = {1, 2, 3, 4, 5, 6}
  Peers <- SmallPeers
  RibEntries <- SmallEntries
  MaxEntries = 2
  RawChoices = {{}, {2}, {8, 32}}
  Distances = {1}
  Builds = {TRUE, FALSE}
CHECK_DEADLOCK FALSE
INVARIANTS
  TypeOK
  ReadsOnlyFilled
  IteratorsKeepStep
  PrintsMessage
PROPERTY
  DumpGoesOn
