SPECIFICATION SettingsSpec
CONSTANTS
  m1 = m1
  m2 = m2
  g1 = g1
  g2 = g2
  p1 = p1
  p2 = p2
  Handles = {m1, m2, g1, g2, p1, p2}
  CObjects = {c1, c2, c3}
  Null = Null
  Class <- ClassOf
  Builds = {TRUE, FALSE}
  Views = {v1}
  TopFields = {ignore_invalid}
  BgpFields = {asn_4_byte}
  Values = {TRUE, FALSE}
  Defaults <- AllOff
SYMMETRY Interchangeable
CHECK_DEADLOCK FALSE
INVARIANTS
  TypeOK
  OneHolder
PROPERTIES
  LeaksOnlyByAssignment
  OptionsAreValues
