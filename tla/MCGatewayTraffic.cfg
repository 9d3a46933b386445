\* Bounds: three sub-devices, every registry over the seven values of MCValues
\* to begin with, and one registry change while a message is under way.
SPECIFICATION TrafficSpec
CONSTANTS
  n1 = n1
  n2 = n2
  n3 = n3
  t1 = t1
  t2 = t2
  Names <- MCNames
  Tokens <- MCTokens
  Words <- MCWords
  Roles <- MCRoles
  BadRole = BadRole
  Placeholder = Placeholder
  DsNames <- MCDsNames
  Values <- MCValues
  MaxEdits = 1
  None = None
SYMMETRY MCSymmetry
INVARIANTS
  TrafficTypeOK
  UplinkComesOutOnce
  UplinkArrives
  DownlinkComesOut
