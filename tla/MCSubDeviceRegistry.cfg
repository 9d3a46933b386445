\* Bounds: MaxEvents events of the outside world (edits, crashes, outages, broker
\* restarts) against any number of messages, at most MaxInFlight under way when
\* a sub-device is discovered.
SPECIFICATION FairSpec
CONSTANTS
  n1 = n1
  n2 = n2
  t1 = t1
  Names <- MCNames
  Tokens <- MCTokens
  Words <- MCWords
  Roles <- MCRoles
  BadRole = BadRole
  Placeholder = Placeholder
  Unset = Unset
  InitialClouds <- MCInitialClouds
  ConsoleEntries <- MCOneEntry
  MaxEntries = 2
  CloudMayDrop = TRUE
  CloudEchoes = TRUE
  MaxInFlight = 2
  MaxEvents = 2
INVARIANTS
  TypeOK
  MosquittoFollowsRegistry
PROPERTIES
  RegistryConverges
  ReconnectLoopEnds
  RestartsNeedAChange
\* Once the bounded events are used up and every message is delivered, the
\* model rests: nothing is left to do.
CHECK_DEADLOCK FALSE
