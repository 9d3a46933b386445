\* Bounds: MaxEvents changes, crashes and failures; two connects of a BLE session
\* at once.
SPECIFICATION FairSpec
CONSTANTS
  Hosts = {h1, h2}
  Tokens = {t1}
  Registries = {r0, r1}
  Unlisted = r0
  Torn = Torn
  None = None
  Net = net
  Connects = {b1, b2}
  MaxEvents = 4
INVARIANTS
  TypeOK
  MosquittoRunsDisk
  DiskIsCurrent
PROPERTIES
  RedirectArrives
\* Once the bounded events are used up the model may rest.
CHECK_DEADLOCK FALSE
