\* Bounds: a minute of grace before the DNS refresh, two before BLE (90 s and 300 s
\* in the code, checked once a minute), and MaxEvents events of the outside world.
SPECIFICATION FairSpec
CONSTANTS
  DnsGrace = 1
  Grace = 2
  Threads = {1, 2}
  MaxEvents = 3
  None = None
INVARIANTS
  TypeOK
  OneSessionAtATime
PROPERTIES
  HealthyLeftAlone
  HealthySettles
  OutageOffersProvisioning
\* Once the bounded events are used up the model may rest.
CHECK_DEADLOCK FALSE
