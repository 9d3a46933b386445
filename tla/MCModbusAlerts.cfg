\* Bounds: MaxEvents failures, writes, edits, lost events and
\* connections, refused saves and crashes.
\* One slave with a point that is polled and one that is only written; the
\* second port has no slave, and its thread decides on the alerts as well.
SPECIFICATION FairSpec
CONSTANTS
  meter = meter
  relay = relay
  s1 = s1
  p1 = p1
  p2 = p2
  Points = {meter, relay}
  Slaves = {s1}
  SlaveOf <- MCSlaveOf
  Ports = {p1, p2}
  PortOf <- MCPortOf
  Read = {meter}
  Write = {relay}
  Configs = {{}, {meter}, {meter, relay}}
  MaxEvents = 3
INVARIANTS
  TypeOK
  EventsAlternate
PROPERTIES
  ToldInTheEnd
\* Once the bounded events are used up the model may rest.
CHECK_DEADLOCK FALSE
