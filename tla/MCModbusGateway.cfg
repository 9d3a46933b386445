\* Bounds: MaxEvents requests, edits, failures, disconnections and crashes; MaxQueue
\* messages under way besides the one being handled; Factory.
SPECIFICATION FairSpec
CONSTANTS
  a = a
  b = b
  p1 = p1
  s1 = s1
  s2 = s2
  relay = relay
  level = level
  Names = {relay, level}
  Registers = {a, b}
  Values = {0, 1}
  Ports = {p1}
  Settings = {s1, s2}
  Fast = Fast
  Configs <- MCConfigs
  Empty <- MCEmpty
  Invalid = Invalid
  None = None
  Factory = 0
  MaxQueue = 1
  MaxEvents = 3
INVARIANTS
  TypeOK
  WrittenFits
  SubscriptionsFollow
  SwitchIsTrue
PROPERTIES
  ConfigConverges
  DashboardConverges
\* Once the bounded events are used up the model may rest.
CHECK_DEADLOCK FALSE
