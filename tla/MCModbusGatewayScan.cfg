\* As MCModbusGateway.cfg, with two messages under way and two events.
SPECIFICATION Spec
CONSTANTS
  a = a
  b = b
  p1 = p1
  s1 = s1
  s2 = s2
  relay = relay
  level = level
  Names = {relay, level}
  Registers = {a, b}
  Values = {0, 1}
  Ports = {p1}
  Settings = {s1, s2}
  Fast = Fast
  Configs <- MCConfigs
  Empty <- MCEmpty
  Invalid = Invalid
  None = None
  Factory = 0
  MaxQueue = 2
  MaxEvents = 2
INVARIANT BusFollowsConfig
\* Once the bounded events are used up the model may rest.
CHECK_DEADLOCK FALSE
