\* Bounds: MaxEvents messages of the app, failures, refused saves and reboots; two connects
\* under way at once.
SPECIFICATION FairSpec
CONSTANTS
  t1 = t1
  t2 = t2
  home = home
  office = office
  Tokens = {t1, t2}
  Bad = Bad
  Networks = {home, office}
  Sets <- MCSets
  Tasks = {1, 2}
  None = None
  MaxEvents = 6
INVARIANTS
  TypeOK
PROPERTIES
  IdentityKept
  ConnectAnswered
\* Once the bounded events are used up the model may rest.
CHECK_DEADLOCK FALSE
