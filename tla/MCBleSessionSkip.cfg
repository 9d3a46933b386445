\* Bounds: MaxEvents messages of the app, failures and reboots; one connect at a
\* time.
SPECIFICATION FairSpec
CONSTANTS
  t1 = t1
  t2 = t2
  home = home
  office = office
  Tokens = {t1, t2}
  Bad = Bad
  Networks = {home, office}
  Sets <- MCSets
  Tasks = {1}
  None = None
  MaxEvents = 4
INVARIANT
  SkipsWhatIsJoined
\* Once the bounded events are used up the model may rest.
CHECK_DEADLOCK FALSE
