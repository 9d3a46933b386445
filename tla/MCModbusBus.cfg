\* Bounds: MaxEvents failures, edits, writes and changes at the device; words
\* of four values, quarters and a backoff of one to three ticks stand for those
\* of the code.
SPECIFICATION FairSpec
CONSTANTS
  s1 = s1
  s2 = s2
  relay = relay
  Base = 4
  One = 4
  Slaves = {relay}
  Home = relay
  Points <- MCPoints
  Asked <- MCAsked
  Settings = {s1, s2}
  Right = s1
  AfterTimeouts = 3
  Start = 1
  Limit = 3
  None = None
  Broken = Broken
  MaxEvents = 2
INVARIANTS
  TypeOK
  BackoffEarned
  ShownIsRegister
  WriteIsNearest
PROPERTIES
  ReturnNoticed
\* Once the bounded events are used up the model may rest.
CHECK_DEADLOCK FALSE
