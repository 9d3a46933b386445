\* Bounds: three pushes; a file that works, one that crash-loops and one that is
\* malformed besides the one installed.
SPECIFICATION FairSpec
CONSTANTS
  old = old
  good = good
  bad = bad
  broken = broken
  torn = torn
  Torn = torn
  Files <- MCFiles
  Valid <- MCValid
  Works <- MCWorks
  Version <- MCVersion
  Faults = {"overlap", "docker", "backup", "restore", "power", "publish"}
  MaxPushes = 3
  None = None
INVARIANTS
  TypeOK
  OnlyValidFiles
  ReportIsTrue
PROPERTIES
  UpdateEnds
  KeepsContract
\* Once the bounded events are used up the model may rest.
CHECK_DEADLOCK FALSE
