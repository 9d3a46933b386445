\* As MCWatchdog.cfg, with a single event.
SPECIFICATION FairSpec
CONSTANTS
  DnsGrace = 1
  Grace = 2
  Threads = {1, 2}
  MaxEvents = 1
  None = None
INVARIANT WatchdogSurvives
\* Once the bounded events are used up the model may rest.
CHECK_DEADLOCK FALSE
