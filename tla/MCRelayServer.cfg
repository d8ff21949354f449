CONSTANTS
  t1 = t1
  t2 = t2
  s1 = s1
  s2 = s2
  notify = notify
  Tools <- MCTools
  Servers <- MCServers
  Toast = notify
  MaxFaults = 1
SPECIFICATION QuietSpec
INVARIANTS
  OneDaemon
  StopIsTrue
  ListedIfServing
PROPERTIES
  NoticesStop
CHECK_DEADLOCK FALSE
