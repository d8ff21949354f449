CONSTANTS
  t1 = t1
  t2 = t2
  s1 = s1
  s2 = s2
  notify = notify
  Tools <- MCTools
  Servers <- MCServers
  Toast = notify
  MaxFaults = 0
SPECIFICATION QuietSpec
PROPERTIES
  StopEnds
CHECK_DEADLOCK FALSE
