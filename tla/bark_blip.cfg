SPECIFICATION FairSpec
CONSTANTS
  Devices = {d1}
  Period = 3
  OfflineAfter = 6
  Poll = 2
  Thresholds = {2}
  MaxAge = 13
  MaxFaults = 0
  Never = Never
PROPERTIES
  NextSilenceIsReported
CHECK_DEADLOCK FALSE
