SPECIFICATION FairSpec
CONSTANTS
  Devices = {d1}
  Period = 3
  OfflineAfter = 6
  Poll = 2
  Thresholds = {2, 3, 12}
  MaxAge = 13
  MaxFaults = 5
  Never = Never
INVARIANTS
  PresenceTypeOK
  HealthyStaysOnline
  OneAlertPerSilence
  SilentShownOffline
  LeftoversGo
PROPERTIES
  NoFalseAlarm
  SilenceIsReported
CHECK_DEADLOCK FALSE
