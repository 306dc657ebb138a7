SPECIFICATION FairSpec
CONSTANTS
  None = None
  Devices = {d1, d2}
  Services = {s1, s2}
  Forwards = {f1}
  Ports = {1}
  LocalPorts = {8022}
  Targets = {x}
  Binds = {TRUE}
  Handlers = {h1}
  MaxFaults = 1
PROPERTIES
  DaemonsConverge
  RevokedDeviceLeaves
  DaemonsApproach
  SessionsLast
CHECK_DEADLOCK FALSE
