SPECIFICATION FairSpec
CONSTANTS
  None = None
  Devices = {d1}
  Services = {s1, s2}
  Forwards = {}
  Ports = {1}
  LocalPorts = {8022}
  Targets = {x}
  Binds = {TRUE, FALSE}
  Handlers = {h1}
  MaxFaults = 0
PROPERTIES
  BindAddressConverges
CHECK_DEADLOCK FALSE
