SPECIFICATION Spec
CONSTANTS
  None = None
  Devices = {d1, d2}
  Services = {s1, s2}
  Forwards = {f1}
  Ports = {1}
  LocalPorts = {8022}
  Targets = {x, y}
  Binds = {TRUE}
  Handlers = {h1, h2}
  MaxFaults = 1
SYMMETRY MeshSymmetry
INVARIANTS
  TypeOK
  ReplyIsRunnable
  EveryLocalIsServed
  ForwardsReachTheirService
  SessionMatchesSpecs
  OnlyThePastBlocks
CHECK_DEADLOCK FALSE
