SPECIFICATION FairSpec
CONSTANTS
  None = None
  Devices = {d1}
  Names = {n1}
  Tokens = {}
  Handlers = {h1, h2}
  Seeded = {d1}
  MaxCrashes = 0
PROPERTY
  RevokedAccountDeleted
CHECK_DEADLOCK FALSE
