SPECIFICATION FairSpec
CONSTANTS
  None = None
  Devices = {d1, d2}
  Names = {n1, n2}
  Tokens = {}
  Handlers = {h1}
  Seeded = {d1, d2}
  MaxCrashes = 1
PROPERTY
  LockedEventuallyReaped
CHECK_DEADLOCK FALSE
