SPECIFICATION Spec
CONSTANTS
  None = None
  Devices = {d1, d2, d3}
  Names = {n1, n2}
  Tokens = {t1}
  Handlers = {h1, h2}
  Seeded = {d1}
  MaxCrashes = 1
SYMMETRY RegistrySymmetry
INVARIANTS
  TypeOK
  IInv
  TokenSingleUse
  EnrolledDeviceUsable
  PhantomUserExplained
  OrphanAccountExplained
  ReaperForgetsNoAccount
PROPERTY
  LedgerSpec
CHECK_DEADLOCK FALSE
