SPECIFICATION Spec
CONSTANTS
  None = None
  Empty = Empty
  Procs = {e1, e2}
  Keys = {k1, k2, k3}
  Devices = {d1, d2, d3}
  Seeds = {s1, s2}
SYMMETRY CredentialsSymmetry
INVARIANTS
  CredentialsTypeOK
  KeyOpensAccounts
  StateWhole
  FingerprintKept
CHECK_DEADLOCK FALSE
