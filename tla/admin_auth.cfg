SPECIFICATION Spec
CONSTANTS
  None = None
  Users = {u1, u2}
  Names = {admin}
  Passwords = {p1, p2}
  Sessions = {s1, s2}
  Tokens = {k1}
  IPs = {i1}
  Handlers = {h1, h2}
  MaxFail = 2
SYMMETRY AuthSymmetry
INVARIANTS
  AuthTypeOK
  SessionsHaveUsers
  VoidCredentialsRefused
  FailuresBounded
PROPERTY
  AccessSpec
CHECK_DEADLOCK FALSE
