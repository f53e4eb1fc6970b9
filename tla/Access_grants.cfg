SPECIFICATION AccessSpec
CONSTANTS
  Scope = {s1, s2}
  DefaultScopes = {s1}
  Code = {k1, k2}
  Req = {r1, r2}
  Together <- MCTogether
  None = None
  AccessToken = {k1, k2}
  Session = {n1}
  Proc = {r1, r2}
  TokenReq = {q1}
  Ops = {"issue", "logout", "revokeMany", "revokeOne", "replay", "restart"}
SYMMETRY Symmetry
CHECK_DEADLOCK FALSE
INVARIANTS
  CodesConsented
  PkceUnlessTightened
  RevocationDurable
  RevocationRecorded
