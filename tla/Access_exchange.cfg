SPECIFICATION AccessSpec
CONSTANTS
  Scope = {s1, s2}
  DefaultScopes = {s1}
  Code = {k1}
  Req = {r1}
  Together <- MCTogether
  None = None
  AccessToken = {a1}
  Session = {n1}
  Proc = {p1}
  TokenReq = {q1}
  Ops = {"issue"}
CHECK_DEADLOCK FALSE
PROPERTY ExchangeSucceeds
