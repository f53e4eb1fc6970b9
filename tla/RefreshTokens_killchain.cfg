SPECIFICATION Spec
CONSTANTS
  Token = {t1, t2, t3}
  SessionBound = 1
  Req = {r1}
  None = None
  MaxSessions = 1
  Ops = {"login", "refresh"}
INVARIANT KillChainRevokesFamily
