SPECIFICATION Spec
CONSTANTS
  Token = {t1, t2, t3}
  SessionBound = 2
  Req = {r1}
  None = None
  MaxSessions = 3
  Ops = {"login", "refresh", "switch", "logout", "deleteSession", "reset", "password",
         "suspend", "deleteAccount", "revoke", "reinstate", "expire"}
SYMMETRY Symmetry
INVARIANT ClosedSessionsDead
CHECK_DEADLOCK FALSE
