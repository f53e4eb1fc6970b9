SPECIFICATION Spec
CONSTANTS
  Token = {t1, t2, t3}
  SessionBound = 1
  Req = {r1, r2}
  None = None
  MaxSessions = 1
  Ops = {"login", "refresh", "switch", "deleteSession", "cleanup"}
SYMMETRY Symmetry
INVARIANTS
  OneLivePerFamily
  RotatedOnce
  LineageSpent
PROPERTIES
  RotationConsumesLive
  FamilyChain
CHECK_DEADLOCK FALSE
