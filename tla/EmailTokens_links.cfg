SPECIFICATION Spec
CONSTANTS
  Token = {t1, t2, t3}
  Invitee = {i1, i2, i3}
  Req = {r1, r2}
  None = None
  MemberCap = 2
  Together <- MCTogether
SYMMETRY Symmetry
INVARIANTS
  UsedAgainOnlyIfRaced
  ConsumptionJustified
  OneLiveLink
  RemovalFinal
  SeatsBounded
