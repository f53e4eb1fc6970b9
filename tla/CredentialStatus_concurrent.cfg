SPECIFICATION Spec
CONSTANTS
  Credential = {c1, c2, c3}
  Offer = {o1}
  VerifySession = {v1}
  Req = {r1, r2}
  None = None
  MaxSize = 2
  ListBound = 3
  Together <- MCTogether
SYMMETRY Symmetry
INVARIANTS
  SlotUnique
  NoDeadSlots
  RevocationKept
  PresentationsBounded
PROPERTIES
  OfferClosed
  ListRegistry
