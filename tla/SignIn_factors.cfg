SPECIFICATION Spec
CONSTANTS
  Session = {s1, s2}
  Code = {c1, c2}
  Challenge = {h1, h2, h3}
  Passkey = {k1, k2}
  Req = {r1, r2}
  None = None
  Threshold <- MCThreshold
  LockTtl <- MCLockTtl
  Window = 2
  RequireMfa = FALSE
  MaxErrors = 1
  Theme <- MCTheme
SYMMETRY Symmetry
INVARIANTS
  GuessesBounded
  CodeOnce
  EndedStaysEnded
  ChallengeOnce
PROPERTIES
  ElevationOnLive
  KeepsAWayIn
