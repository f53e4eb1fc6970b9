SPECIFICATION Spec
CONSTANTS
  PaidPlan = {"PRO"}
  MaxEvents <- MCMaxEvents
  Jwt = {j1, j2}
  Key = {k1}
  Endpoint = {e1, e2, e3}
  EndpointCap = 1
  Flow = {f1}
  Step = {s1, s2}
  Req = {r1, r2}
  Together <- MCTogether
  None = None
INVARIANTS
  PlanFollowsProvider
  EndpointsBounded
  ProgressDurable
PROPERTY EventuallyDowngraded
CHECK_DEADLOCK FALSE
