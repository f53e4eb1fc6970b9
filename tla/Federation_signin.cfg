SPECIFICATION Spec
CONSTANTS
  Identity = {i1, i2}
  Email = {e1, e2}
  Social = {google, github}
  Pkce = {google}
  Connection = {c1}
  Sub = {u1}
  Req = {r1, r2}
  Together <- MCTogether
  None = None
  State = {x1}
SYMMETRY Symmetry
INVARIANTS
  ProvisionedLinked
  LinksNeedVerified
  EntersOwner
PROPERTY LinkStable
