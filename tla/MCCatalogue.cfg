CONSTANTS
  c1 = c1
  p1 = p1
  s1 = s1
  k1 = k1
  k2 = k2
  r1 = r1
  r2 = r2
  Requests <- MCRequests
  Charities = {c1}
  Projects = {p1}
  SaleItems = {s1}
  Categories = {k1, k2}
  Bodies <- MCBodies
  NULL = NULL
  Keep = Keep
  NoUuid = NoUuid
SYMMETRY Symmetric
SPECIFICATION Spec
CHECK_DEADLOCK FALSE
INVARIANTS
  TypeOK
  WindowOrdered
  LogosBound
  LinksLiveUnlessRaced
  LinksOneReplace
  StampsAudited
  ListsWalkOnce
  ListsAgree
