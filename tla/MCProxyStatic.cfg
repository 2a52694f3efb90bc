SPECIFICATION FairSpec
CONSTANTS
  c1 = c1
  c2 = c2
  d1 = d1
  d2 = d2
  s1 = s1
  h1 = h1
  m1 = m1
  r1 = r1
  Slot <- TwoSlots
  Key <- StaticKeys
  RouteOf <- StaticRoutes
  HafasKey <- StaticHafas
  Asks = {"get", "cond"}
  StaticCap = 2
  DynamicCap = 0
  Horizon = 0
INVARIANT AlwaysOK
PROPERTIES EveryRequestAnswered StaticLossIsEviction
