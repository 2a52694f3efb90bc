SPECIFICATION Spec
CONSTANTS
  c1 = c1
  c2 = c2
  d1 = d1
  d2 = d2
  s1 = s1
  h1 = h1
  m1 = m1
  r1 = r1
  Slot <- TwoSlots
  Key <- DynamicKeys
  RouteOf <- DynamicRoutes
  HafasKey <- DynamicHafas
  Asks = {"get", "head", "gzip", "cond"}
  StaticCap = 0
  DynamicCap = 1
  Horizon = 2
SYMMETRY Symmetry
INVARIANTS TypeOK CachesFit HitsAreFresh CacheIsLastResort
