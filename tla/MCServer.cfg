SPECIFICATION Spec
CONSTANTS
  c1 = c1
  c2 = c2
  d2 = d2
  d1 = d1
  p = p
  q = q
  Empty = Empty
  Bad = Bad
  Nothing = Nothing
  ProxySlot <- MCProxySlot
  CompactSlot <- MCCompactSlot
  Key <- MCKey
  HafasKey <- MCHafasKey
  Asks = {"get"}
  Stop <- MCStop
  Raw <- MCRaw
  Limits = {1}
  MaxStops = 2
  Undated = FALSE
  HasHafas = TRUE
  Timetables <- MCTimetables
  Grace = 1
  Cap = 1
  Horizon = 2
INVARIANTS TypeOK HandlersUndisturbed
PROPERTIES KeepsPromise EveryRequestAnswered
