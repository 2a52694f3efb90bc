SPECIFICATION Spec
CONSTANTS
  c1 = c1
  c2 = c2
  p = p
  q = q
  Empty = Empty
  Bad = Bad
  Slot <- TwoSlots
  Stop <- MCStop
  Raw <- SingleRaw
  Limits = {1}
  MaxStops = 2
  Undated = FALSE
  HasHafas = FALSE
  Timetables <- AllTimetables
  Grace = 1
  Cap = 1
  Horizon = 3
PROPERTY LastKnownGood
