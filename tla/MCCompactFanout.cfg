SPECIFICATION FairSpec
CONSTANTS
  c1 = c1
  c2 = c2
  p = p
  q = q
  Empty = Empty
  Bad = Bad
  Slot <- OneSlot
  Stop <- MCStop
  Raw <- ManyRaw
  Limits = {1, 2}
  MaxStops = 2
  Undated = TRUE
  HasHafas = TRUE
  Timetables <- SomeTimetables
  Grace = 1
  Cap = 1
  Horizon = 3
INVARIANTS TypeOK CachedComplete StatusTellsOutcome FreshAnswerFits
PROPERTY EveryRequestAnswered
