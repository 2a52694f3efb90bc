SPECIFICATION Spec
CONSTANTS
  Null = Null
  Short = Short
  ZeroTime <- MCZero
  MaxSpan <- MCSpan
  Grace = 30
  LocL <- MCLocL
  ProdL <- MCProdL
  Places <- MCPlaces
  Dates <- MCDates
  Clocks <- MCClocks
  Realtimes <- MCRealtimes
  Readings <- MCReadings
  MaxJourneys = 2
INVARIANTS PathsAgree ExpiresWithLastRow ExpiresAfterEvents DelaysRound SortedStably
CHECK_DEADLOCK FALSE
