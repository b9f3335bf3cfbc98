CONSTANTS
  MaxSends = 2
  Asks = {a1}
  Fetches = {f1, f2}
  MaxSteps = 1
  Window = 1
  MaxFaults = 1
  Framed = TRUE
SPECIFICATION FairSpec
CHECK_DEADLOCK FALSE
INVARIANTS TypeOK OneStream TimelineIsOfRun CapturedIsOfRun
PROPERTIES LoadingEnds CardsFollow
