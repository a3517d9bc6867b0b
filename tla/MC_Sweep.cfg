SPECIFICATION FairSpec
CONSTANTS
  Rates <- MCRates
  Draws <- MCDraws
  Duration = 1
  WarmUp = 1
  StopAfter = 1
  MaxRestarts = 1
INVARIANTS
  TypeOK
  WindowIsTheStep
  CountCoversTheClient
  EarlyStopKeepsTheAnswer
PROPERTIES
  SweepEnds
