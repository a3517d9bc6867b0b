SPECIFICATION Spec
CONSTANTS
  Rates <- GapRates
  Draws <- GapDraws
  Duration = 1
  WarmUp = 0
  StopAfter = 1
  MaxRestarts = 0
INVARIANTS
  EarlyStopKeepsTheAnswer
