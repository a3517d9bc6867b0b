SPECIFICATION FairSpec
CONSTANTS
  Schedules <- MCSchedules
  Drain = 1
  MaxClock = 4
INVARIANTS
  TypeOK
  AccountedOnce
  NoCoordinatedOmission
  PeakIsTrue
  ReplayKeepsAnsweredRuns
PROPERTIES
  RecordsAreFinal
  ImplementsSource
  RunEnds
