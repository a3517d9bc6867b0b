SPECIFICATION Spec
CONSTANTS
  Schedules <- MCSchedules
  Drain = 1
  MaxClock = 4
INVARIANTS
  ReplayIsExact
