SPECIFICATION FairSpec
CONSTANTS
  Engines <- MCEngines
  SlugOrder <- MCSlugOrder
  Variants = 3
  Protected = TRUE
  Budget = 4
  MaxCost = 2
  MaxStuck = 1
  Faults = {"disk", "kill"}
INVARIANTS
  TypeOK
  MeasuredElsewhereShows
  OverrunHasACause
  LoadFollowsTheSession
  StopsWhatItStarted
PROPERTIES
  CleanStart
  SessionEnds
