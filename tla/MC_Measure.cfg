SPECIFICATION Spec
CONSTANTS
  MaxLines = 4
  MaxClock = 3
  Layouts <- MCLayouts
  Quantiles <- MCQuantiles
  Values = {1, 2, 3}
  Models = {"m1", "m2"}
  MaxSeen = 3
  Items <- MCItems
  Outcomes <- MCOutcomes
  Fields = {"max_num_seqs"}
  MaxVariants = 3
  Defaults <- MCDefaults
  Words <- MCWords
  ExtraFlags = {"--seed", "--trust-remote-code"}
  Profiles <- MCProfiles
  Machines <- MCMachines
  Environments <- MCEnvironments
  Overrides <- MCOverrides
  HelpTexts <- MCHelpTexts
  MinPlausible = 10
INVARIANTS
  TimesAreTheStream
  QuantileInItsBucket
  FrontierIsWhatNothingBeats
  CommandIsAccepted
