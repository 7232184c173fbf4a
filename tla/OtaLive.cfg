SPECIFICATION FairSpec
CONSTANTS
  Versions = {v1, v2, v3}
  Factory = v1
  Torn = Torn
  MaxSeq = 7
  AppRollback = FALSE
  TrialReleases = FALSE
  MaxReleases = 2
  MaxResets = 2
  MaxFaults = 1
  MaxReadFaults = 0
PROPERTIES
  TrialSettles
  TriggerServed
