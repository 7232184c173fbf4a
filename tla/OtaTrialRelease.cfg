SPECIFICATION Spec
CONSTANTS
  Versions = {v1, v2, v3}
  Factory = v1
  Torn = Torn
  MaxSeq = 9
  AppRollback = FALSE
  TrialReleases = TRUE
  MaxReleases = 3
  MaxResets = 2
  MaxFaults = 1
  MaxReadFaults = 0
INVARIANTS
  RejectedNeverSelectable
