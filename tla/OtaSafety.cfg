SPECIFICATION Spec
CONSTANTS
  Versions = {v1, v2, v3}
  Factory = v1
  Torn = Torn
  MaxSeq = 5
  AppRollback = TRUE
  TrialReleases = FALSE
  MaxReleases = 5
  MaxResets = 3
  MaxFaults = 2
  MaxReadFaults = 0
INVARIANTS
  TypeOK
  AlwaysBootable
  FallbackReady
  RunningIsSelected
  UnprovenOnlyOnTrial
PROPERTIES
  RunningSlotNeverWritten
  ImplementsContract
