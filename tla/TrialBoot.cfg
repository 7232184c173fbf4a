SPECIFICATION TrialFairSpec
CONSTANTS
  JoinTimeout = 15
  LeaveTimeout = 5
  DhcpTimeout = 15
  ConnectTimeout = 10
  BackoffInitial = 1
  BackoffMax = 30
  NoIpReboot = 600
  DhcpAttempts = 3
  RejoinFailures = 5
  MaxOutages = 0
  Window = 30
  PollPeriod = 1
  FeedInterval = 1
  WdtTimeout = 8
  MaxStall = 6
  Latency = 2
  MaxMisses = 1
  MaxStalls = 1
INVARIANTS
  TrialBootTypeOK
  WatchdogQuiet
  VerdictInTime
  ConfirmedIsHealthy
  HealthNoticed
  OneMissTolerated
PROPERTIES
  TrialEnds
CHECK_DEADLOCK FALSE
