SPECIFICATION Spec
CONSTANTS
  JoinTimeout = 1
  LeaveTimeout = 1
  DhcpTimeout = 1
  ConnectTimeout = 1
  BackoffInitial = 1
  BackoffMax = 2
  NoIpReboot = 4
  DhcpAttempts = 2
  RejoinFailures = 2
  MaxOutages = 1
PROPERTIES
  ResetOnlyWithoutLease
