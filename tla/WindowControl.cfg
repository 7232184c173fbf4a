SPECIFICATION FairSpec
CONSTANTS
  Full = 3
  TravelTime = 5
  WindowCount = 2
  NotAByte = NotAByte
  IndexFields = {0, 1, 2, 3, NotAByte}
  PercentageFields = {0, 2, 3, 4, NotAByte}
  NoWindow = NoWindow
  LeftAt <- OneAjar
  PulseTime = 1
  Capacity = 2
  MaxCommands = 3
  MaxLost = 1
INVARIANTS
  TypeOK
  PulsesExclusive
  MotorFollowsPlan
  InterruptedOnTheWay
  SeatTravelArrives
PROPERTIES
  LastTargetReached
  StopHalts
  TelemetryConverges
