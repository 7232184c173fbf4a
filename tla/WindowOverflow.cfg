SPECIFICATION FairSpec
CONSTANTS
  Full = 3
  TravelTime = 6
  WindowCount = 1
  NotAByte = NotAByte
  IndexFields = {1}
  PercentageFields = {3}
  NoWindow = NoWindow
  LeftAt <- OneAjar
  PulseTime = 1
  Capacity = 4
  MaxCommands = 6
  MaxLost = 0
PROPERTIES
  EveryStopHalts
