SPECIFICATION FairSpec
CONSTANTS
  MaxHead = 8
  SectorSize = 2
  SlotSize = 4
  Chunk = 2
  Blank <- MCBlank
  Versions = {1, 2, 12}
  Factory = 1
  ImageSizes <- MCImageSizes
  ReadChunk = 3
  VersionMax = 3
  ShaMax = 2
  UsizeRange = 1000
  MaxFaults = 1
INVARIANTS
  TypeOK
  ParserAgrees
  BodyInOrder
  WrittenIsHashed
  RunsPublishedImage
  NamedPairWhole
PROPERTIES
  CheckEnds
  ReleasePickedUp
CHECK_DEADLOCK FALSE
