SPECIFICATION FairSpec
CONSTANTS
  ChunkSize = 2
  MaxSize = 5
  MaxFaults = 2
CHECK_DEADLOCK FALSE
INVARIANT AcceptedIsWholeFile
PROPERTIES
  TransferEnds
  UploadIsOneCall
