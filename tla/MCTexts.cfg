SPECIFICATION Spec
CONSTANTS
  Bodies <- MCBodies
  Transcripts <- Documents
CHECK_DEADLOCK FALSE
INVARIANTS
  EveryTextOnce
  ArraysKeepOrder
  BothReadingsAgree
  TranscriptInOrder
