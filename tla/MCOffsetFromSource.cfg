CONSTANTS
  MaxMessages = 2
  MaxDeaths = 0
  MaxFiles = 6
  StopEndDelay = 0
SPECIFICATION RecordingSpec
INVARIANT OffsetFromSource
CHECK_DEADLOCK FALSE
