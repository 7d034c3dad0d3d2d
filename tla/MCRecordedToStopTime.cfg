CONSTANTS
  MaxMessages = 2
  MaxDeaths = 0
  MaxFiles = 6
  StopEndDelay = 1
SPECIFICATION RecordingSpec
INVARIANT RecordedToStopTime
CHECK_DEADLOCK FALSE
