CONSTANTS
  MaxMessages = 1
  MaxDeaths = 1
  MaxFiles = 5
  StopEndDelay = 0
SPECIFICATION Spec
INVARIANT TypeOK
INVARIANT FileUnlessSwitching
INVARIANT CutsAreSpared
PROPERTY RecordingRecovers
PROPERTY StopCompletes
PROPERTY SegmentsHandled
