CONSTANTS
  OtherBits = {}
  Statuses <- OneDoor
  Times = {0}
  StopBeginDelay = 1
  StopEndDelay = 3
  MaxRead = 2
  MaxStatuses = 3
SPECIFICATION FairHistorySpec
INVARIANT TypeOK
INVARIANT PortOpenWhileUsed
 
PROPERTY ImplementsMonitor
PROPERTY CommandsAreWritten
PROPERTY StopCompletes
CHECK_DEADLOCK FALSE
