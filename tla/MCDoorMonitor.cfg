CONSTANTS
  OtherBits = {}
  Statuses <- MCStatuses
  Times = {5, 7}
  StopBeginDelay = 1
  StopEndDelay = 3
  MaxStatuses = 5
SPECIFICATION HistorySpec
INVARIANT TypeOK
INVARIANT EventHistory
INVARIANT CommandsFollowDoors
INVARIANT OneRequestPerOpening
INVARIANT RequestsSpanOpenings
CHECK_DEADLOCK FALSE
