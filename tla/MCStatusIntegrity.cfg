CONSTANTS
  Width = 2
  MaxMessages = 3
  MaxLost = 1
  MaxFlips = 0
SPECIFICATION Spec
INVARIANT OnlySentStatuses
CHECK_DEADLOCK FALSE
