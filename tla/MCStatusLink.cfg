CONSTANTS
  Width = 2
  MaxMessages = 3
  MaxLost = 2
  MaxFlips = 2
SPECIFICATION Spec
INVARIANT TypeOK
INVARIANT FaithfulWhenIntact
INVARIANT WholeMessagesAreSound
INVARIANT MixedMessagesRepeat
INVARIANT ShiftIsKept
CHECK_DEADLOCK FALSE
