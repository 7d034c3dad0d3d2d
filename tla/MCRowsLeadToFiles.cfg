CONSTANTS
  Segments = {s1}
  Undeletable = {}
  DaysSettings = {1}
  DayLength = 2
  Range = 5
  CleanupEvery = 2
  MaxTime = 4
SPECIFICATION SafeSpec
INVARIANT RowsLeadToFiles
