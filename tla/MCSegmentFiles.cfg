CONSTANTS
  Segments = {s1, s2}
  Undeletable = {s1}
  DaysSettings = {1, 4}
  DayLength = 2
  Range = 5
  CleanupEvery = 2
  MaxTime = 4
SPECIFICATION Spec
INVARIANT TypeOK
INVARIANT KeptForDays
PROPERTY OnlyOldFilesGo
PROPERTY OldFilesGo
