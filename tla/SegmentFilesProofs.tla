--------------------------- MODULE SegmentFilesProofs ---------------------------
(***************************************************************************)
(* Proofs about SegmentFiles, for any segments, any settings, any length   *)
(* of a day, any range of durations and any bounds.                        *)
(***************************************************************************)
EXTENDS SegmentFiles, TLAPS

-----------------------------------------------------------------------------
(* The arithmetic of time *)

\* What is in the range does not wrap around.
LEMMA WrapKeeps ==
  ASSUME NEW n \in Int, -Range <= n, n < Range
  PROVE  Wrap(n) = n
<1>1. 2 * Range \in Nat \ {0} /\ n + Range \in 0..(2 * Range - 1)
  BY SegmentsAssumption
<1>2. \A m \in Nat \ {0}, a \in Nat : a < m => a % m = a
  OBVIOUS
<1>3. (n + Range) % (2 * Range) = n + Range
  BY <1>1, <1>2, SegmentsAssumption
<1> QED
  BY <1>3, SegmentsAssumption DEF Wrap

\* The cutoff time is right if the setting is sound.
LEMMA CutoffIsExact ==
  ASSUME NEW t \in Times, NEW days \in Int,
         days >= 0, days * DayLength < Range
  PROVE  Cutoff(t, days) = t - days * DayLength
<1>1. days * DayLength \in Nat
  BY SegmentsAssumption
<1>2. Wrap(days * DayLength) = days * DayLength
  BY <1>1, WrapKeeps, SegmentsAssumption
<1>3. /\ t - days * DayLength \in Int
      /\ -Range <= t - days * DayLength /\ t - days * DayLength < Range
  BY <1>1, SegmentsAssumption DEF Times
<1> QED
  BY <1>2, <1>3, WrapKeeps DEF Cutoff

\* Days are counted from the first.
LEMMA DaysAreCounted ==
  ASSUME NEW t \in Nat
  PROVE  DayOf(t) \in Nat
<1>1. \A d \in Nat \ {0} : t \div d \in Nat
  OBVIOUS
<1> QED
  BY <1>1, SegmentsAssumption DEF DayOf

-----------------------------------------------------------------------------
(* Types *)

\* A turn of recordLoop keeps the types.
LEMMA RecordLoopTypes ==
  ASSUME TypeOK, RecordLoop
  PROVE  TypeOK'
<1> USE DEF programVars, segmentVars
<1>1. \A n \in Int : Wrap(n) \in Int
  BY SegmentsAssumption DEF Wrap
<1>2. Cutoff(now, daysBeforeDeleteVideo_) \in Int
  BY <1>1, SegmentsAssumption DEF Cutoff, TypeOK, Times
<1>3. cleaning' \in BOOLEAN /\ cutoffTime' \in Int /\ unvisited' \subseteq Paths
  <2>1. CASE cleanupCounter' >= CleanupEvery
    <3>1. cleaning' \in BOOLEAN
      BY <2>1, Zenon DEF RecordLoop
    <3> QED
      BY <1>2, <2>1, <3>1 DEF RecordLoop, TypeOK
  <2>2. CASE ~(cleanupCounter' >= CleanupEvery)
    BY <2>2 DEF RecordLoop, TypeOK
  <2> QED
    BY <2>1, <2>2
<1>4. /\ cleanupCounter' \in 0..CleanupEvery
      /\ ~cleaning' => cleanupCounter' < CleanupEvery
  <2>1. ~cleaning /\ cleanupCounter' = cleanupCounter + 1
    BY DEF RecordLoop
  <2>2. cleanupCounter < CleanupEvery
    BY <2>1 DEF TypeOK
  <2> QED
    BY <2>1, <2>2, SegmentsAssumption DEF RecordLoop, TypeOK
<1> QED
  BY <1>3, <1>4 DEF RecordLoop, TypeOK

\* So does the cleanup.
LEMMA CleanupTypes ==
  ASSUME TypeOK, CleanupOldVideos
  PROVE  TypeOK'
<1> USE DEF programVars, segmentVars
<1>1. cleaning' \in BOOLEAN
  <2>1. cleaning' = FALSE \/ cleaning' = cleaning
    BY Zenon DEF CleanupOldVideos, Visited, Visit, CleanupOver
  <2> QED
    BY <2>1, Zenon DEF TypeOK
<1>2. /\ cleanupCounter' \in 0..CleanupEvery /\ cutoffTime' \in Int
      /\ ~cleaning' => cleanupCounter' < CleanupEvery
  BY SegmentsAssumption DEF CleanupOldVideos, Visited, Visit, CleanupOver, TypeOK
<1>3. outputDir_' \subseteq outputDir_ /\ unvisited' \subseteq unvisited
  BY DEF CleanupOldVideos, Visited, Visit, CleanupOver
<1>4. UNCHANGED <<now, programVars, segment, begun, written, rows>>
  BY DEF CleanupOldVideos, Visited, Visit
<1> QED
  BY <1>1, <1>2, <1>3, <1>4 DEF TypeOK

\* Files, rows, times and counters stay what they are; a file or a row is only
\* there when its segment was begun.
THEOREM TypeCorrect == SafeSpec => []TypeOK
<1>1. Init => TypeOK
  <2> SUFFICES ASSUME Init  PROVE TypeOK
    OBVIOUS
  <2>1. running \in BOOLEAN /\ cleaning \in BOOLEAN
    BY Zenon DEF Init
  <2>2. now \in Times \ {0} /\ 0 \in Times
    BY SegmentsAssumption DEF Init, Times
  <2>3. /\ segment \in [Segments -> {"none", "cut", "log", "done", "lost"}]
        /\ begun \in [Segments -> Times] /\ written \in [Segments -> Times]
    BY <2>2 DEF Init
  <2> QED
    BY <2>1, <2>2, <2>3, SegmentsAssumption DEF Init, TypeOK
<1>2. TypeOK /\ [Next]_vars => TypeOK'
  <2> SUFFICES ASSUME TypeOK, [Next]_vars  PROVE TypeOK'
    OBVIOUS
  <2> USE DEF programVars, segmentVars, cleanupVars
  <2>1. ASSUME NEW s \in Segments, Thread(s)  PROVE TypeOK'
    <3>1. FileOf(s) \in Paths
      BY DaysAreCounted DEF FileOf, Paths, TypeOK, Times
    <3>2. [day |-> DayOf(now), segment |-> s] \in Paths
      BY DaysAreCounted DEF Paths, TypeOK, Times
    <3>3. CASE Begin(s)
      BY <3>3 DEF Begin, TypeOK, Paths
    <3>4. CASE Write(s)
      BY <3>1, <3>4 DEF Write, TypeOK, FileOf, Paths
    <3>5. CASE EndCut(s)
      BY <3>5 DEF EndCut, TypeOK, Paths
    <3>6. CASE LogVideoSegment(s)
      BY <3>2, <3>6 DEF LogVideoSegment, TypeOK, Paths
    <3> QED
      BY <2>1, <3>3, <3>4, <3>5, <3>6 DEF Thread
  <2>2. CASE RecordLoop
    BY <2>2, RecordLoopTypes
  <2>3. CASE CleanupOldVideos
    BY <2>3, CleanupTypes
  <2>4. CASE Tick
    BY <2>4, SegmentsAssumption DEF Tick, TypeOK, Times
  <2>5. CASE ProgramEnds
    <3>1. running' \in BOOLEAN /\ cleaning' \in BOOLEAN
      BY <2>5, Zenon DEF ProgramEnds, CleanupOver
    <3>2. cleanupCounter' \in 0..CleanupEvery /\ cleanupCounter' < CleanupEvery
      BY <2>5, SegmentsAssumption DEF ProgramEnds, CleanupOver, TypeOK
    <3>3. /\ segment' \in [Segments -> {"none", "cut", "log", "done", "lost"}]
          /\ \A s \in Segments : segment'[s] = "none" => segment[s] = "none"
      BY <2>5 DEF ProgramEnds, TypeOK
    <3>4. /\ UNCHANGED <<now, daysBeforeDeleteVideo_, begun, written, outputDir_, rows>>
          /\ cutoffTime' = 0 /\ unvisited' = {}
      BY <2>5 DEF ProgramEnds, CleanupOver
    <3> QED
      BY <3>1, <3>2, <3>3, <3>4 DEF TypeOK, Paths
  <2>6. CASE ProgramStarts
    <3>1. running' \in BOOLEAN
      BY <2>6, Zenon DEF ProgramStarts
    <3> QED
      BY <2>6, <3>1 DEF ProgramStarts, TypeOK
  <2>7. CASE UNCHANGED vars
    BY <2>7 DEF vars, TypeOK
  <2> QED
    BY <2>1, <2>2, <2>3, <2>4, <2>5, <2>6, <2>7 DEF Next
<1> QED
  BY <1>1, <1>2, PTL DEF SafeSpec

-----------------------------------------------------------------------------
(* Segments are kept *)

\* A file is written when its segment has begun, and the cleanup under way has
\* reckoned with a time that is not later than now.
KeepInv ==
  /\ \A s \in Segments :
       /\ begun[s] <= now
       /\ written[s] # 0 => begun[s] <= written[s]
       /\ segment[s] = "none" => written[s] = 0
  /\ DaysAreSound /\ cleaning => cutoffTime <= now - KeepTime

\* The files to be kept are there.
Kept == KeepInv /\ KeptForDays

\* The steps of a segment's thread.
LEMMA ThreadKeeps ==
  ASSUME TypeOK, TypeOK', Kept, NEW s \in Segments, Thread(s)
  PROVE  Kept'
<1> USE DEF programVars, segmentVars, cleanupVars
<1>1. UNCHANGED <<now, daysBeforeDeleteVideo_, cleaning, cutoffTime>>
  BY DEF Thread, Begin, Write, EndCut, LogVideoSegment
<1>2. now \in Nat /\ \A u \in Segments : begun[u] \in Nat /\ written[u] \in Nat
  BY DEF TypeOK, Times
<1>3. UNCHANGED KeepTime /\ UNCHANGED DaysAreSound
  BY <1>1 DEF KeepTime, DaysAreSound
<1>4. CASE Begin(s)
  <2>1. written[s] = 0
    BY <1>4 DEF Begin, Kept, KeepInv
  <2>2. KeepInv'
    BY <1>1, <1>2, <1>3, <1>4, <2>1 DEF Begin, Kept, KeepInv, TypeOK, Paths
  <2>3. KeptForDays'
    BY <1>1, <1>2, <1>3, <1>4, <2>1
       DEF Begin, Kept, KeptForDays, Age, FileOf, TypeOK
  <2> QED
    BY <2>2, <2>3 DEF Kept
<1>5. CASE Write(s)
  <2>1. KeepInv'
    BY <1>1, <1>2, <1>3, <1>5 DEF Write, Kept, KeepInv, TypeOK
  <2>2. KeptForDays'
    BY <1>1, <1>2, <1>3, <1>5 DEF Write, Kept, KeptForDays, Age, FileOf, TypeOK
  <2> QED
    BY <2>1, <2>2 DEF Kept
<1>6. CASE EndCut(s)
  BY <1>1, <1>3, <1>6 DEF EndCut, Kept, KeepInv, KeptForDays, Age, FileOf, TypeOK
<1>7. CASE LogVideoSegment(s)
  <2>1. KeepInv'
    BY <1>1, <1>3, <1>7 DEF LogVideoSegment, Kept, KeepInv, TypeOK
  <2>2. KeptForDays'
    BY <1>1, <1>3, <1>7 DEF LogVideoSegment, Kept, KeptForDays, Age, FileOf
  <2> QED
    BY <2>1, <2>2 DEF Kept
<1> QED
  BY <1>4, <1>5, <1>6, <1>7 DEF Thread

\* One file at a time, of those last written to before the time reckoned with.
LEMMA CleanupRemoves ==
  ASSUME TypeOK, CleanupOldVideos
  PROVE  outputDir_' = outputDir_
           \/ \E p \in unvisited : /\ cleaning /\ written[p.segment] < cutoffTime
                                   /\ outputDir_' = outputDir_ \ {p}
<1> USE DEF segmentVars
<1>1. CASE Visited
  BY <1>1 DEF Visited
<1>2. ASSUME NEW p \in unvisited, Visit(p)
      PROVE  outputDir_' = outputDir_
               \/ /\ cleaning /\ written[p.segment] < cutoffTime
                  /\ outputDir_' = outputDir_ \ {p}
  <2>1. written[p.segment] \in Int /\ cutoffTime \in Int
    BY DEF TypeOK, Paths, Times
  <2>2. cleaning
    BY <1>2 DEF Visit
  <2>3. CASE written[p.segment] >= cutoffTime \/ p.segment \in Undeletable
    BY <1>2, <2>3 DEF Visit
  <2>4. CASE ~(written[p.segment] >= cutoffTime) /\ p.segment \notin Undeletable
    <3>1. outputDir_' = outputDir_ \ {p}
      BY <1>2, <2>4 DEF Visit
    <3> QED
      BY <2>1, <2>2, <2>4, <3>1
  <2> QED
    BY <2>3, <2>4
<1> QED
  BY <1>1, <1>2 DEF CleanupOldVideos

\* The cleanup removes only what it may.
LEMMA CleanupKeeps ==
  ASSUME TypeOK, Kept, CleanupOldVideos
  PROVE  Kept'
<1> USE DEF programVars, segmentVars, cleanupVars
<1>1. UNCHANGED <<now, daysBeforeDeleteVideo_, segment, begun, written, rows>>
  BY DEF CleanupOldVideos, Visited, Visit
<1>2. UNCHANGED KeepTime /\ UNCHANGED DaysAreSound
  BY <1>1 DEF KeepTime, DaysAreSound
<1>3. ~cleaning' \/ (cleaning' = cleaning /\ cutoffTime' = cutoffTime)
  BY DEF CleanupOldVideos, Visited, Visit, CleanupOver
<1>4. KeepInv'
  BY <1>1, <1>2, <1>3 DEF Kept, KeepInv
<1>5. KeptForDays'
  <2> SUFFICES ASSUME DaysAreSound, NEW s \in Segments,
                      written[s] # 0, Age(begun[s]) <= KeepTime
               PROVE  FileOf(s) \in outputDir_'
    BY <1>1, <1>2 DEF KeptForDays, Age, FileOf
  <2>1. FileOf(s) \in outputDir_
    BY DEF Kept, KeptForDays
  <2>2. outputDir_' = outputDir_
          \/ \E p \in unvisited : /\ cleaning /\ written[p.segment] < cutoffTime
                                  /\ outputDir_' = outputDir_ \ {p}
    BY CleanupRemoves
  <2>3. ASSUME NEW p \in unvisited, cleaning, written[p.segment] < cutoffTime,
               outputDir_' = outputDir_ \ {p}
        PROVE  FileOf(s) \in outputDir_'
    <3>1. SUFFICES ASSUME p = FileOf(s)  PROVE FALSE
      BY <2>1, <2>3
    <3>2. written[s] < cutoffTime
      BY <2>3, <3>1 DEF FileOf
    <3>3. begun[s] <= written[s] /\ cutoffTime <= now - KeepTime
      BY <2>3 DEF Kept, KeepInv
    <3>4. /\ now \in Int /\ begun[s] \in Int /\ written[s] \in Int
          /\ cutoffTime \in Int /\ KeepTime \in Int
      BY SegmentsAssumption DEF TypeOK, Times, KeepTime
    <3> QED
      BY <3>2, <3>3, <3>4 DEF Age
  <2> QED
    BY <2>1, <2>2, <2>3
<1> QED
  BY <1>4, <1>5 DEF Kept

\* Kept is an invariant.
LEMMA KeptInvariant == SafeSpec => []Kept
<1>1. Init => Kept
  BY SegmentsAssumption DEF Init, Kept, KeepInv, KeptForDays
<1>2. TypeOK /\ TypeOK' /\ Kept /\ [Next]_vars => Kept'
  <2> SUFFICES ASSUME TypeOK, TypeOK', Kept, [Next]_vars  PROVE Kept'
    OBVIOUS
  <2> USE DEF programVars, segmentVars, cleanupVars
  <2>1. now \in Nat /\ KeepTime \in Int
        /\ \A s \in Segments : begun[s] \in Nat /\ written[s] \in Nat
    BY SegmentsAssumption DEF TypeOK, Times, KeepTime
  <2>2. ASSUME NEW s \in Segments, Thread(s)  PROVE Kept'
    BY <2>2, ThreadKeeps
  <2>3. CASE RecordLoop
    <3>1. UNCHANGED <<now, daysBeforeDeleteVideo_, segment, begun, written, outputDir_,
                      rows>>
      BY <2>3 DEF RecordLoop
    <3>2. DaysAreSound =>
            Cutoff(now, daysBeforeDeleteVideo_) = now - KeepTime
      BY CutoffIsExact, SegmentsAssumption DEF DaysAreSound, KeepTime, TypeOK
    <3>3. KeepInv'
      BY <2>1, <2>3, <3>1, <3>2
         DEF RecordLoop, Kept, KeepInv, KeepTime, DaysAreSound
    <3>4. KeptForDays'
      BY <3>1 DEF Kept, KeptForDays, KeepTime, DaysAreSound, Age, FileOf
    <3> QED
      BY <3>3, <3>4 DEF Kept
  <2>4. CASE CleanupOldVideos
    BY <2>4, CleanupKeeps
  <2>5. CASE Tick
    <3>1. KeepInv'
      BY <2>1, <2>5 DEF Tick, Kept, KeepInv, KeepTime, DaysAreSound, TypeOK
    <3>2. KeptForDays'
      BY <2>1, <2>5 DEF Tick, Kept, KeptForDays, KeepTime, DaysAreSound, Age, FileOf
    <3> QED
      BY <3>1, <3>2 DEF Kept
  <2>6. CASE ProgramEnds \/ ProgramStarts
    <3>1. /\ UNCHANGED <<now, daysBeforeDeleteVideo_, begun, written, outputDir_, rows>>
          /\ cleaning' => cleaning /\ cutoffTime' = cutoffTime
          /\ \A s \in Segments : segment'[s] = "none" => segment[s] = "none"
      BY <2>6 DEF ProgramEnds, ProgramStarts, CleanupOver
    <3>2. KeepInv'
      BY <3>1 DEF Kept, KeepInv, KeepTime, DaysAreSound
    <3>3. KeptForDays'
      BY <3>1 DEF Kept, KeptForDays, KeepTime, DaysAreSound, Age, FileOf
    <3> QED
      BY <3>2, <3>3 DEF Kept
  <2>7. CASE UNCHANGED vars
    BY <2>7 DEF vars, Kept, KeepInv, KeptForDays, KeepTime, DaysAreSound, Age, FileOf
  <2> QED
    BY <2>2, <2>3, <2>4, <2>5, <2>6, <2>7 DEF Next
<1> QED
  BY <1>1, <1>2, TypeCorrect, PTL DEF SafeSpec

\* However cleanups, cuts and restarts fall together, a segment is not deleted
\* before its days are over.
THEOREM SegmentsAreKept == SafeSpec => []KeptForDays
BY KeptInvariant, PTL DEF Kept

\* No pass of cleanupOldVideos removes a file that was written to within the days
\* set, whatever ffmpeg writes while the pass goes on.
THEOREM OnlyOldGo == SafeSpec => OnlyOldFilesGo
<1>1. TypeOK /\ Kept /\ [Next]_vars
        => [DaysAreSound => \A p \in outputDir_ \ outputDir_' : IsOld(p)]_vars
  <2> SUFFICES ASSUME TypeOK, Kept, [Next]_vars, DaysAreSound,
                      NEW p \in outputDir_, p \notin outputDir_'
               PROVE  IsOld(p)
    OBVIOUS
  <2> USE DEF programVars, segmentVars, cleanupVars
  <2>1. CASE CleanupOldVideos
    <3>1. cleaning /\ written[p.segment] < cutoffTime
      BY <2>1, CleanupRemoves
    <3>2. cutoffTime <= now - KeepTime
      BY <3>1 DEF Kept, KeepInv
    <3>3. /\ now \in Int /\ written[p.segment] \in Int
          /\ cutoffTime \in Int /\ KeepTime \in Int
      BY SegmentsAssumption DEF TypeOK, Paths, Times, KeepTime
    <3> QED
      BY <3>1, <3>2, <3>3 DEF IsOld, Age
  <2>2. CASE ~CleanupOldVideos
    <3>1. ASSUME NEW s \in Segments, Thread(s)  PROVE FALSE
      BY <3>1 DEF Thread, Begin, Write, EndCut, LogVideoSegment
    <3> QED
      BY <2>2, <3>1 DEF Next, RecordLoop, Tick, ProgramEnds, ProgramStarts, vars
  <2> QED
    BY <2>1, <2>2
<1> QED
  BY <1>1, KeptInvariant, TypeCorrect, PTL DEF SafeSpec, OnlyOldFilesGo
=============================================================================
