------------------------------ MODULE SegmentFiles ------------------------------
(***************************************************************************)
(* The segments of one camera on disk and in the database                  *)
(* (src/VideoControl.cpp, src/MySqlComm.cpp).  A detached thread per       *)
(* segment has ffmpeg write it into the directory of the day on which the  *)
(* cutting begins (extractAndProcessSegment), and afterwards enters a row  *)
(* whose path it makes up a second time (processStartStopMessage).         *)
(* Meanwhile the record thread counts its turns and now and then deletes   *)
(* what is older than daysBeforeDeleteVideo_ (cleanupOldVideos), file by   *)
(* file.  The program may end at any moment, by a power failure too, and   *)
(* is started again by systemd, as often as it happens.                    *)
(*                                                                         *)
(* A file's name is made of the segment's times in milliseconds, so that   *)
(* segments have files of their own; what matters of the path is the day.  *)
(* Time passes in units of any length; the clock is not set back.  Signed  *)
(* integers that overflow wrap around.                                     *)
(***************************************************************************)
EXTENDS Integers, FiniteSets

CONSTANTS Segments,
          Undeletable,   \* those whose file cannot be removed once it is there
          DaysSettings,  \* what table settings may say: any int
          DayLength,     \* units of time in a day
          Range,         \* durations are from -Range to Range - 1
          CleanupEvery,  \* turns of recordLoop between two cleanups, 3600
          MaxTime        \* bound on the clock

ASSUME SegmentsAssumption ==
  /\ Undeletable \subseteq Segments
  /\ DaysSettings \subseteq Int
  /\ DayLength \in Nat \ {0}
  /\ Range \in Nat \ {0}
  /\ CleanupEvery \in Nat \ {0}
  /\ MaxTime \in Nat \ {0} /\ MaxTime < Range

VARIABLES
  now,
  daysBeforeDeleteVideo_,
  running,         \* the program runs
  segment,         \* where the thread of each segment is
  begun,           \* when the cutting began
  written,         \* last_write_time of the segment's file, 0 before there is one
  outputDir_,      \* the files there are: day and segment
  rows,            \* table video_segments: day in the path, and segment
  cleanupCounter,
  cleaning,        \* the record thread is inside cleanupOldVideos
  cutoffTime,
  unvisited        \* the files the directory iterator has not come to

cleanupVars == <<cleanupCounter, cleaning, cutoffTime, unvisited>>

segmentVars == <<segment, begun, written, outputDir_, rows>>

programVars == <<running, daysBeforeDeleteVideo_>>

vars == <<now, programVars, segmentVars, cleanupVars>>

\* formatTimestamp's date, getCurrentDateString.
DayOf(t) == t \div DayLength

Times == 0..MaxTime

Paths == [day : Nat, segment : Segments]

\* Types; a file or row is that of a segment that was begun, and the counter is
\* at its limit only during a cleanup.
TypeOK ==
  /\ now \in Times \ {0}
  /\ daysBeforeDeleteVideo_ \in DaysSettings
  /\ running \in BOOLEAN
  /\ segment \in [Segments -> {"none", "cut", "log", "done", "lost"}]
  /\ begun \in [Segments -> Times]
  /\ written \in [Segments -> Times]
  /\ outputDir_ \subseteq Paths
  /\ rows \subseteq Paths
  /\ cleanupCounter \in 0..CleanupEvery
  /\ cleaning \in BOOLEAN
  /\ ~cleaning => cleanupCounter < CleanupEvery
  /\ cutoffTime \in Int
  /\ unvisited \subseteq Paths
  /\ \A p \in outputDir_ \cup rows : segment[p.segment] # "none"

Init ==
  /\ now = 1
  /\ daysBeforeDeleteVideo_ \in DaysSettings
  /\ running = TRUE
  /\ segment = [s \in Segments |-> "none"]
  /\ begun = [s \in Segments |-> 0]
  /\ written = [s \in Segments |-> 0]
  /\ outputDir_ = {}
  /\ rows = {}
  /\ cleanupCounter = 0
  /\ cleaning = FALSE
  /\ cutoffTime = 0
  /\ unvisited = {}

FileOf(s) == [day |-> DayOf(begun[s]), segment |-> s]

-----------------------------------------------------------------------------
(* The detached thread of a segment *)

\* If the source is missing, nothing is cut.  If the directory of the day cannot
\* be created, nobody catches the exception and ProgramEnds follows.
Begin(s) ==
  /\ running
  /\ segment[s] = "none"
  /\ begun' = [begun EXCEPT ![s] = now]
  /\ \E to \in {"cut", "log"} : segment' = [segment EXCEPT ![s] = to]
  /\ UNCHANGED <<now, programVars, written, outputDir_, rows, cleanupVars>>

\* ffmpeg writes at whatever intervals.  A file that is deleted meanwhile does
\* not come back; one that is new may or may not be met by the iterator.
Write(s) ==
  /\ running
  /\ segment[s] = "cut"
  /\ written' = [written EXCEPT ![s] = now]
  /\ IF written[s] = 0
     THEN /\ outputDir_' = outputDir_ \cup {FileOf(s)}
          /\ unvisited' \in
               {unvisited, IF cleaning THEN unvisited \cup {FileOf(s)} ELSE unvisited}
     ELSE UNCHANGED <<outputDir_, unvisited>>
  /\ UNCHANGED <<now, programVars, segment, begun, rows, cleanupCounter, cleaning,
                 cutoffTime>>

\* ffmpeg ends, whether it succeeded or not.
EndCut(s) ==
  /\ running
  /\ segment[s] = "cut"
  /\ segment' = [segment EXCEPT ![s] = "log"]
  /\ UNCHANGED <<now, programVars, begun, written, outputDir_, rows, cleanupVars>>

\* logVideoSegment, with the path made up from the day it is by now: there may be no
\* connection, or the query fails.
LogVideoSegment(s) ==
  /\ running
  /\ segment[s] = "log"
  /\ segment' = [segment EXCEPT ![s] = "done"]
  /\ \/ rows' = rows \cup {[day |-> DayOf(now), segment |-> s]}
     \/ UNCHANGED rows
  /\ UNCHANGED <<now, programVars, begun, written, outputDir_, cleanupVars>>

Thread(s) == Begin(s) \/ Write(s) \/ EndCut(s) \/ LogVideoSegment(s)

-----------------------------------------------------------------------------
(* The record thread *)

\* Two's complement, with Range standing for 2^63 nanoseconds.
Wrap(n) == ((n + Range) % (2 * Range)) - Range

\* Mutant: the days are taken for hours.
CutoffHours(t, days) == Wrap(t - Wrap(days))

\* hours(24 * days) is converted to the clock's nanoseconds.  (That for days in
\* the tens of millions 24 * days overflows an int already is left out: it adds
\* only wrong values to those that are wrong without it.)
Cutoff(t, days) == Wrap(t - Wrap(days * DayLength))

\* One turn of the loop.
RecordLoop ==
  /\ running /\ ~cleaning
  /\ cleanupCounter' = cleanupCounter + 1
  /\ IF cleanupCounter' >= CleanupEvery
     THEN /\ cleaning' = TRUE
          /\ cutoffTime' = Cutoff(now, daysBeforeDeleteVideo_)
          /\ unvisited' = outputDir_
     ELSE UNCHANGED <<cleaning, cutoffTime, unvisited>>
  /\ UNCHANGED <<now, programVars, segmentVars>>

\* Mutant: the counter is not set back.
CleanupOverCounting ==
  /\ cleaning' = FALSE
  /\ UNCHANGED cleanupCounter
  /\ cutoffTime' = 0
  /\ unvisited' = {}

\* The pass is over, or was ended by an exception.
CleanupOver ==
  /\ cleaning' = FALSE
  /\ cleanupCounter' = 0
  /\ cutoffTime' = 0
  /\ unvisited' = {}

\* Mutant: the pass ends at the first file that is not old.
VisitUntilYoung(p) ==
  /\ running /\ cleaning
  /\ p \in unvisited
  /\ IF written[p.segment] >= cutoffTime \/ p.segment \in Undeletable
     THEN CleanupOver /\ UNCHANGED outputDir_
     ELSE /\ outputDir_' = outputDir_ \ {p}
          /\ unvisited' = unvisited \ {p}
          /\ UNCHANGED <<cleanupCounter, cleaning, cutoffTime>>
  /\ UNCHANGED <<now, programVars, segment, begun, written, rows>>

\* Mutant: goes by the time in the file's name, that of the cutting's beginning.
VisitByName(p) ==
  /\ running /\ cleaning
  /\ p \in unvisited
  /\ unvisited' = unvisited \ {p}
  /\ outputDir_' = IF begun[p.segment] < cutoffTime /\ p.segment \notin Undeletable
                   THEN outputDir_ \ {p} ELSE outputDir_
  /\ UNCHANGED <<now, programVars, segment, begun, written, rows, cleanupCounter,
                 cleaning, cutoffTime>>

\* An entry of the directory.  When remove() throws, the pass ends.
Visit(p) ==
  /\ running /\ cleaning
  /\ p \in unvisited
  /\ IF written[p.segment] >= cutoffTime
     THEN /\ unvisited' = unvisited \ {p}
          /\ UNCHANGED <<outputDir_, cleanupCounter, cleaning, cutoffTime>>
     ELSE IF p.segment \in Undeletable
     THEN CleanupOver /\ UNCHANGED outputDir_
     ELSE /\ outputDir_' = outputDir_ \ {p}
          /\ unvisited' = unvisited \ {p}
          /\ UNCHANGED <<cleanupCounter, cleaning, cutoffTime>>
  /\ UNCHANGED <<now, programVars, segment, begun, written, rows>>

Visited ==
  /\ running /\ cleaning
  /\ unvisited = {}
  /\ CleanupOver
  /\ UNCHANGED <<now, programVars, segmentVars>>

CleanupOldVideos == Visited \/ \E p \in unvisited : Visit(p)

-----------------------------------------------------------------------------

Tick ==
  /\ now < MaxTime
  /\ now' = now + 1
  /\ UNCHANGED <<programVars, segmentVars, cleanupVars>>

\* Power goes, a signal comes, or an exception leaves a detached thread.  The
\* threads end wherever they are; files and rows are left.
ProgramEnds ==
  /\ running
  /\ running' = FALSE
  /\ segment' = [s \in Segments |->
                   IF segment[s] \in {"cut", "log"} THEN "lost" ELSE segment[s]]
  /\ CleanupOver
  /\ UNCHANGED <<now, daysBeforeDeleteVideo_, begun, written, outputDir_,
                 rows>>

\* passflow.service: after a failure, ten seconds later, or when the machine has
\* booted.
ProgramStarts ==
  /\ ~running
  /\ running' = TRUE
  /\ UNCHANGED <<now, daysBeforeDeleteVideo_, segmentVars, cleanupVars>>

Next ==
  \/ \E s \in Segments : Thread(s)
  \/ RecordLoop
  \/ CleanupOldVideos
  \/ Tick
  \/ ProgramEnds
  \/ ProgramStarts

\* As long as the program runs, the record thread goes on and cutting ends.
Fairness ==
  /\ WF_vars(RecordLoop)
  /\ WF_vars(CleanupOldVideos)
  /\ \A s \in Segments : WF_vars(EndCut(s) \/ LogVideoSegment(s))

SafeSpec == Init /\ [][Next]_vars

Spec == SafeSpec /\ Fairness

-----------------------------------------------------------------------------
(* Properties *)

\* The numbers of days whose length in nanoseconds is one: about 292 years.
\* (With more, and with a negative number, everything may be deleted at once.)
DaysAreSound ==
  /\ daysBeforeDeleteVideo_ >= 0
  /\ daysBeforeDeleteVideo_ * DayLength < Range

Age(t) == now - t

KeepTime == daysBeforeDeleteVideo_ * DayLength

\* A segment is kept for daysBeforeDeleteVideo_ days from when it was cut, also
\* if it is being written while a cleanup goes on, ffmpeg stalls, or the program
\* is restarted in the meantime.
KeptForDays ==
  DaysAreSound =>
    \A s \in Segments :
      written[s] # 0 /\ Age(begun[s]) <= KeepTime => FileOf(s) \in outputDir_

IsOld(p) == Age(written[p.segment]) > KeepTime

\* Nothing is removed but what was last written to longer ago than the days set: not
\* a segment whose cutting began long ago and is not over, nor a file that was
\* written after the pass began.
OnlyOldFilesGo ==
  [][DaysAreSound => \A p \in outputDir_ \ outputDir_' : IsOld(p)]_vars

\* What is old goes while the program runs, whatever is written meanwhile and however
\* the passes end, unless there is an old file that cannot be removed: the exception it
\* raises ends every pass, and what the iterator would come to later stays for ever.
\* Nothing is promised of a run that ends: the next one begins the count anew.
OldFilesGo ==
  \A s \in Segments :
    (FileOf(s) \in outputDir_ /\ IsOld(FileOf(s))) ~>
      \/ ~running
      \/ ~DaysAreSound
      \/ ~(FileOf(s) \in outputDir_ /\ IsOld(FileOf(s)))
      \/ \E q \in outputDir_ : q.segment \in Undeletable /\ IsOld(q)

-----------------------------------------------------------------------------
(* What the documents and comments of the program say *)

\* The file name in a row is the "Path to video file", for as long as the file is to
\* be kept: the day and the segment in the row are those of a file that is there.
RowsLeadToFiles ==
  DaysAreSound =>
    \A r \in rows : Age(begun[r.segment]) <= KeepTime => r \in outputDir_
=============================================================================
