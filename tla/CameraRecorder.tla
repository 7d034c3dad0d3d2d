---------------------------- MODULE CameraRecorder ----------------------------
(***************************************************************************)
(* One camera of VideoControl (src/VideoControl.cpp).  Three threads work  *)
(* on it: the record thread keeps an ffmpeg process recording into the     *)
(* current file, the message thread (messageLoop) switches to a new file   *)
(* for each segment that is asked for, and the main thread stops both.  A  *)
(* detached thread per segment cuts it out of the old file.                *)
(*                                                                         *)
(* Time goes by in half seconds, the unit of the sleeps; a thread may      *)
(* oversleep.  A file is named after the second it was started in, so that *)
(* two starts within one second get the same name and two others never do  *)
(* (the clock is not set back).  Only whether names are the same matters:  *)
(* a name is a number, and the numbers nothing refers to any more are used *)
(* again.                                                                  *)
(*                                                                         *)
(* The ffmpeg processes are external.  Nobody keeps their ids: they are    *)
(* looked for (pgrep -f) and killed (pkill -f) by the name of the file on  *)
(* their command line, which for the process that cuts a segment is the    *)
(* name of the old file.  A killed process is gone by the end of the       *)
(* second stopFFmpeg waits; a recording may also end by itself.            *)
(*                                                                         *)
(* The segments on disk, and cleanupOldVideos, which deletes old ones and  *)
(* touches nothing this module has, are in SegmentFiles.                   *)
(***************************************************************************)
EXTENDS Integers, FiniteSets

CONSTANTS MaxMessages,  \* bound on the segments asked for
          MaxDeaths,    \* bound on the recordings that end by themselves
          MaxFiles,     \* bound on the names in use at the same time
          StopEndDelay  \* seconds from a closing to the segment's stop time

ASSUME RecorderAssumption ==
  /\ MaxMessages \in Nat /\ MaxDeaths \in Nat
  /\ MaxFiles \in Nat /\ MaxFiles >= 1
  /\ StopEndDelay \in Nat

VARIABLES
  phase,                  \* which half of the current second it is
  nameNow,                \* the file started in the current second, if any
  running_,               \* CameraRecorder::running_
  listening,              \* VideoControl::running_
  fileMutex_,             \* the thread that holds it, or "free"
  currentVideoFile_,
  currentFileStartTime_,
  pc,                     \* where the record, message and main thread are
  rest,                   \* what is left of the sleep each is in, 0 if none
  checkFile,              \* currentVideoFile_ as the record thread began to read it
  oldFile,                \* local to processStartStopMessage
  due,                    \* time left to the stop time of the segment in hand
  taken,                  \* number of segments asked for so far
  jobs,                   \* the detached threads, one per segment
  recorders,              \* how many live ffmpeg processes record into each file
  deaths                  \* how many ended by themselves

sharedVars == <<running_, listening, fileMutex_, currentVideoFile_,
                currentFileStartTime_>>

messageVars == <<oldFile, due, taken, jobs>>

timeVars == <<phase, nameNow>>

vars == <<timeVars, sharedVars, pc, rest, checkFile, messageVars, recorders, deaths>>

NoFile == 0  \* the empty name

Files == 1..MaxFiles

Threads == {"record", "message", "main"}

Jobs == 1..MaxMessages

\* Where each of the threads can be.
Places ==
  [record  |-> {"start", "launch", "loop", "sleep", "check", "pause", "done"},
   message |-> {"loop", "pop", "capture", "stop", "wait", "gap", "start", "launch",
                "done"},
   main    |-> {"run", "joinMessage", "unset", "stop", "wait", "joinRecord",
                "stopped"}]

\* Types; and fileMutex_ is held only inside startFFmpeg and stopFFmpeg.
TypeOK ==
  /\ phase \in {0, 1}
  /\ nameNow \in Files \cup {NoFile}
  /\ running_ \in BOOLEAN /\ listening \in BOOLEAN
  /\ fileMutex_ \in Threads \cup {"free"}
  /\ currentVideoFile_ \in Files \cup {NoFile}
  /\ currentFileStartTime_ \in Files \cup {NoFile}
  /\ pc \in [Threads -> UNION {Places[t] : t \in Threads}]
  /\ \A t \in Threads : pc[t] \in Places[t]
  /\ rest \in [Threads -> 0..4]
  /\ checkFile \in Files \cup {NoFile}
  /\ oldFile \in Files \cup {NoFile}
  /\ due \in 0..(2 * StopEndDelay)
  /\ taken \in 0..MaxMessages
  /\ jobs \in [Jobs -> [at     : {"none", "test", "cut", "log", "done", "failed"},
                        source : Files \cup {NoFile},
                        start  : Files \cup {NoFile}]]
  /\ recorders \in [Files -> Nat]
  /\ deaths \in 0..MaxDeaths
  /\ \A t \in Threads : fileMutex_ = t => pc[t] \in {"launch", "wait"}

\* A detached thread with nothing left to remember.
JobAt(place) == [at |-> place, source |-> NoFile, start |-> NoFile]

StartingFrom(recordPlace, file) ==
  /\ phase = 0
  /\ nameNow = file
  /\ running_ = TRUE /\ listening = TRUE
  /\ fileMutex_ = "free"
  /\ currentVideoFile_ = file
  /\ currentFileStartTime_ = file
  /\ pc = [record |-> recordPlace, message |-> "loop", main |-> "run"]
  /\ rest = [t \in Threads |-> 0]
  /\ checkFile = NoFile
  /\ oldFile = NoFile
  /\ due = 0
  /\ taken = 0
  /\ jobs = [j \in Jobs |-> JobAt("none")]
  /\ recorders = [f \in Files |-> IF f = file THEN 1 ELSE 0]
  /\ deaths = 0

\* VideoControl::start() has started the recorder and the message thread.
Init == StartingFrom("start", NoFile)

\* The same, when the first recording has begun before anything else happens.
InitRecording == StartingFrom("loop", 1)

Go(t, from, to) == pc[t] = from /\ pc' = [pc EXCEPT ![t] = to]

Sleep(t, halfSeconds) == rest' = [rest EXCEPT ![t] = halfSeconds]

\* Mutant: sleeps take no time.
SleepOverAtOnce(t) == TRUE

SleepOver(t) == rest[t] = 0

Cutting(f) == {j \in Jobs : jobs[j].at = "cut" /\ jobs[j].source = f}

\* The names that something still refers to.
InUse ==
  {currentVideoFile_, currentFileStartTime_, checkFile, oldFile}
    \cup {jobs[j].source : j \in Jobs} \cup {jobs[j].start : j \in Jobs}
    \cup {f \in Files : recorders[f] > 0}

\* The name for a file started now: that of this second, or a new one.
GenerateFilename ==
  IF nameNow # NoFile
  THEN {nameNow}
  ELSE {f \in Files \ InUse : \A g \in Files \ InUse : f <= g}

-----------------------------------------------------------------------------
(* startFFmpeg, in two steps: the name is there before the process *)

StartName(t, to) ==
  /\ Go(t, "start", to)
  /\ fileMutex_ = "free"
  /\ fileMutex_' = t
  /\ \E file \in GenerateFilename :
       /\ nameNow' = file
       /\ currentVideoFile_' = file
       /\ currentFileStartTime_' = file
  /\ UNCHANGED <<phase, running_, listening, rest, checkFile, messageVars,
                 recorders, deaths>>

\* Mutant: the mutex is not given back.
StartLaunchLocked(t) ==
  /\ fileMutex_ = t
  /\ recorders' = [recorders EXCEPT ![currentVideoFile_] = @ + 1]
  /\ UNCHANGED fileMutex_

\* The shell that starts ffmpeg in the background always succeeds.
StartLaunch(t) ==
  /\ fileMutex_ = t
  /\ fileMutex_' = "free"
  /\ recorders' = [recorders EXCEPT ![currentVideoFile_] = @ + 1]

(* stopFFmpeg, in two steps: pkill, and the name cleared a second later *)

\* The processes that cut a segment from the current file would go as well.
StopKill(t) ==
  /\ fileMutex_ = "free"
  /\ IF currentVideoFile_ = NoFile
     THEN UNCHANGED <<fileMutex_, rest, recorders, jobs>>
     ELSE /\ fileMutex_' = t
          /\ Sleep(t, 2)
          /\ recorders' = [recorders EXCEPT ![currentVideoFile_] = 0]
          /\ jobs' = [j \in Jobs |-> IF j \in Cutting(currentVideoFile_)
                                     THEN JobAt("log")
                                     ELSE jobs[j]]

\* The mutex is held for the whole second.
StopClear(t) ==
  IF fileMutex_ = t
  THEN /\ SleepOver(t)
       /\ currentVideoFile_' = NoFile
       /\ fileMutex_' = "free"
  ELSE UNCHANGED <<currentVideoFile_, fileMutex_>>

-----------------------------------------------------------------------------
(* recordLoop *)

RecordStart == StartName("record", "launch")

RecordLaunch ==
  /\ Go("record", "launch", "loop")
  /\ StartLaunch("record")
  /\ UNCHANGED <<timeVars, running_, listening, currentVideoFile_,
                 currentFileStartTime_, rest, checkFile, messageVars, deaths>>

\* Mutant: the loop does not look at running_.
RecordLoopForever ==
  /\ Go("record", "loop", "sleep")
  /\ Sleep("record", 2)
  /\ UNCHANGED <<timeVars, sharedVars, checkFile, messageVars, recorders, deaths>>

RecordLoop ==
  /\ \/ running_ /\ Go("record", "loop", "sleep") /\ Sleep("record", 2)
     \/ ~running_ /\ Go("record", "loop", "done") /\ UNCHANGED rest
  /\ UNCHANGED <<timeVars, sharedVars, checkFile, messageVars, recorders, deaths>>

\* The name is read without the mutex.
RecordRead ==
  /\ Go("record", "sleep", "check")
  /\ SleepOver("record")
  /\ checkFile' = currentVideoFile_
  /\ UNCHANGED <<timeVars, sharedVars, rest, messageVars, recorders, deaths>>

\* Mutant: a recording that ended is not noticed.
FoundAlways(f) == TRUE

\* pgrep -f: every command line contains the empty name.
Found(f) == f = NoFile \/ recorders[f] > 0 \/ Cutting(f) # {}

\* What the check finds; a name that changed under the reader may have come
\* out as one that no process has.
CheckResults ==
  {Found(f) : f \in {checkFile, currentVideoFile_}}
    \cup (IF checkFile # currentVideoFile_ THEN {FALSE} ELSE {})

RecordCheck ==
  /\ \E found \in CheckResults :
       IF ~found /\ running_
       THEN Go("record", "check", "pause") /\ Sleep("record", 4)
       ELSE Go("record", "check", "loop") /\ UNCHANGED rest
  /\ checkFile' = NoFile
  /\ UNCHANGED <<timeVars, sharedVars, messageVars, recorders, deaths>>

RecordPause ==
  /\ Go("record", "pause", "start")
  /\ SleepOver("record")
  /\ UNCHANGED <<timeVars, sharedVars, rest, checkFile, messageVars, recorders, deaths>>

Record == \/ RecordStart \/ RecordLaunch \/ RecordLoop
          \/ RecordRead \/ RecordCheck \/ RecordPause

-----------------------------------------------------------------------------
(* messageLoop and processStartStopMessage *)

MessageLoop ==
  /\ Go("message", "loop", IF listening THEN "pop" ELSE "done")
  /\ UNCHANGED <<timeVars, sharedVars, rest, checkFile, messageVars, recorders, deaths>>

\* tryPop brings a segment to cut, or nothing.  The segment's stop time is
\* StopEndDelay after the closing, some of which may have passed.
MessagePop ==
  /\ \/ /\ taken < MaxMessages
        /\ taken' = taken + 1
        /\ due' \in 0..(2 * StopEndDelay)
        /\ Go("message", "pop", "capture")
     \/ /\ Go("message", "pop", "loop")
        /\ UNCHANGED <<taken, due>>
  /\ UNCHANGED <<timeVars, sharedVars, rest, checkFile, oldFile, jobs, recorders, deaths>>

MessageCapture ==
  /\ Go("message", "capture", "stop")
  /\ fileMutex_ = "free"
  /\ oldFile' = currentVideoFile_
  /\ UNCHANGED <<timeVars, sharedVars, rest, checkFile, due, taken, jobs,
                 recorders, deaths>>

MessageStop ==
  /\ Go("message", "stop", "wait")
  /\ StopKill("message")
  /\ UNCHANGED <<timeVars, running_, listening, currentVideoFile_,
                 currentFileStartTime_, checkFile, oldFile, due, taken, deaths>>

\* Mutant: no new recording is started when the old one was stopped.
MessageStoppedForGood ==
  /\ Go("message", "wait", "loop")
  /\ StopClear("message")
  /\ UNCHANGED <<timeVars, running_, listening, currentFileStartTime_, rest,
                 checkFile, messageVars, recorders, deaths>>

MessageStopped ==
  /\ Go("message", "wait", "gap")
  /\ StopClear("message")
  /\ Sleep("message", 1)
  /\ UNCHANGED <<timeVars, running_, listening, currentFileStartTime_, checkFile,
                 messageVars, recorders, deaths>>

MessageGap ==
  /\ Go("message", "gap", "start")
  /\ SleepOver("message")
  /\ UNCHANGED <<timeVars, sharedVars, rest, checkFile, messageVars, recorders, deaths>>

MessageStart == StartName("message", "launch")

\* Mutant: no segment when nothing was being recorded.
MessageLaunchSource ==
  /\ Go("message", "launch", "loop")
  /\ StartLaunch("message")
  /\ jobs' = IF oldFile = NoFile THEN jobs
             ELSE [jobs EXCEPT ![taken] = [JobAt("test") EXCEPT !.source = oldFile]]
  /\ oldFile' = NoFile
  /\ UNCHANGED <<timeVars, running_, listening, currentVideoFile_,
                 currentFileStartTime_, rest, checkFile, due, taken,
                 deaths>>

MessageLaunch ==
  /\ Go("message", "launch", "loop")
  /\ StartLaunch("message")
  /\ jobs' = [jobs EXCEPT ![taken] = [JobAt("test") EXCEPT !.source = oldFile]]
  /\ oldFile' = NoFile
  /\ UNCHANGED <<timeVars, running_, listening, currentVideoFile_,
                 currentFileStartTime_, rest, checkFile, due, taken,
                 deaths>>

Message == \/ MessageLoop \/ MessagePop \/ MessageCapture \/ MessageStop
           \/ MessageStopped \/ MessageGap \/ MessageStart \/ MessageLaunch

-----------------------------------------------------------------------------
(* The detached thread: extractAndProcessSegment, then logVideoSegment *)

\* There may be no such file.  The offset of the segment is reckoned from
\* currentFileStartTime_, read here without the mutex.
JobTest(j) ==
  /\ jobs[j].at = "test"
  /\ \/ jobs' = [jobs EXCEPT ![j] = JobAt("log")]
     \/ /\ jobs[j].source # NoFile
        /\ jobs' = [jobs EXCEPT ![j].at = "cut", ![j].start = currentFileStartTime_]
  /\ UNCHANGED <<timeVars, sharedVars, pc, rest, checkFile, oldFile, due, taken,
                 recorders, deaths>>

JobCut(j) ==
  /\ jobs[j].at = "cut"
  /\ jobs' = [jobs EXCEPT ![j] = JobAt("log")]
  /\ UNCHANGED <<timeVars, sharedVars, pc, rest, checkFile, oldFile, due, taken,
                 recorders, deaths>>

\* The segment is entered in the database whether it was cut or not, or the INSERT
\* fails, for want of a connection or at the server: nobody asks.
JobLog(j) ==
  /\ jobs[j].at = "log"
  /\ \E end \in {"done", "failed"} : jobs' = [jobs EXCEPT ![j].at = end]
  /\ UNCHANGED <<timeVars, sharedVars, pc, rest, checkFile, oldFile, due, taken,
                 recorders, deaths>>

Job(j) == JobTest(j) \/ JobCut(j) \/ JobLog(j)

-----------------------------------------------------------------------------
(* VideoControl::stop and CameraRecorder::stop *)

Quit ==
  /\ Go("main", "run", "joinMessage")
  /\ listening' = FALSE
  /\ UNCHANGED <<timeVars, running_, fileMutex_, currentVideoFile_,
                 currentFileStartTime_, rest, checkFile, messageVars, recorders, deaths>>

MainJoinMessage ==
  /\ Go("main", "joinMessage", "unset")
  /\ pc["message"] = "done"
  /\ UNCHANGED <<timeVars, sharedVars, rest, checkFile, messageVars, recorders, deaths>>

MainUnset ==
  /\ Go("main", "unset", "stop")
  /\ running_' = FALSE
  /\ UNCHANGED <<timeVars, listening, fileMutex_, currentVideoFile_,
                 currentFileStartTime_, rest, checkFile, messageVars, recorders, deaths>>

MainStop ==
  /\ Go("main", "stop", "wait")
  /\ StopKill("main")
  /\ UNCHANGED <<timeVars, running_, listening, currentVideoFile_,
                 currentFileStartTime_, checkFile, oldFile, due, taken, deaths>>

MainStopped ==
  /\ Go("main", "wait", "joinRecord")
  /\ StopClear("main")
  /\ UNCHANGED <<timeVars, running_, listening, currentFileStartTime_, rest, checkFile,
                 messageVars, recorders, deaths>>

MainJoinRecord ==
  /\ Go("main", "joinRecord", "stopped")
  /\ pc["record"] = "done"
  /\ UNCHANGED <<timeVars, sharedVars, rest, checkFile, messageVars, recorders, deaths>>

Stopping == \/ MainJoinMessage \/ MainUnset \/ MainStop
            \/ MainStopped \/ MainJoinRecord

-----------------------------------------------------------------------------
(* Time and the ffmpeg processes *)

Tick ==
  /\ phase' = 1 - phase
  /\ nameNow' = IF phase = 1 THEN NoFile ELSE nameNow
  /\ rest' = [t \in Threads |-> IF rest[t] > 0 THEN rest[t] - 1 ELSE 0]
  /\ due' = IF due > 0 THEN due - 1 ELSE 0
  /\ UNCHANGED <<sharedVars, pc, checkFile, oldFile, taken, jobs, recorders, deaths>>

RecordingDies(f) ==
  /\ recorders[f] > 0
  /\ deaths < MaxDeaths
  /\ recorders' = [recorders EXCEPT ![f] = @ - 1]
  /\ deaths' = deaths + 1
  /\ UNCHANGED <<timeVars, sharedVars, pc, rest, checkFile, messageVars>>

Next ==
  \/ Record
  \/ Message
  \/ \E j \in Jobs : Job(j)
  \/ Quit
  \/ Stopping
  \/ Tick
  \/ \E f \in Files : RecordingDies(f)

\* Every thread goes on, a cutting process ends, and time passes.  The threads
\* compete for fileMutex_, and none of them gives it up only to take it again
\* at once: each sleeps or waits for a message in between.
Fairness ==
  /\ WF_vars(Record) /\ SF_vars(RecordStart)
  /\ WF_vars(Message) /\ SF_vars(MessageCapture \/ MessageStop \/ MessageStart)
  /\ WF_vars(Stopping) /\ SF_vars(MainStop)
  /\ \A j \in Jobs : WF_vars(Job(j))
  /\ WF_vars(Tick)

SafeSpec == Init /\ [][Next]_vars

RecordingSpec == InitRecording /\ [][Next]_vars

Spec == SafeSpec /\ Fairness

-----------------------------------------------------------------------------
(* Properties *)

\* Once its first recording was started, and as long as it runs, the camera has
\* a file to record into except while the message thread is switching files:
\* what the record thread does at the same moment never leaves it without one.
\* (pgrep finds the empty name always, so nothing would ever restart it.)
FileUnlessSwitching ==
  \/ ~running_
  \/ currentVideoFile_ # NoFile
  \/ currentFileStartTime_ = NoFile
  \/ pc["message"] \in {"gap", "start"}

\* Every segment is cut from a file other than the current one: the pkill of a
\* later switch, which goes by the file name, spares the cutting process.
CutsAreSpared ==
  \A j \in Jobs : jobs[j].at = "cut" => jobs[j].source # currentVideoFile_

\* A recording that ended is replaced: as long as the camera runs there is
\* again and again a process recording into the current file.
RecordingRecovers ==
  []<>(~running_ \/ (currentVideoFile_ # NoFile /\ recorders[currentVideoFile_] > 0))

\* stop() comes to its end whatever the other threads are doing.
StopCompletes == (pc["main"] = "joinMessage") ~> (pc["main"] = "stopped")

\* Every segment that was asked for comes to the end of its thread, with a row in the
\* database or a failed INSERT, whatever is killed, restarted or switched meanwhile;
\* unless the program is stopped before: main() then ends without waiting for the
\* threads that cut.  (The row says nothing of the file: see SegmentFiles.)
SegmentsHandled ==
  \A j \in Jobs :
    (taken >= j) ~> (jobs[j].at \in {"done", "failed"} \/ pc["main"] = "stopped")

-----------------------------------------------------------------------------
(* What the documents and comments of the program say *)

\* "Kill ffmpeg processes for this camera": when stopFFmpeg is through and the
\* new recording has not begun, none is left.
StopKillsRecorders ==
  pc["message"] = "gap" => \A f \in Files : recorders[f] = 0

\* "Extracts video segments based on door open/close timestamps": the offset of
\* a segment is reckoned from the start of the file it is cut from.
OffsetFromSource ==
  \A j \in Jobs : jobs[j].at = "cut" => jobs[j].start = jobs[j].source

\* StopEndDelay is the "Seconds after DOOR_CLOSE to stop video": when the file
\* a segment is to be cut from is stopped, its stop time has come.
RecordedToStopTime ==
  pc["message"] = "wait" /\ fileMutex_ = "message" => due = 0
=============================================================================
