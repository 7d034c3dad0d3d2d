-------------------------- MODULE CameraRecorderProofs --------------------------
(***************************************************************************)
(* Proofs about CameraRecorder, for any number of segments, of recordings  *)
(* that end by themselves and of file names, and any StopEndDelay.         *)
(***************************************************************************)
EXTENDS CameraRecorder, TLAPS

-----------------------------------------------------------------------------
(* Types *)

\* The name of a file to be started is one of the names.
LEMMA NamesAreFiles ==
  ASSUME TypeOK  PROVE GenerateFilename \subseteq Files
BY DEF TypeOK, GenerateFilename, NoFile

\* A thread that goes on keeps the types of pc.
LEMMA GoKeepsTypes ==
  ASSUME TypeOK, NEW t \in Threads, NEW from, NEW to \in Places[t], Go(t, from, to)
  PROVE  /\ pc' \in [Threads -> UNION {Places[u] : u \in Threads}]
         /\ \A u \in Threads : pc'[u] \in Places[u]
BY DEF TypeOK, Go

\* startFFmpeg keeps the types.
LEMMA StartNameKeepsTypes ==
  ASSUME TypeOK, NEW t \in {"record", "message"},
         StartName(t, "launch")
  PROVE  TypeOK'
<1>1. t \in Threads /\ "launch" \in Places[t] /\ Go(t, "start", "launch")
  BY DEF StartName, Threads, Places
<1>2. /\ pc' \in [Threads -> UNION {Places[u] : u \in Threads}]
      /\ \A u \in Threads : pc'[u] \in Places[u]
  BY <1>1, GoKeepsTypes
<1>3. nameNow' \in Files /\ currentVideoFile_' \in Files /\ currentFileStartTime_' \in Files
  BY NamesAreFiles DEF StartName
<1>4. \A u \in Threads : fileMutex_' = u => pc'[u] \in {"launch", "wait"}
  BY <1>1 DEF StartName, Go, TypeOK
<1>5. /\ fileMutex_' = t
      /\ UNCHANGED <<phase, running_, listening, rest, checkFile, oldFile, due, taken,
                     jobs, recorders, deaths>>
  BY DEF StartName, messageVars
<1> HIDE DEF Places
<1> QED
  BY <1>1, <1>2, <1>3, <1>4, <1>5 DEF TypeOK

\* The parts of the types that startFFmpeg's second step changes.
LEMMA StartLaunchKeepsTypes ==
  ASSUME TypeOK, NEW t \in Threads, StartLaunch(t)
  PROVE  fileMutex_' = "free" /\ recorders' \in [Files -> Nat]
<1>1. recorders \in [Files -> Nat]
  BY DEF TypeOK
<1>2. \A f \in Files : recorders'[f] \in Nat
  BY <1>1 DEF StartLaunch
<1>3. recorders' \in [Files -> Nat]
  BY <1>1, <1>2 DEF StartLaunch
<1> QED
  BY <1>3 DEF StartLaunch

\* The parts of the types that stopFFmpeg changes.
LEMMA StopKillKeepsTypes ==
  ASSUME TypeOK, NEW t \in Threads, StopKill(t)
  PROVE  /\ fileMutex_' \in {t, "free"}
         /\ rest' \in [Threads -> 0..4]
         /\ recorders' \in [Files -> Nat]
         /\ jobs' \in [Jobs -> [at     : {"none", "test", "cut", "log", "done", "failed"},
                                source : Files \cup {NoFile},
                                start  : Files \cup {NoFile}]]
<1>1. CASE currentVideoFile_ = NoFile
  BY <1>1 DEF TypeOK, StopKill
<1>2. CASE currentVideoFile_ # NoFile
  <2>1. fileMutex_' = t
    BY <1>2 DEF StopKill
  <2>2. rest' \in [Threads -> 0..4]
    BY <1>2 DEF StopKill, Sleep, TypeOK
  <2>3. recorders' \in [Files -> Nat]
    BY <1>2 DEF StopKill, TypeOK
  <2>4. JobAt("log") \in [at     : {"none", "test", "cut", "log", "done", "failed"},
                          source : Files \cup {NoFile},
                          start  : Files \cup {NoFile}]
    BY DEF JobAt
  <2>5. jobs' \in [Jobs -> [at     : {"none", "test", "cut", "log", "done", "failed"},
                            source : Files \cup {NoFile},
                            start  : Files \cup {NoFile}]]
    BY <1>2, <2>4 DEF StopKill, TypeOK
  <2> QED
    BY <2>1, <2>2, <2>3, <2>5
<1> QED
  BY <1>1, <1>2

\* stopFFmpeg's second step ends with the mutex free or with another thread.
LEMMA StopClearKeepsTypes ==
  ASSUME TypeOK, NEW t \in Threads, StopClear(t)
  PROVE  /\ currentVideoFile_' \in Files \cup {NoFile}
         /\ fileMutex_' \in Threads \cup {"free"}
         /\ fileMutex_' # t
         /\ fileMutex_' \in {fileMutex_, "free"}
BY DEF TypeOK, StopClear, Threads

\* The types, and that fileMutex_ is held only inside startFFmpeg and stopFFmpeg.
THEOREM TypeCorrect == SafeSpec => []TypeOK
<1>1. Init => TypeOK
  <2> SUFFICES ASSUME Init  PROVE TypeOK
    OBVIOUS
  <2> USE RecorderAssumption DEF Init, StartingFrom
  <2>1. /\ pc \in [Threads -> UNION {Places[t] : t \in Threads}]
        /\ \A t \in Threads : pc[t] \in Places[t]
    BY DEF Threads, Places
  <2>2. jobs \in [Jobs -> [at     : {"none", "test", "cut", "log", "done", "failed"},
                           source : Files \cup {NoFile},
                           start  : Files \cup {NoFile}]]
    BY DEF JobAt
  <2> QED
    BY <2>1, <2>2 DEF TypeOK, Threads, NoFile, Files
<1>2. TypeOK /\ [Next]_vars => TypeOK'
  <2> SUFFICES ASSUME TypeOK, [Next]_vars  PROVE TypeOK'
    OBVIOUS
  <2> USE DEF timeVars, sharedVars, messageVars
  <2>1. CASE Record
    <3>1. CASE RecordStart
      BY <3>1, StartNameKeepsTypes DEF RecordStart
    <3>2. CASE RecordLaunch
      BY <3>2, StartLaunchKeepsTypes, GoKeepsTypes
         DEF RecordLaunch, TypeOK, Threads, Places, Go
    <3>3. CASE RecordLoop
      BY <3>3 DEF RecordLoop, Sleep, TypeOK, Threads, Places, Go
    <3>4. CASE RecordRead
      BY <3>4 DEF RecordRead, TypeOK, Threads, Places, Go
    <3>5. CASE RecordCheck
      BY <3>5 DEF RecordCheck, Sleep, TypeOK, Threads, Places, Go
    <3>6. CASE RecordPause
      BY <3>6 DEF RecordPause, TypeOK, Threads, Places, Go
    <3> QED
      BY <2>1, <3>1, <3>2, <3>3, <3>4, <3>5, <3>6 DEF Record
  <2>2. CASE Message
    <3>1. CASE MessageLoop
      BY <3>1 DEF MessageLoop, TypeOK, Threads, Places, Go
    <3>2. CASE MessagePop
      BY <3>2, RecorderAssumption DEF MessagePop, TypeOK, Threads, Places, Go
    <3>3. CASE MessageCapture
      BY <3>3 DEF MessageCapture, TypeOK, Threads, Places, Go
    <3>4. CASE MessageStop
      BY <3>4, StopKillKeepsTypes DEF MessageStop, TypeOK, Threads, Places, Go
    <3>5. CASE MessageStopped
      BY <3>5, StopClearKeepsTypes DEF MessageStopped, Sleep, TypeOK, Threads, Places, Go
    <3>6. CASE MessageGap
      BY <3>6 DEF MessageGap, TypeOK, Threads, Places, Go
    <3>7. CASE MessageStart
      BY <3>7, StartNameKeepsTypes DEF MessageStart
    <3>8. CASE MessageLaunch
      <4>1. [JobAt("test") EXCEPT !.source = oldFile]
              \in [at     : {"none", "test", "cut", "log", "done", "failed"},
                   source : Files \cup {NoFile},
                   start  : Files \cup {NoFile}]
        BY DEF JobAt, TypeOK
      <4>2. jobs' \in [Jobs -> [at     : {"none", "test", "cut", "log", "done", "failed"},
                                source : Files \cup {NoFile},
                                start  : Files \cup {NoFile}]]
        BY <3>8, <4>1 DEF MessageLaunch, TypeOK
      <4>3. fileMutex_' = "free" /\ recorders' \in [Files -> Nat]
        BY <3>8, StartLaunchKeepsTypes DEF MessageLaunch, Threads
      <4>4. Go("message", "launch", "loop") /\ oldFile' = NoFile
        BY <3>8 DEF MessageLaunch
      <4>5. UNCHANGED <<phase, nameNow, running_, listening, currentVideoFile_,
                        currentFileStartTime_, rest, checkFile, due, taken, deaths>>
        BY <3>8 DEF MessageLaunch
      <4> QED
        BY <4>2, <4>3, <4>4, <4>5 DEF TypeOK, Threads, Places, Go
    <3> QED
      BY <2>2, <3>1, <3>2, <3>3, <3>4, <3>5, <3>6, <3>7, <3>8 DEF Message
  <2>3. ASSUME NEW j \in Jobs, Job(j)  PROVE TypeOK'
    <3> DEFINE JobType == [at     : {"none", "test", "cut", "log", "done", "failed"},
                           source : Files \cup {NoFile},
                           start  : Files \cup {NoFile}]
    <3>1. UNCHANGED <<phase, nameNow, running_, listening, fileMutex_,
                      currentVideoFile_, currentFileStartTime_, pc, rest, checkFile,
                      oldFile, due, taken, recorders, deaths>>
      BY <2>3 DEF Job, JobTest, JobCut, JobLog
    <3>2. jobs \in [Jobs -> JobType] /\ currentFileStartTime_ \in Files \cup {NoFile}
      BY DEF TypeOK
    <3>3. JobAt("log") \in JobType
      BY DEF JobAt
    <3>4. jobs' \in [Jobs -> JobType]
      <4>1. CASE jobs' = [jobs EXCEPT ![j] = JobAt("log")]
        <5> HIDE DEF JobType
        <5> QED
          BY <4>1, <3>2, <3>3
      <4>2. CASE jobs' = [jobs EXCEPT ![j].at = "cut", ![j].start = currentFileStartTime_]
        BY <4>2, <3>2
      <4>3. ASSUME NEW end \in {"done", "failed"}, jobs' = [jobs EXCEPT ![j].at = end]
            PROVE  jobs' \in [Jobs -> JobType]
        BY <4>3, <3>2
      <4> QED
        BY <2>3, <4>1, <4>2, <4>3 DEF Job, JobTest, JobCut, JobLog
    <3> QED
      BY <3>1, <3>4 DEF TypeOK
  <2>4. CASE Quit
    <3>1. listening' \in BOOLEAN
      BY <2>4, Zenon DEF Quit
    <3>2. /\ Go("main", "run", "joinMessage")
          /\ UNCHANGED <<phase, nameNow, running_, fileMutex_, currentVideoFile_,
                         currentFileStartTime_, rest, checkFile, oldFile, due, taken,
                         jobs, recorders, deaths>>
      BY <2>4 DEF Quit
    <3> QED
      BY <3>1, <3>2 DEF TypeOK, Threads, Places, Go
  <2>5. CASE Stopping
    <3>1. CASE MainJoinMessage
      BY <3>1 DEF MainJoinMessage, TypeOK, Threads, Places, Go
    <3>2. CASE MainUnset
      <4>1. running_' \in BOOLEAN
        BY <3>2, Zenon DEF MainUnset
      <4>2. /\ Go("main", "unset", "stop")
            /\ UNCHANGED <<phase, nameNow, listening, fileMutex_, currentVideoFile_,
                           currentFileStartTime_, rest, checkFile, oldFile, due, taken,
                           jobs, recorders, deaths>>
        BY <3>2 DEF MainUnset
      <4> QED
        BY <4>1, <4>2 DEF TypeOK, Threads, Places, Go
    <3>3. CASE MainStop
      <4>1. /\ Go("main", "stop", "wait")
            /\ StopKill("main")
            /\ UNCHANGED <<phase, nameNow, running_, listening, currentVideoFile_,
                           currentFileStartTime_, checkFile, oldFile, due, taken, deaths>>
        BY <3>3 DEF MainStop
      <4> QED
        BY <4>1, StopKillKeepsTypes DEF TypeOK, Threads, Places, Go
    <3>4. CASE MainStopped
      BY <3>4, StopClearKeepsTypes DEF MainStopped, TypeOK, Threads, Places, Go
    <3>5. CASE MainJoinRecord
      BY <3>5 DEF MainJoinRecord, TypeOK, Threads, Places, Go
    <3> QED
      BY <2>5, <3>1, <3>2, <3>3, <3>4, <3>5 DEF Stopping
  <2>6. CASE Tick
    <3>1. rest' \in [Threads -> 0..4]
      BY <2>6 DEF Tick, TypeOK
    <3>2. due' \in 0..(2 * StopEndDelay)
      BY <2>6, RecorderAssumption DEF Tick, TypeOK
    <3>3. phase' \in {0, 1} /\ nameNow' \in Files \cup {NoFile}
      BY <2>6 DEF Tick, TypeOK
    <3> QED
      BY <2>6, <3>1, <3>2, <3>3 DEF Tick, TypeOK
  <2>7. ASSUME NEW f \in Files, RecordingDies(f)  PROVE TypeOK'
    BY <2>7, RecorderAssumption DEF RecordingDies, TypeOK
  <2>8. CASE UNCHANGED vars
    BY <2>8 DEF vars, TypeOK
  <2> QED
    BY <2>1, <2>2, <2>3, <2>4, <2>5, <2>6, <2>7, <2>8 DEF Next
<1> QED
  BY <1>1, <1>2, PTL DEF SafeSpec

-----------------------------------------------------------------------------
(* There is a file to record into *)

\* stop() first waits for the message thread and then clears running_.
StopOrder ==
  /\ pc["main"] \in {"unset", "stop", "wait", "joinRecord", "stopped"} =>
       pc["message"] = "done"
  /\ pc["main"] \in {"stop", "wait", "joinRecord", "stopped"} => ~running_

FileInv == TypeOK /\ StopOrder /\ FileUnlessSwitching

\* The order of stop() is kept by every step.
LEMMA StopOrderKept ==
  ASSUME TypeOK, StopOrder, [Next]_vars
  PROVE  StopOrder'
<1> USE DEF StopOrder, TypeOK, Go, Threads, timeVars, sharedVars, messageVars
<1>1. CASE Record
  BY <1>1 DEF Record, RecordStart, StartName, RecordLaunch, RecordLoop, RecordRead,
              RecordCheck, RecordPause
<1>2. CASE Message
  BY <1>2 DEF Message, MessageLoop, MessagePop, MessageCapture, MessageStop,
              MessageStopped, MessageGap, MessageStart, StartName, MessageLaunch
<1>3. ASSUME NEW j \in Jobs, Job(j)  PROVE StopOrder'
  BY <1>3 DEF Job, JobTest, JobCut, JobLog
<1>4. CASE Quit
  BY <1>4 DEF Quit
<1>5. CASE Stopping
  BY <1>5 DEF Stopping, MainJoinMessage, MainUnset, MainStop, MainStopped, MainJoinRecord
<1>6. CASE Tick
  BY <1>6 DEF Tick
<1>7. ASSUME NEW f \in Files, RecordingDies(f)  PROVE StopOrder'
  BY <1>7 DEF RecordingDies
<1>8. CASE UNCHANGED vars
  BY <1>8 DEF vars
<1> QED
  BY <1>1, <1>2, <1>3, <1>4, <1>5, <1>6, <1>7, <1>8 DEF Next

\* No step of any thread leaves a running camera without a file, except the
\* message thread's between two files.
LEMMA FileKept ==
  ASSUME TypeOK, StopOrder, FileUnlessSwitching, [Next]_vars
  PROVE  FileUnlessSwitching'
<1> USE DEF FileUnlessSwitching, Go, timeVars, sharedVars, messageVars
<1>1. ASSUME NEW t \in {"record", "message"}, NEW to, StartName(t, to)
      PROVE  currentVideoFile_' # NoFile
  BY <1>1, NamesAreFiles DEF StartName, Files, NoFile
<1>2. CASE Record
  BY <1>1, <1>2 DEF Record, RecordStart, RecordLaunch, RecordLoop, RecordRead,
                    RecordCheck, RecordPause, TypeOK, Threads
<1>3. CASE Message
  BY <1>1, <1>3 DEF Message, MessageLoop, MessagePop, MessageCapture, MessageStop,
              MessageStopped, MessageGap, MessageStart, MessageLaunch, TypeOK, Threads
<1>4. ASSUME NEW j \in Jobs, Job(j)  PROVE FileUnlessSwitching'
  BY <1>4 DEF Job, JobTest, JobCut, JobLog
<1>5. CASE Quit
  BY <1>5 DEF Quit, TypeOK, Threads
<1>6. CASE Stopping
  BY <1>6 DEF Stopping, MainJoinMessage, MainUnset, MainStop, MainStopped,
              MainJoinRecord, StopOrder, TypeOK, Threads
<1>7. CASE Tick
  BY <1>7 DEF Tick
<1>8. ASSUME NEW f \in Files, RecordingDies(f)  PROVE FileUnlessSwitching'
  BY <1>8 DEF RecordingDies
<1>9. CASE UNCHANGED vars
  BY <1>9 DEF vars
<1> QED
  BY <1>2, <1>3, <1>4, <1>5, <1>6, <1>7, <1>8, <1>9 DEF Next

\* FileInv is an invariant.
LEMMA FileInvariant == SafeSpec => []FileInv
<1>1. Init => StopOrder /\ FileUnlessSwitching
  BY DEF Init, StartingFrom, StopOrder, FileUnlessSwitching
<1>2. TypeOK /\ StopOrder /\ FileUnlessSwitching /\ [Next]_vars
        => StopOrder' /\ FileUnlessSwitching'
  BY StopOrderKept, FileKept
<1> QED
  BY <1>1, <1>2, TypeCorrect, PTL DEF SafeSpec, FileInv

\* As long as it runs, a camera that has started to record has a file to record
\* into, whatever the record thread decides while the message thread switches.
THEOREM AlwaysAFile == SafeSpec => []FileUnlessSwitching
BY FileInvariant, PTL DEF FileInv

-----------------------------------------------------------------------------
(* Cuts are spared *)

\* The file a segment is to be cut from, on its way through
\* processStartStopMessage: stopFFmpeg, when it has to stop a recording, takes so
\* long that the old file's name is not used again.
OldFileInv ==
  /\ pc["message"] = "stop" /\ oldFile # NoFile => currentVideoFile_ # NoFile
  /\ pc["message"] = "wait" /\ oldFile # NoFile =>
       /\ fileMutex_ = "message"
       /\ oldFile = nameNow =>
            rest["message"] = 2 \/ (rest["message"] = 1 /\ phase = 1)
  /\ pc["message"] \in {"gap", "start", "launch"} /\ oldFile # NoFile =>
       oldFile # nameNow /\ oldFile # currentVideoFile_

\* The file of a segment that is being cut is never again the current one.
JobsInv ==
  \A j \in Jobs : jobs[j].at \in {"test", "cut"} =>
    /\ jobs[j].at = "cut" => jobs[j].source # NoFile
    /\ jobs[j].source # NoFile =>
         jobs[j].source # nameNow /\ jobs[j].source # currentVideoFile_

\* A name that startFFmpeg makes is that of this second, or one not in use.
LEMMA NamesAreFresh ==
  ASSUME TypeOK, NEW f \in GenerateFilename
  PROVE  /\ f # NoFile
         /\ f = nameNow \/ (f # oldFile /\ \A j \in Jobs : f # jobs[j].source)
BY DEF TypeOK, GenerateFilename, InUse, Files, NoFile

\* startFFmpeg keeps both.
LEMMA StartNameSpares ==
  ASSUME TypeOK, OldFileInv, JobsInv,
         NEW t \in {"record", "message"}, StartName(t, "launch")
  PROVE  OldFileInv' /\ JobsInv'
<1>1. PICK f \in GenerateFilename :
        nameNow' = f /\ currentVideoFile_' = f /\ currentFileStartTime_' = f
  BY DEF StartName
<1>2. /\ f # NoFile
      /\ f = nameNow \/ (f # oldFile /\ \A j \in Jobs : f # jobs[j].source)
  BY NamesAreFresh
<1>3. /\ fileMutex_ = "free"
      /\ pc[t] = "start" /\ pc' = [pc EXCEPT ![t] = "launch"]
      /\ UNCHANGED <<phase, rest, oldFile, jobs>>
  BY DEF StartName, Go, messageVars
<1>4. JobsInv'
  BY <1>1, <1>2, <1>3 DEF JobsInv
<1>5. OldFileInv'
  BY <1>1, <1>2, <1>3 DEF OldFileInv, TypeOK, Threads
<1> QED
  BY <1>4, <1>5

\* A step that leaves the message thread, its old file, the jobs and the names
\* alone, except that a job may have come to its end or have begun to cut.
LEMMA OthersSpare ==
  ASSUME TypeOK, OldFileInv, JobsInv,
         pc'["message"] = pc["message"],
         pc["message"] = "wait" => fileMutex_' = fileMutex_,
         rest'["message"] = rest["message"],
         UNCHANGED <<phase, nameNow, oldFile, currentVideoFile_>>,
         \A j \in Jobs : \/ jobs'[j] = jobs[j]
                         \/ jobs'[j].at \notin {"test", "cut"}
                         \/ /\ jobs'[j].source = jobs[j].source
                            /\ jobs[j].at = "test" /\ jobs[j].source # NoFile
  PROVE  OldFileInv' /\ JobsInv'
<1>1. OldFileInv'
  BY DEF OldFileInv
<1>2. JobsInv'
  BY DEF JobsInv
<1> QED
  BY <1>1, <1>2

\* The steps of processStartStopMessage.
LEMMA MessageSpares ==
  ASSUME TypeOK, StopOrder, OldFileInv, JobsInv, Message
  PROVE  OldFileInv' /\ JobsInv'
<1> USE DEF timeVars, sharedVars, messageVars, Go
<1>1. CASE MessageLoop \/ MessagePop
  BY <1>1 DEF MessageLoop, MessagePop, OldFileInv, JobsInv, TypeOK, Threads
<1>2. CASE MessageCapture
  BY <1>2 DEF MessageCapture, OldFileInv, JobsInv, TypeOK, Threads
<1>3. CASE MessageStop
  <2>1. CASE currentVideoFile_ = NoFile
    BY <1>3, <2>1 DEF MessageStop, StopKill, OldFileInv, JobsInv, TypeOK, Threads
  <2>2. CASE currentVideoFile_ # NoFile
    <3>1. JobsInv'
      BY <1>3, <2>2 DEF MessageStop, StopKill, JobAt, JobsInv
    <3>2. fileMutex_' = "message" /\ rest'["message"] = 2 /\ pc'["message"] = "wait"
      BY <1>3, <2>2 DEF MessageStop, StopKill, Sleep, TypeOK, Threads
    <3> QED
      BY <3>1, <3>2 DEF OldFileInv
  <2> QED
    BY <2>1, <2>2
<1>4. CASE MessageStopped
  BY <1>4 DEF MessageStopped, StopClear, SleepOver, Sleep, OldFileInv, JobsInv, TypeOK,
              Threads
<1>5. CASE MessageGap
  BY <1>5 DEF MessageGap, OldFileInv, JobsInv, TypeOK, Threads
<1>6. CASE MessageStart
  BY <1>6, StartNameSpares DEF MessageStart
<1>7. CASE MessageLaunch
  <2>1. OldFileInv'
    BY <1>7 DEF MessageLaunch, OldFileInv, TypeOK, Threads
  <2>2. \A j \in Jobs :
          jobs'[j] = jobs[j] \/ jobs'[j] = [JobAt("test") EXCEPT !.source = oldFile]
    BY <1>7 DEF MessageLaunch, TypeOK
  <2>3. oldFile # NoFile => oldFile # nameNow /\ oldFile # currentVideoFile_
    BY <1>7 DEF MessageLaunch, OldFileInv
  <2>4. JobsInv'
    BY <1>7, <2>2, <2>3 DEF MessageLaunch, JobsInv, JobAt
  <2> QED
    BY <2>1, <2>4
<1> QED
  BY <1>1, <1>2, <1>3, <1>4, <1>5, <1>6, <1>7 DEF Message

\* Every step keeps both.
LEMMA CutsKept ==
  ASSUME TypeOK, StopOrder, OldFileInv, JobsInv, [Next]_vars
  PROVE  OldFileInv' /\ JobsInv'
<1> USE DEF timeVars, sharedVars, messageVars, Go
<1>1. CASE RecordStart
  BY <1>1, StartNameSpares DEF RecordStart
<1>2. CASE Record /\ ~RecordStart
  <2>1. /\ pc'["message"] = pc["message"] /\ rest'["message"] = rest["message"]
        /\ pc["message"] = "wait" /\ fileMutex_ = "message" => fileMutex_' = fileMutex_
        /\ UNCHANGED <<phase, nameNow, oldFile, currentVideoFile_, jobs>>
    BY <1>2 DEF Record, RecordLaunch, StartLaunch, RecordLoop, RecordRead, RecordCheck,
                RecordPause, Sleep, TypeOK, Threads
  <2> QED
    BY <2>1 DEF OldFileInv, JobsInv
<1>3. CASE Message
  BY <1>3, MessageSpares
<1>4. ASSUME NEW j \in Jobs, Job(j)  PROVE OldFileInv' /\ JobsInv'
  <2>1. UNCHANGED <<phase, nameNow, fileMutex_, oldFile, currentVideoFile_, pc, rest>>
    BY <1>4 DEF Job, JobTest, JobCut, JobLog
  <2>2. \A i \in Jobs : \/ jobs'[i] = jobs[i]
                        \/ jobs'[i].at \notin {"test", "cut"}
                        \/ /\ jobs'[i].source = jobs[i].source
                           /\ jobs[i].at = "test" /\ jobs[i].source # NoFile
    BY <1>4 DEF Job, JobTest, JobCut, JobLog, JobAt, TypeOK
  <2> QED
    BY <2>1, <2>2, OthersSpare
<1>5. CASE Quit
  BY <1>5 DEF Quit, OldFileInv, JobsInv, TypeOK, Threads
<1>6. CASE Stopping
  <2>1. CASE MainJoinMessage \/ MainUnset \/ MainJoinRecord
    BY <1>6, <2>1 DEF MainJoinMessage, MainUnset, MainJoinRecord,
                      OldFileInv, JobsInv, TypeOK, Threads
  <2>2. CASE MainStop \/ MainStopped
    <3>1. pc["message"] = "done" /\ pc'["message"] = "done"
      BY <2>2 DEF MainStop, MainStopped, StopOrder, TypeOK, Threads
    <3>2. OldFileInv'
      BY <3>1 DEF OldFileInv
    <3>3. JobsInv'
      BY <2>2 DEF MainStop, MainStopped, StopKill, StopClear, JobAt, JobsInv
    <3> QED
      BY <3>2, <3>3
  <2> QED
    BY <1>6, <2>1, <2>2 DEF Stopping
<1>7. CASE Tick
  <2>1. OldFileInv'
    BY <1>7 DEF Tick, OldFileInv, TypeOK, Threads
  <2>2. JobsInv'
    BY <1>7 DEF Tick, JobsInv
  <2> QED
    BY <2>1, <2>2
<1>8. ASSUME NEW f \in Files, RecordingDies(f)  PROVE OldFileInv' /\ JobsInv'
  BY <1>8 DEF RecordingDies, OldFileInv, JobsInv
<1>9. CASE UNCHANGED vars
  BY <1>9 DEF vars, OldFileInv, JobsInv
<1> QED
  BY <1>1, <1>2, <1>3, <1>4, <1>5, <1>6, <1>7, <1>8, <1>9 DEF Next

\* The file of a segment that is being cut is not the current one, so that the
\* pkill of no later switch, and not that of stop(), ends the cutting.
THEOREM NoCutIsKilled == SafeSpec => []CutsAreSpared
<1>1. Init => OldFileInv /\ JobsInv
  BY DEF Init, StartingFrom, OldFileInv, JobsInv, JobAt
<1>2. TypeOK /\ StopOrder /\ OldFileInv /\ JobsInv /\ [Next]_vars
        => OldFileInv' /\ JobsInv'
  BY CutsKept
<1>3. TypeOK /\ OldFileInv /\ JobsInv => CutsAreSpared
  BY DEF JobsInv, CutsAreSpared
<1> QED
  BY <1>1, <1>2, <1>3, TypeCorrect, FileInvariant, PTL DEF SafeSpec, FileInv

-----------------------------------------------------------------------------
(* CameraRecorder implements SegmentService *)

\* How many of the requests have a detached thread.
Served ==
  taken - (IF pc["message"] \in {"capture", "stop", "wait", "gap", "start", "launch"}
           THEN 1 ELSE 0)

JobsAt(places) == {j \in Jobs : jobs[j].at \in places}

Service == INSTANCE SegmentService WITH
  MaxRequests <- MaxMessages,
  asked       <- taken,
  taken       <- Served,
  refused     <- {},
  working     <- JobsAt({"test", "cut", "log"}),
  entered     <- JobsAt({"done"}),
  failed      <- JobsAt({"failed"})

\* One camera keeps the promise of SegmentService: every segment asked for gets a
\* thread of its own, in the order of the asking, and each thread comes to its end
\* once, with a row or with a failed INSERT, whatever is killed, restarted or stopped
\* meanwhile.
CameraImplementsService == Service!Spec

\* processStartStopMessage is at work on a segment.
InHand == {"capture", "stop", "wait", "gap", "start", "launch"}

\* The requests served are those with a detached thread.
ServedInv ==
  /\ pc["message"] \in InHand => taken >= 1
  /\ \A j \in Jobs : jobs[j].at = "none" <=> j > Served

\* Steps that serve no request and end no detached thread.
LEMMA OthersServe ==
  ASSUME ServedInv, taken' = taken,
         pc'["message"] \in InHand <=> pc["message"] \in InHand,
         \A j \in Jobs : \/ jobs'[j].at = jobs[j].at
                         \/ /\ jobs[j].at \in {"test", "cut", "log"}
                            /\ jobs'[j].at \in {"test", "cut", "log"}
  PROVE  ServedInv' /\ UNCHANGED Service!vars
<1>1. Served' = Served
  BY DEF Served, InHand
<1>2. /\ JobsAt({"test", "cut", "log"})' = JobsAt({"test", "cut", "log"})
      /\ JobsAt({"done"})' = JobsAt({"done"}) /\ JobsAt({"failed"})' = JobsAt({"failed"})
  BY DEF JobsAt
<1>3. ServedInv'
  BY <1>1 DEF ServedInv
<1> QED
  BY <1>1, <1>2, <1>3 DEF Service!vars

\* A segment is asked for.
LEMMA PopAsks ==
  ASSUME TypeOK, ServedInv, MessagePop
  PROVE  ServedInv' /\ [Service!Next]_(Service!vars)
<1> USE DEF Go, timeVars, sharedVars
<1>1. CASE pc'["message"] = "capture"
  <2>1. /\ taken < MaxMessages /\ taken' = taken + 1 /\ jobs' = jobs
        /\ pc["message"] = "pop" /\ taken \in Nat
    BY <1>1, RecorderAssumption DEF MessagePop, TypeOK, Threads
  <2>2. Served' = Served
    BY <1>1, <2>1 DEF Served
  <2>3. ServedInv'
    BY <2>1, <2>2 DEF ServedInv
  <2>4. Service!Ask
    BY <2>1, <2>2 DEF Service!Ask, JobsAt
  <2> QED
    BY <2>3, <2>4 DEF Service!Next
<1>2. CASE pc'["message"] # "capture"
  <2>1. /\ taken' = taken /\ jobs' = jobs
        /\ pc["message"] = "pop" /\ pc'["message"] = "loop"
    BY <1>2 DEF MessagePop, TypeOK, Threads
  <2> QED
    BY <2>1, OthersServe DEF InHand
<1> QED
  BY <1>1, <1>2

\* It gets a thread of its own.
LEMMA LaunchTakes ==
  ASSUME TypeOK, ServedInv, MessageLaunch
  PROVE  ServedInv' /\ Service!Take
<1> DEFINE job == [JobAt("test") EXCEPT !.source = oldFile]
<1>1. /\ pc["message"] = "launch" /\ pc'["message"] = "loop"
      /\ taken' = taken /\ jobs' = [jobs EXCEPT ![taken] = job]
  BY DEF MessageLaunch, Go, TypeOK, Threads
<1>2. taken \in Jobs /\ taken \in Nat
  BY <1>1, RecorderAssumption DEF ServedInv, InHand, TypeOK, Jobs
<1>3. Served = taken - 1 /\ Served' = taken
  BY <1>1, <1>2 DEF Served
<1>4. job.at = "test"
  BY DEF JobAt
<1> HIDE DEF job
<1>5. /\ \A j \in Jobs : jobs'[j].at = IF j = taken THEN "test" ELSE jobs[j].at
      /\ jobs[taken].at = "none"
  BY <1>1, <1>2, <1>3, <1>4 DEF TypeOK, ServedInv
<1>6. /\ JobsAt({"test", "cut", "log"})' = JobsAt({"test", "cut", "log"}) \cup {taken}
      /\ JobsAt({"done"})' = JobsAt({"done"}) /\ JobsAt({"failed"})' = JobsAt({"failed"})
  BY <1>2, <1>5 DEF JobsAt
<1>7. ServedInv'
  BY <1>1, <1>2, <1>3, <1>5 DEF ServedInv, InHand, Jobs
<1>8. Service!Take
  BY <1>1, <1>2, <1>3, <1>6 DEF Service!Take
<1> QED
  BY <1>7, <1>8

\* Its row is entered, or the INSERT fails.
LEMMA LogFinishes ==
  ASSUME TypeOK, ServedInv, NEW j \in Jobs, JobLog(j)
  PROVE  ServedInv' /\ Service!Next
<1>1. PICK end \in {"done", "failed"} : jobs' = [jobs EXCEPT ![j].at = end]
  BY DEF JobLog
<1>2. /\ jobs[j].at = "log" /\ taken' = taken /\ pc' = pc
      /\ \A i \in Jobs : jobs'[i].at = IF i = j THEN end ELSE jobs[i].at
  BY <1>1 DEF JobLog, TypeOK
<1>3. Served' = Served
  BY <1>2 DEF Served
<1>4. ServedInv'
  BY <1>2, <1>3 DEF ServedInv
<1>5. /\ JobsAt({"test", "cut", "log"})' = JobsAt({"test", "cut", "log"}) \ {j}
      /\ j \in JobsAt({"test", "cut", "log"})
  BY <1>2 DEF JobsAt
<1>6. \/ /\ JobsAt({"done"})' = JobsAt({"done"}) \cup {j}
         /\ JobsAt({"failed"})' = JobsAt({"failed"})
      \/ /\ JobsAt({"failed"})' = JobsAt({"failed"}) \cup {j}
         /\ JobsAt({"done"})' = JobsAt({"done"})
  <2>1. CASE end = "done"
    BY <1>2, <2>1 DEF JobsAt
  <2>2. CASE end = "failed"
    BY <1>2, <2>2 DEF JobsAt
  <2> QED
    BY <2>1, <2>2
<1>7. Service!Finish(j)
  BY <1>2, <1>3, <1>5, <1>6 DEF Service!Finish
<1> QED
  BY <1>4, <1>5, <1>7 DEF Service!Next

\* No other step has to do with the promise.
LEMMA RestServes ==
  ASSUME TypeOK, ServedInv, [Next]_vars, ~MessagePop, ~MessageLaunch,
         \A j \in Jobs : ~JobLog(j)
  PROVE  ServedInv' /\ UNCHANGED Service!vars
<1> DEFINE Kept == /\ taken' = taken
                   /\ pc'["message"] \in InHand <=> pc["message"] \in InHand
                   /\ \A j \in Jobs : \/ jobs'[j].at = jobs[j].at
                                      \/ /\ jobs[j].at \in {"test", "cut", "log"}
                                         /\ jobs'[j].at \in {"test", "cut", "log"}
<1> USE DEF Go, timeVars, sharedVars, messageVars, InHand
<1>1. ASSUME NEW t, StopKill(t)
      PROVE  \A j \in Jobs : \/ jobs'[j].at = jobs[j].at
                             \/ /\ jobs[j].at \in {"test", "cut", "log"}
                                /\ jobs'[j].at \in {"test", "cut", "log"}
  BY <1>1 DEF StopKill, Cutting, JobAt
<1>2. ASSUME Record  PROVE Kept
  BY <1>2 DEF Record, RecordStart, StartName, RecordLaunch, RecordLoop, RecordRead,
              RecordCheck, RecordPause, TypeOK, Threads
<1>3. ASSUME Message  PROVE Kept
  <2>1. CASE MessageStop
    BY <1>1, <2>1 DEF MessageStop, TypeOK, Threads
  <2>2. CASE ~MessageStop
    BY <1>3, <2>2 DEF Message, MessageLoop, MessageCapture, MessageStopped, MessageGap,
                      MessageStart, StartName, TypeOK, Threads
  <2> QED
    BY <2>1, <2>2
<1>4. ASSUME NEW j \in Jobs, Job(j)  PROVE Kept
  BY <1>4 DEF Job, JobTest, JobCut, JobAt, TypeOK
<1>5. ASSUME Quit  PROVE Kept
  BY <1>5 DEF Quit, TypeOK, Threads
<1>6. ASSUME Stopping  PROVE Kept
  <2>1. CASE MainStop
    BY <1>1, <2>1 DEF MainStop, TypeOK, Threads
  <2>2. CASE ~MainStop
    BY <1>6, <2>2 DEF Stopping, MainJoinMessage, MainUnset, MainStopped, MainJoinRecord,
                      TypeOK, Threads
  <2> QED
    BY <2>1, <2>2
<1>7. ASSUME Tick  PROVE Kept
  BY <1>7 DEF Tick
<1>8. ASSUME NEW f \in Files, RecordingDies(f)  PROVE Kept
  BY <1>8 DEF RecordingDies
<1>9. ASSUME UNCHANGED vars  PROVE Kept
  BY <1>9 DEF vars
<1> QED
  BY <1>2, <1>3, <1>4, <1>5, <1>6, <1>7, <1>8, <1>9, OthersServe DEF Next

\* Every segment asked for gets a thread of its own, in the order of the asking,
\* and each thread ends once, with its row entered or its INSERT failed: no switch of
\* files, no restart, no kill and no stop loses a request, serves one twice or lets one
\* overtake another.
THEOREM Implements == SafeSpec => CameraImplementsService
<1>1. Init => ServedInv /\ Service!Init
  <2> SUFFICES ASSUME Init  PROVE ServedInv /\ Service!Init
    OBVIOUS
  <2>1. /\ taken = 0 /\ pc["message"] = "loop"
        /\ \A j \in Jobs : jobs[j].at = "none"
    BY DEF Init, StartingFrom, JobAt
  <2>2. Served = 0
    <3>1. pc["message"] \notin InHand
      BY <2>1 DEF InHand
    <3>2. Served = taken - 0
      BY <3>1 DEF Served, InHand
    <3> QED
      BY <2>1, <3>2
  <2>3. ServedInv
    BY <2>1, <2>2, RecorderAssumption DEF ServedInv, InHand, Jobs
  <2>4. Service!Init
    BY <2>1, <2>2 DEF Service!Init, JobsAt
  <2> QED
    BY <2>3, <2>4
<1>2. TypeOK /\ ServedInv /\ [Next]_vars => ServedInv' /\ [Service!Next]_(Service!vars)
  BY PopAsks, LaunchTakes, LogFinishes, RestServes DEF Service!Next
<1> QED
  BY <1>1, <1>2, TypeCorrect, PTL DEF SafeSpec, CameraImplementsService, Service!Spec
=============================================================================
