---------------------------- MODULE PassFlowProofs ----------------------------
(***************************************************************************)
(* Proofs about PassFlow, for any number of requests.                      *)
(***************************************************************************)
EXTENDS PassFlow, TLAPS

(* The threads *)

\* The message thread listens and every recorder is running.
Serving ==
  /\ listening
  /\ message \in {"loop", "pop", "process"}
  /\ recording = 1..Len(cameras_)

\* Where the threads can be, by the place of main().
LifeInv ==
  \/ /\ main \in {"database", "settings", "mainControl", "videoControl", "startVideo"}
     /\ receiver = "none" /\ message = "none" /\ recording = {}
  \/ /\ main = "startMain"
     /\ Serving /\ receiver = "none"
  \/ /\ main \in {"run", "stopMain", "joinReceiver"}
     /\ Serving /\ receiver \in {"check", "handle", "done"}
  \/ /\ main = "stopVideo"
     /\ Serving /\ receiver = "done"
  \/ /\ main = "joinMessage"
     /\ receiver = "done" /\ message \in {"loop", "pop", "process", "done"}
  \/ /\ main = "stopCameras"
     /\ receiver = "done" /\ message = "done"
  \/ /\ main \in {"unwind", "ended"}
     /\ receiver \in {"none", "done"} /\ message \in {"none", "done"} /\ recording = {}

\* LifeInv is inductive.
LEMMA LifeInvariant == SafeSpec => []LifeInv
<1>1. Init => LifeInv
  BY DEF Init, LifeInv
<1>2. LifeInv /\ [Next]_vars => LifeInv'
  <2> SUFFICES ASSUME LifeInv, [Next]_vars  PROVE LifeInv'
    OBVIOUS
  <2> USE DEF LifeInv, Serving, Go, setupVars, threadVars
  <2>1. CASE Main
    <3>1. CASE Connect \/ LoadSettings
      BY <3>1 DEF Connect, LoadSettings
    <3>2. CASE InitializeMainControl
      BY <3>2 DEF InitializeMainControl
    <3>3. CASE InitializeVideoControl
      BY <3>3 DEF InitializeVideoControl
    <3>4. CASE StartVideoControl
      BY <3>4 DEF StartVideoControl
    <3>5. CASE StartMainControl
      BY <3>5 DEF StartMainControl
    <3>6. CASE Wait
      BY <3>6 DEF Wait
    <3>7. CASE StopMainControl
      BY <3>7 DEF StopMainControl
    <3>8. CASE JoinReceiver
      BY <3>8 DEF JoinReceiver
    <3>9. CASE StopVideoControl
      BY <3>9 DEF StopVideoControl
    <3>10. CASE JoinMessage
      BY <3>10 DEF JoinMessage
    <3>11. CASE StopCameras
      BY <3>11 DEF StopCameras
    <3>12. CASE Unwind
      BY <3>12 DEF Unwind
    <3> QED
      BY <2>1, <3>1, <3>2, <3>3, <3>4, <3>5, <3>6, <3>7, <3>8, <3>9, <3>10, <3>11, <3>12
         DEF Main
  <2>2. CASE Signal
    BY <2>2 DEF Signal
  <2>3. CASE Receiver
    BY <2>3 DEF Receiver, ReceiverCheck, ReceiverHandled, Request
  <2>4. CASE Message
    BY <2>4 DEF Message, MessageLoop, MessageNothing, MessagePop, MessageProcess
  <2>5. CASE \E j \in jobs : LogVideoSegment(j)
    BY <2>5 DEF LogVideoSegment
  <2>6. CASE UNCHANGED vars
    BY <2>6 DEF vars
  <2> QED
    BY <2>1, <2>2, <2>3, <2>4, <2>5, <2>6 DEF Next
<1> QED
  BY <1>1, <1>2, PTL DEF SafeSpec

\* While a status may still be handled, what a request needs is running.
THEOREM ListenersWatch == SafeSpec => []ListenersWhileWatching
<1>1. LifeInv => ListenersWhileWatching
  BY DEF LifeInv, Serving, ListenersWhileWatching
<1> QED
  BY <1>1, LifeInvariant, PTL

\* Whatever fails and whenever the signal comes, main() leaves no joinable thread.
THEOREM ThreadsAreJoined == SafeSpec => []NoThreadIsLeft
<1>1. LifeInv => NoThreadIsLeft
  BY DEF LifeInv, NoThreadIsLeft
<1> QED
  BY <1>1, LifeInvariant, PTL

-----------------------------------------------------------------------------
(* The requests *)

\* The recorders, whatever the settings.
LEMMA Recorders ==
  ASSUME NEW s \in Settings
  PROVE  /\ LoadConfiguration(s) \in Seq(CameraIds)
         /\ s.doors >= 1 /\ s.cam0String =>
              \A i \in 1..Len(LoadConfiguration(s)) : LoadConfiguration(s)[i] = i - 1
         /\ s.doors >= 2 /\ s.cam0String /\ s.cam1String =>
              Len(LoadConfiguration(s)) = 2
<1> DEFINE zero == s.doors >= 1 /\ s.cam0String
           one  == s.doors >= 2 /\ s.cam1String
<1>1. LoadConfiguration(s) = (IF zero THEN <<0>> ELSE <<>>) \o (IF one THEN <<1>> ELSE <<>>)
  BY DEF LoadConfiguration
<1>2. s.doors \in Int
  BY DEF Settings
<1> HIDE DEF zero, one
<1>3. CASE zero /\ one
  <2>1. LoadConfiguration(s) = <<0>> \o <<1>>
    BY <1>1, <1>3
  <2> QED
    BY <2>1 DEF CameraIds
<1>4. CASE zero /\ ~one
  <2>1. LoadConfiguration(s) = <<0>> \o <<>>
    BY <1>1, <1>4
  <2> QED
    BY <2>1, <1>2, <1>4 DEF CameraIds, one
<1>5. CASE ~zero /\ one
  <2>1. LoadConfiguration(s) = <<>> \o <<1>>
    BY <1>1, <1>5
  <2> QED
    BY <2>1, <1>2, <1>5 DEF CameraIds, zero
<1>6. CASE ~zero /\ ~one
  <2>1. LoadConfiguration(s) = <<>> \o <<>>
    BY <1>1, <1>6
  <2> QED
    BY <2>1, <1>2, <1>6 DEF CameraIds, zero
<1> QED
  BY <1>3, <1>4, <1>5, <1>6

\* While anything can be asked for, the recorders are those of the settings.
ConfigInv ==
  /\ message # "none" /\ main # "ended" => cameras_ = LoadConfiguration(settings)
  /\ main = "startVideo" => cameras_ = LoadConfiguration(settings)
  /\ message = "none" => jobs = {} /\ refused = {} /\ rows = {}

\* Whatever is in the queue, at work or done has been asked for; a job's recorder
\* is the one whose index is the camera id, and exists.
RequestInv ==
  /\ ConfigInv
  /\ \A i \in 1..Len(videoControlQueue) : videoControlQueue[i] \in 1..Len(asked)
  /\ message = "process" => current[1] \in 1..Len(asked)
  /\ \A j \in jobs :
       /\ j.request \in 1..Len(asked)
       /\ j.recorder = asked[j.request] + 1
       /\ main # "ended" => j.recorder <= Len(cameras_)
  /\ \A n \in refused :
       n \in 1..Len(asked) /\ asked[n] >= Len(LoadConfiguration(settings))
  /\ \A r \in rows :
       /\ r.request \in 1..Len(asked)
       /\ settings.doors >= 1 /\ settings.cam0String => r.camera_id = asked[r.request]

\* The inductive invariant.
IInv == TypeOK /\ LifeInv /\ RequestInv

\* It holds when the program starts.
LEMMA InitIInv == Init => IInv
<1> SUFFICES ASSUME Init  PROVE IInv
  OBVIOUS
<1>1. TypeOK
  <2>1. settings \in Settings
    BY DEF Init, Settings
  <2>2. /\ cameras_ \in Seq(CameraIds)
        /\ videoControlQueue \in Seq(Requests)
        /\ asked \in Seq(CameraIds) /\ Len(asked) <= MaxRequests
        /\ current \in Seq(Requests) /\ Len(current) = 0
    BY RequestsAssumption DEF Init
  <2>3. /\ main = "database" /\ g_running = TRUE /\ connected = FALSE
        /\ watching = FALSE /\ receiver = "none"
        /\ listening = FALSE /\ message = "none"
        /\ recording = {} /\ refused = {} /\ jobs = {} /\ done = {} /\ rows = {}
    BY DEF Init
  <2> QED
    BY <2>1, <2>2, <2>3 DEF TypeOK
<1>2. LifeInv
  BY DEF Init, LifeInv
<1>3. RequestInv
  BY DEF Init, RequestInv, ConfigInv
<1> QED
  BY <1>1, <1>2, <1>3 DEF IInv

\* The steps of main() and the signal leave the requests alone; they change the
\* settings and the recorders only when there is nothing to do yet, or any more.
LEMMA MainKeeps ==
  ASSUME IInv, Main \/ Signal
  PROVE  TypeOK' /\ RequestInv'
<1> USE DEF IInv, Go, setupVars, threadVars, requestVars
<1>1. CASE Connect \/ LoadSettings
  <2>1. settings' \in Settings
    BY <1>1 DEF Connect, LoadSettings, TypeOK, Settings
  <2>2. TypeOK'
    <3>1. CASE Connect
      BY <3>1 DEF Connect, TypeOK
    <3>2. CASE LoadSettings
      BY <3>2, <2>1 DEF LoadSettings, TypeOK
    <3> QED
      BY <1>1, <3>1, <3>2
  <2>3. RequestInv'
    BY <1>1 DEF Connect, LoadSettings, LifeInv, RequestInv, ConfigInv
  <2> QED
    BY <2>2, <2>3
<1>2. CASE InitializeMainControl
  BY <1>2 DEF InitializeMainControl, TypeOK, LifeInv, RequestInv, ConfigInv
<1>3. CASE InitializeVideoControl
  <2>1. cameras_' \in Seq(CameraIds)
    BY <1>3, Recorders DEF InitializeVideoControl, TypeOK
  <2>2. TypeOK'
    BY <1>3, <2>1 DEF InitializeVideoControl, TypeOK
  <2>3. RequestInv'
    BY <1>3 DEF InitializeVideoControl, LifeInv, RequestInv, ConfigInv
  <2> QED
    BY <2>2, <2>3
<1>4. CASE StartVideoControl
  <2>1. TypeOK'
    BY <1>4 DEF StartVideoControl, TypeOK, LifeInv
  <2>2. RequestInv'
    BY <1>4 DEF StartVideoControl, LifeInv, RequestInv, ConfigInv
  <2> QED
    BY <2>1, <2>2
<1>5. CASE Unwind
  <2>1. <<>> \in Seq(CameraIds)
    OBVIOUS
  <2>2. TypeOK'
    BY <1>5, <2>1 DEF Unwind, TypeOK
  <2>3. RequestInv'
    BY <1>5 DEF Unwind, RequestInv, ConfigInv
  <2> QED
    BY <2>2, <2>3
<1>6. CASE StopCameras
  <2>1. recording' \subseteq Nat
    BY <1>6 DEF StopCameras, TypeOK
  <2>2. TypeOK'
    BY <1>6, <2>1 DEF StopCameras, TypeOK
  <2>3. RequestInv'
    BY <1>6 DEF StopCameras, RequestInv, ConfigInv
  <2> QED
    BY <2>2, <2>3
<1>7. ASSUME \/ StartMainControl \/ Wait \/ StopMainControl \/ JoinReceiver
             \/ StopVideoControl \/ JoinMessage \/ Signal
      PROVE  TypeOK' /\ RequestInv'
  <2>1. TypeOK'
    <3>1. CASE StartMainControl
      BY <3>1 DEF StartMainControl, TypeOK
    <3>2. CASE Wait
      BY <3>2 DEF Wait, TypeOK
    <3>3. CASE StopMainControl
      BY <3>3 DEF StopMainControl, TypeOK
    <3>4. CASE JoinReceiver
      BY <3>4 DEF JoinReceiver, TypeOK
    <3>5. CASE StopVideoControl
      BY <3>5 DEF StopVideoControl, TypeOK
    <3>6. CASE JoinMessage
      BY <3>6 DEF JoinMessage, TypeOK
    <3>7. CASE Signal
      <4>1. g_running' \in BOOLEAN
        BY <3>7 DEF Signal
      <4>2. UNCHANGED <<main, setupVars, threadVars, requestVars>>
        BY <3>7 DEF Signal
      <4> QED
        BY <4>1, <4>2 DEF TypeOK
    <3> QED
      BY <1>7, <3>1, <3>2, <3>3, <3>4, <3>5, <3>6, <3>7
  <2>2. RequestInv'
    BY <1>7 DEF StartMainControl, Wait, StopMainControl, JoinReceiver, StopVideoControl,
                JoinMessage, Signal, LifeInv, RequestInv, ConfigInv
  <2> QED
    BY <2>1, <2>2
<1> QED
  BY <1>1, <1>2, <1>3, <1>4, <1>5, <1>6, <1>7 DEF Main

\* The receiver thread only adds a request, behind the others.
LEMMA ReceiverKeeps ==
  ASSUME IInv, Receiver
  PROVE  TypeOK' /\ RequestInv'
<1> USE DEF IInv, setupVars, threadVars, requestVars
<1>1. CASE ReceiverCheck \/ ReceiverHandled
  <2>1. TypeOK'
    BY <1>1 DEF ReceiverCheck, ReceiverHandled, TypeOK
  <2>2. RequestInv'
    BY <1>1 DEF ReceiverCheck, ReceiverHandled, RequestInv, ConfigInv
  <2> QED
    BY <2>1, <2>2
<1>2. ASSUME NEW door \in CameraIds, Request(door)
      PROVE  TypeOK' /\ RequestInv'
  <2>1. /\ asked' \in Seq(CameraIds)
        /\ Len(asked') = Len(asked) + 1
        /\ \A n \in 1..Len(asked) : asked'[n] = asked[n]
    BY <1>2 DEF Request, TypeOK
  <2>2. Len(asked) + 1 \in Requests
    BY <1>2, RequestsAssumption DEF Request, TypeOK, Requests
  <2>3. TypeOK'
    BY <1>2, <2>1, <2>2, RequestsAssumption DEF Request, TypeOK
  <2>4. \A i \in 1..Len(videoControlQueue') : videoControlQueue'[i] \in 1..Len(asked')
    BY <1>2, <2>1 DEF Request, TypeOK, RequestInv
  <2>5. /\ \A n \in 1..Len(asked) : n \in 1..Len(asked') /\ asked'[n] = asked[n]
        /\ UNCHANGED <<main, settings, cameras_, message, current, refused, jobs, rows>>
    BY <1>2, <2>1 DEF Request, TypeOK
  <2>6. RequestInv'
    BY <2>4, <2>5 DEF RequestInv, ConfigInv
  <2> QED
    BY <2>3, <2>6
<1> QED
  BY <1>1, <1>2 DEF Receiver

\* The one step that decides about a request.
LEMMA ProcessKeeps ==
  ASSUME IInv, MessageProcess
  PROVE  TypeOK' /\ RequestInv'
<1> USE DEF IInv, setupVars, threadVars, requestVars
<1> DEFINE n == current[1]
           job == [request |-> n, recorder |-> asked[n] + 1]
<1>1. n \in 1..Len(asked) /\ n \in Requests /\ asked[n] \in CameraIds
  BY RequestsAssumption DEF MessageProcess, TypeOK, RequestInv, Requests
<1>2. main # "ended" /\ cameras_ = LoadConfiguration(settings)
  BY DEF MessageProcess, LifeInv, Serving, RequestInv, ConfigInv
<1>3. /\ message' = "loop" /\ current' = <<>>
      /\ UNCHANGED <<main, g_running, setupVars, watching, receiver, listening, recording,
                     videoControlQueue, asked, done, rows>>
  BY DEF MessageProcess
<1>4. CASE asked[n] < Len(cameras_)
  <2>1. jobs' = jobs \cup {job} /\ refused' = refused
    BY <1>4 DEF MessageProcess
  <2>2. job \in [request : Requests, recorder : Nat]
    BY <1>1 DEF CameraIds
  <2>3. TypeOK'
    BY <1>3, <2>1, <2>2 DEF TypeOK
  <2>4. RequestInv'
    BY <1>1, <1>2, <1>3, <1>4, <2>1 DEF TypeOK, RequestInv, ConfigInv, CameraIds
  <2> QED
    BY <2>3, <2>4
<1>5. CASE ~(asked[n] < Len(cameras_))
  <2>1. jobs' = jobs /\ refused' = refused \cup {n}
    BY <1>5 DEF MessageProcess
  <2>2. TypeOK'
    BY <1>1, <1>3, <2>1 DEF TypeOK
  <2>3. asked[n] >= Len(LoadConfiguration(settings))
    BY <1>1, <1>2, <1>5 DEF TypeOK, CameraIds
  <2>4. RequestInv'
    BY <1>1, <1>2, <1>3, <2>1, <2>3 DEF RequestInv, ConfigInv
  <2> QED
    BY <2>2, <2>4
<1> QED
  BY <1>4, <1>5

\* The message thread takes requests one by one.
LEMMA MessageKeeps ==
  ASSUME IInv, Message
  PROVE  TypeOK' /\ RequestInv'
<1> USE DEF IInv, setupVars, threadVars, requestVars
<1>1. CASE MessageLoop \/ MessageNothing
  <2>1. TypeOK'
    BY <1>1 DEF MessageLoop, MessageNothing, TypeOK
  <2>2. RequestInv'
    BY <1>1 DEF MessageLoop, MessageNothing, RequestInv, ConfigInv
  <2> QED
    BY <2>1, <2>2
<1>2. CASE MessagePop
  <2>1. /\ Head(videoControlQueue) \in Requests
        /\ Head(videoControlQueue) \in 1..Len(asked)
    BY <1>2 DEF MessagePop, TypeOK, RequestInv
  <2>2. TypeOK'
    BY <1>2, <2>1 DEF MessagePop, TypeOK
  <2>3. \A i \in 1..Len(videoControlQueue') : videoControlQueue'[i] \in 1..Len(asked)
    BY <1>2 DEF MessagePop, TypeOK, RequestInv
  <2>4. RequestInv'
    BY <1>2, <2>1, <2>3 DEF MessagePop, RequestInv, ConfigInv
  <2> QED
    BY <2>2, <2>4
<1>3. CASE MessageProcess
  BY <1>3, ProcessKeeps
<1> QED
  BY <1>1, <1>2, <1>3 DEF Message

\* A cutting thread may add the row of its own job.
LEMMA LogKeeps ==
  ASSUME IInv, NEW j \in jobs, LogVideoSegment(j)
  PROVE  TypeOK' /\ RequestInv'
<1> USE DEF IInv, setupVars, threadVars, requestVars
<1> DEFINE row == [request |-> j.request, camera_id |-> cameras_[j.recorder]]
<1>1. /\ main # "ended"
      /\ jobs' \subseteq jobs /\ done' = done \cup {j.request}
      /\ rows' \subseteq rows \cup {row}
      /\ UNCHANGED <<main, g_running, setupVars, threadVars, videoControlQueue, asked,
                     current, refused>>
  BY DEF LogVideoSegment
<1>2. /\ j.request \in Requests /\ j.request \in 1..Len(asked)
      /\ j.recorder = asked[j.request] + 1
      /\ asked[j.request] \in CameraIds
      /\ j.recorder \in 1..Len(cameras_)
  <2>1. j.request \in Requests
    BY DEF TypeOK
  <2>2. /\ j.request \in 1..Len(asked)
        /\ j.recorder = asked[j.request] + 1
        /\ j.recorder <= Len(cameras_)
    BY <1>1 DEF RequestInv
  <2>3. asked[j.request] \in CameraIds
    BY <2>2 DEF TypeOK
  <2> QED
    BY <2>1, <2>2, <2>3 DEF CameraIds
<1>3. cameras_ = LoadConfiguration(settings) /\ message # "none"
  BY <1>1 DEF RequestInv, ConfigInv
<1>4. TypeOK'
  BY <1>1, <1>2 DEF TypeOK
<1>5. settings.doors >= 1 /\ settings.cam0String => row.camera_id = asked[row.request]
  BY <1>2, <1>3, Recorders DEF TypeOK, CameraIds
<1>6. RequestInv'
  BY <1>1, <1>2, <1>3, <1>5 DEF RequestInv, ConfigInv
<1> QED
  BY <1>4, <1>6

\* The conjunction is inductive.
LEMMA IInvariant == SafeSpec => []IInv
<1>1. TypeOK /\ RequestInv /\ LifeInv /\ LifeInv' /\ [Next]_vars
        => TypeOK' /\ RequestInv'
  <2> SUFFICES ASSUME IInv, [Next]_vars  PROVE TypeOK' /\ RequestInv'
    BY DEF IInv
  <2>1. CASE UNCHANGED vars
    BY <2>1 DEF IInv, TypeOK, RequestInv, ConfigInv, vars, setupVars, threadVars,
                requestVars
  <2> QED
    BY <2>1, MainKeeps, ReceiverKeeps, MessageKeeps, LogKeeps DEF Next
<1>2. Init => TypeOK /\ RequestInv
  BY InitIInv DEF IInv
<1>3. SafeSpec => [](TypeOK /\ RequestInv)
  BY <1>1, <1>2, LifeInvariant, PTL DEF SafeSpec
<1>4. TypeOK /\ RequestInv /\ LifeInv => IInv
  BY DEF IInv
<1> QED
  BY <1>3, <1>4, LifeInvariant, PTL

\* Every variable keeps its type.
THEOREM TypeCorrect == SafeSpec => []TypeOK
<1>1. IInv => TypeOK
  BY DEF IInv
<1> QED
  BY <1>1, IInvariant, PTL

\* With a recorder for camera 0, rows have the number of the door that was opened
\* and no request is refused whose camera is configured.
THEOREM RowsNameDoors == SafeSpec => []RowsNameTheirDoor
<1>1. IInv => RowsNameTheirDoor
  <2> SUFFICES ASSUME IInv, settings.doors >= 1, settings.cam0String
               PROVE  /\ \A r \in rows : r.camera_id = asked[r.request]
                      /\ \A n \in refused : settings.doors < 2 \/ ~settings.cam1String
    BY DEF RowsNameTheirDoor
  <2>1. \A r \in rows : r.camera_id = asked[r.request]
    BY DEF IInv, RequestInv
  <2>2. ASSUME NEW n \in refused, settings.doors >= 2, settings.cam1String
        PROVE  FALSE
    <3>1. asked[n] \in CameraIds /\ asked[n] >= Len(LoadConfiguration(settings))
      BY DEF IInv, RequestInv, TypeOK
    <3>2. Len(LoadConfiguration(settings)) = 2
      BY <2>2, Recorders DEF IInv, TypeOK
    <3> QED
      BY <3>1, <3>2 DEF CameraIds
  <2>3. settings.doors \in Int
    BY DEF IInv, TypeOK, Settings
  <2> QED
    BY <2>1, <2>2, <2>3
<1> QED
  BY <1>1, IInvariant, PTL

-----------------------------------------------------------------------------
(* Every request once *)

Handled == Len(asked) - Len(videoControlQueue)

Taken == Len(asked) - Len(videoControlQueue) - Len(current)

\* Requests are taken in their order; each that was taken has been refused, is at
\* work or is done, with one thread, and one row at most once it is done.
OnceInv ==
  /\ Taken \in Nat
  /\ \A i \in 1..Len(videoControlQueue) : videoControlQueue[i] = Handled + i
  /\ message = "process" => current[1] = Handled
  /\ refused \cup Working \cup done = 1..Taken
  /\ refused \cap (Working \cup done) = {}
  /\ Working \cap done = {}
  /\ \A j, k \in jobs : j.request = k.request => j = k
  /\ Entered \subseteq done
  /\ \A r, s \in rows : r.request = s.request => r = s

\* The counts are numbers.
LEMMA Counts ==
  ASSUME TypeOK
  PROVE  /\ Len(asked) \in Nat /\ Len(videoControlQueue) \in Nat /\ Len(current) \in Nat
         /\ Handled \in Int /\ Taken = Handled - Len(current)
         /\ message = "process" => Len(current) = 1
         /\ message # "process" => Len(current) = 0
BY DEF TypeOK, Handled, Taken

\* A request comes last in the queue.
LEMMA RequestIsAsked ==
  ASSUME TypeOK, OnceInv, NEW door \in CameraIds, Request(door)
  PROVE  OnceInv' /\ Service!Ask
<1>1. /\ Len(asked') = Len(asked) + 1
      /\ Len(videoControlQueue') = Len(videoControlQueue) + 1
      /\ videoControlQueue'[Len(videoControlQueue) + 1] = Len(asked) + 1
      /\ \A i \in 1..Len(videoControlQueue) :
           videoControlQueue'[i] = videoControlQueue[i]
  <2>1. Len(asked) + 1 \in Requests
    BY RequestsAssumption DEF Request, TypeOK, Requests
  <2> QED
    BY <2>1 DEF Request, TypeOK
<1>2. UNCHANGED <<message, current, refused, jobs, done, rows>>
  BY DEF Request, threadVars
<1>3. Taken' = Taken /\ Handled' = Handled
  BY <1>1, <1>2, Counts DEF Taken, Handled
<1>4. UNCHANGED <<Working, Entered>>
  BY <1>2 DEF Working, Entered
<1>5. \A i \in 1..Len(videoControlQueue') : videoControlQueue'[i] = Handled' + i
  <2>1. Len(asked) + 1 = Handled + (Len(videoControlQueue) + 1)
    BY Counts DEF Handled
  <2>2. \A i \in 1..Len(videoControlQueue) : videoControlQueue[i] = Handled + i
    BY DEF OnceInv
  <2>3. \A i \in 1..Len(videoControlQueue') :
          i \in 1..Len(videoControlQueue) \/ i = Len(videoControlQueue) + 1
    BY <1>1, Counts
  <2> QED
    BY <1>1, <1>3, <2>1, <2>2, <2>3
<1>6. OnceInv'
  BY <1>2, <1>3, <1>4, <1>5 DEF OnceInv
<1>7. Service!Ask
  <2>1. Len(asked) < MaxRequests
    BY DEF Request
  <2> QED
    BY <2>1, <1>1, <1>2, <1>3, <1>4 DEF Service!Ask, Taken
<1> QED
  BY <1>6, <1>7

\* Taking the request from the queue does not yet take it in hand.
LEMMA PopKeepsPlaces ==
  ASSUME TypeOK, OnceInv, MessagePop
  PROVE  OnceInv' /\ UNCHANGED Service!vars
<1>1. /\ videoControlQueue # <<>> /\ message = "pop" /\ message' = "process"
      /\ videoControlQueue' = Tail(videoControlQueue)
      /\ current' = <<Head(videoControlQueue)>>
      /\ UNCHANGED <<asked, refused, jobs, done, rows>>
  BY DEF MessagePop
<1>2. /\ Len(videoControlQueue') = Len(videoControlQueue) - 1
      /\ Len(videoControlQueue) >= 1
      /\ \A i \in 1..Len(videoControlQueue') :
           videoControlQueue'[i] = videoControlQueue[i + 1]
      /\ Len(current') = 1 /\ current'[1] = videoControlQueue[1]
  BY <1>1 DEF TypeOK
<1>3. Len(current) = 0
  BY <1>1, Counts
<1>4. Taken' = Taken /\ Handled' = Handled + 1
  BY <1>1, <1>2, <1>3, Counts DEF Taken, Handled
<1>5. UNCHANGED <<Working, Entered>>
  BY <1>1 DEF Working, Entered
<1>6. videoControlQueue[1] = Handled + 1
  BY <1>2, Counts DEF OnceInv
<1>7. \A i \in 1..Len(videoControlQueue') : videoControlQueue'[i] = Handled' + i
  <2>1. \A i \in 1..Len(videoControlQueue') : i + 1 \in 1..Len(videoControlQueue)
    BY <1>2, Counts
  <2> QED
    BY <1>2, <1>4, <2>1, Counts DEF OnceInv
<1>8. OnceInv'
  BY <1>1, <1>2, <1>4, <1>5, <1>6, <1>7 DEF OnceInv
<1> QED
  BY <1>1, <1>4, <1>5, <1>8 DEF Service!vars, Taken

\* The message thread takes the next request in hand.
LEMMA ProcessTakes ==
  ASSUME TypeOK, OnceInv, MessageProcess
  PROVE  OnceInv' /\ Service!Take
<1> DEFINE n == current[1]
           job == [request |-> n, recorder |-> asked[n] + 1]
<1>1. /\ message = "process" /\ message' = "loop" /\ current' = <<>>
      /\ UNCHANGED <<videoControlQueue, asked, done, rows>>
  BY DEF MessageProcess
<1>2. Len(current) = 1 /\ Len(current') = 0 /\ n = Handled /\ Head(current) = n
  BY <1>1, Counts DEF OnceInv, TypeOK
<1>3. /\ Handled' = Handled /\ Taken' = Taken + 1 /\ n = Taken + 1 /\ Taken \in Nat
      /\ Taken < Len(asked)
  <2>1. Taken \in Nat
    BY DEF OnceInv
  <2> QED
    BY <2>1, <1>1, <1>2, Counts DEF Taken, Handled
<1>4. 1..(Taken + 1) = 1..Taken \cup {n} /\ n \notin 1..Taken
  BY <1>3
<1>5. n \notin refused \cup Working \cup done
  BY <1>4 DEF OnceInv
<1>6. UNCHANGED Entered
  BY <1>1 DEF Entered
<1>7. \/ refused' = refused \cup {n} /\ UNCHANGED jobs
      \/ jobs' = jobs \cup {job} /\ UNCHANGED refused
  BY <1>2 DEF MessageProcess
<1>8. job.request = n
  OBVIOUS
<1>9. \/ refused' = refused \cup {n} /\ UNCHANGED <<jobs, Working>>
      \/ /\ jobs' = jobs \cup {job} /\ Working' = Working \cup {n}
         /\ UNCHANGED refused
  BY <1>7, <1>8 DEF Working
<1>10. \A j, k \in jobs' : j.request = k.request => j = k
  <2>1. \A j \in jobs : j.request # n
    BY <1>5 DEF Working
  <2> HIDE DEF job
  <2> QED
    BY <1>7, <1>8, <2>1 DEF OnceInv
<1> HIDE DEF n, job
<1>11. /\ refused' \cup Working' \cup done' = 1..Taken'
       /\ refused' \cap (Working' \cup done') = {}
       /\ Working' \cap done' = {}
  BY <1>1, <1>3, <1>4, <1>5, <1>9 DEF OnceInv
<1>12. Taken' \in Nat
  BY <1>3
<1>13. OnceInv'
  BY <1>1, <1>3, <1>6, <1>10, <1>11, <1>12 DEF OnceInv
<1>14. Service!Take
  <2>1. UNCHANGED <<Len(asked), Entered, done \ Entered>>
    BY <1>1, <1>6
  <2> QED
    BY <2>1, <1>3, <1>9 DEF Service!Take, Taken
<1> QED
  BY <1>13, <1>14

\* A cutting thread ends, once.
LEMMA LogFinishes ==
  ASSUME TypeOK, OnceInv, NEW j \in jobs, LogVideoSegment(j)
  PROVE  OnceInv' /\ \E n \in Working : Service!Finish(n)
<1> DEFINE n == j.request
           row == [request |-> n, camera_id |-> cameras_[j.recorder]]
<1>1. /\ jobs' = jobs \ {j} /\ done' = done \cup {n}
      /\ rows' = rows \cup {row} \/ rows' = rows
      /\ UNCHANGED <<message, videoControlQueue, asked, current, refused>>
  BY DEF LogVideoSegment, threadVars
<1>2. row.request = n
  OBVIOUS
<1>3. n \in Working /\ n \notin refused /\ n \notin done /\ n \notin Entered
  BY DEF OnceInv, Working
<1>4. Taken' = Taken /\ Handled' = Handled
  BY <1>1 DEF Taken, Handled
<1>5. Working' = Working \ {n}
  BY <1>1 DEF OnceInv, Working
<1>6. \/ rows' = rows \cup {row} /\ Entered' = Entered \cup {n}
      \/ rows' = rows /\ Entered' = Entered
  BY <1>1, <1>2 DEF Entered
<1>7. \A r, s \in rows' : r.request = s.request => r = s
  <2>1. \A r \in rows : r.request # n
    BY <1>3 DEF Entered
  <2> HIDE DEF row
  <2> QED
    BY <1>1, <1>2, <2>1 DEF OnceInv
<1>8. \A i, k \in jobs' : i.request = k.request => i = k
  BY <1>1 DEF OnceInv
<1> HIDE DEF n, row
<1>9. /\ refused' \cup Working' \cup done' = 1..Taken'
      /\ refused' \cap (Working' \cup done') = {}
      /\ Working' \cap done' = {}
      /\ Entered' \subseteq done'
  BY <1>1, <1>3, <1>4, <1>5, <1>6 DEF OnceInv
<1>10. OnceInv'
  BY <1>1, <1>4, <1>7, <1>8, <1>9 DEF OnceInv
<1>11. \/ Entered' = Entered \cup {n} /\ (done \ Entered)' = done \ Entered
       \/ (done \ Entered)' = (done \ Entered) \cup {n} /\ Entered' = Entered
  BY <1>1, <1>3, <1>6
<1>12. Service!Finish(n)
  BY <1>1, <1>3, <1>4, <1>5, <1>11 DEF Service!Finish, Taken
<1> QED
  BY <1>3, <1>10, <1>12

\* No other step is about a request.
LEMMA OthersKeepPlaces ==
  ASSUME TypeOK, OnceInv,
         \/ Main \/ Signal \/ ReceiverCheck \/ ReceiverHandled
         \/ MessageLoop \/ MessageNothing \/ UNCHANGED vars
  PROVE  OnceInv' /\ UNCHANGED Service!vars
<1>1. /\ UNCHANGED requestVars
      /\ message' = "process" => message = "process"
  BY DEF Main, Connect, LoadSettings, InitializeMainControl, InitializeVideoControl,
         StartVideoControl, StartMainControl, Wait, StopMainControl, JoinReceiver,
         StopVideoControl, JoinMessage, StopCameras, Unwind, Signal, ReceiverCheck,
         ReceiverHandled, MessageLoop, MessageNothing, threadVars, vars
<1> QED
  BY <1>1 DEF requestVars, OnceInv, Taken, Handled, Working, Entered, Service!vars

\* Each step keeps the invariant and is one of the service's, or none.
LEMMA EveryStep ==
  ASSUME TypeOK, OnceInv, [Next]_vars
  PROVE  OnceInv' /\ [Service!Next]_(Service!vars)
<1>1. CASE \E door \in CameraIds : Request(door)
  BY <1>1, RequestIsAsked DEF Service!Next
<1>2. CASE MessagePop
  BY <1>2, PopKeepsPlaces
<1>3. CASE MessageProcess
  BY <1>3, ProcessTakes DEF Service!Next
<1>4. CASE \E j \in jobs : LogVideoSegment(j)
  BY <1>4, LogFinishes DEF Service!Next
<1>5. CASE \/ Main \/ Signal \/ ReceiverCheck \/ ReceiverHandled
           \/ MessageLoop \/ MessageNothing \/ UNCHANGED vars
  BY <1>5, OthersKeepPlaces
<1> QED
  BY <1>1, <1>2, <1>3, <1>4, <1>5 DEF Next, Receiver, Message

\* The invariant holds from the start.
LEMMA InitOnce == Init => OnceInv /\ Service!Init
<1> SUFFICES ASSUME Init  PROVE OnceInv /\ Service!Init
  OBVIOUS
<1>1. Len(<<>>) = 0 /\ 1..0 = {}
  OBVIOUS
<1>2. /\ asked = <<>> /\ current = <<>> /\ videoControlQueue = <<>>
      /\ refused = {} /\ jobs = {} /\ done = {} /\ rows = {} /\ message = "none"
  BY DEF Init
<1>3. Taken = 0 /\ Len(asked) = 0 /\ Len(videoControlQueue) = 0
  <2>1. Len(asked) = 0 /\ Len(videoControlQueue) = 0 /\ Len(current) = 0
    BY <1>1, <1>2
  <2> QED
    BY <2>1 DEF Taken
<1>4. Working = {} /\ Entered = {}
  BY <1>2 DEF Working, Entered
<1> QED
  BY <1>1, <1>2, <1>3, <1>4 DEF OnceInv, Service!Init, Taken

\* OnceInv is inductive.
LEMMA OnceInvariant == SafeSpec => [](TypeOK /\ OnceInv)
<1>1. TypeOK /\ OnceInv /\ [Next]_vars => OnceInv'
  BY EveryStep
<1> QED
  BY <1>1, InitOnce, TypeCorrect, PTL DEF SafeSpec

\* What TLC checks as ImplementsService: through the queue and the threads every
\* request is taken in its order, once, and ends once, with a row or without.
THEOREM ServiceImplemented == SafeSpec => ImplementsService
<1>1. TypeOK /\ OnceInv /\ [Next]_vars => [Service!Next]_(Service!vars)
  BY EveryStep
<1> QED
  BY <1>1, InitOnce, OnceInvariant, PTL DEF SafeSpec, ImplementsService, Service!Spec

\* No request is lost, doubled or overtaken between the receiver and the detached
\* threads: those in the queue are the last ones asked for, in their order, and
\* each of the others is at exactly one place, with one thread and one row at most.
EveryRequestOnce ==
  LET handled == Len(asked) - Len(videoControlQueue)
      held    == {current[i] : i \in 1..Len(current)}
  IN  /\ handled >= 0
      /\ \A i \in 1..Len(videoControlQueue) : videoControlQueue[i] = handled + i
      /\ refused \cup Working \cup done \cup held = 1..handled
      /\ held \cap (refused \cup Working \cup done) = {}
      /\ refused \cap (Working \cup done) = {}
      /\ Working \cap done = {}
      /\ \A j, k \in jobs : j.request = k.request => j = k
      /\ \A r, s \in rows : r.request = s.request => r = s

\* For any number of requests, at any moment, also after main() has ended: each is
\* in the queue, in hand, refused, worked on or done.
THEOREM RequestsAreHandledOnce == SafeSpec => []EveryRequestOnce
<1>1. TypeOK /\ OnceInv => EveryRequestOnce
  <2> SUFFICES ASSUME TypeOK, OnceInv  PROVE EveryRequestOnce
    OBVIOUS
  <2> DEFINE held == {current[i] : i \in 1..Len(current)}
  <2>1. /\ Taken \in Nat /\ Taken = Handled - Len(current) /\ Handled \in Int
        /\ Len(current) = 0 \/ (Len(current) = 1 /\ current[1] = Handled)
    BY Counts DEF OnceInv
  <2>2. \/ held = {} /\ Handled = Taken
        \/ held = {Taken + 1} /\ Handled = Taken + 1
    <3>1. CASE Len(current) = 0
      BY <2>1, <3>1
    <3>2. CASE Len(current) = 1
      <4>1. 1..1 = {1}
        OBVIOUS
      <4> QED
        BY <2>1, <3>2, <4>1
    <3> QED
      BY <2>1, <3>1, <3>2
  <2>3. 1..(Taken + 1) = 1..Taken \cup {Taken + 1} /\ Taken + 1 \notin 1..Taken
    BY <2>1
  <2> HIDE DEF held
  <2>4. /\ Handled >= 0
        /\ refused \cup Working \cup done \cup held = 1..Handled
        /\ held \cap (refused \cup Working \cup done) = {}
    BY <2>1, <2>2, <2>3 DEF OnceInv
  <2> QED
    BY <2>4 DEF OnceInv, EveryRequestOnce, Handled, held
<1> QED
  BY <1>1, OnceInvariant, PTL
=============================================================================
