------------------------------- MODULE PassFlow -------------------------------
(***************************************************************************)
(* The program from main() to its end (src/main.cpp): the database, the    *)
(* settings and the recorders they make (VideoControl::loadConfiguration), *)
(* the start of both components, the requests for segments that go from    *)
(* MainControl's receiver thread through videoControlQueue to messageLoop, *)
(* and the stop after a signal.                                            *)
(*                                                                         *)
(* What happens inside a thread is left to the other modules: the receiver *)
(* thread makes requests for any door (DoorMonitor says which and when),   *)
(* the queue is the channel of FifoChannel, a recorder is running or not   *)
(* (CameraRecorder), and the detached thread of a segment cuts it, enters  *)
(* it in the database, which may fail, and ends.                           *)
(***************************************************************************)
EXTENDS Integers, Sequences

CONSTANT MaxRequests  \* bound on the requests; the code has none

ASSUME RequestsAssumption == MaxRequests \in Nat

\* Doors and their cameras have the same numbers.
CameraIds == {0, 1}

\* A row of table settings: the number of doors, and which cameras have a
\* connection string.  Cameras without one are what the schema defaults to.
Settings == [doors : 0..3, cam0String : BOOLEAN, cam1String : BOOLEAN]

VARIABLES
  main,               \* where main() is
  g_running,
  settings,
  connected,          \* MySqlComm::connection_ is not null
  cameras_,           \* the camera ids of VideoControl::cameras_
  watching,           \* MainControl::running_
  receiver,           \* where the receiver thread is
  listening,          \* VideoControl::running_
  message,            \* where the message thread is
  recording,          \* the indices of the recorders that were started
  videoControlQueue,  \* requests by their numbers
  asked,              \* the camera each request is for
  current,            \* the request the message thread has taken, or <<>>
  refused,            \* requests with an invalid camera id
  jobs,               \* the detached threads: which request, which recorder
  done,               \* requests whose thread has ended
  rows                \* table video_segments: the request and camera_id

setupVars == <<settings, connected, cameras_>>

requestVars == <<videoControlQueue, asked, current, refused, jobs, done, rows>>

threadVars == <<watching, receiver, listening, message, recording>>

vars == <<main, g_running, setupVars, threadVars, requestVars>>

Requests == 1..MaxRequests

\* Types; and the message thread has a request exactly while it processes one.
TypeOK ==
  /\ main \in {"database", "settings", "mainControl", "videoControl", "startVideo",
               "startMain", "run", "stopMain", "joinReceiver", "stopVideo",
               "joinMessage", "stopCameras", "unwind", "ended"}
  /\ g_running \in BOOLEAN
  /\ settings \in Settings
  /\ connected \in BOOLEAN
  /\ cameras_ \in Seq(CameraIds)
  /\ watching \in BOOLEAN /\ listening \in BOOLEAN
  /\ receiver \in {"none", "check", "handle", "done"}
  /\ message \in {"none", "loop", "pop", "process", "done"}
  /\ recording \subseteq Nat
  /\ videoControlQueue \in Seq(Requests)
  /\ asked \in Seq(CameraIds) /\ Len(asked) <= MaxRequests
  /\ current \in Seq(Requests)
  /\ Len(current) = IF message = "process" THEN 1 ELSE 0
  /\ refused \subseteq Requests /\ done \subseteq Requests
  /\ jobs \subseteq [request : Requests, recorder : Nat]
  /\ rows \subseteq [request : Requests, camera_id : CameraIds]

\* The constructor leaves settings_.doors uninitialized; the strings are empty.
Init ==
  /\ main = "database"
  /\ g_running = TRUE
  /\ settings \in [doors : 0..3, cam0String : {FALSE}, cam1String : {FALSE}]
  /\ connected = FALSE
  /\ cameras_ = <<>>
  /\ watching = FALSE /\ receiver = "none"
  /\ listening = FALSE /\ message = "none"
  /\ recording = {}
  /\ videoControlQueue = <<>> /\ asked = <<>> /\ current = <<>>
  /\ refused = {} /\ jobs = {} /\ done = {} /\ rows = {}

Go(from, to) == main = from /\ main' = to

-----------------------------------------------------------------------------
(* main(): initialization *)

\* There may be no server.
Connect ==
  /\ \/ Go("database", "settings") /\ connected' = TRUE
     \/ Go("database", "unwind") /\ connected' = FALSE
  /\ UNCHANGED <<g_running, settings, cameras_, threadVars, requestVars>>

\* There may be no row, or a number that is none, which is noticed before the
\* strings are taken over.
LoadSettings ==
  /\ \/ /\ Go("settings", "mainControl")
        /\ settings' \in Settings
     \/ /\ Go("settings", "unwind")
        /\ \/ UNCHANGED settings
           \/ \E doors \in 0..3 : settings' = [settings EXCEPT !.doors = doors]
  /\ UNCHANGED <<g_running, connected, cameras_, threadVars, requestVars>>

\* There may be no device to open.
InitializeMainControl ==
  /\ Go("mainControl", "videoControl") \/ Go("mainControl", "unwind")
  /\ UNCHANGED <<g_running, setupVars, threadVars, requestVars>>

\* Mutant: camera 1 only for a bus of more than two doors.
LoadConfigurationOneLess(s) ==
  (IF s.doors >= 1 /\ s.cam0String THEN <<0>> ELSE <<>>)
    \o (IF s.doors > 2 /\ s.cam1String THEN <<1>> ELSE <<>>)

LoadConfiguration(s) ==
  (IF s.doors >= 1 /\ s.cam0String THEN <<0>> ELSE <<>>)
    \o (IF s.doors >= 2 /\ s.cam1String THEN <<1>> ELSE <<>>)

\* A recorder's directories may fail to be created, which ends the program
\* just as having no recorder does; a recorder made before goes with the rest.
InitializeVideoControl ==
  /\ \/ /\ Go("videoControl", "startVideo")
        /\ cameras_' = LoadConfiguration(settings)
        /\ cameras_' # <<>>
     \/ /\ Go("videoControl", "unwind")
        /\ UNCHANGED cameras_
  /\ UNCHANGED <<g_running, settings, connected, threadVars, requestVars>>

-----------------------------------------------------------------------------
(* main(): start, wait for the signal, stop *)

StartVideoControl ==
  /\ Go("startVideo", "startMain")
  /\ listening' = TRUE
  /\ recording' = 1..Len(cameras_)
  /\ message' = "loop"
  /\ UNCHANGED <<g_running, setupVars, watching, receiver, requestVars>>

StartMainControl ==
  /\ Go("startMain", "run")
  /\ watching' = TRUE
  /\ receiver' = "check"
  /\ UNCHANGED <<g_running, setupVars, listening, message, recording, requestVars>>

\* SIGTERM, at any time, or SIGINT.  (While a thread is in system(), which POSIX
\* makes ignore it, a SIGINT is no signal at all: the user presses Ctrl+C again.)
Signal ==
  /\ g_running
  /\ main # "ended"
  /\ g_running' = FALSE
  /\ UNCHANGED <<main, setupVars, threadVars, requestVars>>

Wait ==
  /\ ~g_running
  /\ Go("run", "stopMain")
  /\ UNCHANGED <<g_running, setupVars, threadVars, requestVars>>

StopMainControl ==
  /\ Go("stopMain", "joinReceiver")
  /\ watching' = FALSE
  /\ UNCHANGED <<g_running, setupVars, receiver, listening, message, recording,
                 requestVars>>

\* Mutant: stop() does not wait for the thread.
JoinReceiverEarly ==
  /\ Go("joinReceiver", "stopVideo")
  /\ UNCHANGED <<g_running, setupVars, threadVars, requestVars>>

JoinReceiver ==
  /\ Go("joinReceiver", "stopVideo")
  /\ receiver = "done"
  /\ UNCHANGED <<g_running, setupVars, threadVars, requestVars>>

StopVideoControl ==
  /\ Go("stopVideo", "joinMessage")
  /\ listening' = FALSE
  /\ UNCHANGED <<g_running, setupVars, watching, receiver, message, recording,
                 requestVars>>

JoinMessage ==
  /\ Go("joinMessage", "stopCameras")
  /\ message = "done"
  /\ UNCHANGED <<g_running, setupVars, threadVars, requestVars>>

\* Mutant: only the first recorder is stopped.
StopCamerasFirst ==
  /\ Go("stopCameras", "unwind")
  /\ recording' = recording \ {1}
  /\ UNCHANGED <<g_running, setupVars, watching, receiver, listening, message,
                 requestVars>>

\* One recorder after the other; each stop() joins the record thread.
StopCameras ==
  /\ main = "stopCameras"
  /\ IF recording = {}
     THEN main' = "unwind" /\ UNCHANGED recording
     ELSE \E i \in recording :
            /\ \A j \in recording : i <= j
            /\ recording' = recording \ {i}
            /\ UNCHANGED main
  /\ UNCHANGED <<g_running, setupVars, watching, receiver, listening, message,
                 requestVars>>

\* The destructors: the components, whose stop() does nothing any more, with
\* them the recorders, and at last the database connection.
Unwind ==
  /\ Go("unwind", "ended")
  /\ connected' = FALSE
  /\ cameras_' = <<>>
  /\ UNCHANGED <<g_running, settings, threadVars, requestVars>>

Main ==
  \/ Connect \/ LoadSettings \/ InitializeMainControl \/ InitializeVideoControl
  \/ StartVideoControl \/ StartMainControl \/ Wait
  \/ StopMainControl \/ JoinReceiver \/ StopVideoControl \/ JoinMessage
  \/ StopCameras \/ Unwind

-----------------------------------------------------------------------------
(* The receiver thread *)

ReceiverCheck ==
  /\ receiver = "check"
  /\ receiver' = IF watching THEN "handle" ELSE "done"
  /\ UNCHANGED <<main, g_running, setupVars, watching, listening, message, recording,
                 requestVars>>

\* A door has closed; other statuses of the same read() may follow.
Request(door) ==
  /\ receiver = "handle"
  /\ Len(asked) < MaxRequests
  /\ asked' = Append(asked, door)
  /\ videoControlQueue' = Append(videoControlQueue, Len(asked) + 1)
  /\ UNCHANGED <<main, g_running, setupVars, threadVars, current, refused, jobs, done,
                 rows>>

\* All statuses of the read() are handled.
ReceiverHandled ==
  /\ receiver = "handle"
  /\ receiver' = "check"
  /\ UNCHANGED <<main, g_running, setupVars, watching, listening, message, recording,
                 requestVars>>

Receiver == ReceiverCheck \/ ReceiverHandled \/ \E door \in CameraIds : Request(door)

-----------------------------------------------------------------------------
(* messageLoop *)

\* Mutant: the loop does not look at running_.
MessageLoopForever ==
  /\ message = "loop"
  /\ message' = "pop"
  /\ UNCHANGED <<main, g_running, setupVars, watching, receiver, listening, recording,
                 requestVars>>

MessageLoop ==
  /\ message = "loop"
  /\ message' = IF listening THEN "pop" ELSE "done"
  /\ UNCHANGED <<main, g_running, setupVars, watching, receiver, listening, recording,
                 requestVars>>

\* Mutant: the thread ends when there is nothing to do.
MessageNothingEnds ==
  /\ message = "pop"
  /\ videoControlQueue = <<>>
  /\ message' = "done"
  /\ UNCHANGED <<main, g_running, setupVars, watching, receiver, listening, recording,
                 requestVars>>

\* tryPop(100 ms) gives up, or the queue is shut down.
MessageNothing ==
  /\ message = "pop"
  /\ videoControlQueue = <<>>
  /\ message' = "loop"
  /\ UNCHANGED <<main, g_running, setupVars, watching, receiver, listening, recording,
                 requestVars>>

MessagePop ==
  /\ message = "pop"
  /\ videoControlQueue # <<>>
  /\ current' = <<Head(videoControlQueue)>>
  /\ videoControlQueue' = Tail(videoControlQueue)
  /\ message' = "process"
  /\ UNCHANGED <<main, g_running, setupVars, watching, receiver, listening, recording,
                 asked, refused, jobs, done, rows>>

\* Mutant: the request is forgotten only when the next one comes.
MessageProcessKeeps ==
  /\ message = "process"
  /\ LET n == Head(current)
     IN  IF asked[n] < Len(cameras_)
         THEN /\ jobs' = jobs \cup {[request |-> n, recorder |-> asked[n] + 1]}
              /\ UNCHANGED refused
         ELSE /\ refused' = refused \cup {n}
              /\ UNCHANGED jobs
  /\ message' = "loop"
  /\ UNCHANGED <<main, g_running, setupVars, watching, receiver, listening, recording,
                 videoControlQueue, asked, current, done, rows>>

\* The camera id is taken for an index of cameras_ (which in C++ starts with 0).
\* processStartStopMessage starts the thread that cuts.
MessageProcess ==
  /\ message = "process"
  /\ LET n == Head(current)
     IN  IF asked[n] < Len(cameras_)
         THEN /\ jobs' = jobs \cup {[request |-> n, recorder |-> asked[n] + 1]}
              /\ UNCHANGED refused
         ELSE /\ refused' = refused \cup {n}
              /\ UNCHANGED jobs
  /\ current' = <<>>
  /\ message' = "loop"
  /\ UNCHANGED <<main, g_running, setupVars, watching, receiver, listening, recording,
                 videoControlQueue, asked, done, rows>>

Message == MessageLoop \/ MessageNothing \/ MessagePop \/ MessageProcess

-----------------------------------------------------------------------------
(* The detached threads *)

\* Mutant: the thread tries again, not knowing whether the row is there.
LogVideoSegmentAgain(j) ==
  /\ main # "ended"
  /\ \/ /\ jobs' = jobs \ {j}
        /\ done' = done \cup {j.request}
     \/ UNCHANGED <<jobs, done>>
  /\ rows' = rows \cup {[request |-> j.request, camera_id |-> cameras_[j.recorder]]}
  /\ UNCHANGED <<main, g_running, setupVars, threadVars, videoControlQueue, asked,
                 current, refused>>

\* The row has the recorder's own camera id.  When the process has ended, so
\* have its threads.
LogVideoSegment(j) ==
  /\ main # "ended"
  /\ jobs' = jobs \ {j}
  /\ done' = done \cup {j.request}
  /\ \/ rows' = rows \cup {[request |-> j.request, camera_id |-> cameras_[j.recorder]]}
     \/ UNCHANGED rows
  /\ UNCHANGED <<main, g_running, setupVars, threadVars, videoControlQueue, asked,
                 current, refused>>

-----------------------------------------------------------------------------

Next ==
  \/ Main
  \/ Signal
  \/ Receiver
  \/ Message
  \/ \E j \in jobs : LogVideoSegment(j)

\* main() and the threads go on, and a cutting process ends.  Nobody is obliged
\* to send a signal.
Fairness ==
  /\ WF_vars(Main)
  /\ WF_vars(ReceiverCheck \/ ReceiverHandled)
  /\ WF_vars(Message)
  /\ \A n \in Requests, i \in 1..2 :
       LET j == [request |-> n, recorder |-> i]
       IN  WF_vars(j \in jobs /\ LogVideoSegment(j))

SafeSpec == Init /\ [][Next]_vars

Spec == SafeSpec /\ Fairness

-----------------------------------------------------------------------------
(* Properties *)

\* As long as the doors are watched, from the start to the last status of the
\* last batch, every recorder is running and the message thread listens: the
\* orders in which main() starts and stops the components fit.
ListenersWhileWatching ==
  receiver \in {"check", "handle"} =>
    /\ message \notin {"none", "done"}
    /\ listening
    /\ recording = 1..Len(cameras_)

\* Whether it fails to start or is stopped by a signal at whatever moment, when
\* main() returns every thread that a destructor would find joinable has been
\* joined (std::thread would terminate the program otherwise).
NoThreadIsLeft ==
  main = "ended" =>
    /\ receiver \in {"none", "done"}
    /\ message \in {"none", "done"}
    /\ recording = {}

Working == {j.request : j \in jobs}

Entered == {r.request : r \in rows}

Service == INSTANCE SegmentService WITH
  asked   <- Len(asked),
  taken   <- Len(asked) - Len(videoControlQueue) - Len(current),
  working <- Working,
  entered <- Entered,
  failed  <- done \ Entered

\* The threads and the queue between them keep the promise of SegmentService.
ImplementsService == Service!Spec

\* When camera 0 has a recorder, each row of video_segments has the number of the
\* door that was opened, and no request is refused whose camera is configured.
RowsNameTheirDoor ==
  settings.doors >= 1 /\ settings.cam0String =>
    /\ \A r \in rows : r.camera_id = asked[r.request]
    /\ \A n \in refused : settings.doors < 2 \/ ~settings.cam1String

\* A signal ends the program, at whatever moment it comes.
SignalEnds == ~g_running ~> (main = "ended")

\* Every request is served or refused, unless the program is stopped before.
RequestsAreServed ==
  \A n \in Requests :
    (n <= Len(asked)) ~> (n \in refused \cup done \/ ~g_running)
=============================================================================
