# PassFlow: a formal model

PassFlow records what happens at the doors of a bus.  A peripheral on a serial
port reports the state of doors, covers and power; the program enters changes
in a database, switches cameras and lights, and cuts out of continuous camera
recordings the segments during which a door was open.

This directory holds TLA+ modules translated from `src/`, configurations that
check them with TLC, and theorems that TLAPS proves for every value of the
constants.  `PROJECT.json` lists the parts, the runs, the source lines of every
definition, the hazards and the findings.

## 1. Inventory

### Components

| component | state | operations | correct when |
|---|---|---|---|
| `MessageQueue<T>` (`include/MessageQueue.h`) | queue, mutex, condition variable, shutdown flag | `push`, `pop`, `tryPop`, `requestShutdown` | it is a FIFO channel; nobody waits beside a message or after a shutdown |
| `MainControl`, handling of statuses (`src/MainControl.cpp:292-442`) | current and previous status, per door: open flag and time | `processSystemStatus`, `compareAndLogChanges` | one event per change; one segment request per complete opening; commands follow the doors |
| `MainControl`, threads (`:168-290`) | `running_`, port, receiver and sender thread, `outgoingQueue_` | `start`, `stop`, `receiverLoop`, `senderLoop` | port used only while open; the peripheral follows the doors; `stop()` returns |
| serial protocol (`:205-260`) | the byte waiting for its complement | `receiverLoop`'s pairing, `validateStatusMessage` | only statuses that were sent are handled |
| port discovery (`:35-166`) | none of its own | `findCH340Device`, `openSerialPort`, `configureSerialPort` | I/O at start-up |
| `CameraRecorder` (`src/VideoControl.cpp:11-272`) | current file and its start time, mutex, record thread, detached threads, ffmpeg processes | `start`, `stop`, `recordLoop`, `startFFmpeg`, `stopFFmpeg`, `processStartStopMessage`, `extractAndProcessSegment`, `cleanupOldVideos` | there is always a recording; the segment cut is the one asked for and is kept as long as it should be; nothing is left running |
| `VideoControl` (`:276-426`) | recorders, message thread | `loadConfiguration`, `start`, `stop`, `messageLoop` | a request reaches the camera of its door |
| `MySqlComm` (`src/MySqlComm.cpp`) | connection, mutex, settings | `initialize`, `loadSettings`, `logEvent`, `logVideoSegment`, `reconnect` | rows fit the schema; settings are complete |
| `main` (`src/main.cpp`) | signal flag | construct, initialise, start, wait, stop | orderly end |
| `Logger`, types and formatting (`Logger.h`, `Common.h`) | a file | `log`, `formatTimestamp` | no property depends on them |

### Interactions

    peripheral --bytes--> receiver --statuses--> processSystemStatus --events--> MySqlComm
                                                  |            |
                                     outgoingQueue_            videoControlQueue
                                                  v            v
    peripheral <--commands--- sender            messageLoop --> CameraRecorder --> ffmpeg
                                                                  ^      |
                                              record thread ------+      +--> detached thread --> MySqlComm

Threads: main; receiver and sender of `MainControl`; the message thread of
`VideoControl`; per camera a record thread and, per segment, a detached thread.
They share two `MessageQueue`s, the atomic flags `running_`, the port, per
camera the current file name with its `fileMutex_`, and the database
connection with its mutex.

### What is hard

* Concurrency: the queue's condition variable with time-outs; `stop()` against
  threads in the middle of a batch; the record thread's check against the
  message thread's switch of files, which are not atomic to each other; reads
  of the current file outside the mutex.
* Failure: lost bytes and flipped bits, failed writes and inserts, an ffmpeg
  process that dies, a shutdown with work on its way.
* Ordering and time: file names of one-second resolution, segments cut after
  the next recording has begun, a clock that may be set back between an opening
  and its closing, a date computed twice across midnight, the age of a file
  against a number of days nobody checks.
* Ends and restarts: files and rows outlive the threads that were making them,
  counters do not.

`PROJECT.json` lists the hazards one by one, at the line where each bites.

## 2. Modules

| module | models | extends / uses |
|---|---|---|
| `FifoChannel` | what a queue between threads promises | |
| `MessageQueue` | `MessageQueue<T>` | `INSTANCE FifoChannel` as its abstraction |
| `MessageQueueProofs` | theorems about it | `MessageQueue`, TLAPS |
| `DoorMonitor` | `processSystemStatus` and `compareAndLogChanges` | |
| `DoorMonitorProofs` | theorems about it | `DoorMonitor`, TLAPS |
| `DoorHistory` | the statuses processed, as a history variable, and a reference definition of the requests | `DoorMonitor` |
| `MCDoorMonitor` | sets of statuses for TLC | `DoorHistory` |
| `DoorHistoryProofs` | theorems about the requests | `DoorHistory`, TLAPS |
| `StatusLink` | the serial line and the pairing of bytes | |
| `StatusLinkProofs` | theorems about it | `StatusLink`, TLAPS |
| `MainControl` | `MainControl`'s threads around the handler | `INSTANCE DoorMonitor` |
| `CommandHistory` | the commands handed to `write()`, as a history variable | `MainControl`; `INSTANCE DoorMonitor` as its abstraction |
| `MCMainControl` | sets of statuses for TLC, and the fairness of `MainControl` | `CommandHistory` |
| `MainControlProofs` | theorems about `MainControl` and `CommandHistory` | `CommandHistory`, `INSTANCE DoorMonitorProofs`, TLAPS |
| `CameraRecorder` | one camera: record, message, main and detached threads, and ffmpeg | |
| `CameraRecorderProofs` | theorems about it | `CameraRecorder`, `INSTANCE SegmentService` as its abstraction, TLAPS |
| `SegmentFiles` | the segments of a camera on disk and in the database, their deletion, the end and restart of the program | |
| `SegmentFilesProofs` | theorems about it | `SegmentFiles`, TLAPS |
| `SegmentService` | what the program promises about the segments asked for | |
| `PassFlow` | the program from `main()` to its end: settings, start and stop of all components, requests on their way to two cameras | `INSTANCE SegmentService` as its abstraction |
| `PassFlowProofs` | theorems about it | `PassFlow`, TLAPS |

Each definition that stands for code has its lines in `PROJECT.json` under
`map`.  Definitions whose comment begins with "Mutant:" are not part of the
model: each is a definition as a plausible bug would have it, and the property
named with it in `PROJECT.json` is violated when it takes the definition's place.

### How the modules correspond to the code

*MessageQueue.*  One action per critical section.  A consumer is outside, about
to lock, blocked on the condition variable, or awake and about to lock again; `timedOut` says
that the wait of a `tryPop` is over.  A consumer that wakes re-evaluates the
predicate and blocks again or takes the front; `Timeout` may happen between any
two steps and a time-out does not use up a notification.  `SpuriousWakeup` is
the standard library's.  `empty`, `size` and `isShutdown` only read and are left out.

*DoorMonitor.*  One action, the whole handler: events for every input that
differs from the last status (each insert may fail, which is only logged), the
camera and light commands, the open flag and time of each door, the segment
request, and the take-over of the status.  Doors and other inputs are strings;
the event text and the time stamp of an event are left out; the events of each
input are a sequence of their own, so that their order among the inputs of one
status is not kept.  The clock is any sequence of readings, not only rising ones.

*StatusLink.*  A byte is a function from bit positions; the line loses bytes and
flips bits.  The receiver reads byte by byte: the byte that waits for its
complement is kept between calls of `read()`, so the batch does not matter here.
In the code the pending byte is a local variable of the receiver thread.

*MainControl.*  A statement-level model of the four functions where their
threads can meet: a loop's test of `running_`, the `read`, the handling of one
status of the batch, the `tryPop`, the `write`, each join and the close.  The handler
is `DoorMonitor`'s action and the queue is `FifoChannel`'s.  A `write` may fail; the
command is then gone, as in the code.  `lastWrite` is a history variable: how the last
`write` for each camera and light went.  `peripheral` is the state of the devices, and
`Init` leaves it open: neither the constructor nor `start()` sends anything, and systemd
may restart the program while a camera is on.

*CameraRecorder.*  Time passes in half seconds, without end, and `rest` counts down the
sleeps (1 s in `recordLoop`, 2 s before a restart, 1 s in `stopFFmpeg` with the
mutex held, 0.5 s before the new recording); a thread may oversleep.  A file is
named after the second of its start: `nameNow` is the name of the current second, if
one was used, and the code can only compare names, so a name nothing refers to any
more (`InUse`) is used again.  ffmpeg processes are external: `recorders` counts
the live ones per file, `pkill -f` and `pgrep -f` go by that file.  (The shell that
`system()` starts for `pgrep -f` is taken not to be found by it.)  The read of
`currentVideoFile_` without the mutex is two steps and may come out torn:
`CheckResults` holds every result the command may then have.  `due` is what is left
until the stop time of the segment in hand.  A detached thread ends with its row
entered or with a failed `INSERT`, which `processStartStopMessage` ignores.

*SegmentFiles.*  One detached thread per segment (`Begin`, `Write`, `EndCut`,
`LogVideoSegment`), the record thread as far as its counter and `cleanupOldVideos` go
(`RecordLoop`, then one `Visit` per directory entry), and the end of the program, at any
moment and any number of times, with its restart by systemd (`src/passflow.service:11`).
A path is a day and a segment, since a file's name is made of times in
milliseconds; the day in the path of the file is that of `Begin`, the day in the row
that of `LogVideoSegment`.  The cleanup may or may not meet a file that comes into being
after it began, as a directory iterator may.  `Range` stands for the 2^63 nanoseconds
of the clock, and `Cutoff` wraps around like the code.  Settings are read once; that
somebody changes the number of days between two starts is left out.

*PassFlow.*  `main` is the place in `main()`; every statement that meets a thread
is an action: the initializations, of which each may fail, the two starts,
the wait for the signal, and the statements of the two `stop()`s; `MySqlComm::initialize` is
its two calls, `Connect` and `LoadSettings`.  What the destructors
do is `Unwind`: after a failed initialization nothing has been started, and after the stops
`running_` is false, so they only release.  The threads are reduced to what this level
can tell apart.  The receiver is at its test of `running_` or in a batch, where it
may ask for segments of either camera; which and when is `DoorMonitor`'s matter, and this
module allows more.  `videoControlQueue` is the channel of `FifoChannel` with one
consumer.  A recorder is running or not.  A job is a detached thread of
`processStartStopMessage`; it may enter its row or fail to, and dies with the
process.  The sender thread is `MainControl`'s and takes no part.  Sequences start
with 1 in TLA+, so camera id `c` is index `c + 1` of `cameras_`.

## 3. Runs

Passing runs (each property of each also has a mutant it catches):

| run | specification and bounds | shows |
|---|---|---|
| `queue` | 2 consumers, 2 messages, queue of 3; with fairness | types; no lost wake-up; release at shutdown; refinement of `FifoChannel` including its fairness; every call returns after a shutdown |
| `doors` | 2 doors, all statuses, 2 clock readings, 5 statuses | events alternate; commands follow the doors; the requests are exactly those a reference definition derives from the history of the statuses; while the clock is not set back, they last as long as the delays and follow each other |
| `main_control` | one door, batches of up to 2, 3 statuses, devices found in any state; with fairness | the port is open while used; what is on the way to the peripheral brings it to where the door wants it; every command queued is handed to `write()` unless the program is stopped; `stop()` returns; with their queue the threads implement `DoorMonitor`: what is written, being written and queued is what the handler pushes for the statuses processed |
| `status_link` | 2-bit bytes, 3 messages, 2 lost bytes, 2 flips | statuses are those sent when the line is intact; whole messages are sound; mixed ones repeat; a shifted pairing stays |
| `recorder` | 1 segment, 1 recording that dies, endless time; with fairness | there is a file to record into except during a switch; no segment is cut from the current one, so that a later switch spares the cutting; a dead recording is replaced; `stop()` returns; every request's thread comes to its end, with a row or a failed `INSERT` |
| `segment_files` | 2 segments, one of which cannot be deleted; 2 units to a day, two midnights, cleanup every second turn, ends and restarts without bound; settings of one sound and one overflowing number of days; with fairness | segments are kept for their days; no file is removed within its days; old files go while one run of the program lasts, unless an undeletable one stops every pass |
| `passflow` | 3 requests, 0 to 3 doors, all connection strings; with fairness | recorders and message thread run whenever the doors are watched; no joinable thread is left, however the program ends; requests are handled once and in order, which is to implement `SegmentService`, and are served unless a signal comes; rows name their doors when camera 0 is configured; a signal ends the program |

Runs that end in a violation, each of a sentence the repository says of itself:

| run | sentence | what happens |
|---|---|---|
| `status_integrity` | "XOR check ensures message integrity" (`src/CHANGES_MYSQLCOMM.md:55`) | one lost byte and a repeated status: the inverted status is accepted |
| `stop_kills_recorders` | "Kill ffmpeg processes for this camera" (`src/src/VideoControl.cpp:79`) | the record thread takes a switch of files for a crash; two recordings run, one is never killed |
| `offset_from_source` | "Extracts video segments based on door open/close timestamps" (`src/README.md:142`) | the offset is reckoned from the start of the file after the one it is cut from, and clamped to 0 |
| `recorded_to_stop_time` | "Seconds after DOOR_CLOSE to stop video" (`src/database_schema.sql:14`) | the file is stopped when the request comes, at the closing; what follows is in the next file |
| `rows_lead_to_files` | "Path to video file" (`src/database_schema.sql:51`) | nothing is cut (no source, or ffmpeg failed) and the row is entered all the same; across midnight a row also names the wrong directory: the property with `\A p \in outputDir_ : p.segment = r.segment => p = r` in place of `r \in outputDir_` is violated as well, which was checked beside the runs |

### Why the bounds are enough

* Two consumers allow one to time out or to be notified while the other stays
  blocked; two distinguishable messages show a wrong order.  The safety part, the
  refinement included, holds for every number by theorem.
* Five statuses are: how things are, an opening, a closing, an opening again and
  a closing, of either door, together or not.  Two clock readings in any order include a clock set back.
* Three statuses are a closed door, its opening and its closing: two commands for
  each device.  Batches of two leave one status unprocessed when `stop()` is called.
  The second door shares nothing with the first but the queue; the theorems cover both, and the
  refinement was also checked with both doors moving and every device off at first (1.1 million states), beside the runs.
* Two bits distinguish a byte, its complement and two others.  After two lost
  bytes the pairing may be shifted and be right again; a third loss repeats the first.
* One segment and one death meet the record thread at each of its places, before, during
  and after the switch, since time has no bound.  Five names are enough for one
  segment: six give the same number of states.  The safety properties were also
  checked with two segments, one death and seven names (3.6 million states), and hold for every number by
  theorem; so was the refinement of `SegmentService`, which needs two segments to say anything about their
  order.  The violations are found with two segments.
* Two segments, one that stays and one that does not, give each order in which the iterator may
  come to them.  Four units of time are two midnights, with days of two units; a number
  of four days overflows a clock of range five, one day does not.  A cleanup every
  second turn leaves room for a turn without.  The program may end and start again without
  bound, inside a cutting or a cleanup; one segment is enough for a row without a file.
* Three requests are one in the queue, one at the message thread and one being cut, or two at
  the same recorder.  The settings are all there are as far as `loadConfiguration` reads them,
  three doors standing for more than two.

`CHECK_DEADLOCK FALSE` is set where the system really stops: after `stop()`, when the
program has ended, when the bounded statuses are used up, or, for the line, when
nothing is left to receive.  `MessageQueue`, `CameraRecorder` (where time goes on) and
`SegmentFiles` never stop; there deadlock is checked.

### Fairness

* `MessageQueue`: a thread that wants the mutex gets it, and the wait of
  `tryPop` ends.  The limit of `wait_for` does not start again when a consumer
  wakes and blocks anew, so its end is required of a consumer that is blocked
  again and again (strong fairness).  `pop()` has no limit and nothing is assumed of it;
  nobody is obliged to push or to call.
* `MainControl`: both threads run (`read` is non-blocking, `tryPop` ends after
  100 ms, a database query returns), and `stop()` once called goes on.  Nobody is obliged to call it.
* `CameraRecorder`: threads run, time passes (`WF_vars(Tick)`), a cutting ffmpeg ends.  The threads
  compete for `fileMutex_`; each sleeps or waits for a message between two of its
  critical sections, so none is passed over for ever (strong fairness of the steps that lock).
* `SegmentFiles`: while the program runs, the record thread turns and gets on with a cleanup, cutting and
  queries end.  Nothing is assumed of the restart: systemd restarts a program that failed, not one that
  ended in order or keeps failing.  `OldFilesGo` is therefore about one run that lasts.
* `PassFlow`: `main()` goes on, loops of threads turn (their calls return, see
  above), a segment's cutting ends.  Nobody is obliged to send a signal, and no door to open.

## 4. Theorems

`MessageQueueProofs`, for any set of consumers, any set of messages and any
bound:

* `TypeCorrect`, `NoWakeupLost`, `ShutdownReleases`: the conjunction of the three
  is inductive.  The point of `NoLostWakeup` is to count the awake
  consumers against the messages: a push adds a message and, if anyone is
  blocked, an awake consumer; a consumer that takes a message leaves with it;
  one that finds nothing blocks only when there is no message; a time-out
  only adds to the awake.
* `Refinement`: `SafeSpec => Channel!SafeSpec`; each action of the queue is a step of
  `FifoChannel` or a stutter.

`DoorMonitorProofs`, for any inputs, statuses, clock readings and delays:

* `TypeCorrect`; a lemma, `SeenDoors` (a door whose opening is being timed is open in the
  current status), inductive with the types; `EventsAreHistory`, where the strengthening says
  that the last stored event of an input that lost none is its current value, and lemmas
  say what appending an event does to alternation.
* `CommandsFollow`, inductive with the types and `SeenDoors`: lemmas say what appending a
  command for one device does to the alternation of its own commands and of another's.

`DoorHistoryProofs`, for any statuses in any order and number, any clock readings and delays:

* `OneRequest`.  The invariant ties the flags to the history (`FlagsInv`): a door is timed exactly
  if it opened at some status received and is open in all since, and the time kept is the time of
  that status.  A status then adds to the openings those it completes, at most one per door
  (`OpeningsGrow`), which is when the handler adds a request; each is placed behind all openings before it,
  `door_0` before `door_1`, and the places of the old ones stay (`CountOneMore`, `DoorAdds`), so
  the n-th request is that of the opening with place n (`RequestsKept`).
* `RequestsSpan`, inductive with the invariant above: the openings requested so far were closed
  no later than the last status came, and those of a door no later than its opening in progress began; the hypothesis about the clock is kept by taking
  the last status away (`ClockKept`).

`MainControlProofs`, for any statuses, clock readings, delays and batch sizes:

* `PortIsOpen`, from an invariant that ties the place of `stop()` to that of the
  threads: past a join the thread has ended.
* `TypeCorrect`, which needs that the two threads are started together: `start()` puts the
  sender at the head of its loop, where it must hold no command.
* `FollowsDoors`, for whatever state the devices are found in, inductive with the types and without a
  word about their first state.  `KnownOn` takes
  for a device what its last write says of it: its state if that succeeded, off if there was none, whatever
  suits if it failed.  `BringsTo(s, id, on, wanted)` says
  where the commands of `s` leave a device; lemmas say what appending the
  commands of one door, of the other door, and writing the first command do to it.
* `Implements`: `HistorySpec => ImplementsMonitor`.  The handling of a status appends to the queue,
  hence to all that was ever pushed (`PushedBehind`); the sender's `tryPop` and `write` only move
  commands along (`PopKeepsOrder`); every other step is a stutter of the handler (`OthersStutter`).
* `CommandsAlternate` and `EventsAreKept`: the theorems of `DoorMonitorProofs`, by `INSTANCE`,
  for the program with its threads.  The commands they speak of are those written,
  being written and queued.

`StatusLinkProofs`, for bytes of any width and any numbers of messages, losses and flips:

* `TypeCorrect`.  No flip is counted that is not on a byte (`FlipsInv`).
* `ShiftStays`, from `OrderInv`: the byte at place `i` of the line is the `i`-th of those not
  yet received, or a later one by as many as were lost on the way, and the gap grows
  along the line; pairs are made of bytes received at an odd and the next even place, and a pair
  that begins with a second half has a gap of at least one before it.
* `WholeMessagesStaySound` and `MixedMessagesOnlyRepeat`, from `SoundInv`: a byte that no
  flip met is what its message had in its half, and the bytes of an accepted pair are
  complements, in the order they were sent.  With one flip at most, one of the two bytes is
  the original, and so makes the other one so.
* `FaithfulLine`, from `IntactInv`: without losses the gaps are zero, hence the two bytes of
  a pair are those of one message, and the message is the one due.

`CameraRecorderProofs`, for any number of segments, deaths and names, and any `StopEndDelay`:

* `TypeCorrect`, with the places where `fileMutex_` is held.
* `AlwaysAFile`: only `StopClear` takes the name away, for the message thread just before
  its gap, or for the main thread after `running_` is false (`StopOrder`); the empty name is never
  missed by `pgrep`, so nothing else would bring one back.
* `NoCutIsKilled`, from `OldFileInv` and `JobsInv`: while the message thread waits inside
  `stopFFmpeg`, the old file may still have the name of the current second, but then that second is
  over before the wait is; the new name is another one, and no later name is the old one as long as
  something refers to it.
* `Implements`: `SafeSpec => CameraImplementsService` (no run checks it, since one segment has no order), from `ServedInv`: those asked for and not
  taken are the request the message thread is switching files for, if there is one, and the jobs before
  its own are working, entered or failed with their `INSERT`.  `PopAsks`, `LaunchTakes`, `LogFinishes` are the three steps of the
  service; every other action is a stutter.

`SegmentFilesProofs`, for any segments, settings, lengths of the day and of the range:

* `TypeCorrect`, with the counter below its limit outside a cleanup.
* `SegmentsAreKept`: for a sound setting the wrap-around of `Cutoff` does nothing (`WrapKeeps`,
  `CutoffIsExact`), the cutoff of a pass under way is not later than that of a pass begun now would be, and
  a file is not written before its segment is begun (`KeepInv`).
* `OnlyOldGo`, the action property: only a `Visit` removes files, only those last written
  before its cutoff (`CleanupRemoves`), and the cutoff of a pass, computed when it began, is by `KeepInv`
  not later than one computed now.

`PassFlowProofs`, for any number of requests:

* `ListenersWatch` and `ThreadsAreJoined`, from one invariant (`LifeInv`) that says for each place of
  `main()` where the threads can be; it is inductive by itself.
* `TypeCorrect` and `RowsNameDoors`, inductive together: a job's recorder is
  the camera id plus one (`RequestInv`), and as long as there are jobs the
  recorders are those of the settings (`ConfigInv`), whose list has camera `i - 1` at place `i`
  when camera 0 is configured (`Recorders`).
* `ServiceImplemented`, and `RequestsAreHandledOnce`, which is about the queue and the threads as well
  (no run checks it), from `OnceInv`: the queue holds
  the numbers that follow those taken, a request in hand is the last one taken out of it, and
  those taken are divided into refused, worked on and done, with one thread and one row
  each.  A `MessagePop` is a stutter of `SegmentService`, `MessageProcess` its `Take`.

The assumptions are those named in the modules (`...Assumption`); TLC evaluates
each in a run.

Only model-checked: liveness (`CallsEndAfterShutdown`, `CommandsAreWritten`, both
`StopCompletes`, `RecordingRecovers`, `SegmentsHandled`, `OldFilesGo`, `SignalEnds`,
`RequestsAreServed`) and the fairness part of the queue's refinement, which TLAPS
does not prove here.  Every invariant and every action property of a passing run is a theorem.

## 5. Not modelled, and why

* Port discovery and configuration: one-shot I/O; `PassFlow` has its success or failure.
* `Logger`, the text of times and names: nothing reads it back.  Of a segment's path
  the day is kept, which a row and a file must agree on.
* The numbers given to ffmpeg (offset and duration): only which file the offset is reckoned from.
* `processReceivedCommand`, `getCommandName`, the LED and fan commands,
  `MySqlComm::isConnected` and `reconnect`: called from nowhere.
* `MySqlComm`'s mutex: its callers hold it for one query each and never together with
  another lock, so that it delays them and no more, as long as queries return.
* Build files, scripts, `test_serial.py`.  Of `passflow.service`, `SegmentFiles` has the restart.
* An ffmpeg process that goes on cutting after the program has ended: in `SegmentFiles` it ends with it.
* The whole program in one model: the modules meet at narrow places (a queue, a
  request, a running recorder), and each takes of its neighbours more behaviours than they have.
  What a shifted status of `StatusLink` does in `DoorMonitor` is what any status does there,
  since `DoorMonitor` takes every sequence of statuses.
* Data races are modelled where they change what the code does
  (`currentVideoFile_` in `recordLoop`, `currentFileStartTime_` in
  `extractAndProcessSegment`); that they are undefined in C++ beyond that is not, nor
  is the buffer `std::localtime` shares between threads (`src/include/Common.h:148`).
* Settings that change between two starts of the program, and a clock that is set back under
  the recorder or the cleanup.

### Other differences between text and code met on the way

These follow from the same steps as the findings or need no model to see; no
run is spent on them.

* `src/src/MainControl.cpp:331` "Turn off camera and light after the delay": the
  OFF commands are queued at once, before the stop time of the segment.
* `src/Prompt.txt:10` "Door0_Open, Door0_Close, Cam0ON [...] refers to Camera0": `messageLoop` takes the
  camera id of a request for an index of `cameras_` (`src/src/VideoControl.cpp:399`).  With a connection string
  for camera 1 alone, `loadConfiguration` (`:318-326`) puts it at index 0: an opening of door 0 is recorded by camera 1 and
  entered under its number, and door 1's requests are refused.  `RowsNameTheirDoor` has the hypothesis that excludes it.
* `src/passflow.service:11` restarts the program after a failure, and nothing is sent when it starts
  (`src/src/MainControl.cpp:10-19`, `:168-176`): a camera or light left on, whose door is closed by then,
  gets no OFF before its door has been opened and closed again.
* `src/src/VideoControl.cpp:144`: the counter that leads to a cleanup is local to the record thread.  If the program
  never runs for an hour at a time, nothing is ever deleted, whatever `daysBeforeDeliteVideo` says.
* `src/API_DOCUMENTATION.md:232` has `CameraRecorder::stop()` stop the ffmpeg
  process: a restart decided before `stop()` is carried out after `stopFFmpeg`,
  and the process it starts outlives the program.
* `src/Prompt.txt:74` "from closed file": with two recordings running, the
  segment is cut from one that is still written.
* `src/PROJECT_SUMMARY.md:158` "All shared data protected by mutexes":
  `currentVideoFile_` is read outside the mutex.
* `src/PROJECT_SUMMARY.md:161` "All threads joined before destruction": the threads that cut
  segments are detached (`src/src/VideoControl.cpp:206`); `main()` destroys the recorders
  they refer to and ends while they work.
* `src/README.md:105` "press Ctrl+C": while any thread is in `system()` the process ignores SIGINT.
* `daysBeforeDeliteVideo` (`src/database_schema.sql:15`, "Days to keep video files") is not checked: a
  negative number deletes what was just made, and so may one above 106,751, whose
  nanoseconds do not fit 64 bits.  `KeptForDays` is stated for the others.
* `cleanupOldVideos` looks at the segments; the source recordings, a new one for every switch
  of files and every restart, are never deleted (`src/src/VideoControl.cpp:98`).
* An exception of `create_directories` in the cutting thread (`src/src/VideoControl.cpp:237`) ends the program.
* `src/database_schema.sql:35` has no columns `event` and `DateTime`, which
  `logEvent` (`src/src/MySqlComm.cpp:269`) names.

## 6. Plan

Done, in this order: the queue, the door handler, the threads around it, the protocol, one
camera, and the program as a whole; then `SegmentFiles`, `SegmentService`, the liveness
of the camera without a bound on time, and the theorems about the protocol, the camera, the
segments and the requests.  Then the theorems about the requests (`DoorHistory`), the refinements of `MainControl` and of one
camera, and the removal of files.

What could come next:

1. The offset and duration given to ffmpeg, as operators against the interval of the
   recording a request covers.
2. Restarts in `PassFlow`: which requests of one run of the program can appear in the table of the next.

The runs are kept few, one for each question; what the plan adds takes the place of, or joins, an
existing run where it answers the same one.
