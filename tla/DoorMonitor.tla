----------------------------- MODULE DoorMonitor -----------------------------
(***************************************************************************)
(* What MainControl does with a valid status of the peripheral:            *)
(* processSystemStatus and compareAndLogChanges of src/MainControl.cpp.    *)
(*                                                                         *)
(* A status gives each input of the peripheral a bit; for the doors 0 is   *)
(* open and 1 is closed.  Every change of a bit is stored in the database. *)
(* A door that opens switches its camera and light on; one that closes,    *)
(* after an opening that was seen, switches them off and asks VideoControl *)
(* for the video of the time in between.                                   *)
(*                                                                         *)
(* All this state belongs to the receiver thread, and one status is one    *)
(* step.  The sender thread may take a command while a later one of the    *)
(* same status is still to be pushed; a queue that is shorter for a moment *)
(* is all it could see, so the pushes of one status are made together.     *)
(***************************************************************************)
EXTENDS Integers, Sequences

CONSTANTS OtherBits,       \* the inputs besides the doors
          Statuses,        \* what the peripheral may report
          Times,           \* what the wall clock may show, in no order: it
                           \* can be set back and forth while the program runs
          StopBeginDelay,  \* seconds kept before an opening
          StopEndDelay     \* seconds kept after a closing

Doors == {"door_0", "door_1"}

Bits == Doors \cup OtherBits

Bit == {0, 1}

ASSUME DoorAssumption ==
  /\ OtherBits \subseteq {"cover_0", "cover_1", "mainSupply", "ignition"}
  /\ Statuses \subseteq [Bits -> Bit]
  /\ Times \subseteq Int
  /\ StopBeginDelay \in Int
  /\ StopEndDelay \in Int

VARIABLES currentStatus_,   \* the last status processed
          previousStatus_,  \* the one before it
          doorOpen_,        \* door0Open_, door1Open_: an opening was seen
          doorOpenTime_,    \* door0OpenTime_, door1OpenTime_
          outgoingQueue_,   \* commands for the peripheral
          requests,         \* StartStop messages pushed to videoControlQueue_
          stored,           \* the events of each bit the database stored
          eventLost         \* the bits with an event the database refused

doorVars == <<currentStatus_, previousStatus_, doorOpen_, doorOpenTime_>>

vars == <<doorVars, outgoingQueue_, requests, stored, eventLost>>

Devices == {"Cam", "Light"}

Commands == [device : Devices, door : Doors, on : BOOLEAN]

Requests == [camera : Doors, startTime : Int, stopTime : Int]

TypeOK ==
  /\ currentStatus_ \in [Bits -> Bit]
  /\ previousStatus_ \in [Bits -> Bit]
  /\ doorOpen_ \in [Doors -> BOOLEAN]
  /\ doorOpenTime_ \in [Doors -> Int]
  /\ outgoingQueue_ \in Seq(Commands)
  /\ requests \in Seq(Requests)
  /\ stored \in [Bits -> Seq(Bit)]
  /\ eventLost \subseteq Bits

\* The constructor starts from a status of zeros, in which both doors are open
\* and the power is off; no opening has been seen.
Init ==
  /\ currentStatus_ = [b \in Bits |-> 0]
  /\ previousStatus_ = [b \in Bits |-> 0]
  /\ doorOpen_ = [d \in Doors |-> FALSE]
  /\ doorOpenTime_ = [d \in Doors |-> 0]
  /\ outgoingQueue_ = <<>>
  /\ requests = <<>>
  /\ stored = [b \in Bits |-> <<>>]
  /\ eventLost = {}

-----------------------------------------------------------------------------
(* compareAndLogChanges *)

\* Mutant: compares with the status before the current one.
ChangedSincePrevious(status) == {b \in Bits : status[b] # previousStatus_[b]}

Changed(status) == {b \in Bits : status[b] # currentStatus_[b]}

\* An INSERT, which the database may refuse.
LogEvent(events, value, ok) == IF ok THEN Append(events, value) ELSE events

\* Each changed bit is an event of its own; nobody looks at what logEvent returns.
LogChanges(status) ==
  \E ok \in SUBSET Changed(status) :
    /\ stored' = [b \in Bits |-> LogEvent(stored[b], status[b], b \in ok)]
    /\ eventLost' = eventLost \cup (Changed(status) \ ok)

-----------------------------------------------------------------------------
(* processSystemStatus *)

Opens(d, status) == currentStatus_[d] = 1 /\ status[d] = 0

Closes(d, status) == currentStatus_[d] = 0 /\ status[d] = 1

\* Mutant: any closing counts, also one whose opening was never seen.
ClosesUnseen(d, status) == Closes(d, status)

\* A closing whose opening was seen.
Completes(d, status) == Closes(d, status) /\ doorOpen_[d]

\* Mutant: device and door are mixed up.
SwitchMixedUp(d, on) == << [device |-> d, door |-> "Cam", on |-> on],
                           [device |-> d, door |-> "Light", on |-> on] >>

Switch(d, on) == << [device |-> "Cam", door |-> d, on |-> on],
                    [device |-> "Light", door |-> d, on |-> on] >>

DoorCommands(d, status) ==
  CASE Opens(d, status)     -> Switch(d, TRUE)
    [] Completes(d, status) -> Switch(d, FALSE)
    [] OTHER                -> <<>>

\* Mutant: the segment is not extended before the opening.
RequestFromOpening(d, status, now) ==
  IF Completes(d, status)
  THEN << [camera    |-> d,
           startTime |-> doorOpenTime_[d],
           stopTime  |-> now + StopEndDelay] >>
  ELSE <<>>

DoorRequest(d, status, now) ==
  IF Completes(d, status)
  THEN << [camera    |-> d,
           startTime |-> doorOpenTime_[d] - StopBeginDelay,
           stopTime  |-> now + StopEndDelay] >>
  ELSE <<>>

\* Door 0 is handled before door 1.
ProcessSystemStatus(status, now) ==
  /\ LogChanges(status)
  /\ previousStatus_' = currentStatus_
  /\ currentStatus_' = status
  /\ doorOpen_' = [d \in Doors |->
                     ~Completes(d, status) /\ (Opens(d, status) \/ doorOpen_[d])]
  /\ doorOpenTime_' = [d \in Doors |->
                         IF Opens(d, status) THEN now ELSE doorOpenTime_[d]]
  /\ outgoingQueue_' = outgoingQueue_ \o DoorCommands("door_0", status)
                                      \o DoorCommands("door_1", status)
  /\ requests' = requests \o DoorRequest("door_0", status, now)
                          \o DoorRequest("door_1", status, now)

Next == \E status \in Statuses, now \in Times : ProcessSystemStatus(status, now)

Spec == Init /\ [][Next]_vars

-----------------------------------------------------------------------------
(* Properties *)

\* The events of a bit that lost none are the whole history of the bit: they
\* alternate from the 1 that ended the initial 0, and the last is its value.
AlternatesFromOne(rows) == \A i \in 1..Len(rows) : rows[i] = i % 2

EventHistory ==
  \A b \in Bits \ eventLost :
    /\ AlternatesFromOne(stored[b])
    /\ currentStatus_[b] = Len(stored[b]) % 2

\* The i-th command is one for the camera or the light of a door.
Addressed(q, i, device, d) == q[i].device = device /\ q[i].door = d

\* The commands for a device of a door switch it in turn on and off, beginning with
\* on; the last one, if any, says what the device is now.
Alternate(q, device, d, now) ==
  LET To == {i \in 1..Len(q) : Addressed(q, i, device, d)}
  IN  /\ \A i \in To : (\A k \in To : i <= k) => q[i].on
      /\ \A i, j \in To :
           i < j /\ (\A k \in To : k <= i \/ j <= k) => (q[i].on <=> ~q[j].on)
      /\ \A i \in To : (\A k \in To : k <= i) => (q[i].on <=> now)
      /\ now => To # {}

\* The commands pushed so far and the openings in progress agree: the last command
\* for a door's camera or light is "on" exactly when the door's opening was seen and
\* its closing was not, and a command never repeats the one before it.
CommandsFollowDoors ==
  \A d \in Doors, device \in Devices :
    Alternate(outgoingQueue_, device, d, doorOpen_[d])
=============================================================================
