----------------------------- MODULE MainControl -----------------------------
(***************************************************************************)
(* MainControl, src/MainControl.cpp: a receiver thread turns the bytes of  *)
(* the serial port into statuses and handles them (module DoorMonitor), a  *)
(* sender thread writes the commands they cause, and the main thread       *)
(* starts both and stops them.                                             *)
(*                                                                         *)
(* outgoingQueue_ is a MessageQueue; here it is the channel FifoChannel    *)
(* that MessageQueue is shown to implement: the sender's tryPop takes the  *)
(* first command, or comes back with nothing when there is none.           *)
(* The peripheral, and the wire to it, are outside the program: what it    *)
(* reports is any sequence of Statuses, and a write to it may fail.        *)
(***************************************************************************)
EXTENDS Integers, Sequences

CONSTANTS OtherBits, Statuses, Times, StopBeginDelay, StopEndDelay,
          MaxRead,     \* most statuses one read() completes: 256 bytes hold 128
          MaxStatuses  \* bound on the statuses received; the code has none

ASSUME BoundAssumption == MaxRead \in Nat /\ MaxStatuses \in Nat

VARIABLES
  \* the receiver's: see DoorMonitor
  currentStatus_, previousStatus_, doorOpen_, doorOpenTime_, requests, stored,
  eventLost,
  \* shared
  outgoingQueue_,  \* commands from the receiver to the sender
  outShutdown,     \* outgoingQueue_.requestShutdown() was called
  running_,        \* atomic: the threads go on
  serialFd_,       \* TRUE while the port is open
  \* where the threads are
  mainPc,          \* "main", "shutdown", "joinReceiver", "joinSender", "close", "stopped"
  rxPc,            \* receiver: "none", "check", "read", "process", "done"
  txPc,            \* sender:   "none", "check", "pop", "write", "done"
  unread,          \* statuses the last read() completed, not yet processed
  taken,           \* the command the sender is about to write
  \* outside the program
  reported,        \* how many statuses the peripheral sent
  peripheral,      \* is each device of each door on?
  lastWrite        \* what became of the last write for each device of this run

Monitor == INSTANCE DoorMonitor

Doors == Monitor!Doors

\* What DoorMonitor assumes of its constants.
ASSUME MonitorAssumption ==
  /\ OtherBits \subseteq {"cover_0", "cover_1", "mainSupply", "ignition"}
  /\ Statuses \subseteq [Monitor!Bits -> Monitor!Bit]
  /\ Times \subseteq Int
  /\ StopBeginDelay \in Int
  /\ StopEndDelay \in Int

monitorVars == <<currentStatus_, previousStatus_, doorOpen_, doorOpenTime_,
                 requests, stored, eventLost>>

threadVars == <<outShutdown, running_, serialFd_, mainPc>>

receiverVars == <<rxPc, unread, reported>>

senderVars == <<txPc, taken, peripheral, lastWrite>>

vars == <<monitorVars, outgoingQueue_, threadVars, receiverVars, senderVars>>

DeviceIds == Monitor!Devices \X Doors

Target(cmd) == <<cmd.device, cmd.door>>

\* Types; and the sender holds a command exactly while it writes one.
TypeOK ==
  /\ Monitor!TypeOK
  /\ outShutdown \in BOOLEAN
  /\ running_ \in BOOLEAN
  /\ serialFd_ \in BOOLEAN
  /\ mainPc \in {"main", "shutdown", "joinReceiver", "joinSender", "close", "stopped"}
  /\ rxPc \in {"none", "check", "read", "process", "done"}
  /\ txPc \in {"none", "check", "pop", "write", "done"}
  /\ unread \in Seq(Statuses)
  /\ taken \in Seq(Monitor!Commands)
  /\ Len(taken) = IF txPc = "write" THEN 1 ELSE 0
  /\ reported \in 0..MaxStatuses
  /\ peripheral \in [DeviceIds -> BOOLEAN]
  /\ lastWrite \in [DeviceIds -> {"none", "sent", "failed"}]

\* initialize() opened and configured the port; start() is still to come.  Neither
\* writes to the peripheral, so its devices are as an earlier run of the program,
\* or anything else, left them.
Init ==
  /\ Monitor!Init
  /\ outShutdown = FALSE
  /\ running_ = FALSE
  /\ serialFd_ = TRUE
  /\ mainPc = "main"
  /\ rxPc = "none"
  /\ txPc = "none"
  /\ unread = <<>>
  /\ taken = <<>>
  /\ reported = 0
  /\ peripheral \in [DeviceIds -> BOOLEAN]
  /\ lastWrite = [id \in DeviceIds |-> "none"]

-----------------------------------------------------------------------------
(* The main thread: start() and stop() *)

Start ==
  /\ mainPc = "main"
  /\ rxPc = "none"
  /\ running_' = TRUE
  /\ rxPc' = "check"
  /\ txPc' = "check"
  /\ UNCHANGED <<monitorVars, outgoingQueue_, outShutdown, serialFd_, mainPc,
                 unread, reported, taken, peripheral, lastWrite>>

\* stop() does nothing unless the threads were started.
Stop ==
  /\ mainPc = "main"
  /\ running_
  /\ running_' = FALSE
  /\ mainPc' = "shutdown"
  /\ UNCHANGED <<monitorVars, outgoingQueue_, outShutdown, serialFd_,
                 receiverVars, senderVars>>

ShutdownQueue ==
  /\ mainPc = "shutdown"
  /\ outShutdown' = TRUE
  /\ mainPc' = "joinReceiver"
  /\ UNCHANGED <<monitorVars, outgoingQueue_, running_, serialFd_,
                 receiverVars, senderVars>>

JoinReceiver ==
  /\ mainPc = "joinReceiver"
  /\ rxPc = "done"
  /\ mainPc' = "joinSender"
  /\ UNCHANGED <<monitorVars, outgoingQueue_, outShutdown, running_, serialFd_,
                 receiverVars, senderVars>>

\* Mutant: stop() does not wait for the sender.
JoinSenderEarly ==
  /\ mainPc = "joinSender"
  /\ mainPc' = "close"
  /\ UNCHANGED <<monitorVars, outgoingQueue_, outShutdown, running_, serialFd_,
                 receiverVars, senderVars>>

JoinSender ==
  /\ mainPc = "joinSender"
  /\ txPc = "done"
  /\ mainPc' = "close"
  /\ UNCHANGED <<monitorVars, outgoingQueue_, outShutdown, running_, serialFd_,
                 receiverVars, senderVars>>

Close ==
  /\ mainPc = "close"
  /\ serialFd_' = FALSE
  /\ mainPc' = "stopped"
  /\ UNCHANGED <<monitorVars, outgoingQueue_, outShutdown, running_,
                 receiverVars, senderVars>>

-----------------------------------------------------------------------------
(* receiverLoop *)

ReceiverCheck ==
  /\ rxPc = "check"
  /\ rxPc' = IF running_ THEN "read" ELSE "done"
  /\ UNCHANGED <<monitorVars, outgoingQueue_, threadVars, unread, reported,
                 senderVars>>

\* The port is open non-blocking: a read() may bring nothing.  What does not
\* make up a valid status (see StatusLink) is dropped.
ReceiverRead ==
  /\ rxPc = "read"
  /\ \E n \in 0..MaxRead :
       /\ reported + n <= MaxStatuses
       /\ reported' = reported + n
       /\ unread' \in [1..n -> Statuses]
  /\ rxPc' = "process"
  /\ UNCHANGED <<monitorVars, outgoingQueue_, threadVars, senderVars>>

\* All statuses of one read() are processed before running_ is looked at again.
ReceiverProcess ==
  /\ rxPc = "process"
  /\ unread # <<>>
  /\ \E now \in Times : Monitor!ProcessSystemStatus(Head(unread), now)
  /\ unread' = Tail(unread)
  /\ UNCHANGED <<threadVars, rxPc, reported, senderVars>>

\* sleep_for(10 ms), and around the loop again.
ReceiverSleep ==
  /\ rxPc = "process"
  /\ unread = <<>>
  /\ rxPc' = "check"
  /\ UNCHANGED <<monitorVars, outgoingQueue_, threadVars, unread, reported,
                 senderVars>>

Receiver == ReceiverCheck \/ ReceiverRead \/ ReceiverProcess \/ ReceiverSleep

-----------------------------------------------------------------------------
(* senderLoop *)

\* Mutant: the loop goes on until the queue says it was shut down.
SenderCheckForever ==
  /\ txPc = "check"
  /\ txPc' = "pop"
  /\ UNCHANGED <<monitorVars, outgoingQueue_, threadVars, receiverVars, taken,
                 peripheral, lastWrite>>

SenderCheck ==
  /\ txPc = "check"
  /\ txPc' = IF running_ THEN "pop" ELSE "done"
  /\ UNCHANGED <<monitorVars, outgoingQueue_, threadVars, receiverVars, taken,
                 peripheral, lastWrite>>

\* Mutant: takes the last command pushed.
SenderPopLast ==
  /\ txPc = "pop"
  /\ outgoingQueue_ # <<>>
  /\ taken' = <<outgoingQueue_[Len(outgoingQueue_)]>>
  /\ outgoingQueue_' = SubSeq(outgoingQueue_, 1, Len(outgoingQueue_) - 1)
  /\ txPc' = "write"
  /\ UNCHANGED <<monitorVars, threadVars, receiverVars, peripheral, lastWrite>>

SenderPop ==
  /\ txPc = "pop"
  /\ outgoingQueue_ # <<>>
  /\ taken' = <<Head(outgoingQueue_)>>
  /\ outgoingQueue_' = Tail(outgoingQueue_)
  /\ txPc' = "write"
  /\ UNCHANGED <<monitorVars, threadVars, receiverVars, peripheral, lastWrite>>

\* Mutant: the sender ends when it finds nothing to send.
SenderPopNothingEnds ==
  /\ txPc = "pop"
  /\ outgoingQueue_ = <<>>
  /\ txPc' = "done"
  /\ UNCHANGED <<monitorVars, outgoingQueue_, threadVars, receiverVars, taken,
                 peripheral, lastWrite>>

\* tryPop(100 ms) gives up, or the queue is shut down.
SenderPopNothing ==
  /\ txPc = "pop"
  /\ outgoingQueue_ = <<>>
  /\ txPc' = "check"
  /\ UNCHANGED <<monitorVars, outgoingQueue_, threadVars, receiverVars, taken,
                 peripheral, lastWrite>>

\* Mutant: a command that could not be written is kept but not tried again.
SenderWriteKeeps ==
  /\ txPc = "write"
  /\ \/ /\ peripheral' = [peripheral EXCEPT ![Target(Head(taken))] = Head(taken).on]
        /\ lastWrite' = [lastWrite EXCEPT ![Target(Head(taken))] = "sent"]
        /\ taken' = <<>>
     \/ /\ lastWrite' = [lastWrite EXCEPT ![Target(Head(taken))] = "failed"]
        /\ UNCHANGED <<peripheral, taken>>
  /\ txPc' = "check"
  /\ UNCHANGED <<monitorVars, outgoingQueue_, threadVars, receiverVars>>

\* A failed write() is logged and the command forgotten.
SenderWrite ==
  /\ txPc = "write"
  /\ LET cmd == Head(taken)
     IN  \/ /\ peripheral' = [peripheral EXCEPT ![Target(cmd)] = cmd.on]
            /\ lastWrite' = [lastWrite EXCEPT ![Target(cmd)] = "sent"]
         \/ /\ lastWrite' = [lastWrite EXCEPT ![Target(cmd)] = "failed"]
            /\ UNCHANGED peripheral
  /\ taken' = <<>>
  /\ txPc' = "check"
  /\ UNCHANGED <<monitorVars, outgoingQueue_, threadVars, receiverVars>>

Sender == SenderCheck \/ SenderPop \/ SenderPopNothing \/ SenderWrite

-----------------------------------------------------------------------------

Main == Start \/ Stop \/ ShutdownQueue \/ JoinReceiver \/ JoinSender \/ Close

Next == Main \/ Receiver \/ Sender

\* The threads run, and stop() once called goes on; nobody is obliged to call
\* start() or stop().
Fairness ==
  /\ WF_vars(Receiver)
  /\ WF_vars(Sender)
  /\ WF_vars(ShutdownQueue \/ JoinReceiver \/ JoinSender \/ Close)

SafeSpec == Init /\ [][Next]_vars

Spec == SafeSpec /\ Fairness

-----------------------------------------------------------------------------
(* Properties *)

\* The port is read and written only while it is open: stop() closes it after
\* both threads have ended, wherever they were when it was called.
PortOpenWhileUsed == rxPc = "read" \/ txPc = "write" => serialFd_

\* The peripheral is never behind the doors by more than what is on the way.  The
\* last command on its way to a camera or light is to switch it on exactly if the
\* opening of its door was seen and its closing was not.  When nothing is on the way,
\* a device whose last write succeeded is as its door asks, also if writes for it had
\* failed before; and a device nothing was written to in this run, which is as it was
\* found, has its door closed.  Only after a failed write does a device differ from
\* an open door, until the next command for it.
OnTheWay == taken \o outgoingQueue_

IsLastFor(id, i) ==
  /\ Target(OnTheWay[i]) = id
  /\ \A j \in (i + 1)..Len(OnTheWay) : Target(OnTheWay[j]) # id

PeripheralFollowsDoors ==
  \A id \in DeviceIds :
    /\ \A i \in 1..Len(OnTheWay) :
         IsLastFor(id, i) => OnTheWay[i].on = doorOpen_[id[2]]
    /\ (\A i \in 1..Len(OnTheWay) : Target(OnTheWay[i]) # id) =>
         /\ lastWrite[id] = "sent" => peripheral[id] = doorOpen_[id[2]]
         /\ lastWrite[id] = "none" => ~doorOpen_[id[2]]

\* stop() comes to its end: neither thread keeps it waiting.
StopCompletes == (mainPc = "shutdown") ~> (mainPc = "stopped")
=============================================================================
