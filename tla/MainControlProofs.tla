--------------------------- MODULE MainControlProofs ---------------------------
(***************************************************************************)
(* Proofs about MainControl, for any statuses, clock readings, delays and  *)
(* any number of statuses a read() brings.                                 *)
(***************************************************************************)
EXTENDS CommandHistory, TLAPS

Commands == Monitor!Commands

\* What holds of the threads wherever they are: the port is open until stop()
\* closes it, which it does after the receiver and then the sender have ended;
\* the two are started together.
PortInv ==
  /\ rxPc = "none" => txPc = "none"
  /\ serialFd_ = (mainPc # "stopped")
  /\ mainPc \in {"joinSender", "close", "stopped"} => rxPc = "done"
  /\ mainPc \in {"close", "stopped"} => txPc = "done"

\* PortInv is inductive.
LEMMA PortInvariant == SafeSpec => []PortInv
<1>1. Init => PortInv
  BY DEF Init, PortInv
<1>2. PortInv /\ [Next]_vars => PortInv'
  <2> SUFFICES ASSUME PortInv, [Next]_vars  PROVE PortInv'
    OBVIOUS
  <2> USE DEF PortInv
  <2>1. CASE Main
    <3>1. CASE Start
      BY <3>1 DEF Start
    <3>2. CASE Stop
      BY <3>2 DEF Stop, receiverVars, senderVars
    <3>3. CASE ShutdownQueue
      BY <3>3 DEF ShutdownQueue, receiverVars, senderVars
    <3>4. CASE JoinReceiver
      BY <3>4 DEF JoinReceiver, receiverVars, senderVars
    <3>5. CASE JoinSender
      BY <3>5 DEF JoinSender, receiverVars, senderVars
    <3>6. CASE Close
      BY <3>6 DEF Close, receiverVars, senderVars
    <3> QED
      BY <2>1, <3>1, <3>2, <3>3, <3>4, <3>5, <3>6 DEF Main
  <2>2. CASE Receiver
    BY <2>2 DEF Receiver, ReceiverCheck, ReceiverRead, ReceiverProcess, ReceiverSleep,
                threadVars, senderVars
  <2>3. CASE Sender
    BY <2>3 DEF Sender, SenderCheck, SenderPop, SenderPopNothing, SenderWrite,
                threadVars, receiverVars
  <2>4. CASE UNCHANGED vars
    BY <2>4 DEF vars, threadVars, receiverVars, senderVars
  <2> QED
    BY <2>1, <2>2, <2>3, <2>4 DEF Next
<1> QED
  BY <1>1, <1>2, PTL DEF SafeSpec

\* No read() and no write() on a port that stop() has closed.
THEOREM PortIsOpen == SafeSpec => []PortOpenWhileUsed
<1>1. PortInv => PortOpenWhileUsed
  BY DEF PortInv, PortOpenWhileUsed
<1> QED
  BY <1>1, PortInvariant, PTL

-----------------------------------------------------------------------------
(* Types *)

\* A door yields no commands, or the two that switch its camera and light.
LEMMA DoorCommandsType ==
  ASSUME NEW d \in Doors, NEW status
  PROVE  Monitor!DoorCommands(d, status) \in Seq(Commands)
<1>1. \A on \in BOOLEAN : Monitor!Switch(d, on) \in Seq(Commands)
  BY DEF Monitor!Switch, Commands, Monitor!Commands, Monitor!Devices, Doors, Monitor!Doors
<1>2. <<>> \in Seq(Commands)
  OBVIOUS
<1> QED
  BY <1>1, <1>2 DEF Monitor!DoorCommands

\* A door yields no request, or one.
LEMMA DoorRequestType ==
  ASSUME Monitor!TypeOK, NEW d \in Doors, NEW status, NEW now \in Int
  PROVE  Monitor!DoorRequest(d, status, now) \in Seq(Monitor!Requests)
<1>1. <<>> \in Seq(Monitor!Requests)
  OBVIOUS
<1>2. [camera    |-> d,
       startTime |-> doorOpenTime_[d] - StopBeginDelay,
       stopTime  |-> now + StopEndDelay] \in Monitor!Requests
  BY MonitorAssumption DEF Monitor!TypeOK, Monitor!Requests, Doors
<1> QED
  BY <1>1, <1>2 DEF Monitor!DoorRequest

\* The handler of a status keeps the types of what it works on.
LEMMA ProcessKeepsTypes ==
  ASSUME Monitor!TypeOK, NEW status \in Statuses, NEW now \in Times,
         Monitor!ProcessSystemStatus(status, now)
  PROVE  Monitor!TypeOK'
<1> USE DEF Monitor!TypeOK
<1>1. status \in [Monitor!Bits -> Monitor!Bit] /\ now \in Int
  BY MonitorAssumption
<1>2. /\ currentStatus_' \in [Monitor!Bits -> Monitor!Bit]
      /\ previousStatus_' \in [Monitor!Bits -> Monitor!Bit]
  BY <1>1 DEF Monitor!ProcessSystemStatus
<1>3. doorOpen_' \in [Monitor!Doors -> BOOLEAN]
  <2>1. \A d \in Monitor!Doors :
          (~Monitor!Completes(d, status) /\ (Monitor!Opens(d, status) \/ doorOpen_[d]))
            \in BOOLEAN
    OBVIOUS
  <2> QED
    BY <2>1, Zenon DEF Monitor!ProcessSystemStatus
<1>4. doorOpenTime_' \in [Monitor!Doors -> Int]
  BY <1>1 DEF Monitor!ProcessSystemStatus
<1>5. outgoingQueue_' \in Seq(Monitor!Commands)
  BY DoorCommandsType DEF Monitor!ProcessSystemStatus, Commands, Doors, Monitor!Doors
<1>6. requests' \in Seq(Monitor!Requests)
  BY <1>1, DoorRequestType DEF Monitor!ProcessSystemStatus, Doors, Monitor!Doors
<1>7. stored' \in [Monitor!Bits -> Seq(Monitor!Bit)] /\ eventLost' \subseteq Monitor!Bits
  BY <1>1 DEF Monitor!ProcessSystemStatus, Monitor!LogChanges, Monitor!LogEvent,
              Monitor!Changed
<1> QED
  BY <1>2, <1>3, <1>4, <1>5, <1>6, <1>7

\* A sequence of one element has no rest.
LEMMA NothingBehindOne ==
  ASSUME NEW S, NEW s \in Seq(S), Len(s) = 1
  PROVE  Head(s) \in S /\ s = <<Head(s)>>
<1>1. s[1] \in S /\ Head(s) = s[1]
  OBVIOUS
<1>2. s = <<s[1]>>
  OBVIOUS
<1> QED
  BY <1>1, <1>2

\* The part of TypeOK that is not the handler's.
ThreadTypes ==
  /\ outShutdown \in BOOLEAN
  /\ running_ \in BOOLEAN
  /\ serialFd_ \in BOOLEAN
  /\ mainPc \in {"main", "shutdown", "joinReceiver", "joinSender", "close", "stopped"}
  /\ rxPc \in {"none", "check", "read", "process", "done"}
  /\ txPc \in {"none", "check", "pop", "write", "done"}
  /\ unread \in Seq(Statuses)
  /\ taken \in Seq(Monitor!Commands)
  /\ Len(taken) = IF txPc = "write" THEN 1 ELSE 0
  /\ reported \in 0..MaxStatuses
  /\ peripheral \in [DeviceIds -> BOOLEAN]
  /\ lastWrite \in [DeviceIds -> {"none", "sent", "failed"}]

\* TypeOK falls into the handler's part and the threads', now
LEMMA TypesInTwo == TypeOK <=> Monitor!TypeOK /\ ThreadTypes
BY Zenon DEF TypeOK, ThreadTypes

\* and after a step.
LEMMA TypesInTwoNext == TypeOK' <=> Monitor!TypeOK' /\ ThreadTypes'
BY Zenon DEF TypeOK, ThreadTypes

\* Every variable of MainControl keeps its type, and the sender holds a command
\* exactly while it writes one.
THEOREM TypeCorrect == SafeSpec => []TypeOK
<1>1. Init => TypeOK
  <2> SUFFICES ASSUME Init  PROVE TypeOK
    OBVIOUS
  <2>1. Monitor!TypeOK
    <3>1. /\ currentStatus_ \in [Monitor!Bits -> Monitor!Bit]
          /\ previousStatus_ \in [Monitor!Bits -> Monitor!Bit]
      BY DEF Init, Monitor!Init, Monitor!Bit
    <3>2. doorOpen_ \in [Monitor!Doors -> BOOLEAN] /\ doorOpenTime_ \in [Monitor!Doors -> Int]
      BY DEF Init, Monitor!Init
    <3>3. outgoingQueue_ \in Seq(Monitor!Commands) /\ requests \in Seq(Monitor!Requests)
      BY DEF Init, Monitor!Init
    <3>4. <<>> \in Seq(Monitor!Bit)
      OBVIOUS
    <3>5. stored \in [Monitor!Bits -> Seq(Monitor!Bit)] /\ eventLost \subseteq Monitor!Bits
      BY <3>4 DEF Init, Monitor!Init
    <3> QED
      BY <3>1, <3>2, <3>3, <3>5 DEF Monitor!TypeOK
  <2>2. peripheral \in [DeviceIds -> BOOLEAN]
    BY DEF Init
  <2>3. unread \in Seq(Statuses) /\ taken \in Seq(Monitor!Commands) /\ Len(taken) = 0
    BY DEF Init
  <2>4. ThreadTypes
    <3>1. Len(taken) = IF txPc = "write" THEN 1 ELSE 0
      BY <2>3 DEF Init
    <3>2. /\ lastWrite \in [DeviceIds -> {"none", "sent", "failed"}]
          /\ reported \in 0..MaxStatuses
      BY BoundAssumption DEF Init
    <3>3. serialFd_ \in BOOLEAN /\ running_ \in BOOLEAN /\ outShutdown \in BOOLEAN
      BY DEF Init
    <3>4. /\ mainPc \in {"main", "shutdown", "joinReceiver", "joinSender", "close", "stopped"}
          /\ rxPc \in {"none", "check", "read", "process", "done"}
          /\ txPc \in {"none", "check", "pop", "write", "done"}
      BY DEF Init
    <3> QED
      BY <2>2, <2>3, <3>1, <3>2, <3>3, <3>4, Zenon DEF ThreadTypes
  <2> QED
    BY <2>1, <2>4, TypesInTwo
<1>2. PortInv /\ TypeOK /\ [Next]_vars => TypeOK'
  <2> SUFFICES ASSUME PortInv, TypeOK, [Next]_vars  PROVE TypeOK'
    OBVIOUS
  <2> USE TypesInTwo, TypesInTwoNext
  <2>1. ASSUME UNCHANGED monitorVars, UNCHANGED outgoingQueue_  PROVE Monitor!TypeOK'
    BY <2>1 DEF monitorVars, TypeOK, Monitor!TypeOK, Monitor!Bits, Monitor!Bit,
                Monitor!Doors, Monitor!Commands, Monitor!Requests, Monitor!Devices
  <2>2. CASE Main
    <3>1. UNCHANGED monitorVars /\ UNCHANGED outgoingQueue_
      BY <2>2 DEF Main, Start, Stop, ShutdownQueue, JoinReceiver, JoinSender, Close
    <3>2. ThreadTypes'
      <4> USE DEF ThreadTypes
      <4>1. CASE Start
        <5>1. taken' = taken /\ Len(taken) = 0 /\ txPc' = "check"
          BY <4>1 DEF Start, PortInv
        <5> QED
          BY <4>1, <5>1 DEF Start
      <4>2. CASE Stop \/ ShutdownQueue
        BY <4>2 DEF Stop, ShutdownQueue, receiverVars, senderVars
      <4>3. CASE JoinReceiver \/ JoinSender \/ Close
        BY <4>3 DEF JoinReceiver, JoinSender, Close, receiverVars, senderVars
      <4> QED
        BY <2>2, <4>1, <4>2, <4>3 DEF Main
    <3> QED
      BY <2>1, <3>1, <3>2
  <2>3. CASE ReceiverCheck
    BY <2>1, <2>3 DEF ReceiverCheck, threadVars, senderVars, ThreadTypes
  <2>4. CASE ReceiverRead
    <3>1. PICK n \in 0..MaxRead : /\ reported + n <= MaxStatuses
                                  /\ reported' = reported + n
                                  /\ unread' \in [1..n -> Statuses]
      BY <2>4 DEF ReceiverRead
    <3>2. unread' \in Seq(Statuses) /\ reported' \in 0..MaxStatuses
      BY <3>1, BoundAssumption DEF TypeOK
    <3> QED
      BY <2>1, <2>4, <3>2 DEF ReceiverRead, threadVars, senderVars, ThreadTypes
  <2>5. CASE ReceiverProcess
    <3>1. Head(unread) \in Statuses /\ Tail(unread) \in Seq(Statuses)
      BY <2>5 DEF ReceiverProcess, ThreadTypes
    <3>2. Monitor!TypeOK'
      BY <2>5, <3>1, ProcessKeepsTypes DEF ReceiverProcess, ThreadTypes
    <3> QED
      BY <2>5, <3>1, <3>2 DEF ReceiverProcess, threadVars, senderVars, ThreadTypes
  <2>6. CASE ReceiverSleep
    BY <2>1, <2>6 DEF ReceiverSleep, threadVars, senderVars, ThreadTypes
  <2>7. CASE SenderCheck
    BY <2>1, <2>7 DEF SenderCheck, threadVars, receiverVars, ThreadTypes
  <2>8. CASE SenderPop
    <3>1. /\ Head(outgoingQueue_) \in Monitor!Commands
          /\ Tail(outgoingQueue_) \in Seq(Monitor!Commands)
      BY <2>8 DEF SenderPop, TypeOK, Monitor!TypeOK
    <3>2. Monitor!TypeOK'
      BY <2>8, <3>1 DEF SenderPop, monitorVars, TypeOK, Monitor!TypeOK, Monitor!Bits,
        Monitor!Bit, Monitor!Doors, Monitor!Commands, Monitor!Requests, Monitor!Devices
    <3>3. taken' \in Seq(Monitor!Commands) /\ Len(taken') = 1
      BY <2>8, <3>1 DEF SenderPop
    <3> QED
      BY <2>8, <3>2, <3>3 DEF SenderPop, threadVars, receiverVars, ThreadTypes
  <2>9. CASE SenderPopNothing
    BY <2>1, <2>9 DEF SenderPopNothing, threadVars, receiverVars, ThreadTypes
  <2>10. CASE SenderWrite
    <3> DEFINE cmd == Head(taken)
    <3>1. cmd \in Monitor!Commands
      BY <2>10, NothingBehindOne DEF SenderWrite, ThreadTypes
    <3>2. Target(cmd) \in DeviceIds /\ cmd.on \in BOOLEAN
      BY <3>1 DEF Target, DeviceIds, Monitor!Commands, Doors
    <3>3. /\ peripheral' \in [DeviceIds -> BOOLEAN]
          /\ lastWrite' \in [DeviceIds -> {"none", "sent", "failed"}]
      BY <2>10, <3>2 DEF SenderWrite, ThreadTypes
    <3>4. taken' \in Seq(Monitor!Commands) /\ Len(taken') = 0
      BY <2>10 DEF SenderWrite
    <3> QED
      BY <2>1, <2>10, <3>3, <3>4 DEF SenderWrite, threadVars, receiverVars, ThreadTypes
  <2>11. CASE UNCHANGED vars
    BY <2>1, <2>11 DEF vars, threadVars, receiverVars, senderVars, ThreadTypes
  <2> QED
    BY <2>2, <2>3, <2>4, <2>5, <2>6, <2>7, <2>8, <2>9, <2>10, <2>11
       DEF Next, Receiver, Sender
<1> QED
  BY <1>1, <1>2, PortInvariant, PTL DEF SafeSpec

-----------------------------------------------------------------------------
(* The peripheral follows the doors *)

\* Once all of s is written, a device that is on or off as given is as wanted.
BringsTo(s, id, on, wanted) ==
  /\ (\A i \in 1..Len(s) : Target(s[i]) # id) => on = wanted
  /\ \A i \in 1..Len(s) :
       /\ Target(s[i]) = id
       /\ \A j \in (i + 1)..Len(s) : Target(s[j]) # id
       => s[i].on = wanted

\* Commands for other devices change nothing for this one.
LEMMA OthersDoNotMatter ==
  ASSUME NEW s \in Seq(Commands), NEW t \in Seq(Commands), NEW id, NEW on, NEW wanted,
         BringsTo(s, id, on, wanted),
         \A i \in 1..Len(t) : Target(t[i]) # id
  PROVE  BringsTo(s \o t, id, on, wanted)
<1> DEFINE u == s \o t
<1>1. /\ u \in Seq(Commands) /\ Len(u) = Len(s) + Len(t)
      /\ \A i \in 1..Len(s) : u[i] = s[i]
      /\ \A i \in 1..Len(t) : u[Len(s) + i] = t[i]
  OBVIOUS
<1>2. Len(s) \in Nat /\ Len(t) \in Nat
  OBVIOUS
<1>3. \A i \in (Len(s) + 1)..Len(u) : Target(u[i]) # id
  <2> SUFFICES ASSUME NEW i \in (Len(s) + 1)..Len(u)  PROVE Target(u[i]) # id
    OBVIOUS
  <2>1. i - Len(s) \in 1..Len(t) /\ u[Len(s) + (i - Len(s))] = t[i - Len(s)]
    BY <1>1, <1>2
  <2> QED
    BY <1>2, <2>1
<1> HIDE DEF u
<1>4. ASSUME \A i \in 1..Len(u) : Target(u[i]) # id  PROVE on = wanted
  BY <1>1, <1>2, <1>4 DEF BringsTo
<1>5. ASSUME NEW i \in 1..Len(u), Target(u[i]) = id,
             \A j \in (i + 1)..Len(u) : Target(u[j]) # id
      PROVE  u[i].on = wanted
  <2>1. i \in 1..Len(s)
    BY <1>1, <1>2, <1>3, <1>5
  <2>2. \A j \in (i + 1)..Len(s) : Target(s[j]) # id
    BY <1>1, <1>2, <1>5, <2>1
  <2> QED
    BY <1>1, <1>5, <2>1, <2>2 DEF BringsTo
<1> QED
  BY <1>4, <1>5 DEF BringsTo, u

\* What is appended decides, if it ends with a command for the device.
LEMMA LastOneCounts ==
  ASSUME NEW s \in Seq(Commands), NEW t \in Seq(Commands), NEW id, NEW on, NEW wanted,
         NEW k \in 1..Len(t), Target(t[k]) = id, t[k].on = wanted,
         \A j \in 1..Len(t) : j # k => Target(t[j]) # id
  PROVE  BringsTo(s \o t, id, on, wanted)
<1> DEFINE u == s \o t
<1>1. /\ u \in Seq(Commands) /\ Len(u) = Len(s) + Len(t)
      /\ \A i \in 1..Len(t) : u[Len(s) + i] = t[i]
  OBVIOUS
<1>2. Len(s) \in Nat /\ Len(t) \in Nat
  OBVIOUS
<1> HIDE DEF u
<1>3. Len(s) + k \in 1..Len(u) /\ Target(u[Len(s) + k]) = id /\ u[Len(s) + k].on = wanted
  BY <1>1, <1>2
<1>4. ASSUME NEW i \in 1..Len(u), Target(u[i]) = id,
             \A j \in (i + 1)..Len(u) : Target(u[j]) # id
      PROVE  i = Len(s) + k
  <2>1. i >= Len(s) + k
    <3>1. CASE i + 1 <= Len(s) + k
      <4>1. Len(s) + k \in (i + 1)..Len(u)
        BY <1>2, <1>3, <3>1
      <4> QED
        BY <1>3, <1>4, <4>1
    <3> QED
      BY <1>2, <3>1
  <2>2. i - Len(s) \in 1..Len(t) /\ u[Len(s) + (i - Len(s))] = t[i - Len(s)]
    BY <1>1, <1>2, <2>1
  <2>3. Target(t[i - Len(s)]) = id
    <3>1. Len(s) + (i - Len(s)) = i
      BY <1>2
    <3> QED
      BY <1>4, <2>2, <3>1
  <2>4. i - Len(s) = k
    BY <2>2, <2>3
  <2> QED
    BY <1>2, <2>4
<1> QED
  BY <1>3, <1>4 DEF BringsTo, u

\* A written first command leaves the rest on its way; if it was for this
\* device, the device is now as the command says.
LEMMA FirstIsWritten ==
  ASSUME NEW cmd \in Commands, NEW s \in Seq(Commands), NEW id, NEW on, NEW wanted,
         BringsTo(<<cmd>> \o s, id, on, wanted)
  PROVE  BringsTo(s, id, IF Target(cmd) = id THEN cmd.on ELSE on, wanted)
<1> DEFINE u == <<cmd>> \o s
<1>1. /\ u \in Seq(Commands) /\ Len(u) = Len(s) + 1 /\ u[1] = cmd
      /\ \A i \in 1..Len(s) : u[i + 1] = s[i]
  OBVIOUS
<1>2. Len(s) \in Nat
  OBVIOUS
<1>3. BringsTo(u, id, on, wanted)
  OBVIOUS
<1> HIDE DEF u
<1>4. \A i \in 2..Len(u) : i - 1 \in 1..Len(s) /\ u[i] = s[i - 1]
  <2> SUFFICES ASSUME NEW i \in 2..Len(u)
               PROVE  i - 1 \in 1..Len(s) /\ u[i] = s[i - 1]
    OBVIOUS
  <2>1. i - 1 \in 1..Len(s) /\ (i - 1) + 1 = i
    BY <1>1, <1>2
  <2> QED
    BY <1>1, <2>1
<1>5. ASSUME \A i \in 1..Len(s) : Target(s[i]) # id
      PROVE  (IF Target(cmd) = id THEN cmd.on ELSE on) = wanted
  <2>1. \A i \in 2..Len(u) : Target(u[i]) # id
    BY <1>4, <1>5
  <2>2. CASE Target(cmd) = id
    BY <1>1, <1>2, <1>3, <2>1, <2>2 DEF BringsTo
  <2>3. CASE Target(cmd) # id
    BY <1>1, <1>2, <1>3, <2>1, <2>3 DEF BringsTo
  <2> QED
    BY <2>2, <2>3
<1>6. ASSUME NEW i \in 1..Len(s), Target(s[i]) = id,
             \A j \in (i + 1)..Len(s) : Target(s[j]) # id
      PROVE  s[i].on = wanted
  <2>1. i + 1 \in 1..Len(u) /\ u[i + 1] = s[i]
    BY <1>1, <1>2
  <2>2. ASSUME NEW j \in (i + 2)..Len(u)  PROVE Target(u[j]) # id
    <3>1. j \in 2..Len(u) /\ j - 1 \in (i + 1)..Len(s)
      BY <1>1, <1>2
    <3> QED
      BY <1>4, <1>6, <3>1
  <2>3. \A j \in ((i + 1) + 1)..Len(u) : Target(u[j]) # id
    BY <2>2
  <2> QED
    BY <1>3, <1>6, <2>1, <2>3 DEF BringsTo
<1> QED
  BY <1>5, <1>6 DEF BringsTo

\* What the handling of a status does to a door and what it commands agree.
LEMMA DoorCommandsBring ==
  ASSUME Monitor!TypeOK, NEW s \in Seq(Commands), NEW d \in Doors,
         NEW device \in Monitor!Devices, NEW status, NEW on,
         BringsTo(s, <<device, d>>, on, doorOpen_[d])
  PROVE  BringsTo(s \o Monitor!DoorCommands(d, status), <<device, d>>, on,
                  ~Monitor!Completes(d, status)
                    /\ (Monitor!Opens(d, status) \/ doorOpen_[d]))
<1> DEFINE id   == <<device, d>>
           t    == Monitor!DoorCommands(d, status)
           next == ~Monitor!Completes(d, status)
                     /\ (Monitor!Opens(d, status) \/ doorOpen_[d])
<1>1. doorOpen_[d] \in BOOLEAN
  BY DEF Monitor!TypeOK, Doors
<1>2. ASSUME NEW v \in BOOLEAN
      PROVE  /\ Monitor!Switch(d, v) \in Seq(Commands)
             /\ \E k \in 1..Len(Monitor!Switch(d, v)) :
                  /\ Target(Monitor!Switch(d, v)[k]) = id
                  /\ Monitor!Switch(d, v)[k].on = v
                  /\ \A j \in 1..Len(Monitor!Switch(d, v)) :
                       j # k => Target(Monitor!Switch(d, v)[j]) # id
  <2> DEFINE c(dev) == [device |-> dev, door |-> d, on |-> v]
             w      == Monitor!Switch(d, v)
  <2>1. /\ w \in Seq(Commands) /\ Len(w) = 2
        /\ w[1] = c("Cam") /\ w[2] = c("Light")
    BY DEF Monitor!Switch, Commands, Monitor!Commands, Monitor!Devices, Doors
  <2>2. \A dev \in Monitor!Devices : Target(c(dev)) = <<dev, d>> /\ c(dev).on = v
    BY DEF Target
  <2>3. CASE device = "Cam"
    <3>1. Target(w[1]) = id /\ w[1].on = v /\ Target(w[2]) # id
      BY <2>1, <2>2, <2>3 DEF Monitor!Devices
    <3> QED
      BY <2>1, <3>1
  <2>4. CASE device = "Light"
    <3>1. Target(w[2]) = id /\ w[2].on = v /\ Target(w[1]) # id
      BY <2>1, <2>2, <2>4 DEF Monitor!Devices
    <3> QED
      BY <2>1, <3>1
  <2> QED
    BY <2>3, <2>4 DEF Monitor!Devices
<1>3. ASSUME NEW v \in BOOLEAN, t = Monitor!Switch(d, v), next = v
      PROVE  BringsTo(s \o t, id, on, next)
  <2>1. t \in Seq(Commands)
    BY <1>2, <1>3
  <2>2. PICK k \in 1..Len(t) :
          /\ Target(t[k]) = id /\ t[k].on = next
          /\ \A j \in 1..Len(t) : j # k => Target(t[j]) # id
    BY <1>2, <1>3
  <2> HIDE DEF t, id, next
  <2> QED
    BY <2>1, <2>2, LastOneCounts
<1>4. CASE Monitor!Opens(d, status)
  <2>1. ~Monitor!Completes(d, status)
    BY <1>4 DEF Monitor!Opens, Monitor!Completes, Monitor!Closes
  <2>2. t = Monitor!Switch(d, TRUE)
    BY <1>4, <2>1 DEF Monitor!DoorCommands
  <2>3. next = TRUE
    BY <1>4, <2>1
  <2> QED
    BY <1>3, <2>2, <2>3
<1>5. CASE Monitor!Completes(d, status) /\ ~Monitor!Opens(d, status)
  <2>1. t = Monitor!Switch(d, FALSE)
    BY <1>5 DEF Monitor!DoorCommands
  <2>2. next = FALSE
    BY <1>5
  <2> QED
    BY <1>3, <2>1, <2>2
<1>6. CASE ~Monitor!Completes(d, status) /\ ~Monitor!Opens(d, status)
  <2>1. t = <<>>
    BY <1>6 DEF Monitor!DoorCommands
  <2>2. next = doorOpen_[d]
    BY <1>1, <1>6
  <2>3. s \o t = s
    BY <2>1
  <2> QED
    BY <2>2, <2>3
<1> QED
  BY <1>4, <1>5, <1>6

\* A door commands its own camera and light only.
LEMMA CommandsOfDoor ==
  ASSUME NEW d \in Doors, NEW status
  PROVE  \A i \in 1..Len(Monitor!DoorCommands(d, status)) :
           Target(Monitor!DoorCommands(d, status)[i])[2] = d
<1>1. ASSUME NEW v \in BOOLEAN
      PROVE  \A i \in 1..Len(Monitor!Switch(d, v)) : Target(Monitor!Switch(d, v)[i])[2] = d
  BY DEF Monitor!Switch, Target
<1>2. \/ Monitor!DoorCommands(d, status) = <<>>
      \/ \E v \in BOOLEAN : Monitor!DoorCommands(d, status) = Monitor!Switch(d, v)
  <2>1. ~(Monitor!Opens(d, status) /\ Monitor!Completes(d, status))
    BY DEF Monitor!Opens, Monitor!Completes, Monitor!Closes
  <2> QED
    BY <2>1 DEF Monitor!DoorCommands
<1> QED
  BY <1>1, <1>2

\* What the last write says of a device: its state if it succeeded; without one it
\* counts as off, whatever state it was found in; after a failure, as its door asks.
KnownOn(id) ==
  CASE lastWrite[id] = "sent"   -> peripheral[id]
    [] lastWrite[id] = "none"   -> FALSE
    [] lastWrite[id] = "failed" -> doorOpen_[id[2]]

\* The property in terms of the lemmas.
LEMMA FollowsIsBringsTo ==
  ASSUME TypeOK
  PROVE  PeripheralFollowsDoors <=>
           \A id \in DeviceIds : BringsTo(OnTheWay, id, KnownOn(id), doorOpen_[id[2]])
<1>1. \A id \in DeviceIds : /\ lastWrite[id] \in {"none", "sent", "failed"}
                            /\ doorOpen_[id[2]] \in BOOLEAN
  BY DEF TypeOK, Monitor!TypeOK, DeviceIds, Doors
<1>2. \A id \in DeviceIds :
        KnownOn(id) = doorOpen_[id[2]] <=>
          /\ lastWrite[id] = "sent" => peripheral[id] = doorOpen_[id[2]]
          /\ lastWrite[id] = "none" => ~doorOpen_[id[2]]
  BY <1>1 DEF KnownOn
<1> QED
  BY <1>2, Zenon DEF PeripheralFollowsDoors, BringsTo, IsLastFor

\* The same after a step.
LEMMA FollowsIsBringsToNext ==
  ASSUME TypeOK'
  PROVE  PeripheralFollowsDoors' <=>
           \A id \in DeviceIds :
             BringsTo(OnTheWay', id, KnownOn(id)', doorOpen_'[id[2]])
<1>1. \A id \in DeviceIds : /\ lastWrite'[id] \in {"none", "sent", "failed"}
                            /\ doorOpen_'[id[2]] \in BOOLEAN
  BY DEF TypeOK, Monitor!TypeOK, DeviceIds, Doors
<1>2. \A id \in DeviceIds :
        KnownOn(id)' = doorOpen_'[id[2]] <=>
          /\ lastWrite'[id] = "sent" => peripheral'[id] = doorOpen_'[id[2]]
          /\ lastWrite'[id] = "none" => ~doorOpen_'[id[2]]
  BY <1>1 DEF KnownOn
<1> QED
  BY <1>2, Zenon DEF PeripheralFollowsDoors, BringsTo, IsLastFor, OnTheWay

\* The commands on their way decide the same for a device already as it should be.
LEMMA AsWantedSuffices ==
  ASSUME NEW s, NEW id, NEW on, NEW wanted, BringsTo(s, id, on, wanted)
  PROVE  BringsTo(s, id, wanted, wanted)
BY DEF BringsTo

\* What a status pushes comes behind all that is on the way.
LEMMA PushedBehind ==
  ASSUME taken \in Seq(Commands), outgoingQueue_ \in Seq(Commands),
         NEW status, NEW now, Monitor!ProcessSystemStatus(status, now), UNCHANGED taken
  PROVE  OnTheWay' = (OnTheWay \o Monitor!DoorCommands("door_0", status))
                               \o Monitor!DoorCommands("door_1", status)
<1> DEFINE c0    == Monitor!DoorCommands("door_0", status)
           c1    == Monitor!DoorCommands("door_1", status)
           first == outgoingQueue_ \o c0
<1>1. OnTheWay' = taken \o (first \o c1)
  BY DEF OnTheWay, Monitor!ProcessSystemStatus
<1>2. c0 \in Seq(Commands) /\ c1 \in Seq(Commands)
  BY DoorCommandsType DEF Doors, Monitor!Doors
<1> HIDE DEF c0, c1
<1>3. taken \in Seq(Commands) /\ outgoingQueue_ \in Seq(Commands) /\ c0 \in Seq(Commands)
  BY <1>2
<1>4. taken \o first = (taken \o outgoingQueue_) \o c0
  BY ONLY <1>3
<1>5. taken \in Seq(Commands) /\ first \in Seq(Commands) /\ c1 \in Seq(Commands)
  BY <1>2
<1> HIDE DEF first
<1>6. taken \o (first \o c1) = (taken \o first) \o c1
  BY ONLY <1>5
<1>7. OnTheWay' = (OnTheWay \o c0) \o c1
  BY <1>1, <1>4, <1>6, Zenon DEF OnTheWay
<1> QED
  BY <1>7 DEF c0, c1

\* The command the sender takes is the first of those on the way.
LEMMA PopKeepsOrder ==
  ASSUME TypeOK, SenderPop
  PROVE  OnTheWay' = OnTheWay
<1>1. /\ taken = <<>> /\ outgoingQueue_ # <<>>
      /\ taken' = <<Head(outgoingQueue_)>> /\ outgoingQueue_' = Tail(outgoingQueue_)
      /\ outgoingQueue_ \in Seq(Commands)
  BY DEF SenderPop, TypeOK, Monitor!TypeOK, Commands
<1> QED
  BY <1>1 DEF OnTheWay

\* Whatever state the devices were found in, and whatever the receiver, the sender and
\* stop() are in the middle of: the commands a device still has to get bring it to
\* where its door asks it to be, one that the last write reached is there when there
\* are none, and one never written to has its door closed.
THEOREM FollowsDoors == SafeSpec => []PeripheralFollowsDoors
<1>1. Init => PeripheralFollowsDoors
  <2> SUFFICES ASSUME Init  PROVE PeripheralFollowsDoors
    OBVIOUS
  <2>1. OnTheWay = <<>> /\ Len(OnTheWay) = 0
    BY DEF Init, Monitor!Init, OnTheWay
  <2>2. \A id \in DeviceIds : lastWrite[id] = "none" /\ doorOpen_[id[2]] = FALSE
    BY DEF Init, Monitor!Init, DeviceIds, Doors
  <2>3. 1..Len(OnTheWay) = {}
    BY <2>1
  <2> QED
    BY <2>2, <2>3 DEF PeripheralFollowsDoors
<1>2. TypeOK /\ TypeOK' /\ PeripheralFollowsDoors /\ [Next]_vars => PeripheralFollowsDoors'
  <2> SUFFICES ASSUME TypeOK, TypeOK', PeripheralFollowsDoors, [Next]_vars,
                      NEW id \in DeviceIds
               PROVE  BringsTo(OnTheWay', id, KnownOn(id)', doorOpen_'[id[2]])
    BY FollowsIsBringsToNext
  <2>1. /\ taken \in Seq(Commands) /\ outgoingQueue_ \in Seq(Commands)
        /\ Len(taken) = IF txPc = "write" THEN 1 ELSE 0
        /\ lastWrite[id] \in {"none", "sent", "failed"}
    BY DEF TypeOK, Monitor!TypeOK, Commands
  <2>2. BringsTo(OnTheWay, id, KnownOn(id), doorOpen_[id[2]])
    BY FollowsIsBringsTo
  <2>3. ASSUME UNCHANGED <<taken, outgoingQueue_, peripheral, lastWrite, doorOpen_>>
        PROVE  BringsTo(OnTheWay', id, KnownOn(id)', doorOpen_'[id[2]])
    BY <2>2, <2>3 DEF OnTheWay, KnownOn
  <2>4. CASE ReceiverProcess
    <3>1. UNCHANGED <<taken, peripheral, lastWrite>>
      BY <2>4 DEF ReceiverProcess, senderVars
    <3>2. PICK now \in Times : Monitor!ProcessSystemStatus(Head(unread), now)
      BY <2>4 DEF ReceiverProcess
    <3> DEFINE status == Head(unread)
               c0     == Monitor!DoorCommands("door_0", status)
               c1     == Monitor!DoorCommands("door_1", status)
               after(d) == ~Monitor!Completes(d, status)
                             /\ (Monitor!Opens(d, status) \/ doorOpen_[d])
    <3>3. c0 \in Seq(Commands) /\ c1 \in Seq(Commands)
      BY DoorCommandsType DEF Doors, Monitor!Doors
    <3>4. OnTheWay \in Seq(Commands) /\ OnTheWay \o c0 \in Seq(Commands)
      BY <2>1, <3>3 DEF OnTheWay
    <3>5. OnTheWay' = (OnTheWay \o c0) \o c1
      BY <2>1, <3>1, <3>2, PushedBehind
    <3>6. \A d \in Doors : doorOpen_'[d] = after(d)
      BY <3>2 DEF Monitor!ProcessSystemStatus, Doors
    <3>7. PICK device \in Monitor!Devices, d \in Doors : id = <<device, d>>
      BY DEF DeviceIds
    <3>8. \A e \in Doors \ {d} : \A i \in 1..Len(Monitor!DoorCommands(e, status)) :
            Target(Monitor!DoorCommands(e, status)[i]) # id
      BY <3>7, CommandsOfDoor
    <3>9. BringsTo(OnTheWay, id, KnownOn(id), doorOpen_[d])
      BY <2>2, <3>7
    <3>10. BringsTo(OnTheWay', id, KnownOn(id), doorOpen_'[id[2]])
      <4>1. CASE d = "door_0"
        <5>1. BringsTo(OnTheWay \o c0, id, KnownOn(id), after(d))
          BY <3>4, <3>7, <3>9, <4>1, DoorCommandsBring DEF TypeOK
        <5>2. BringsTo((OnTheWay \o c0) \o c1, id, KnownOn(id), after(d))
          <6>1. \A i \in 1..Len(c1) : Target(c1[i]) # id
            BY <3>8, <4>1 DEF Doors, Monitor!Doors
          <6> QED
            BY <3>3, <3>4, <5>1, <6>1, OthersDoNotMatter
        <5> QED
          BY <3>5, <3>6, <3>7, <5>2
      <4>2. CASE d = "door_1"
        <5>1. BringsTo(OnTheWay \o c0, id, KnownOn(id), doorOpen_[d])
          <6>1. \A i \in 1..Len(c0) : Target(c0[i]) # id
            BY <3>8, <4>2 DEF Doors, Monitor!Doors
          <6> QED
            BY <3>3, <3>4, <3>9, <6>1, OthersDoNotMatter
        <5>2. BringsTo((OnTheWay \o c0) \o c1, id, KnownOn(id), after(d))
          BY <3>4, <3>7, <4>2, <5>1, DoorCommandsBring DEF TypeOK
        <5> QED
          BY <3>5, <3>6, <3>7, <5>2
      <4> QED
        BY <4>1, <4>2 DEF Doors, Monitor!Doors
    <3>11. CASE lastWrite[id] = "failed"
      <4>1. KnownOn(id)' = doorOpen_'[id[2]]
        BY <3>1, <3>11 DEF KnownOn
      <4> QED
        BY <3>10, <4>1, AsWantedSuffices
    <3>12. CASE lastWrite[id] # "failed"
      <4>1. KnownOn(id)' = KnownOn(id)
        BY <2>1, <3>1, <3>12 DEF KnownOn
      <4> QED
        BY <3>10, <4>1
    <3> QED
      BY <3>11, <3>12
  <2>5. CASE SenderPop
    <3>1. UNCHANGED <<peripheral, lastWrite, doorOpen_>>
      BY <2>5 DEF SenderPop, monitorVars
    <3>2. OnTheWay' = OnTheWay
      BY <2>5, PopKeepsOrder
    <3> QED
      BY <2>2, <3>1, <3>2 DEF KnownOn
  <2>6. CASE SenderWrite
    <3> DEFINE cmd == Head(taken)
    <3>1. /\ cmd \in Commands
          /\ OnTheWay = <<cmd>> \o outgoingQueue_
      BY <2>1, <2>6, NothingBehindOne DEF SenderWrite, OnTheWay
    <3>2. /\ taken' = <<>> /\ outgoingQueue_' = outgoingQueue_
          /\ doorOpen_' = doorOpen_
      BY <2>6 DEF SenderWrite, monitorVars
    <3>3. OnTheWay' = outgoingQueue_
      BY <2>1, <3>2 DEF OnTheWay
    <3>4. BringsTo(OnTheWay', id, IF Target(cmd) = id THEN cmd.on ELSE KnownOn(id),
                   doorOpen_'[id[2]])
      BY <2>1, <2>2, <3>1, <3>2, <3>3, FirstIsWritten
    <3>5. CASE Target(cmd) # id
      <4>1. KnownOn(id)' = KnownOn(id)
        BY <2>6, <3>2, <3>5 DEF SenderWrite, KnownOn, TypeOK
      <4> QED
        BY <3>4, <3>5, <4>1
    <3>6. CASE Target(cmd) = id /\ lastWrite'[id] = "sent"
      <4>1. KnownOn(id)' = cmd.on
        BY <2>6, <3>6 DEF SenderWrite, KnownOn, TypeOK
      <4> QED
        BY <3>4, <3>6, <4>1
    <3>7. CASE Target(cmd) = id /\ lastWrite'[id] = "failed"
      <4>1. KnownOn(id)' = doorOpen_'[id[2]]
        BY <3>7 DEF KnownOn
      <4> QED
        BY <3>4, <4>1, AsWantedSuffices
    <3>8. Target(cmd) = id => lastWrite'[id] \in {"sent", "failed"}
      BY <2>6 DEF SenderWrite, TypeOK
    <3> QED
      BY <3>5, <3>6, <3>7, <3>8
  <2>7. CASE Main
    BY <2>3, <2>7 DEF Main, Start, Stop, ShutdownQueue, JoinReceiver, JoinSender, Close,
                      monitorVars, senderVars
  <2>8. CASE ReceiverCheck \/ ReceiverRead \/ ReceiverSleep
    BY <2>3, <2>8 DEF ReceiverCheck, ReceiverRead, ReceiverSleep, monitorVars, senderVars
  <2>9. CASE SenderCheck \/ SenderPopNothing
    BY <2>3, <2>9 DEF SenderCheck, SenderPopNothing, monitorVars
  <2>10. CASE UNCHANGED vars
    BY <2>3, <2>10 DEF vars, monitorVars, senderVars
  <2> QED
    BY <2>4, <2>5, <2>6, <2>7, <2>8, <2>9, <2>10 DEF Next, Receiver, Sender
<1> QED
  BY <1>1, <1>2, TypeCorrect, PTL DEF SafeSpec

-----------------------------------------------------------------------------
(* MainControl implements DoorMonitor *)

\* The history is that of MainControl.
LEMMA HistoryIsMainControl == HistorySpec => SafeSpec
<1>1. HistoryInit => Init
  BY DEF HistoryInit
<1>2. [HistoryNext]_historyVars => [Next]_vars
  BY DEF HistoryNext, historyVars
<1> QED
  BY <1>1, <1>2, PTL DEF HistorySpec, SafeSpec

WrittenType == written \in Seq(Commands)

\* What is not the handling of a status leaves its state and what was pushed as it was.
LEMMA OthersStutter ==
  ASSUME PortInv, TypeOK, WrittenType, [HistoryNext]_historyVars, ~ReceiverProcess
  PROVE  UNCHANGED Handler!vars
<1>1. /\ taken \in Seq(Commands) /\ outgoingQueue_ \in Seq(Commands)
      /\ Len(taken) = IF txPc = "write" THEN 1 ELSE 0
  BY DEF TypeOK, Monitor!TypeOK, Commands
<1>2. CASE UNCHANGED <<monitorVars, outgoingQueue_, taken, written>>
  BY <1>2 DEF Handler!vars, Handler!doorVars, monitorVars, Pushed, OnTheWay
<1>3. CASE SenderPop /\ HistoryNext
  <2>1. OnTheWay' = OnTheWay /\ written' = written /\ UNCHANGED monitorVars
    BY <1>3, PopKeepsOrder DEF SenderPop, HistoryNext, Writes
  <2> QED
    BY <2>1 DEF Handler!vars, Handler!doorVars, monitorVars, Pushed
<1>4. CASE SenderWrite /\ HistoryNext
  <2>1. /\ written' = written \o taken
        /\ taken' = <<>> /\ outgoingQueue_' = outgoingQueue_ /\ UNCHANGED monitorVars
    BY <1>4 DEF SenderWrite, HistoryNext, Writes
  <2>2. OnTheWay' = outgoingQueue_
    BY <1>1, <2>1 DEF OnTheWay
  <2>3. (written \o taken) \o outgoingQueue_ = written \o (taken \o outgoingQueue_)
    <3>1. /\ written \in Seq(Commands) /\ taken \in Seq(Commands)
          /\ outgoingQueue_ \in Seq(Commands)
      BY <1>1 DEF WrittenType
    <3> QED
      BY ONLY <3>1
  <2>4. Pushed' = Pushed
    BY <2>1, <2>2, <2>3 DEF Pushed, OnTheWay
  <2> QED
    BY <2>1, <2>4 DEF Handler!vars, Handler!doorVars, monitorVars
<1>5. CASE Main /\ HistoryNext
  <2>1. UNCHANGED <<monitorVars, outgoingQueue_, taken>>
    BY <1>5 DEF Main, Start, Stop, ShutdownQueue, JoinReceiver, JoinSender, Close, senderVars
  <2>2. ~Writes
    BY <1>5 DEF PortInv, Writes, Main, Start, Stop, ShutdownQueue, JoinReceiver, JoinSender,
                Close, senderVars
  <2> QED
    BY <1>2, <1>5, <2>1, <2>2 DEF HistoryNext
<1>6. CASE (ReceiverCheck \/ ReceiverRead \/ ReceiverSleep) /\ HistoryNext
  BY <1>2, <1>6 DEF ReceiverCheck, ReceiverRead, ReceiverSleep, senderVars,
                    HistoryNext, Writes
<1>7. CASE (SenderCheck \/ SenderPopNothing) /\ HistoryNext
  BY <1>2, <1>7 DEF SenderCheck, SenderPopNothing, HistoryNext, Writes
<1>8. CASE UNCHANGED historyVars
  BY <1>2, <1>8 DEF historyVars, vars, senderVars
<1> QED
  BY <1>3, <1>4, <1>5, <1>6, <1>7, <1>8 DEF HistoryNext, Next, Receiver, Sender

\* The handling of a status is that of DoorMonitor.
LEMMA ReceiverHandles ==
  ASSUME TypeOK, WrittenType, HistoryNext, ReceiverProcess
  PROVE  Handler!Next
<1>1. /\ taken \in Seq(Commands) /\ outgoingQueue_ \in Seq(Commands)
      /\ Head(unread) \in Statuses
  BY DEF TypeOK, Monitor!TypeOK, Commands, ReceiverProcess
<1>2. taken' = taken /\ written' = written
  BY DEF ReceiverProcess, HistoryNext, Writes, senderVars
<1>3. PICK now \in Times : Monitor!ProcessSystemStatus(Head(unread), now)
  BY DEF ReceiverProcess
<1> DEFINE c0 == Monitor!DoorCommands("door_0", Head(unread))
           c1 == Monitor!DoorCommands("door_1", Head(unread))
<1>4. OnTheWay' = (OnTheWay \o c0) \o c1
  BY <1>1, <1>2, <1>3, PushedBehind
<1>5. Pushed' = (Pushed \o c0) \o c1
  <2>1. /\ written \in Seq(Commands) /\ OnTheWay \in Seq(Commands)
        /\ c0 \in Seq(Commands) /\ c1 \in Seq(Commands)
    BY <1>1, DoorCommandsType DEF WrittenType, OnTheWay, Doors, Monitor!Doors
  <2>2. Pushed' = written \o ((OnTheWay \o c0) \o c1)
    BY <1>2, <1>4 DEF Pushed
  <2> HIDE DEF c0, c1
  <2>3. written \o ((OnTheWay \o c0) \o c1) = ((written \o OnTheWay) \o c0) \o c1
    BY ONLY <2>1
  <2> QED
    BY <2>2, <2>3 DEF Pushed
<1>6. Handler!ProcessSystemStatus(Head(unread), now)
  BY <1>3, <1>5
     DEF Monitor!ProcessSystemStatus, Handler!ProcessSystemStatus,
         Monitor!LogChanges, Handler!LogChanges, Monitor!Changed, Handler!Changed,
         Monitor!LogEvent, Handler!LogEvent, Monitor!DoorCommands, Handler!DoorCommands,
         Monitor!DoorRequest, Handler!DoorRequest, Monitor!Completes, Handler!Completes,
         Monitor!Opens, Handler!Opens, Monitor!Closes, Handler!Closes,
         Monitor!Switch, Handler!Switch, Monitor!Doors, Handler!Doors,
         Monitor!Bits, Handler!Bits
<1> QED
  BY <1>1, <1>6 DEF Handler!Next

\* Whatever the threads are in the middle of, and wherever stop() is called, the
\* statuses are handled as by DoorMonitor, one after the other, and every command
\* goes to the peripheral once, in the order in which they were pushed.
THEOREM Implements == HistorySpec => ImplementsMonitor
<1>1. HistoryInit => WrittenType
  BY DEF HistoryInit, WrittenType
<1>2. TypeOK /\ WrittenType /\ [HistoryNext]_historyVars => WrittenType'
  <2> SUFFICES ASSUME TypeOK, WrittenType, [HistoryNext]_historyVars  PROVE WrittenType'
    OBVIOUS
  <2>1. written \in Seq(Commands) /\ taken \in Seq(Commands)
    BY DEF TypeOK, Commands, WrittenType
  <2>2. written' = written \o taken \/ written' = written
    BY DEF HistoryNext, historyVars
  <2>3. written \o taken \in Seq(Commands)
    BY ONLY <2>1
  <2> QED
    BY <2>1, <2>2, <2>3, Zenon DEF WrittenType
<1>3. HistoryInit => Handler!Init
  <2> SUFFICES ASSUME HistoryInit  PROVE Handler!Init
    OBVIOUS
  <2>1. Pushed = <<>>
    BY DEF HistoryInit, Init, Monitor!Init, Pushed, OnTheWay
  <2> QED
    BY <2>1 DEF HistoryInit, Init, Monitor!Init, Handler!Init, Monitor!Bits, Handler!Bits,
                Monitor!Doors, Handler!Doors
<1>4. PortInv /\ TypeOK /\ WrittenType /\ [HistoryNext]_historyVars
        => [Handler!Next]_(Handler!vars)
  <2> SUFFICES ASSUME PortInv, TypeOK, WrittenType, [HistoryNext]_historyVars
               PROVE  Handler!Next \/ UNCHANGED Handler!vars
    OBVIOUS
  <2>1. CASE ReceiverProcess /\ HistoryNext
    BY <2>1, ReceiverHandles
  <2>2. CASE ~ReceiverProcess
    BY <2>2, OthersStutter
  <2>3. CASE UNCHANGED historyVars
    BY <2>3 DEF historyVars, vars, senderVars, Handler!vars, Handler!doorVars, monitorVars,
                Pushed, OnTheWay
  <2> QED
    BY <2>1, <2>2, <2>3
<1> QED
  BY <1>1, <1>2, <1>3, <1>4, HistoryIsMainControl, PortInvariant, TypeCorrect, PTL
     DEF HistorySpec, ImplementsMonitor, Handler!Spec

-----------------------------------------------------------------------------
(* What DoorMonitor promises *)

Promised == INSTANCE DoorMonitorProofs WITH outgoingQueue_ <- Pushed

\* The constants are as DoorMonitor assumes.
LEMMA Assumed ==
  /\ OtherBits \subseteq {"cover_0", "cover_1", "mainSupply", "ignition"}
  /\ Statuses \subseteq [Promised!Bits -> Promised!Bit]
  /\ Times \subseteq Int
  /\ StopBeginDelay \in Int
  /\ StopEndDelay \in Int
BY MonitorAssumption DEF Monitor!Bits, Promised!Bits, Monitor!Bit, Promised!Bit,
                         Monitor!Doors, Promised!Doors

\* The module proved about is the module implemented.
LEMMA HandlerIsPromised == Handler!Spec => Promised!Spec
<1>1. Handler!Init => Promised!Init
  BY DEF Handler!Init, Promised!Init, Handler!Bits, Promised!Bits, Handler!Doors,
         Promised!Doors
<1>2. [Handler!Next]_(Handler!vars) => [Promised!Next]_(Promised!vars)
  BY DEF Handler!Next, Promised!Next, Handler!vars, Promised!vars,
         Handler!doorVars, Promised!doorVars,
         Promised!ProcessSystemStatus, Handler!ProcessSystemStatus,
         Promised!LogChanges, Handler!LogChanges, Promised!Changed, Handler!Changed,
         Promised!LogEvent, Handler!LogEvent, Promised!DoorCommands, Handler!DoorCommands,
         Promised!DoorRequest, Handler!DoorRequest, Promised!Completes, Handler!Completes,
         Promised!Opens, Handler!Opens, Promised!Closes, Handler!Closes,
         Promised!Switch, Handler!Switch, Promised!Doors, Handler!Doors,
         Promised!Bits, Handler!Bits
<1> QED
  BY <1>1, <1>2, PTL DEF Handler!Spec, Promised!Spec

\* In the running program too, each device of a door is told on and off in turn:
\* the commands written, being written and queued alternate, whatever the receiver,
\* the sender and stop() are in the middle of, and the last agrees with the door.
THEOREM CommandsAlternate == HistorySpec => []Handler!CommandsFollowDoors
<1>1. Promised!Spec => []Promised!CommandsFollowDoors
  BY Assumed, Promised!CommandsFollow
<1>2. Promised!CommandsFollowDoors => Handler!CommandsFollowDoors
  BY DEF Handler!CommandsFollowDoors, Promised!CommandsFollowDoors, Handler!Alternate,
         Promised!Alternate, Handler!Doors, Promised!Doors, Handler!Devices,
         Promised!Devices, Handler!Addressed, Promised!Addressed
<1> QED
  BY <1>1, <1>2, Implements, HandlerIsPromised, PTL DEF ImplementsMonitor

\* In the running program too, the database has the whole history of an input none
\* of whose events it refused.
THEOREM EventsAreKept == HistorySpec => []Handler!EventHistory
<1>1. Promised!Spec => []Promised!EventHistory
  BY Assumed, Promised!EventsAreHistory
<1>2. Promised!EventHistory => Handler!EventHistory
  BY DEF Handler!EventHistory, Promised!EventHistory, Handler!Bits, Promised!Bits,
         Handler!Doors, Promised!Doors, Handler!AlternatesFromOne,
         Promised!AlternatesFromOne
<1> QED
  BY <1>1, <1>2, Implements, HandlerIsPromised, PTL DEF ImplementsMonitor
=============================================================================
