-------------------------- MODULE DoorMonitorProofs --------------------------
(***************************************************************************)
(* Proofs about DoorMonitor, for any inputs besides the doors, any statuses *)
(* and times, and any delays.                                               *)
(***************************************************************************)
EXTENDS DoorMonitor, TLAPS

\* A door yields no commands, or the two that switch its camera and light.
LEMMA DoorCommandsType ==
  ASSUME NEW d \in Doors, NEW status
  PROVE  DoorCommands(d, status) \in Seq(Commands)
<1>1. \A on \in BOOLEAN : Switch(d, on) \in Seq(Commands)
  BY DEF Switch, Commands, Devices
<1>2. <<>> \in Seq(Commands)
  OBVIOUS
<1> QED
  BY <1>1, <1>2 DEF DoorCommands

\* A door yields no request, or one.
LEMMA DoorRequestType ==
  ASSUME TypeOK, NEW d \in Doors, NEW status, NEW now \in Int
  PROVE  DoorRequest(d, status, now) \in Seq(Requests)
<1>1. <<>> \in Seq(Requests)
  OBVIOUS
<1>2. [camera    |-> d,
       startTime |-> doorOpenTime_[d] - StopBeginDelay,
       stopTime  |-> now + StopEndDelay] \in Requests
  BY DoorAssumption DEF TypeOK, Requests
<1> QED
  BY <1>1, <1>2 DEF DoorRequest

\* The types survive a status.
LEMMA ProcessKeepsTypes ==
  ASSUME TypeOK, NEW status \in Statuses, NEW now \in Times,
         ProcessSystemStatus(status, now)
  PROVE  TypeOK'
<1> USE DEF TypeOK
<1>1. status \in [Bits -> Bit] /\ now \in Int
  BY DoorAssumption
<1>2. currentStatus_' \in [Bits -> Bit] /\ previousStatus_' \in [Bits -> Bit]
  BY <1>1 DEF ProcessSystemStatus
<1>3. doorOpen_' \in [Doors -> BOOLEAN]
  <2>1. \A d \in Doors :
          (~Completes(d, status) /\ (Opens(d, status) \/ doorOpen_[d])) \in BOOLEAN
    OBVIOUS
  <2> QED
    BY <2>1, Zenon DEF ProcessSystemStatus
<1>4. doorOpenTime_' \in [Doors -> Int]
  BY <1>1 DEF ProcessSystemStatus
<1>5. outgoingQueue_' \in Seq(Commands)
  BY DoorCommandsType DEF ProcessSystemStatus, Doors
<1>6. requests' \in Seq(Requests)
  BY <1>1, DoorRequestType DEF ProcessSystemStatus, Doors
<1>7. stored' \in [Bits -> Seq(Bit)] /\ eventLost' \subseteq Bits
  BY <1>1 DEF ProcessSystemStatus, LogChanges, LogEvent, Changed
<1> QED
  BY <1>2, <1>3, <1>4, <1>5, <1>6, <1>7

\* Statuses, flags, times, commands, requests and events keep their types.
THEOREM TypeCorrect == Spec => []TypeOK
<1>1. Init => TypeOK
  <2> SUFFICES ASSUME Init  PROVE TypeOK
    OBVIOUS
  <2>1. currentStatus_ \in [Bits -> Bit] /\ previousStatus_ \in [Bits -> Bit]
    BY DEF Init, Bit
  <2>2. doorOpen_ \in [Doors -> BOOLEAN] /\ doorOpenTime_ \in [Doors -> Int]
    BY DEF Init
  <2>3. outgoingQueue_ \in Seq(Commands) /\ requests \in Seq(Requests)
    BY DEF Init
  <2>4. stored \in [Bits -> Seq(Bit)] /\ eventLost \subseteq Bits
    <3>1. <<>> \in Seq(Bit)
      OBVIOUS
    <3> QED
      BY <3>1 DEF Init
  <2> QED
    BY <2>1, <2>2, <2>3, <2>4 DEF TypeOK
<1>2. TypeOK /\ [Next]_vars => TypeOK'
  <2>1. ASSUME TypeOK, Next  PROVE TypeOK'
    BY <2>1, ProcessKeepsTypes DEF Next
  <2>2. ASSUME TypeOK, UNCHANGED vars  PROVE TypeOK'
    BY <2>2 DEF TypeOK, vars, doorVars
  <2> QED
    BY <2>1, <2>2
<1> QED
  BY <1>1, <1>2, PTL DEF Spec

-----------------------------------------------------------------------------
\* An opening in progress is that of a door that is open now.
SeenDoorsAreOpen == \A d \in Doors : doorOpen_[d] => currentStatus_[d] = 0

\* The flag door0Open_ never stays set on a closed door, and is never set on one.
LEMMA SeenDoors == Spec => []SeenDoorsAreOpen
<1>1. Init => SeenDoorsAreOpen
  BY DEF Init, SeenDoorsAreOpen
<1>2. TypeOK /\ SeenDoorsAreOpen /\ [Next]_vars => SeenDoorsAreOpen'
  <2> SUFFICES ASSUME TypeOK, SeenDoorsAreOpen, [Next]_vars, NEW d \in Doors,
                      doorOpen_[d]'
               PROVE  currentStatus_[d]' = 0
    BY DEF SeenDoorsAreOpen
  <2>1. ASSUME NEW status \in Statuses, NEW now \in Times,
               ProcessSystemStatus(status, now)
        PROVE  currentStatus_[d]' = 0
    <3>1. ~Completes(d, status) /\ (Opens(d, status) \/ doorOpen_[d])
      BY <2>1 DEF ProcessSystemStatus
    <3>2. currentStatus_' = status /\ status[d] \in {0, 1}
      BY <2>1, DoorAssumption DEF ProcessSystemStatus, Bits, Bit
    <3> QED
      BY <3>1, <3>2 DEF Completes, Closes, Opens, SeenDoorsAreOpen
  <2>2. CASE UNCHANGED vars
    BY <2>2 DEF vars, doorVars, SeenDoorsAreOpen
  <2> QED
    BY <2>1, <2>2 DEF Next
<1> QED
  BY <1>1, <1>2, TypeCorrect, PTL DEF Spec

-----------------------------------------------------------------------------
\* One more change turns the parity.
LEMMA ParityFlips ==
  ASSUME NEW n \in Nat, NEW x \in {0, 1}, x # n % 2
  PROVE  x = (n + 1) % 2
<1>1. n % 2 \in {0, 1} /\ (n + 1) % 2 \in {0, 1} /\ n % 2 # (n + 1) % 2
  OBVIOUS
<1> QED
  BY <1>1

\* The database holds, for every input none of whose events it refused, the
\* alternating history of the input, ending in its present value.
THEOREM EventsAreHistory == Spec => []EventHistory
<1>1. Init => EventHistory
  BY DEF Init, EventHistory, AlternatesFromOne
<1>2. TypeOK /\ EventHistory /\ [Next]_vars => EventHistory'
  <2> SUFFICES ASSUME TypeOK, EventHistory, [Next]_vars,
                      NEW b \in Bits, b \notin eventLost'
               PROVE  /\ AlternatesFromOne(stored'[b])
                      /\ currentStatus_[b]' = Len(stored'[b]) % 2
    BY DEF EventHistory, AlternatesFromOne
  <2>1. ASSUME NEW status \in Statuses, NEW now \in Times,
               ProcessSystemStatus(status, now)
        PROVE  /\ AlternatesFromOne(stored'[b])
               /\ currentStatus_[b]' = Len(stored'[b]) % 2
    <3>1. PICK ok \in SUBSET Changed(status) :
            /\ stored' = [c \in Bits |-> IF c \in ok THEN Append(stored[c], status[c])
                                                     ELSE stored[c]]
            /\ eventLost' = eventLost \cup (Changed(status) \ ok)
      BY <2>1 DEF ProcessSystemStatus, LogChanges, LogEvent
    <3>2. b \notin eventLost /\ (b \in Changed(status) => b \in ok)
      BY <3>1
    <3>3. currentStatus_'[b] = status[b]
      BY <2>1 DEF ProcessSystemStatus
    <3>4. /\ stored[b] \in Seq(Bit)
          /\ AlternatesFromOne(stored[b])
          /\ currentStatus_[b] = Len(stored[b]) % 2
      BY <3>2 DEF TypeOK, EventHistory
    <3>5. CASE b \in ok
      <4>1. stored'[b] = Append(stored[b], status[b])
        BY <3>1, <3>5
      <4>2. status[b] # currentStatus_[b] /\ status[b] \in {0, 1} /\ currentStatus_[b] \in {0, 1}
        BY <3>5, DoorAssumption DEF Changed, Bits, Bit, TypeOK
      <4>3. status[b] = (Len(stored[b]) + 1) % 2
        <5>1. Len(stored[b]) \in Nat
          BY <3>4
        <5> QED
          BY <3>4, <4>2, <5>1, ParityFlips
      <4>4. Len(stored'[b]) = Len(stored[b]) + 1
        BY <3>4, <4>1, <4>2 DEF Bit
      <4>5. ASSUME NEW i \in 1..Len(stored'[b])  PROVE stored'[b][i] = i % 2
        <5>1. CASE i = Len(stored[b]) + 1
          <6>1. stored'[b][i] = status[b]
            BY <3>4, <4>1, <4>2, <5>1 DEF Bit
          <6> QED
            BY <4>3, <5>1, <6>1
        <5>2. CASE i # Len(stored[b]) + 1
          <6>1. i \in 1..Len(stored[b])
            BY <3>4, <4>4, <5>2
          <6> QED
            BY <3>4, <4>1, <4>2, <6>1 DEF AlternatesFromOne, Bit
        <5> QED
          BY <5>1, <5>2
      <4> QED
        BY <3>3, <4>3, <4>4, <4>5 DEF AlternatesFromOne
    <3>6. CASE b \notin ok
      <4>1. stored'[b] = stored[b] /\ status[b] = currentStatus_[b]
        BY <3>1, <3>2, <3>6 DEF Changed
      <4> QED
        BY <3>3, <3>4, <4>1
    <3> QED
      BY <3>5, <3>6
  <2>2. CASE UNCHANGED vars
    BY <2>2 DEF vars, doorVars, EventHistory
  <2> QED
    BY <2>1, <2>2 DEF Next
<1> QED
  BY <1>1, <1>2, TypeCorrect, PTL DEF Spec

-----------------------------------------------------------------------------
(* The commands *)

\* A command for another device or door changes nothing.
LEMMA OtherCommand ==
  ASSUME NEW q \in Seq(Commands), NEW c \in Commands, NEW device, NEW d, NEW now,
         Alternate(q, device, d, now), ~(c.device = device /\ c.door = d)
  PROVE  Alternate(Append(q, c), device, d, now)
<1> DEFINE r == Append(q, c)
           To(s) == {i \in 1..Len(s) : Addressed(s, i, device, d)}
<1>1. /\ Len(q) \in Nat /\ Len(r) = Len(q) + 1 /\ r[Len(q) + 1] = c
      /\ \A i \in 1..Len(q) : r[i] = q[i]
  OBVIOUS
<1> HIDE DEF r
<1>2. To(r) = To(q) /\ \A i \in To(q) : r[i] = q[i]
  <2>1. \A i \in 1..Len(r) : i \in 1..Len(q) \/ i = Len(q) + 1
    BY <1>1
  <2>2. \A i \in 1..Len(q) : i \in 1..Len(r)
    BY <1>1
  <2> QED
    BY <1>1, <2>1, <2>2 DEF Addressed
<1> HIDE DEF To
<1>3. Alternate(r, device, d, now)
  BY <1>2 DEF Alternate, To
<1> QED
  BY <1>3 DEF r

\* A command for the device must turn it over.
LEMMA NextCommand ==
  ASSUME NEW q \in Seq(Commands), NEW c \in Commands, NEW now \in BOOLEAN,
         Alternate(q, c.device, c.door, now), c.on <=> ~now
  PROVE  Alternate(Append(q, c), c.device, c.door, c.on)
<1> DEFINE n == Len(q) + 1
           r == Append(q, c)
           To(s) == {i \in 1..Len(s) : Addressed(s, i, c.device, c.door)}
<1>1. /\ Len(q) \in Nat /\ Len(r) = n /\ r[n] = c
      /\ \A i \in 1..Len(q) : r[i] = q[i]
  OBVIOUS
<1> HIDE DEF r
<1>2. /\ To(r) = To(q) \cup {n}
      /\ \A i \in To(q) : r[i] = q[i] /\ i \in Nat /\ i < n /\ ~(n <= i)
      /\ n \in Nat
  <2>1. \A i \in 1..Len(r) : i \in 1..Len(q) \/ i = n
    BY <1>1
  <2>2. (\A i \in 1..Len(q) : i \in 1..Len(r) /\ i < n /\ ~(n <= i)) /\ n \in 1..Len(r)
    BY <1>1
  <2> QED
    BY <1>1, <2>1, <2>2 DEF Addressed
<1>3. /\ \A i \in To(q) : (\A k \in To(q) : i <= k) => q[i].on
      /\ \A i, j \in To(q) :
           i < j /\ (\A k \in To(q) : k <= i \/ j <= k) => (q[i].on <=> ~q[j].on)
      /\ \A i \in To(q) : (\A k \in To(q) : k <= i) => (q[i].on <=> now)
      /\ now => To(q) # {}
  BY DEF Alternate
<1> HIDE DEF To, n
<1>4. ASSUME NEW i \in To(r), \A k \in To(r) : i <= k
      PROVE  r[i].on
  <2>1. CASE i \in To(q)
    BY <1>2, <1>3, <1>4, <2>1
  <2>2. CASE i = n
    <3>1. To(q) = {}
      BY <1>2, <1>4, <2>2
    <3> QED
      BY <1>1, <1>3, <2>2, <3>1
  <2> QED
    BY <1>2, <2>1, <2>2
<1>5. ASSUME NEW i \in To(r), NEW j \in To(r), i < j,
             \A k \in To(r) : k <= i \/ j <= k
      PROVE  r[i].on <=> ~r[j].on
  <2>1. CASE i \in To(q) /\ j \in To(q)
    <3>1. \A k \in To(q) : k <= i \/ j <= k
      BY <1>2, <1>5
    <3>2. q[i].on <=> ~q[j].on
      BY <1>3, <1>5, <2>1, <3>1
    <3> QED
      BY <1>2, <2>1, <3>2
  <2>2. CASE i \in To(q) /\ j = n
    <3>1. \A k \in To(q) : k <= i
      BY <1>2, <1>5, <2>2
    <3>2. (q[i].on <=> now) /\ r[i] = q[i] /\ r[j] = c
      BY <1>1, <1>2, <1>3, <2>2, <3>1
    <3> QED
      BY <3>2
  <2>3. CASE i = n
    BY <1>2, <1>5, <2>3
  <2> QED
    BY <1>2, <2>1, <2>2, <2>3
<1>6. ASSUME NEW i \in To(r), \A k \in To(r) : k <= i
      PROVE  r[i].on <=> c.on
  <2>1. i = n
    BY <1>2, <1>6
  <2> QED
    BY <1>1, <2>1
<1>7. To(r) # {}
  BY <1>2
<1>8. Alternate(r, c.device, c.door, c.on)
  BY <1>4, <1>5, <1>6, <1>7 DEF Alternate, To
<1> QED
  BY <1>8 DEF r

\* What a door's switching adds to the commands.
LEMMA TwoCommands ==
  ASSUME NEW q \in Seq(Commands), NEW d \in Doors, NEW on \in BOOLEAN
  PROVE  LET cam   == [device |-> "Cam", door |-> d, on |-> on]
             light == [device |-> "Light", door |-> d, on |-> on]
         IN  /\ cam \in Commands /\ light \in Commands
             /\ Append(q, cam) \in Seq(Commands)
             /\ q \o Switch(d, on) = Append(Append(q, cam), light)
<1> DEFINE cam   == [device |-> "Cam", door |-> d, on |-> on]
           light == [device |-> "Light", door |-> d, on |-> on]
<1>1. cam \in Commands /\ light \in Commands
  BY DEF Commands, Devices
<1>2. Switch(d, on) = <<cam, light>>
  BY DEF Switch
<1> HIDE DEF cam, light
<1>3. q \o <<cam, light>> = Append(Append(q, cam), light)
  BY <1>1
<1> QED
  BY <1>1, <1>2, <1>3 DEF cam, light

\* The doors' commands follow the flags: one step of one door.
LEMMA DoorFollows ==
  ASSUME NEW q \in Seq(Commands), NEW e \in Doors, NEW status,
         NEW d \in Doors, NEW device \in Devices, NEW now \in BOOLEAN,
         Alternate(q, device, d, now),
         d = e => /\ Opens(e, status) => ~now
                  /\ Completes(e, status) => now
  PROVE  Alternate(q \o DoorCommands(e, status), device, d,
                   IF d # e THEN now
                   ELSE ~Completes(e, status) /\ (Opens(e, status) \/ now))
<1>1. ASSUME NEW on \in BOOLEAN, d = e => (on <=> ~now)
      PROVE  Alternate(q \o Switch(e, on), device, d, IF d = e THEN on ELSE now)
  <2> DEFINE cam   == [device |-> "Cam", door |-> e, on |-> on]
             light == [device |-> "Light", door |-> e, on |-> on]
  <2>1. /\ cam \in Commands /\ light \in Commands
        /\ Append(q, cam) \in Seq(Commands)
        /\ q \o Switch(e, on) = Append(Append(q, cam), light)
    BY TwoCommands
  <2>2. /\ cam.device = "Cam" /\ cam.door = e /\ cam.on = on
        /\ light.device = "Light" /\ light.door = e /\ light.on = on
    OBVIOUS
  <2> HIDE DEF cam, light
  <2>3. CASE d = e /\ device = "Cam"
    <3>1. Alternate(Append(q, cam), cam.device, cam.door, cam.on)
      <4>1. Alternate(q, cam.device, cam.door, now) /\ (cam.on <=> ~now)
        BY <1>1, <2>2, <2>3
      <4> QED
        BY <2>1, <4>1, NextCommand
    <3>2. Alternate(Append(Append(q, cam), light), device, d, on)
      BY <2>1, <2>2, <2>3, <3>1, OtherCommand
    <3> QED
      BY <2>1, <2>3, <3>2
  <2>4. CASE d = e /\ device = "Light"
    <3>1. Alternate(Append(q, cam), device, d, now)
      BY <2>1, <2>2, <2>4, OtherCommand
    <3>2. Alternate(Append(q, cam), light.device, light.door, now) /\ (light.on <=> ~now)
      BY <1>1, <2>2, <2>4, <3>1
    <3>3. Alternate(Append(Append(q, cam), light), light.device, light.door, light.on)
      BY <2>1, <3>2, NextCommand
    <3> QED
      BY <2>1, <2>2, <2>4, <3>3
  <2>5. CASE d # e
    <3>1. Alternate(Append(q, cam), device, d, now)
      BY <2>1, <2>2, <2>5, OtherCommand
    <3>2. Alternate(Append(Append(q, cam), light), device, d, now)
      BY <2>1, <2>2, <2>5, <3>1, OtherCommand
    <3> QED
      BY <2>1, <2>5, <3>2
  <2> QED
    BY <2>3, <2>4, <2>5 DEF Devices
<1>2. CASE Opens(e, status)
  <2>1. /\ DoorCommands(e, status) = Switch(e, TRUE) /\ ~Completes(e, status)
    BY <1>2 DEF DoorCommands, Opens, Completes, Closes
  <2>2. Alternate(q \o Switch(e, TRUE), device, d, IF d = e THEN TRUE ELSE now)
    BY <1>1, <1>2
  <2> QED
    BY <1>2, <2>1, <2>2
<1>3. CASE Completes(e, status) /\ ~Opens(e, status)
  <2>1. DoorCommands(e, status) = Switch(e, FALSE)
    BY <1>3 DEF DoorCommands
  <2>2. Alternate(q \o Switch(e, FALSE), device, d, IF d = e THEN FALSE ELSE now)
    BY <1>1, <1>3
  <2> QED
    BY <1>3, <2>1, <2>2
<1>4. CASE ~Opens(e, status) /\ ~Completes(e, status)
  <2>1. DoorCommands(e, status) = <<>>
    BY <1>4 DEF DoorCommands
  <2>2. q \o <<>> = q
    OBVIOUS
  <2> QED
    BY <1>4, <2>1, <2>2
<1> QED
  BY <1>2, <1>3, <1>4

\* What TLC checks as CommandsFollowDoors: the camera and the light of a door are
\* switched in turn on and off, and are on exactly while an opening is in progress.
THEOREM CommandsFollow == Spec => []CommandsFollowDoors
<1>1. Init => CommandsFollowDoors
  <2> SUFFICES ASSUME Init, NEW d \in Doors, NEW device \in Devices
               PROVE  Alternate(outgoingQueue_, device, d, doorOpen_[d])
    BY DEF CommandsFollowDoors
  <2>1. outgoingQueue_ = <<>> /\ ~doorOpen_[d] /\ 1..Len(<<>>) = {}
    BY DEF Init
  <2> QED
    BY <2>1 DEF Alternate
<1>2. TypeOK /\ SeenDoorsAreOpen /\ CommandsFollowDoors /\ [Next]_vars
        => CommandsFollowDoors'
  <2> SUFFICES ASSUME TypeOK, SeenDoorsAreOpen, CommandsFollowDoors, [Next]_vars,
                      NEW d \in Doors, NEW device \in Devices
               PROVE  Alternate(outgoingQueue_', device, d, doorOpen_'[d])
    BY DEF CommandsFollowDoors, Alternate, Addressed
  <2>1. ASSUME NEW status \in Statuses, NEW now \in Times,
               ProcessSystemStatus(status, now)
        PROVE  Alternate(outgoingQueue_', device, d, doorOpen_'[d])
    <3> DEFINE After(e) == ~Completes(e, status) /\ (Opens(e, status) \/ doorOpen_[e])
               first  == outgoingQueue_ \o DoorCommands("door_0", status)
               second == first \o DoorCommands("door_1", status)
               zero   == IF d = "door_0" THEN After(d) ELSE doorOpen_[d]
    <3>1. outgoingQueue_' = second /\ doorOpen_'[d] = After(d)
      BY <2>1 DEF ProcessSystemStatus
    <3>2. /\ outgoingQueue_ \in Seq(Commands)
          /\ DoorCommands("door_0", status) \in Seq(Commands)
      BY DoorCommandsType DEF TypeOK, Doors
    <3>3. first \in Seq(Commands)
      BY <3>2
    <3>4. /\ Opens(d, status) => ~doorOpen_[d]
          /\ Completes(d, status) => doorOpen_[d]
      BY DEF Opens, Completes, SeenDoorsAreOpen
    <3>5. doorOpen_[d] \in BOOLEAN /\ zero \in BOOLEAN
      <4>1. doorOpen_[d] \in BOOLEAN
        BY Zenon DEF TypeOK
      <4> QED
        BY <4>1, Zenon
    <3>6. Alternate(outgoingQueue_, device, d, doorOpen_[d])
      BY DEF CommandsFollowDoors
    <3> HIDE DEF first
    <3>7. Alternate(first, device, d, zero)
      BY <3>2, <3>4, <3>5, <3>6, DoorFollows DEF Doors, first
    <3>8. Alternate(second, device, d, After(d))
      <4>1. Alternate(second, device, d,
                      IF d # "door_1" THEN zero
                      ELSE ~Completes("door_1", status)
                             /\ (Opens("door_1", status) \/ zero))
        BY <3>3, <3>4, <3>5, <3>7, DoorFollows DEF Doors
      <4>2. CASE d = "door_0"
        BY <4>1, <4>2
      <4>3. CASE d = "door_1"
        BY <4>1, <4>3
      <4> QED
        BY <4>2, <4>3 DEF Doors
    <3> QED
      BY <3>1, <3>8
  <2>2. CASE UNCHANGED vars
    BY <2>2 DEF vars, doorVars, CommandsFollowDoors
  <2> QED
    BY <2>1, <2>2 DEF Next
<1> QED
  BY <1>1, <1>2, TypeCorrect, SeenDoors, PTL DEF Spec
=============================================================================
