-------------------------- MODULE DoorHistoryProofs --------------------------
(***************************************************************************)
(* Proofs about the requests for segments, for any inputs besides the      *)
(* doors, any statuses and times, any delays and any number of statuses.   *)
(***************************************************************************)
EXTENDS DoorHistory, DoorMonitorProofs, FiniteSetTheorems

Reports == [status : Statuses, now : Times]

\* A step of the history is one of DoorMonitor.
LEMMA HistoryIsMonitor == HistorySpec => Spec
<1>1. HistoryInit => Init
  BY DEF HistoryInit
<1>2. [HistoryNext]_historyVars => [Next]_vars
  BY DEF HistoryNext, historyVars, Next
<1> QED
  BY <1>1, <1>2, PTL DEF HistorySpec, Spec

\* What the history gives of the current status.
HistoryInv ==
  /\ received \in Seq(Reports)
  /\ currentStatus_ = IF received = <<>> THEN [b \in Bits |-> 0]
                                         ELSE received[Len(received)].status

\* A door's flag and time are those of the opening in the history that is not ended.
FlagsInv ==
  \A d \in Doors :
    /\ doorOpen_[d] =>
         \E i \in 1..Len(received) : /\ OpenFor(d, i, Len(received))
                                     /\ doorOpenTime_[d] = received[i].now
    /\ \A i \in 1..Len(received) : OpenFor(d, i, Len(received)) => doorOpen_[d]

\* One more status.
Step(status, now) ==
  /\ ProcessSystemStatus(status, now)
  /\ received' = Append(received, [status |-> status, now |-> now])

\* The history grows at its end.
LEMMA HistoryGrows ==
  ASSUME HistoryInv, NEW status \in Statuses, NEW now \in Times, Step(status, now)
  PROVE  LET n == Len(received)
         IN  /\ n \in Nat /\ Len(received') = n + 1
             /\ \A i \in 1..n : received'[i] = received[i]
             /\ received'[n + 1] = [status |-> status, now |-> now]
             /\ \A i \in 1..n : /\ received[i].now \in Times
                                /\ received[i].status \in Statuses
             /\ received' \in Seq(Reports) /\ received' # <<>>
<1>1. [status |-> status, now |-> now] \in Reports
  BY DEF Reports
<1>2. received \in Seq(Reports) /\ received' = Append(received, [status |-> status, now |-> now])
  BY DEF HistoryInv, Step
<1>3. \A i \in 1..Len(received) : received[i] \in Reports
  BY <1>2
<1> QED
  BY <1>1, <1>2, <1>3 DEF Reports

LEMMA HistoryKept ==
  ASSUME HistoryInv, NEW status \in Statuses, NEW now \in Times, Step(status, now)
  PROVE  HistoryInv'
<1>1. currentStatus_' = status
  BY DEF Step, ProcessSystemStatus
<1>2. /\ received' \in Seq(Reports) /\ received' # <<>>
      /\ received'[Len(received')] = [status |-> status, now |-> now]
  BY HistoryGrows
<1>3. currentStatus_' = received'[Len(received')].status
  BY <1>1, <1>2
<1> QED
  BY <1>2, <1>3 DEF HistoryInv

\* The current status is the last one of the history, if there is one.
LEMMA Current ==
  ASSUME TypeOK, HistoryInv, NEW d \in Doors
  PROVE  /\ currentStatus_[d] \in {0, 1}
         /\ received = <<>> => currentStatus_[d] = 0
         /\ Len(received) = 0 => received = <<>>
         /\ received # <<>> => currentStatus_[d] = received[Len(received)].status[d]
BY DEF TypeOK, HistoryInv, Bits, Bit

\* What the statuses up to now say does not change.
LEMMA OldStays ==
  ASSUME HistoryInv, NEW status \in Statuses, NEW now \in Times, Step(status, now),
         NEW d \in Doors, NEW i \in 1..Len(received), NEW j \in Nat, j <= Len(received)
  PROVE  OpenFor(d, i, j)' <=> OpenFor(d, i, j)
<1>1. /\ Len(received) \in Nat
      /\ \A k \in 1..Len(received) : received'[k] = received[k]
  BY HistoryGrows
<1>2. \A k \in i..j : k \in 1..Len(received)
  BY <1>1
<1>3. i > 1 => i - 1 \in 1..Len(received)
  BY <1>1
<1>4. OpenedAt(d, i)' <=> OpenedAt(d, i)
  BY <1>1, <1>3 DEF OpenedAt
<1> QED
  BY <1>1, <1>2, <1>4 DEF OpenFor

\* The openings that last until now, and those that begin or end with one more
\* status, in terms of the flags.
LEMMA OpenNow ==
  ASSUME TypeOK, HistoryInv, FlagsInv,
         NEW status \in Statuses, NEW now \in Times, Step(status, now), NEW d \in Doors,
         NEW n \in Nat, Len(received) = n
  PROVE  /\ \A i \in 1..n : OpenFor(d, i, n + 1)' <=> OpenFor(d, i, n) /\ status[d] = 0
         /\ OpenFor(d, n + 1, n + 1)' <=> Opens(d, status)
<1>1. /\ Len(received') = n + 1
      /\ \A i \in 1..n : received'[i] = received[i]
      /\ received'[n + 1].status = status
  <2>1. received'[n + 1] = [status |-> status, now |-> now]
    BY HistoryGrows
  <2> QED
    BY <2>1, HistoryGrows
<1>2. ASSUME NEW i \in 1..n
      PROVE  OpenFor(d, i, n + 1)' <=> OpenFor(d, i, n) /\ status[d] = 0
  <2>1. OpenFor(d, i, n)' <=> OpenFor(d, i, n)
    BY <1>1, OldStays
  <2>2. OpenFor(d, i, n + 1)' <=> OpenFor(d, i, n)' /\ received'[n + 1].status[d] = 0
    <3>1. i..(n + 1) = (i..n) \cup {n + 1}
      BY <1>1
    <3> QED
      BY <3>1 DEF OpenFor
  <2> QED
    BY <1>1, <2>1, <2>2
<1>3. OpenFor(d, n + 1, n + 1)' <=> Opens(d, status)
  <2>1. OpenFor(d, n + 1, n + 1)' <=> OpenedAt(d, n + 1)'
    BY <1>1 DEF OpenFor, OpenedAt
  <2>2. OpenedAt(d, n + 1)' <=> /\ n + 1 > 1
                                /\ received'[n].status[d] = 1
                                /\ status[d] = 0
    BY <1>1 DEF OpenedAt
  <2>3. CASE n = 0
    BY <2>1, <2>2, <2>3, Current DEF Opens
  <2>4. CASE n # 0
    <3>1. n + 1 > 1 /\ n \in 1..n /\ received # <<>>
      BY <1>1, <2>4
    <3>2. received'[n].status[d] = currentStatus_[d]
      BY <1>1, <3>1, Current
    <3> QED
      BY <2>1, <2>2, <3>1, <3>2 DEF Opens
  <2> QED
    BY <2>3, <2>4
<1> QED
  BY <1>2, <1>3

\* An opening that lasts is that of a door that is open in the current status.
LEMMA LastingIsOpen ==
  ASSUME TypeOK, HistoryInv, NEW d \in Doors, NEW i \in 1..Len(received),
         OpenFor(d, i, Len(received))
  PROVE  currentStatus_[d] = 0
<1>1. Len(received) \in i..Len(received) /\ received # <<>>
  BY DEF HistoryInv
<1> QED
  BY <1>1, Current DEF OpenFor

\* A door's flag is kept: it says whether there is such an opening.
LEMMA FlagsKept ==
  ASSUME TypeOK, HistoryInv, FlagsInv, SeenDoorsAreOpen,
         NEW status \in Statuses, NEW now \in Times, Step(status, now)
  PROVE  FlagsInv'
<1> PICK n \in Nat : Len(received) = n
  BY DEF HistoryInv
<1>1. /\ Len(received') = n + 1
      /\ \A i \in 1..n : received'[i] = received[i]
      /\ received'[n + 1] = [status |-> status, now |-> now]
  BY HistoryGrows
<1> SUFFICES ASSUME NEW d \in Doors
             PROVE  /\ doorOpen_'[d] =>
                         \E i \in 1..(n + 1) : /\ OpenFor(d, i, n + 1)'
                                               /\ doorOpenTime_'[d] = received'[i].now
                    /\ \A i \in 1..(n + 1) : OpenFor(d, i, n + 1)' => doorOpen_'[d]
  BY <1>1 DEF FlagsInv
<1>2. /\ doorOpen_'[d] <=> ~Completes(d, status) /\ (Opens(d, status) \/ doorOpen_[d])
      /\ doorOpenTime_'[d] = IF Opens(d, status) THEN now ELSE doorOpenTime_[d]
  BY DEF Step, ProcessSystemStatus
<1>3. /\ \A i \in 1..n : OpenFor(d, i, n + 1)' <=> OpenFor(d, i, n) /\ status[d] = 0
      /\ OpenFor(d, n + 1, n + 1)' <=> Opens(d, status)
  BY OpenNow
<1>4. status[d] \in {0, 1} /\ currentStatus_[d] \in {0, 1}
  BY DoorAssumption, Current DEF Bits, Bit
<1>5. /\ 1..(n + 1) = (1..n) \cup {n + 1} /\ n + 1 \in 1..(n + 1)
      /\ \A i \in 1..n : i \in 1..(n + 1)
  BY <1>1
<1>6. ASSUME doorOpen_'[d]
      PROVE  \E i \in 1..(n + 1) : /\ OpenFor(d, i, n + 1)'
                                   /\ doorOpenTime_'[d] = received'[i].now
  <2>1. CASE Opens(d, status)
    BY <1>1, <1>2, <1>3, <1>5, <2>1
  <2>2. CASE ~Opens(d, status)
    <3>1. doorOpen_[d] /\ ~Completes(d, status) /\ doorOpenTime_'[d] = doorOpenTime_[d]
      BY <1>2, <1>6, <2>2
    <3>2. status[d] = 0
      BY <1>4, <3>1 DEF Completes, Closes, SeenDoorsAreOpen
    <3>3. PICK i \in 1..n : OpenFor(d, i, n) /\ doorOpenTime_[d] = received[i].now
      BY <3>1 DEF FlagsInv
    <3> QED
      BY <1>1, <1>3, <1>5, <3>1, <3>2, <3>3
  <2> QED
    BY <2>1, <2>2
<1>7. ASSUME NEW i \in 1..(n + 1), OpenFor(d, i, n + 1)'
      PROVE  doorOpen_'[d]
  <2>1. CASE i = n + 1
    <3>1. Opens(d, status)
      BY <1>3, <1>7, <2>1
    <3>2. ~Completes(d, status)
      BY <3>1 DEF Opens, Completes, Closes
    <3> QED
      BY <1>2, <3>1, <3>2
  <2>2. CASE i \in 1..n
    <3>1. OpenFor(d, i, n) /\ status[d] = 0
      BY <1>3, <1>7, <2>2
    <3>2. doorOpen_[d]
      BY <2>2, <3>1 DEF FlagsInv
    <3>3. ~Completes(d, status)
      BY <3>1 DEF Completes, Closes
    <3> QED
      BY <1>2, <3>2, <3>3
  <2> QED
    BY <1>5, <2>1, <2>2
<1> QED
  BY <1>6, <1>7

-----------------------------------------------------------------------------
(* Openings *)

\* At any moment at most one opening of a door is not ended.
LEMMA OneLasts ==
  ASSUME NEW d \in Doors, NEW n \in Nat, NEW i \in 1..n, NEW j \in 1..n,
         OpenFor(d, i, n), OpenFor(d, j, n)
  PROVE  i = j
<1>1. ASSUME NEW a \in 1..n, NEW b \in 1..n, OpenFor(d, a, n), OpenFor(d, b, n)
      PROVE  ~(a < b)
  <2> SUFFICES ASSUME a < b  PROVE FALSE
    OBVIOUS
  <2>1. b - 1 \in a..n
    OBVIOUS
  <2>2. received[b - 1].status[d] = 0
    BY <1>1, <2>1 DEF OpenFor
  <2>3. received[b - 1].status[d] = 1
    BY <1>1 DEF OpenFor, OpenedAt
  <2> QED
    BY <2>2, <2>3
<1>2. ~(i < j) /\ ~(j < i)
  BY <1>1
<1> QED
  BY <1>2

\* An opening that had ended is one still.
LEMMA OldOpening ==
  ASSUME HistoryInv, NEW status \in Statuses, NEW now \in Times, Step(status, now),
         NEW d \in Doors, NEW n \in Nat, Len(received) = n,
         NEW i \in 1..(n + 1), NEW j \in 1..n
  PROVE  Opening(d, i, j)' <=> i \in 1..n /\ Opening(d, i, j)
<1>1. \A k \in 1..n : received'[k] = received[k]
  BY HistoryGrows
<1>2. CASE i < j
  <2>1. i \in 1..Len(received) /\ j - 1 \in Nat /\ j - 1 <= Len(received)
    BY <1>2
  <2>2. OpenFor(d, i, j - 1)' <=> OpenFor(d, i, j - 1)
    BY <2>1, OldStays
  <2> QED
    BY <1>1, <2>1, <2>2 DEF Opening
<1>3. CASE ~(i < j)
  BY <1>3 DEF Opening
<1> QED
  BY <1>2, <1>3

\* The openings that end with one more status are those the handler completes.
LEMMA EndedOpening ==
  ASSUME TypeOK, HistoryInv, FlagsInv,
         NEW status \in Statuses, NEW now \in Times, Step(status, now),
         NEW d \in Doors, NEW n \in Nat, Len(received) = n, NEW i \in 1..(n + 1)
  PROVE  Opening(d, i, n + 1)' <=> i \in 1..n /\ OpenFor(d, i, n) /\ Completes(d, status)
<1>1. received'[n + 1] = [status |-> status, now |-> now]
  BY HistoryGrows
<1>2. Opening(d, i, n + 1)' <=> i < n + 1 /\ OpenFor(d, i, n)' /\ status[d] = 1
  <2>1. (n + 1) - 1 = n
    OBVIOUS
  <2> QED
    BY <1>1, <2>1 DEF Opening
<1>3. CASE i \in 1..n
  <2>1. OpenFor(d, i, n)' <=> OpenFor(d, i, n)
    BY <1>3, OldStays
  <2>2. OpenFor(d, i, n) => currentStatus_[d] = 0 /\ doorOpen_[d]
    BY <1>3, LastingIsOpen DEF FlagsInv
  <2>3. i < n + 1
    BY <1>3
  <2> QED
    BY <1>2, <1>3, <2>1, <2>2, <2>3 DEF Completes, Closes
<1>4. CASE i \notin 1..n
  <2>1. ~(i < n + 1)
    BY <1>4
  <2> QED
    BY <1>2, <1>4, <2>1
<1> QED
  BY <1>3, <1>4

\* The opening of door d that ends, if one does, with the status after the n-th.
StartOf(d, n) == CHOOSE i \in 1..n : OpenFor(d, i, n)

Ended(d, n, status) == IF Completes(d, status) THEN {<<d, StartOf(d, n), n + 1>>} ELSE {}

LEMMA StartIsThere ==
  ASSUME FlagsInv, NEW d \in Doors, NEW n \in Nat, Len(received) = n, doorOpen_[d]
  PROVE  /\ StartOf(d, n) \in 1..n /\ OpenFor(d, StartOf(d, n), n)
         /\ doorOpenTime_[d] = received[StartOf(d, n)].now
<1>1. PICK i \in 1..n : OpenFor(d, i, n) /\ doorOpenTime_[d] = received[i].now
  BY DEF FlagsInv
<1>2. StartOf(d, n) \in 1..n /\ OpenFor(d, StartOf(d, n), n)
  BY <1>1 DEF StartOf
<1>3. StartOf(d, n) = i
  BY <1>1, <1>2, OneLasts
<1> QED
  BY <1>1, <1>2, <1>3

LEMMA OpeningsGrow ==
  ASSUME TypeOK, HistoryInv, FlagsInv,
         NEW status \in Statuses, NEW now \in Times, Step(status, now),
         NEW n \in Nat, Len(received) = n
  PROVE  Openings' = Openings \cup Ended("door_0", n, status) \cup Ended("door_1", n, status)
<1> DEFINE M == 1..(n + 1)
<1>1. Len(received') = n + 1
  BY HistoryGrows
<1>2. Openings' = {o \in Doors \X M \X M : Opening(o[1], o[2], o[3])'}
  BY <1>1 DEF Openings
<1>3. Openings = {o \in Doors \X (1..n) \X (1..n) : Opening(o[1], o[2], o[3])}
  BY DEF Openings
<1>4. ASSUME NEW d \in Doors, NEW i \in M, NEW j \in M
      PROVE  <<d, i, j>> \in Openings'
               <=> <<d, i, j>> \in Openings \/ <<d, i, j>> \in Ended(d, n, status)
  <2>1. <<d, i, j>> \in Openings' <=> Opening(d, i, j)'
    BY <1>2
  <2>2. CASE j \in 1..n
    <3>1. j # n + 1
      BY <2>2
    <3>2. <<d, i, j>> \notin Ended(d, n, status)
      BY <3>1 DEF Ended
    <3>3. Opening(d, i, j)' <=> i \in 1..n /\ Opening(d, i, j)
      BY <2>2, OldOpening
    <3> QED
      BY <1>3, <2>1, <2>2, <3>2, <3>3
  <2>3. CASE j = n + 1
    <3>1. j \notin 1..n
      BY <2>3
    <3>2. <<d, i, j>> \notin Openings
      BY <1>3, <3>1
    <3>3. Opening(d, i, j)' <=> i \in 1..n /\ OpenFor(d, i, n) /\ Completes(d, status)
      BY <2>3, EndedOpening
    <3>4. ASSUME Completes(d, status)
          PROVE  i = StartOf(d, n) <=> i \in 1..n /\ OpenFor(d, i, n)
      <4>1. StartOf(d, n) \in 1..n /\ OpenFor(d, StartOf(d, n), n)
        BY <3>4, StartIsThere DEF Completes
      <4> QED
        BY <4>1, OneLasts
    <3>5. <<d, i, j>> \in Ended(d, n, status)
            <=> Completes(d, status) /\ i = StartOf(d, n)
      BY <2>3 DEF Ended
    <3> QED
      BY <2>1, <3>2, <3>3, <3>4, <3>5
  <2>4. j \in 1..n \/ j = n + 1
    OBVIOUS
  <2> QED
    BY <2>2, <2>3, <2>4
<1>5. ASSUME NEW d \in Doors, NEW o \in Ended(d, n, status)
      PROVE  o[1] = d /\ o \in Doors \X M \X M
  <2>1. o = <<d, StartOf(d, n), n + 1>> /\ Completes(d, status)
    BY <1>5 DEF Ended
  <2>2. StartOf(d, n) \in 1..n
    BY <2>1, StartIsThere DEF Completes
  <2>3. StartOf(d, n) \in M /\ n + 1 \in M
    BY <2>2
  <2> QED
    BY <2>1, <2>3
<1>6. Openings \subseteq Doors \X M \X M /\ Openings' \subseteq Doors \X M \X M
  <2>1. 1..n \subseteq M
    OBVIOUS
  <2> QED
    BY <1>2, <1>3, <2>1
<1>7. \A o \in Doors \X M \X M : o = <<o[1], o[2], o[3]>> /\ o[1] \in Doors
                                 /\ o[2] \in M /\ o[3] \in M
  OBVIOUS
<1> HIDE DEF M
<1>8. ASSUME NEW o \in Doors \X M \X M
      PROVE  o \in Openings' <=> o \in Openings \/ o \in Ended(o[1], n, status)
  BY <1>4, <1>7
<1>9. ASSUME NEW o \in Doors \X M \X M
      PROVE  o \in Ended(o[1], n, status)
               <=> o \in Ended("door_0", n, status) \/ o \in Ended("door_1", n, status)
  BY <1>5, <1>7 DEF Doors
<1>10. \A d \in Doors : Ended(d, n, status) \subseteq Doors \X M \X M
  BY <1>5
<1> QED
  BY <1>6, <1>8, <1>9, <1>10 DEF Doors

-----------------------------------------------------------------------------
(* Counting *)

\* The requests q are those of the openings O, in their order.
Counted(q, O, W) ==
  /\ IsFiniteSet(O)
  /\ Len(q) = Cardinality(O)
  /\ \A o \in O : q[Place(o, O)] = W[o]

\* An opening has a number between 1 and that of the last.
LEMMA PlaceIsNumber ==
  ASSUME NEW O, IsFiniteSet(O), NEW o \in O
  PROVE  Place(o, O) \in 1..Cardinality(O)
<1> DEFINE upTo == {p \in O : p = o \/ ClosedBefore(p, o)}
<1>1. upTo \subseteq O /\ o \in upTo
  OBVIOUS
<1> HIDE DEF upTo
<1>2. /\ IsFiniteSet(upTo) /\ Cardinality(upTo) \in Nat /\ Cardinality(O) \in Nat
      /\ Cardinality(upTo) <= Cardinality(O)
  BY <1>1, FS_Subset, FS_CardinalityType
<1>3. Cardinality(upTo) # 0
  BY <1>1, <1>2, FS_EmptySet
<1>4. Cardinality(upTo) \in 1..Cardinality(O)
  BY <1>2, <1>3
<1> QED
  BY <1>4 DEF Place, upTo

\* One more opening, which ended after the others, has the next number.
LEMMA CountOneMore ==
  ASSUME NEW q \in Seq(Requests), NEW O, NEW W, Counted(q, O, W),
         NEW x, x \notin O, \A o \in O : ClosedBefore(o, x) /\ ~ClosedBefore(x, o),
         W[x] \in Requests
  PROVE  Counted(Append(q, W[x]), O \cup {x}, W)
<1> DEFINE P == O \cup {x}
           r == Append(q, W[x])
<1>1. /\ IsFiniteSet(O) /\ IsFiniteSet(P) /\ Cardinality(O) \in Nat
      /\ Cardinality(P) = Cardinality(O) + 1
  BY FS_AddElement, FS_CardinalityType DEF Counted
<1>2. /\ Len(r) = Len(q) + 1 /\ r[Len(q) + 1] = W[x]
      /\ \A i \in 1..Len(q) : r[i] = q[i]
  OBVIOUS
<1>3. ASSUME NEW o \in O
      PROVE  r[Place(o, P)] = W[o]
  <2>1. {p \in P : p = o \/ ClosedBefore(p, o)} = {p \in O : p = o \/ ClosedBefore(p, o)}
    OBVIOUS
  <2>2. Place(o, P) = Place(o, O)
    BY <2>1 DEF Place
  <2>3. Place(o, O) \in 1..Len(q)
    BY PlaceIsNumber DEF Counted
  <2> QED
    BY <1>2, <2>2, <2>3 DEF Counted
<1>4. r[Place(x, P)] = W[x]
  <2>1. {p \in P : p = x \/ ClosedBefore(p, x)} = P
    OBVIOUS
  <2>2. Place(x, P) = Len(q) + 1
    BY <1>1, <2>1 DEF Place, Counted
  <2> QED
    BY <1>2, <2>2
<1>5. Len(q) = Cardinality(O)
  BY DEF Counted
<1> HIDE DEF r
<1>6. Counted(r, P, W)
  BY <1>1, <1>2, <1>3, <1>4, <1>5 DEF Counted
<1> QED
  BY <1>6 DEF r

\* What a door adds to the requests is what it adds to the openings.
LEMMA DoorAdds ==
  ASSUME NEW q \in Seq(Requests), NEW O, NEW W, Counted(q, O, W),
         NEW d \in Doors, NEW n, NEW status, NEW now,
         DoorRequest(d, status, now) \in Seq(Requests),
         \A x \in Ended(d, n, status) :
           /\ x \notin O /\ \A o \in O : ClosedBefore(o, x) /\ ~ClosedBefore(x, o)
           /\ DoorRequest(d, status, now) = <<W[x]>>
  PROVE  Counted(q \o DoorRequest(d, status, now), O \cup Ended(d, n, status), W)
<1>1. CASE Completes(d, status)
  <2> DEFINE x == <<d, StartOf(d, n), n + 1>>
  <2>1. Ended(d, n, status) = {x}
    BY <1>1 DEF Ended
  <2> HIDE DEF x
  <2>2. /\ DoorRequest(d, status, now) = <<W[x]>>
        /\ x \notin O /\ \A o \in O : ClosedBefore(o, x) /\ ~ClosedBefore(x, o)
    BY <2>1
  <2>3. W[x] \in Requests
    <3>1. <<W[x]>> \in Seq(Requests)
      BY <2>2
    <3>2. <<W[x]>>[1] \in Requests
      BY ONLY <3>1
    <3> QED
      BY <3>2
  <2>4. q \o <<W[x]>> = Append(q, W[x])
    BY <2>3
  <2>5. Counted(Append(q, W[x]), O \cup {x}, W)
    BY <2>2, <2>3, CountOneMore
  <2> QED
    BY <2>1, <2>2, <2>4, <2>5
<1>2. CASE ~Completes(d, status)
  <2>1. DoorRequest(d, status, now) = <<>> /\ Ended(d, n, status) = {}
    BY <1>2 DEF DoorRequest, Ended
  <2>2. q \o <<>> = q /\ O \cup {} = O
    OBVIOUS
  <2> QED
    BY <2>1, <2>2
<1> QED
  BY <1>1, <1>2

\* The openings are finite in number, and each has its request.
RequestsInv == IsFiniteSet(Openings) /\ OneRequestPerOpening

\* An opening is of a door, and both its ends are in the history.
LEMMA OpeningType ==
  ASSUME NEW n \in Nat, Len(received) = n, NEW o \in Openings
  PROVE  o[1] \in Doors /\ o[2] \in 1..n /\ o[3] \in 1..n
BY DEF Openings

\* The openings ended before this status are requested as the longer history wants.
LEMMA OldCounted ==
  ASSUME HistoryInv, RequestsInv,
         NEW status \in Statuses, NEW now \in Times, Step(status, now),
         NEW W, \A o \in Openings : W[o] = Wanted(o)'
  PROVE  Counted(requests, Openings, W)
<1> PICK n \in Nat : Len(received) = n
  BY DEF HistoryInv
<1>1. \A o \in Openings : W[o] = Wanted(o)
  <2> SUFFICES ASSUME NEW o \in Openings  PROVE Wanted(o)' = Wanted(o)
    OBVIOUS
  <2>1. o[2] \in 1..n /\ o[3] \in 1..n
    BY OpeningType
  <2>2. received'[o[2]] = received[o[2]] /\ received'[o[3]] = received[o[3]]
    BY <2>1, HistoryGrows
  <2> QED
    BY <2>2 DEF Wanted
<1> QED
  BY <1>1 DEF Counted, RequestsInv, OneRequestPerOpening

\* An opening that ends with this status is requested as the history wants.
LEMMA NewWanted ==
  ASSUME HistoryInv, FlagsInv,
         NEW status \in Statuses, NEW now \in Times, Step(status, now),
         NEW n \in Nat, Len(received) = n, NEW d \in Doors, NEW x \in Ended(d, n, status)
  PROVE  /\ x[1] = d /\ x[3] = n + 1
         /\ DoorRequest(d, status, now) = <<Wanted(x)'>>
<1>1. Completes(d, status) /\ x = <<d, StartOf(d, n), n + 1>>
  BY DEF Ended
<1>2. /\ StartOf(d, n) \in 1..n
      /\ doorOpenTime_[d] = received[StartOf(d, n)].now
  BY <1>1, StartIsThere DEF Completes
<1>3. received'[n + 1].now = now /\ received'[StartOf(d, n)] = received[StartOf(d, n)]
  <2>1. received'[n + 1] = [status |-> status, now |-> now]
    BY HistoryGrows
  <2> QED
    BY <1>2, <2>1, HistoryGrows
<1>4. x[1] = d /\ x[2] = StartOf(d, n) /\ x[3] = n + 1
  BY <1>1
<1>5. Wanted(x)' = [camera    |-> d,
                    startTime |-> doorOpenTime_[d] - StopBeginDelay,
                    stopTime  |-> now + StopEndDelay]
  BY <1>2, <1>3, <1>4 DEF Wanted
<1> QED
  BY <1>1, <1>4, <1>5 DEF DoorRequest

LEMMA RequestsKept ==
  ASSUME TypeOK, HistoryInv, FlagsInv, RequestsInv,
         NEW status \in Statuses, NEW now \in Times, Step(status, now)
  PROVE  RequestsInv'
<1> PICK n \in Nat : Len(received) = n
  BY DEF HistoryInv
<1> DEFINE zero == Ended("door_0", n, status)
           one  == Ended("door_1", n, status)
           W    == [o \in Openings \cup zero \cup one |-> Wanted(o)']
           q    == requests \o DoorRequest("door_0", status, now)
<1>1. /\ requests \in Seq(Requests)
      /\ \A d \in Doors : DoorRequest(d, status, now) \in Seq(Requests)
  BY DoorAssumption, DoorRequestType DEF TypeOK
<1>2. \A o \in Openings : W[o] = Wanted(o)'
  OBVIOUS
<1>3. Counted(requests, Openings, W)
  <2> HIDE DEF W
  <2> QED
    BY <1>2, OldCounted
<1>4. /\ \A x \in zero : /\ x[1] = "door_0" /\ x[3] = n + 1
                         /\ DoorRequest("door_0", status, now) = <<W[x]>>
      /\ \A x \in one : /\ x[1] = "door_1" /\ x[3] = n + 1
                        /\ DoorRequest("door_1", status, now) = <<W[x]>>
  <2>1. "door_0" \in Doors /\ "door_1" \in Doors
    BY DEF Doors
  <2>2. \A x \in zero : /\ x[1] = "door_0" /\ x[3] = n + 1
                        /\ DoorRequest("door_0", status, now) = <<Wanted(x)'>>
    BY <2>1, NewWanted
  <2>3. \A x \in one : /\ x[1] = "door_1" /\ x[3] = n + 1
                       /\ DoorRequest("door_1", status, now) = <<Wanted(x)'>>
    BY <2>1, NewWanted
  <2>4. (\A x \in zero : W[x] = Wanted(x)') /\ (\A x \in one : W[x] = Wanted(x)')
    OBVIOUS
  <2> HIDE DEF zero, one, W
  <2> QED
    BY <2>2, <2>3, <2>4
<1>5. \A o \in Openings : o[3] \in 1..n
  BY OpeningType
<1>6. "door_0" \in Doors /\ "door_1" \in Doors /\ "door_0" # "door_1"
  BY DEF Doors
<1>7. Counted(q, Openings \cup zero, W)
  <2>1. \A x \in zero : /\ x \notin Openings
                        /\ \A o \in Openings : ClosedBefore(o, x) /\ ~ClosedBefore(x, o)
    BY <1>4, <1>5 DEF ClosedBefore
  <2> HIDE DEF W
  <2> QED
    BY <1>1, <1>3, <1>4, <1>6, <2>1, DoorAdds
<1>8. Counted(q \o DoorRequest("door_1", status, now), Openings \cup zero \cup one, W)
  <2>1. \A x \in one : \A o \in Openings \cup zero :
          o # x /\ ClosedBefore(o, x) /\ ~ClosedBefore(x, o)
    BY <1>4, <1>5, <1>6 DEF ClosedBefore
  <2>2. q \in Seq(Requests)
    BY <1>1, <1>6
  <2> HIDE DEF W, q, zero
  <2> QED
    BY <1>1, <1>4, <1>6, <1>7, <2>1, <2>2, DoorAdds
<1>9. /\ requests' = q \o DoorRequest("door_1", status, now)
      /\ Openings' = Openings \cup zero \cup one
  <2>1. Openings' = Openings \cup zero \cup one
    BY OpeningsGrow
  <2> QED
    BY <2>1 DEF Step, ProcessSystemStatus
<1>10. Counted(requests', Openings', W)
  BY <1>8, <1>9
<1>11. \A o \in Openings' : W[o] = Wanted(o)'
  BY <1>9
<1> HIDE DEF W
<1> QED
  BY <1>10, <1>11 DEF Counted, RequestsInv, OneRequestPerOpening

-----------------------------------------------------------------------------
(* The inductive invariant *)

Inv == HistoryInv /\ FlagsInv /\ RequestsInv

LEMMA NothingReceived ==
  ASSUME HistoryInit
  PROVE  Inv
<1>1. received = <<>> /\ Len(received) = 0 /\ 1..0 = {}
  BY DEF HistoryInit
<1>2. HistoryInv
  BY <1>1 DEF HistoryInit, Init, HistoryInv
<1>3. FlagsInv
  BY <1>1 DEF HistoryInit, Init, FlagsInv
<1>4. Openings = {}
  BY <1>1 DEF Openings
<1>5. RequestsInv
  BY <1>4, FS_EmptySet DEF HistoryInit, Init, RequestsInv, OneRequestPerOpening
<1> QED
  BY <1>2, <1>3, <1>5 DEF Inv

LEMMA InvStays ==
  ASSUME Inv, UNCHANGED historyVars
  PROVE  Inv'
<1>1. /\ received' = received /\ requests' = requests /\ currentStatus_' = currentStatus_
      /\ doorOpen_' = doorOpen_ /\ doorOpenTime_' = doorOpenTime_
  BY DEF historyVars, vars, doorVars
<1>2. HistoryInv'
  BY <1>1 DEF Inv, HistoryInv
<1>3. FlagsInv'
  BY <1>1 DEF Inv, FlagsInv, OpenFor, OpenedAt
<1>4. Openings' = Openings
  BY <1>1 DEF Openings, Opening, OpenFor, OpenedAt
<1>5. RequestsInv'
  BY <1>1, <1>4 DEF Inv, RequestsInv, OneRequestPerOpening, Wanted
<1> QED
  BY <1>2, <1>3, <1>5 DEF Inv

LEMMA InvHolds == HistorySpec => []Inv
<1>1. HistoryInit => Inv
  BY NothingReceived
<1>2. TypeOK /\ SeenDoorsAreOpen /\ Inv /\ [HistoryNext]_historyVars => Inv'
  <2> SUFFICES ASSUME TypeOK, SeenDoorsAreOpen, Inv, [HistoryNext]_historyVars
               PROVE  Inv'
    OBVIOUS
  <2>1. CASE HistoryNext
    <3> PICK status \in Statuses, now \in Times : Step(status, now)
      BY <2>1 DEF HistoryNext, Step
    <3> QED
      BY HistoryKept, FlagsKept, RequestsKept DEF Inv
  <2>2. CASE UNCHANGED historyVars
    BY <2>2, InvStays
  <2> QED
    BY <2>1, <2>2
<1> QED
  BY <1>1, <1>2, HistoryIsMonitor, TypeCorrect, SeenDoors, PTL DEF HistorySpec

\* The code sends VideoControl one request for every opening of a door that was
\* seen from beginning to end, with the right door and times, in the order in which
\* they ended, and no other: what processSystemStatus keeps in its flags and times
\* is enough, however the statuses follow each other and whatever the clock shows.
THEOREM OneRequest == HistorySpec => []OneRequestPerOpening
<1>1. Inv => OneRequestPerOpening
  BY DEF Inv, RequestsInv
<1> QED
  BY <1>1, InvHolds, PTL

-----------------------------------------------------------------------------
(* What the requests span *)

\* When the opening of a request was seen, and when its closing was.
OpeningSeen(r) == r.startTime + StopBeginDelay

ClosingSeen(r) == r.stopTime - StopEndDelay

\* RequestsSpanOpenings of the requests q.
Spans(q) ==
  /\ \A n \in 1..Len(q) : q[n].stopTime - q[n].startTime >= StopBeginDelay + StopEndDelay
  /\ \A m, n \in 1..Len(q) :
       m < n /\ q[m].camera = q[n].camera => ClosingSeen(q[m]) <= OpeningSeen(q[n])

\* No request's closing was later than t.
ClosedBy(q, t) == \A k \in 1..Len(q) : ClosingSeen(q[k]) <= t

\* Door d has no request whose closing was later than its last opening.
InTurn(q, d) == \A k \in 1..Len(q) : q[k].camera = d => ClosingSeen(q[k]) <= doorOpenTime_[d]

SpanInv ==
  ClockNeverSetBack =>
    /\ Spans(requests)
    /\ received = <<>> => requests = <<>> /\ \A d \in Doors : ~doorOpen_[d]
    /\ received # <<>> => ClosedBy(requests, received[Len(received)].now)
    /\ \A d \in Doors : doorOpen_[d] => /\ doorOpenTime_[d] <= received[Len(received)].now
                                        /\ InTurn(requests, d)

\* What a door adds to the requests: at most one, which is of this door.
LEMMA DoorSpans ==
  ASSUME TypeOK, NEW q \in Seq(Requests), NEW d \in Doors, NEW status, NEW now \in Int,
         Spans(q), ClosedBy(q, now),
         doorOpen_[d] => doorOpenTime_[d] <= now /\ InTurn(q, d)
  PROVE  LET r == q \o DoorRequest(d, status, now)
         IN  /\ r \in Seq(Requests) /\ Spans(r) /\ ClosedBy(r, now)
             /\ \A k \in 1..Len(r) : \/ k \in 1..Len(q) /\ r[k] = q[k]
                                     \/ Completes(d, status) /\ r[k].camera = d
<1> DEFINE r   == q \o DoorRequest(d, status, now)
           new == [camera    |-> d,
                   startTime |-> doorOpenTime_[d] - StopBeginDelay,
                   stopTime  |-> now + StopEndDelay]
<1>1. CASE Completes(d, status)
  <2>1. doorOpenTime_[d] \in Int /\ StopBeginDelay \in Int /\ StopEndDelay \in Int
    BY DoorAssumption DEF TypeOK
  <2>2. doorOpenTime_[d] <= now /\ InTurn(q, d)
    BY <1>1 DEF Completes
  <2>3. /\ new \in Requests /\ new.camera = d
        /\ new.stopTime - new.startTime >= StopBeginDelay + StopEndDelay
        /\ OpeningSeen(new) = doorOpenTime_[d] /\ ClosingSeen(new) = now
    BY <2>1, <2>2 DEF Requests, OpeningSeen, ClosingSeen
  <2>4. r = q \o <<new>>
    BY <1>1 DEF DoorRequest
  <2> HIDE DEF new, r
  <2>5. r = Append(q, new)
    BY <2>3, <2>4
  <2>6. /\ r \in Seq(Requests) /\ Len(r) = Len(q) + 1 /\ r[Len(q) + 1] = new
        /\ Len(q) \in Nat /\ \A k \in 1..Len(q) : r[k] = q[k]
    BY <2>3, <2>5
  <2>7. \A k \in 1..Len(r) : k \in 1..Len(q) \/ k = Len(q) + 1
    BY <2>6
  <2>8. ClosedBy(r, now)
    BY <2>3, <2>6, <2>7 DEF ClosedBy
  <2>9. ASSUME NEW m \in 1..Len(r), NEW n \in 1..Len(r), m < n, r[m].camera = r[n].camera
        PROVE  ClosingSeen(r[m]) <= OpeningSeen(r[n])
    <3>1. m \in 1..Len(q)
      BY <2>6, <2>9
    <3>2. CASE n \in 1..Len(q)
      BY <2>6, <2>9, <3>1, <3>2 DEF Spans
    <3>3. CASE n = Len(q) + 1
      BY <2>2, <2>3, <2>6, <2>9, <3>1, <3>3 DEF InTurn
    <3> QED
      BY <2>7, <3>2, <3>3
  <2>10. Spans(r)
    <3>1. ASSUME NEW n \in 1..Len(r)
          PROVE  r[n].stopTime - r[n].startTime >= StopBeginDelay + StopEndDelay
      <4>1. CASE n \in 1..Len(q)
        BY <2>6, <4>1 DEF Spans
      <4>2. CASE n = Len(q) + 1
        BY <2>3, <2>6, <4>2
      <4> QED
        BY <2>7, <4>1, <4>2
    <3> QED
      BY <2>9, <3>1 DEF Spans
  <2>11. \A k \in 1..Len(r) : \/ k \in 1..Len(q) /\ r[k] = q[k]
                              \/ Completes(d, status) /\ r[k].camera = d
    BY <1>1, <2>3, <2>6, <2>7
  <2> QED
    BY <2>6, <2>8, <2>10, <2>11 DEF r
<1>2. CASE ~Completes(d, status)
  <2>1. r = q
    BY <1>2 DEF DoorRequest
  <2> QED
    BY <2>1
<1> QED
  BY <1>1, <1>2

\* What the clock shows with one more status is not before what it showed.
LEMMA ClockKept ==
  ASSUME HistoryInv, NEW status \in Statuses, NEW now \in Times, Step(status, now),
         ClockNeverSetBack'
  PROVE  /\ ClockNeverSetBack
         /\ received # <<>> => received[Len(received)].now <= now
<1> PICK n \in Nat : Len(received) = n
  BY DEF HistoryInv
<1>1. /\ Len(received') = n + 1 /\ received'[n + 1].now = now
      /\ \A i \in 1..n : received'[i] = received[i]
  <2>1. received'[n + 1] = [status |-> status, now |-> now]
    BY HistoryGrows
  <2> QED
    BY <2>1, HistoryGrows
<1>2. \A i, j \in 1..(n + 1) : i <= j => received'[i].now <= received'[j].now
  BY <1>1 DEF ClockNeverSetBack
<1>3. ClockNeverSetBack
  BY <1>1, <1>2 DEF ClockNeverSetBack
<1>4. ASSUME received # <<>>
      PROVE  received[n].now <= now
  <2>1. n \in 1..n /\ n \in 1..(n + 1) /\ n + 1 \in 1..(n + 1) /\ n <= n + 1
    BY <1>4 DEF HistoryInv
  <2> QED
    BY <1>1, <1>2, <2>1
<1> QED
  BY <1>3, <1>4

LEMMA SpansKept ==
  ASSUME TypeOK, HistoryInv, SpanInv,
         NEW status \in Statuses, NEW now \in Times, Step(status, now)
  PROVE  SpanInv'
<1> SUFFICES ASSUME ClockNeverSetBack'
             PROVE  /\ Spans(requests')
                    /\ received' # <<>>
                    /\ ClosedBy(requests', received'[Len(received')].now)
                    /\ \A d \in Doors : doorOpen_'[d] =>
                         /\ doorOpenTime_'[d] <= received'[Len(received')].now
                         /\ InTurn(requests, d)'
  BY DEF SpanInv, Spans, ClosedBy, ClosingSeen, OpeningSeen
<1> DEFINE q == requests \o DoorRequest("door_0", status, now)
<1>1. received' # <<>> /\ received'[Len(received')].now = now
  <2>1. received'[Len(received')] = [status |-> status, now |-> now]
    BY HistoryGrows
  <2> QED
    BY <2>1, HistoryGrows
<1>2. /\ now \in Int /\ requests \in Seq(Requests) /\ StopEndDelay \in Int
      /\ \A d \in Doors : doorOpenTime_[d] \in Int
  BY DoorAssumption DEF TypeOK
<1>3. \A k \in 1..Len(requests) : ClosingSeen(requests[k]) \in Int
  <2> SUFFICES ASSUME NEW k \in 1..Len(requests)  PROVE ClosingSeen(requests[k]) \in Int
    OBVIOUS
  <2>1. requests[k] \in Requests
    BY <1>2
  <2> QED
    BY <1>2, <2>1 DEF ClosingSeen, Requests
<1>4. /\ Spans(requests) /\ ClosedBy(requests, now)
      /\ \A d \in Doors : doorOpen_[d] => doorOpenTime_[d] <= now /\ InTurn(requests, d)
  <2>1. ClockNeverSetBack /\ (received # <<>> => received[Len(received)].now <= now)
    BY ClockKept
  <2>2. CASE received = <<>>
    BY <2>1, <2>2 DEF SpanInv, ClosedBy
  <2>3. CASE received # <<>>
    <3>1. received[Len(received)].now \in Int
      <4>1. Len(received) \in 1..Len(received)
        BY <2>3 DEF HistoryInv
      <4> QED
        BY <4>1, HistoryGrows, DoorAssumption
    <3> QED
      BY <1>2, <1>3, <2>1, <2>3, <3>1 DEF SpanInv, ClosedBy
  <2> QED
    BY <2>2, <2>3
<1>5. "door_0" \in Doors /\ "door_1" \in Doors /\ "door_0" # "door_1"
  BY DEF Doors
<1>6. /\ q \in Seq(Requests) /\ Spans(q) /\ ClosedBy(q, now)
      /\ \A k \in 1..Len(q) :
           \/ k \in 1..Len(requests) /\ q[k] = requests[k]
           \/ Completes("door_0", status) /\ q[k].camera = "door_0"
  BY <1>2, <1>4, <1>5, DoorSpans
<1>7. doorOpen_["door_1"] => doorOpenTime_["door_1"] <= now /\ InTurn(q, "door_1")
  BY <1>4, <1>5, <1>6 DEF InTurn
<1>8. requests' = q \o DoorRequest("door_1", status, now)
  BY DEF Step, ProcessSystemStatus
<1> HIDE DEF q
<1>9. /\ Spans(requests') /\ ClosedBy(requests', now)
      /\ \A k \in 1..Len(requests') :
           \/ k \in 1..Len(q) /\ requests'[k] = q[k]
           \/ Completes("door_1", status) /\ requests'[k].camera = "door_1"
  BY <1>2, <1>5, <1>6, <1>7, <1>8, DoorSpans
<1>10. ASSUME NEW d \in Doors, doorOpen_'[d]
       PROVE  doorOpenTime_'[d] <= now /\ InTurn(requests, d)'
  <2>1. /\ ~Completes(d, status) /\ (Opens(d, status) \/ doorOpen_[d])
        /\ doorOpenTime_'[d] = IF Opens(d, status) THEN now ELSE doorOpenTime_[d]
    BY <1>10 DEF Step, ProcessSystemStatus
  <2>2. doorOpenTime_'[d] <= now
    BY <1>2, <1>4, <2>1
  <2>3. ASSUME NEW k \in 1..Len(requests'), requests'[k].camera = d
        PROVE  ClosingSeen(requests'[k]) <= doorOpenTime_'[d]
    <3>1. k \in 1..Len(requests) /\ requests'[k] = requests[k]
      BY <1>6, <1>9, <2>1, <2>3
    <3>2. CASE Opens(d, status)
      BY <1>9, <2>1, <2>3, <3>2 DEF ClosedBy
    <3>3. CASE ~Opens(d, status)
      BY <1>4, <2>1, <2>3, <3>1, <3>3 DEF InTurn
    <3> QED
      BY <3>2, <3>3
  <2>4. InTurn(requests, d)'
    BY <2>3 DEF InTurn, ClosingSeen
  <2> QED
    BY <2>2, <2>4
<1> QED
  BY <1>1, <1>9, <1>10

\* While the clock is not set back, no request is for a time that ends before it
\* begins, and the requests of one camera follow each other: the times of an opening
\* are kept until its request is made, and only then replaced.
THEOREM RequestsSpan == HistorySpec => []RequestsSpanOpenings
<1>1. HistoryInit => SpanInv
  <2> SUFFICES ASSUME HistoryInit  PROVE SpanInv
    OBVIOUS
  <2>1. /\ requests = <<>> /\ received = <<>> /\ 1..Len(<<>>) = {}
        /\ \A d \in Doors : ~doorOpen_[d]
    BY DEF HistoryInit, Init
  <2> QED
    BY <2>1 DEF SpanInv, Spans
<1>2. TypeOK /\ HistoryInv /\ SpanInv /\ [HistoryNext]_historyVars => SpanInv'
  <2> SUFFICES ASSUME TypeOK, HistoryInv, SpanInv, [HistoryNext]_historyVars
               PROVE  SpanInv'
    OBVIOUS
  <2>1. CASE HistoryNext
    <3> PICK status \in Statuses, now \in Times : Step(status, now)
      BY <2>1 DEF HistoryNext, Step
    <3> QED
      BY SpansKept
  <2>2. CASE UNCHANGED historyVars
    <3>1. /\ received' = received /\ requests' = requests
          /\ doorOpen_' = doorOpen_ /\ doorOpenTime_' = doorOpenTime_
      BY <2>2 DEF historyVars, vars, doorVars
    <3> QED
      BY <3>1 DEF SpanInv, Spans, ClosedBy, InTurn, ClosingSeen, OpeningSeen,
                  ClockNeverSetBack
  <2> QED
    BY <2>1, <2>2
<1>3. Inv => HistoryInv
  BY DEF Inv
<1>4. SpanInv => RequestsSpanOpenings
  BY DEF SpanInv, Spans, ClosingSeen, OpeningSeen, RequestsSpanOpenings
<1> QED
  BY <1>1, <1>2, <1>3, <1>4, HistoryIsMonitor, TypeCorrect, InvHolds, PTL DEF HistorySpec
=============================================================================
