----------------------------- MODULE DoorHistory -----------------------------
(***************************************************************************)
(* DoorMonitor with the statuses it processed as a history variable, and   *)
(* what they say about openings and closings, independently of the flags   *)
(* and times the code keeps: what the requests for segments should be.     *)
(***************************************************************************)
EXTENDS DoorMonitor, FiniteSets

CONSTANT MaxStatuses  \* bound on the number of statuses received

VARIABLE received     \* every status processed and the time of it

historyVars == <<vars, received>>

HistoryInit == Init /\ received = <<>>

HistoryNext ==
  /\ Len(received) < MaxStatuses
  /\ \E status \in Statuses, now \in Times :
       /\ ProcessSystemStatus(status, now)
       /\ received' = Append(received, [status |-> status, now |-> now])

HistorySpec == HistoryInit /\ [][HistoryNext]_historyVars

-----------------------------------------------------------------------------
(* Openings *)

\* Door d opened at the i-th status; the first status only shows how things are.
OpenedAt(d, i) ==
  /\ i > 1
  /\ received[i - 1].status[d] = 1
  /\ received[i].status[d] = 0

\* It opened at the i-th status and is open in all up to the j-th.
OpenFor(d, i, j) ==
  /\ OpenedAt(d, i)
  /\ \A k \in i..j : received[k].status[d] = 0

\* The opening at the i-th status ended at the j-th.
Opening(d, i, j) ==
  /\ i < j
  /\ OpenFor(d, i, j - 1)
  /\ received[j].status[d] = 1

Openings == {o \in Doors \X (1..Len(received)) \X (1..Len(received)) :
               Opening(o[1], o[2], o[3])}

ClosedBefore(o, p) ==
  \/ o[3] < p[3]
  \/ o[3] = p[3] /\ o[1] = "door_0" /\ p[1] = "door_1"

\* The number of an opening, in the order of the closings.
Place(o, openings) == Cardinality({p \in openings : p = o \/ ClosedBefore(p, o)})

Wanted(o) == [camera    |-> o[1],
              startTime |-> received[o[2]].now - StopBeginDelay,
              stopTime  |-> received[o[3]].now + StopEndDelay]

-----------------------------------------------------------------------------
(* Properties *)

\* Every opening of a door that was seen from its beginning to its end is
\* requested once, from StopBeginDelay before it to StopEndDelay after it, in
\* the order of the closings, and nothing else is requested.
OneRequestPerOpening ==
  LET all == Openings
  IN  /\ Len(requests) = Cardinality(all)
      /\ \A o \in all : requests[Place(o, all)] = Wanted(o)

ClockNeverSetBack ==
  \A i, j \in 1..Len(received) : i <= j => received[i].now <= received[j].now

\* As long as the clock is not set back, the duration VideoControl computes from a
\* request is at least the two delays, and two segments of one camera have no more
\* in common than the delays after the first opening and before the second.
RequestsSpanOpenings ==
  ClockNeverSetBack =>
    /\ \A n \in 1..Len(requests) :
         requests[n].stopTime - requests[n].startTime >= StopBeginDelay + StopEndDelay
    /\ \A m, n \in 1..Len(requests) :
         m < n /\ requests[m].camera = requests[n].camera =>
           requests[m].stopTime - StopEndDelay <= requests[n].startTime + StopBeginDelay
=============================================================================
