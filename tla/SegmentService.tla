---------------------------- MODULE SegmentService ----------------------------
(***************************************************************************)
(* What the program promises about the segments asked for when a door      *)
(* closes, whatever threads and queues are between the request and the     *)
(* row of table video_segments.  Requests are numbered as they are made.   *)
(* They are taken in that order, each once; one that is taken is refused   *)
(* or worked on; work ends once, with a row in the table or without.       *)
(***************************************************************************)
EXTENDS Integers

CONSTANT MaxRequests  \* bound on the requests

VARIABLES
  asked,    \* number of requests made
  taken,    \* number of requests taken
  refused,  \* those that were refused,
  working,  \* those that are worked on,
  entered,  \* those whose segment is in the table,
  failed    \* and those whose segment is not and will not be

vars == <<asked, taken, refused, working, entered, failed>>

Init ==
  /\ asked = 0 /\ taken = 0
  /\ refused = {} /\ working = {} /\ entered = {} /\ failed = {}

Ask ==
  /\ asked < MaxRequests
  /\ asked' = asked + 1
  /\ UNCHANGED <<taken, refused, working, entered, failed>>

Take ==
  /\ taken < asked
  /\ taken' = taken + 1
  /\ \/ refused' = refused \cup {taken + 1} /\ UNCHANGED working
     \/ working' = working \cup {taken + 1} /\ UNCHANGED refused
  /\ UNCHANGED <<asked, entered, failed>>

Finish(n) ==
  /\ n \in working
  /\ working' = working \ {n}
  /\ \/ entered' = entered \cup {n} /\ UNCHANGED failed
     \/ failed' = failed \cup {n} /\ UNCHANGED entered
  /\ UNCHANGED <<asked, taken, refused>>

Next == Ask \/ Take \/ \E n \in working : Finish(n)

Spec == Init /\ [][Next]_vars
=============================================================================
