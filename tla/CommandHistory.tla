---------------------------- MODULE CommandHistory ----------------------------
(***************************************************************************)
(* MainControl with the commands handed to write() as a history variable,  *)
(* and what it says of the whole of the program's commands: whatever the   *)
(* receiver and the sender are in the middle of, they are those that       *)
(* DoorMonitor, which has no threads, pushes for the statuses processed.   *)
(***************************************************************************)
EXTENDS MainControl

VARIABLE written  \* every command handed to write(), also where that failed

historyVars == <<vars, written>>

HistoryInit == Init /\ written = <<>>

\* The sender is past write() in this step.
Writes == txPc = "write" /\ txPc' # "write"

HistoryNext ==
  /\ Next
  /\ written' = IF Writes THEN written \o taken ELSE written

HistorySpec == HistoryInit /\ [][HistoryNext]_historyVars

-----------------------------------------------------------------------------
(* Properties *)

\* The commands pushed so far, in their order.
Pushed == written \o OnTheWay

Handler == INSTANCE DoorMonitor WITH outgoingQueue_ <- Pushed

\* The threads add nothing to the handling of statuses and take nothing from it: with
\* what is written, being written and still queued for its queue, MainControl is
\* DoorMonitor.  No command is lost, written twice or overtaken by another, and
\* none is pushed outside the handling of a status, while stop() is called anywhere.
ImplementsMonitor == Handler!Spec

\* While the program runs each command is written, however long the peripheral stays
\* silent and whatever else it reports: the n-th one pushed comes to be the n-th one
\* written.  stop() may leave commands in the queue.
CommandGetsWritten(n) == (Len(Pushed) >= n) ~> (Len(written) >= n \/ ~running_)
=============================================================================
