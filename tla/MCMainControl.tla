---------------------------- MODULE MCMainControl ----------------------------
(* CommandHistory for TLC: what the peripheral may report.                  *)
EXTENDS CommandHistory

OneDoor == {s \in [{"door_0", "door_1"} -> {0, 1}] : s["door_1"] = 1}

FairHistorySpec == HistorySpec /\ Fairness

\* Each command is written while the program runs: three statuses of one door push
\* four at most, two as it opens and two as it closes.
CommandsAreWritten == \A n \in 1..4 : CommandGetsWritten(n)
=============================================================================
