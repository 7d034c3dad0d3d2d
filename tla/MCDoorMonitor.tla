---------------------------- MODULE MCDoorMonitor ----------------------------
(* DoorHistory for TLC: what the peripheral may report.                     *)
EXTENDS DoorHistory

MCStatuses == [Bits -> Bit]
=============================================================================
