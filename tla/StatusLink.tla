------------------------------ MODULE StatusLink ------------------------------
(***************************************************************************)
(* The serial line from the peripheral and the part of                     *)
(* MainControl::receiverLoop (src/MainControl.cpp) that makes statuses of  *)
(* its bytes.  A message is a status byte and its complement; the receiver *)
(* pairs the bytes as they come, hands a pair on when the second byte is   *)
(* the complement of the first, drops it otherwise, and starts a new pair  *)
(* in either case.                                                         *)
(*                                                                         *)
(* The line is external.  Bytes stay in order; one may be lost (a port     *)
(* that overruns, or that is opened in the middle of a message) and a bit  *)
(* may be flipped.  Each byte carries, for the properties only, the number *)
(* of its message, its place in it, and how many of its bits were flipped. *)
(*                                                                         *)
(* read() brings any number of bytes at a time, and the byte waiting for   *)
(* its partner outlives the call, so bytes are received one by one.        *)
(***************************************************************************)
EXTENDS Integers, Sequences

CONSTANTS Width,        \* bits of a byte: 8 in the code
          MaxMessages,  \* bounds on what the peripheral sends,
          MaxLost,      \* on the bytes lost
          MaxFlips      \* and on the bits flipped

ASSUME LinkAssumption ==
  /\ Width \in Nat \ {0}
  /\ MaxMessages \in Nat /\ MaxLost \in Nat /\ MaxFlips \in Nat

Positions == 0..(Width - 1)

Byte == [Positions -> {0, 1}]

Complement(byte) == [k \in Positions |-> 1 - byte[k]]

Xor(a, b) == [k \in Positions |-> (a[k] + b[k]) % 2]

AllOnes == [k \in Positions |-> 1]

VARIABLES
  sent,             \* the statuses sent so far
  wire,             \* bytes sent and not yet received
  lost,             \* number of bytes lost
  flipped,          \* number of bits flipped
  havePendingByte,  \* the receiver holds the first byte of a pair,
  pendingByte,      \* namely the last one that was a first byte
  accepted          \* the pairs handed on as statuses

vars == <<sent, wire, lost, flipped, havePendingByte, pendingByte, accepted>>

\* A byte on the line.
Cell == [byte : Byte, message : 1..MaxMessages, half : {1, 2}, flips : 0..MaxFlips]

TypeOK ==
  /\ sent \in Seq(Byte) /\ Len(sent) <= MaxMessages
  /\ wire \in Seq(Cell)
  /\ lost \in 0..MaxLost
  /\ flipped \in 0..MaxFlips
  /\ havePendingByte \in BOOLEAN
  /\ havePendingByte => pendingByte \in Cell
  /\ accepted \in Seq(Cell \X Cell)

NoByte == [byte |-> [k \in Positions |-> 0], message |-> 0, half |-> 0, flips |-> 0]

Init ==
  /\ sent = <<>>
  /\ wire = <<>>
  /\ lost = 0
  /\ flipped = 0
  /\ havePendingByte = FALSE
  /\ pendingByte = NoByte
  /\ accepted = <<>>

-----------------------------------------------------------------------------
(* The peripheral and the line *)

SendStatus(status) ==
  /\ Len(sent) < MaxMessages
  /\ sent' = Append(sent, status)
  /\ LET cell(byte, half) == [byte |-> byte, message |-> Len(sent) + 1,
                              half |-> half, flips |-> 0]
     IN  wire' = wire \o << cell(status, 1), cell(Complement(status), 2) >>
  /\ UNCHANGED <<lost, flipped, havePendingByte, pendingByte, accepted>>

Without(s, i) == SubSeq(s, 1, i - 1) \o SubSeq(s, i + 1, Len(s))

LoseByte(i) ==
  /\ lost < MaxLost
  /\ lost' = lost + 1
  /\ wire' = Without(wire, i)
  /\ UNCHANGED <<sent, flipped, havePendingByte, pendingByte, accepted>>

FlipBit(i, k) ==
  /\ flipped < MaxFlips
  /\ flipped' = flipped + 1
  /\ wire' = [wire EXCEPT ![i].byte[k] = 1 - @, ![i].flips = @ + 1]
  /\ UNCHANGED <<sent, lost, havePendingByte, pendingByte, accepted>>

-----------------------------------------------------------------------------
(* receiverLoop *)

\* Mutant: any two bytes that differ make a status.
ValidateAny(status, invStatus) == status # invStatus

ValidateStatusMessage(status, invStatus) == Xor(status, invStatus) = AllOnes

\* Mutant: the first byte is noticed but not kept.
FirstByteForgotten ==
  /\ wire # <<>>
  /\ ~havePendingByte
  /\ havePendingByte' = TRUE
  /\ wire' = Tail(wire)
  /\ UNCHANGED <<sent, lost, flipped, pendingByte, accepted>>

FirstByte ==
  /\ wire # <<>>
  /\ ~havePendingByte
  /\ pendingByte' = Head(wire)
  /\ havePendingByte' = TRUE
  /\ wire' = Tail(wire)
  /\ UNCHANGED <<sent, lost, flipped, accepted>>

\* Mutant: the second byte of a pair that is no status begins a new pair.
SecondByteKept ==
  /\ wire # <<>>
  /\ havePendingByte
  /\ LET valid == ValidateStatusMessage(pendingByte.byte, Head(wire).byte)
     IN  /\ accepted' = IF valid THEN Append(accepted, <<pendingByte, Head(wire)>>)
                        ELSE accepted
         /\ havePendingByte' = ~valid
         /\ pendingByte' = IF valid THEN pendingByte ELSE Head(wire)
  /\ wire' = Tail(wire)
  /\ UNCHANGED <<sent, lost, flipped>>

\* Mutant: after a status the receiver still believes to hold a first byte.
SecondByteNoReset ==
  /\ wire # <<>>
  /\ havePendingByte
  /\ accepted' = IF ValidateStatusMessage(pendingByte.byte, Head(wire).byte)
                 THEN Append(accepted, <<pendingByte, Head(wire)>>)
                 ELSE accepted
  /\ wire' = Tail(wire)
  /\ UNCHANGED <<sent, lost, flipped, havePendingByte, pendingByte>>

SecondByte ==
  /\ wire # <<>>
  /\ havePendingByte
  /\ accepted' = IF ValidateStatusMessage(pendingByte.byte, Head(wire).byte)
                 THEN Append(accepted, <<pendingByte, Head(wire)>>)
                 ELSE accepted
  /\ havePendingByte' = FALSE
  /\ wire' = Tail(wire)
  /\ UNCHANGED <<sent, lost, flipped, pendingByte>>

Next ==
  \/ \E status \in Byte : SendStatus(status)
  \/ \E i \in 1..Len(wire) : LoseByte(i)
  \/ \E i \in 1..Len(wire), k \in Positions : FlipBit(i, k)
  \/ FirstByte
  \/ SecondByte

Spec == Init /\ [][Next]_vars

-----------------------------------------------------------------------------
(* Properties *)

Status(pair) == pair[1].byte

Flips(pair) == pair[1].flips + pair[2].flips

\* As long as nothing is lost and nothing flipped, the statuses handed on are
\* those sent, in their order, and all of them but the ones still on the line.
FaithfulWhenIntact ==
  lost = 0 /\ flipped = 0 =>
    /\ \A i \in 1..Len(accepted) : Status(accepted[i]) = sent[i]
    /\ 2 * Len(accepted) + Len(wire) + (IF havePendingByte THEN 1 ELSE 0)
         = 2 * Len(sent)

\* The two bytes of one message make its status or, if one bit of the two was
\* flipped, nothing: bytes lost elsewhere do not matter.
WholeMessagesAreSound ==
  \A i \in 1..Len(accepted) :
    LET pair == accepted[i]
    IN  pair[1].message = pair[2].message /\ Flips(pair) <= 1
          => Status(pair) = sent[pair[1].message]

\* Bytes of two messages make a status only when the second message repeats
\* the first or is its complement; without flips the result is then the status
\* of the first message, or that status with every bit inverted.
MixedMessagesRepeat ==
  \A i \in 1..Len(accepted) :
    LET pair  == accepted[i]
        one   == sent[pair[1].message]
        other == sent[pair[2].message]
    IN  pair[1].message # pair[2].message /\ Flips(pair) = 0
          => other = IF pair[1].half = pair[2].half THEN Complement(one) ELSE one

\* The receiver never finds the beginning of a message by itself: once a lost byte
\* has made a status begin with the second byte of a message, one that begins with
\* the first byte comes again only after another byte was lost.
ShiftIsKept ==
  \A i, j \in 1..Len(accepted) :
    i < j /\ accepted[i][1].half = 2 /\ accepted[j][1].half = 1 => lost >= 2

\* What the change log says of the protocol: "XOR check ensures message
\* integrity", every status handed on is one the peripheral sent.
OnlySentStatuses ==
  flipped = 0 =>
    \A i \in 1..Len(accepted) :
      \E n \in 1..Len(sent) : Status(accepted[i]) = sent[n]
=============================================================================
