---------------------------- MODULE StatusLinkProofs ----------------------------
(***************************************************************************)
(* Proofs about StatusLink, for bytes of any width, any statuses, and any  *)
(* number of messages, lost bytes and flipped bits.                        *)
(***************************************************************************)
EXTENDS StatusLink, TLAPS

-----------------------------------------------------------------------------
(* Bytes *)

\* A byte has a complement, whose complement it is.
LEMMA ComplementIsByte ==
  ASSUME NEW b \in Byte
  PROVE  Complement(b) \in Byte /\ Complement(Complement(b)) = b
BY DEF Byte, Complement

\* The check accepts a byte exactly with its complement.
LEMMA ValidIsComplement ==
  ASSUME NEW a \in Byte, NEW b \in Byte
  PROVE  ValidateStatusMessage(a, b) <=> b = Complement(a)
<1>1. \A x, y \in {0, 1} : (x + y) % 2 = 1 <=> y = 1 - x
  OBVIOUS
<1>2. ValidateStatusMessage(a, b) <=> \A k \in Positions : (a[k] + b[k]) % 2 = 1
  BY DEF ValidateStatusMessage, Xor, AllOnes
<1>3. b = Complement(a) <=> \A k \in Positions : b[k] = 1 - a[k]
  BY DEF Byte, Complement
<1>4. \A k \in Positions : a[k] \in {0, 1} /\ b[k] \in {0, 1}
  BY DEF Byte
<1> QED
  BY <1>1, <1>2, <1>3, <1>4

\* A byte with one bit flipped.
Flipped(b, k) == [b EXCEPT ![k] = 1 - @]

\* Flipping a bit makes another byte, not the complement of the complement.
LEMMA FlippedIsOther ==
  ASSUME NEW b \in Byte, NEW k \in Positions
  PROVE  Flipped(b, k) \in Byte /\ Flipped(b, k) # b
<1>1. Flipped(b, k)[k] = 1 - b[k] /\ b[k] \in {0, 1}
  BY DEF Flipped, Byte
<1> QED
  BY <1>1 DEF Flipped, Byte

-----------------------------------------------------------------------------
(* Sequences *)

\* What sending appends.
LEMMA TwoMore ==
  ASSUME NEW S, NEW s \in Seq(S), NEW a \in S, NEW b \in S
  PROVE  /\ s \o <<a, b>> \in Seq(S)
         /\ Len(s \o <<a, b>>) = Len(s) + 2
         /\ \A i \in 1..Len(s) : (s \o <<a, b>>)[i] = s[i]
         /\ (s \o <<a, b>>)[Len(s) + 1] = a
         /\ (s \o <<a, b>>)[Len(s) + 2] = b
<1>1. <<a, b>> \in Seq(S) /\ Len(<<a, b>>) = 2
  OBVIOUS
<1> QED
  BY <1>1

\* What is left when an element is lost.
LEMMA OneLess ==
  ASSUME NEW S, NEW s \in Seq(S), NEW i \in 1..Len(s)
  PROVE  /\ Without(s, i) \in Seq(S)
         /\ Len(Without(s, i)) = Len(s) - 1
         /\ \A k \in 1..(Len(s) - 1) :
              Without(s, i)[k] = IF k < i THEN s[k] ELSE s[k + 1]
<1> DEFINE front == SubSeq(s, 1, i - 1)
           back  == SubSeq(s, i + 1, Len(s))
<1>1. /\ front \in Seq(S) /\ Len(front) = i - 1
      /\ \A k \in 1..(i - 1) : front[k] = s[k]
  OBVIOUS
<1>2. /\ back \in Seq(S) /\ Len(back) = Len(s) - i
      /\ \A k \in 1..(Len(s) - i) : back[k] = s[k + i]
  OBVIOUS
<1>3. Without(s, i) = front \o back
  BY DEF Without
<1> HIDE DEF front, back
<1>4. /\ front \o back \in Seq(S)
      /\ Len(front \o back) = Len(s) - 1
  BY <1>1, <1>2
<1>5. ASSUME NEW k \in 1..(Len(s) - 1), k < i
      PROVE  (front \o back)[k] = s[k]
  BY <1>1, <1>2, <1>5
<1>6. ASSUME NEW k \in 1..(Len(s) - 1), ~(k < i)
      PROVE  (front \o back)[k] = s[k + 1]
  <2>1. /\ (front \o back)[k] = back[k - (i - 1)]
        /\ k - (i - 1) \in 1..(Len(s) - i)
        /\ (k - (i - 1)) + i = k + 1
    BY <1>1, <1>2, <1>6
  <2> QED
    BY <1>2, <2>1
<1> QED
  BY <1>3, <1>4, <1>5, <1>6

-----------------------------------------------------------------------------
(* Types *)

\* A flip is counted on the byte and on the line.
FlipsInv == \A i \in 1..Len(wire) : wire[i].flips <= flipped

TypeInv == TypeOK /\ FlipsInv

\* The cells of a message.
CellOf(byte, message, half) ==
  [byte |-> byte, message |-> message, half |-> half, flips |-> 0]

\* What FlipBit makes of a byte on the line.
FlippedCell(c, k) == [c EXCEPT !.byte = Flipped(c.byte, k), !.flips = @ + 1]

\* FlipBit changes one byte of the line.
LEMMA FlipFacts ==
  ASSUME TypeOK, NEW i \in 1..Len(wire), NEW k \in Positions, FlipBit(i, k)
  PROVE  wire' = [wire EXCEPT ![i] = FlippedCell(wire[i], k)]
<1>1. wire[i] \in Cell
  BY DEF TypeOK
<1> QED
  BY <1>1 DEF FlipBit, FlippedCell, Flipped, TypeOK, Cell

\* SendStatus appends the two bytes of a message.
LEMMA SendFacts ==
  ASSUME TypeOK, NEW status \in Byte, SendStatus(status)
  PROVE  LET a == CellOf(status, Len(sent) + 1, 1)
             b == CellOf(Complement(status), Len(sent) + 1, 2)
         IN  /\ a \in Cell /\ b \in Cell
             /\ wire' \in Seq(Cell) /\ Len(wire') = Len(wire) + 2
             /\ \A i \in 1..Len(wire) : wire'[i] = wire[i]
             /\ wire'[Len(wire) + 1] = a /\ wire'[Len(wire) + 2] = b
             /\ sent' \in Seq(Byte) /\ Len(sent') = Len(sent) + 1
             /\ \A n \in 1..Len(sent) : sent'[n] = sent[n]
             /\ sent'[Len(sent) + 1] = status
             /\ Len(sent') <= MaxMessages
<1> DEFINE a == CellOf(status, Len(sent) + 1, 1)
           b == CellOf(Complement(status), Len(sent) + 1, 2)
<1>1. /\ sent' = Append(sent, status) /\ sent \in Seq(Byte)
      /\ Len(sent) < MaxMessages /\ wire \in Seq(Cell)
      /\ wire' = wire \o <<a, b>>
  BY DEF SendStatus, CellOf, TypeOK
<1>2. a \in Cell /\ b \in Cell
  BY <1>1, ComplementIsByte, LinkAssumption DEF CellOf, Cell
<1>3. /\ sent' \in Seq(Byte) /\ Len(sent') = Len(sent) + 1
      /\ \A n \in 1..Len(sent) : sent'[n] = sent[n]
      /\ sent'[Len(sent) + 1] = status
      /\ Len(sent') <= MaxMessages
  BY <1>1, LinkAssumption
<1> HIDE DEF a, b
<1>4. /\ wire' \in Seq(Cell) /\ Len(wire') = Len(wire) + 2
      /\ \A i \in 1..Len(wire) : wire'[i] = wire[i]
      /\ wire'[Len(wire) + 1] = a /\ wire'[Len(wire) + 2] = b
  BY <1>1, <1>2, TwoMore
<1> QED
  BY <1>2, <1>3, <1>4 DEF a, b

\* The receiver takes the first byte of the line.
LEMMA ReceiveFacts ==
  ASSUME TypeOK, wire # <<>>, wire' = Tail(wire)
  PROVE  /\ Head(wire) = wire[1] /\ 1 \in 1..Len(wire) /\ wire[1] \in Cell
         /\ wire' \in Seq(Cell) /\ Len(wire') = Len(wire) - 1
         /\ \A i \in 1..Len(wire') : wire'[i] = wire[i + 1]
BY DEF TypeOK

\* Every byte keeps its type, and its flips are among those of the line.
LEMMA TypeInvariant == Spec => []TypeInv
<1>1. Init => TypeInv
  <2> SUFFICES ASSUME Init  PROVE TypeInv
    OBVIOUS
  <2>1. /\ <<>> \in Seq(Byte) /\ <<>> \in Seq(Cell) /\ <<>> \in Seq(Cell \X Cell)
        /\ Len(<<>>) = 0
    OBVIOUS
  <2>2. havePendingByte \in BOOLEAN /\ ~havePendingByte
    BY Zenon DEF Init
  <2> QED
    BY <2>1, <2>2, LinkAssumption DEF Init, TypeInv, TypeOK, FlipsInv
<1>2. TypeInv /\ [Next]_vars => TypeInv'
  <2> SUFFICES ASSUME TypeInv, [Next]_vars  PROVE TypeInv'
    OBVIOUS
  <2> USE DEF TypeInv
  <2>1. ASSUME NEW status \in Byte, SendStatus(status)  PROVE TypeInv'
    <3> DEFINE a == CellOf(status, Len(sent) + 1, 1)
               b == CellOf(Complement(status), Len(sent) + 1, 2)
    <3>1. /\ wire' \in Seq(Cell) /\ Len(wire') = Len(wire) + 2
          /\ \A i \in 1..Len(wire) : wire'[i] = wire[i]
          /\ wire'[Len(wire) + 1] = a /\ wire'[Len(wire) + 2] = b
          /\ sent' \in Seq(Byte) /\ Len(sent') <= MaxMessages
      BY <2>1, SendFacts
    <3>2. a.flips = 0 /\ b.flips = 0
      BY DEF CellOf
    <3> HIDE DEF a, b
    <3>3. UNCHANGED <<lost, flipped, havePendingByte, pendingByte, accepted>>
      BY <2>1 DEF SendStatus
    <3>4. ASSUME NEW i \in 1..Len(wire')  PROVE wire'[i].flips <= flipped'
      <4>1. Len(wire) \in Nat /\ flipped \in Nat
        BY LinkAssumption DEF TypeOK
      <4>2. CASE i \in 1..Len(wire)
        BY <3>1, <3>3, <4>2 DEF FlipsInv
      <4>3. CASE i = Len(wire) + 1 \/ i = Len(wire) + 2
        BY <3>1, <3>2, <3>3, <4>1, <4>3
      <4> QED
        BY <3>1, <4>1, <4>2, <4>3
    <3>5. FlipsInv'
      BY <3>4 DEF FlipsInv
    <3> QED
      BY <3>1, <3>3, <3>5 DEF TypeOK
  <2>2. ASSUME NEW i \in 1..Len(wire), LoseByte(i)  PROVE TypeInv'
    <3>1. /\ wire' \in Seq(Cell) /\ Len(wire') = Len(wire) - 1
          /\ \A k \in 1..(Len(wire) - 1) :
               wire'[k] = IF k < i THEN wire[k] ELSE wire[k + 1]
      BY <2>2, OneLess DEF LoseByte, TypeOK
    <3>2. /\ lost' \in 0..MaxLost
          /\ UNCHANGED <<sent, flipped, havePendingByte, pendingByte, accepted>>
      BY <2>2, LinkAssumption DEF LoseByte, TypeOK
    <3>3. FlipsInv'
      <4>1. Len(wire) \in Nat
        BY DEF TypeOK
      <4>2. \A k \in 1..(Len(wire) - 1) : k \in 1..Len(wire) /\ k + 1 \in 1..Len(wire)
        BY <4>1
      <4>3. \A k \in 1..(Len(wire) - 1) : wire'[k].flips <= flipped
        BY <3>1, <4>2 DEF FlipsInv
      <4> QED
        BY <3>1, <3>2, <4>3 DEF FlipsInv
    <3> QED
      BY <3>1, <3>2, <3>3 DEF TypeOK
  <2>3. ASSUME NEW i \in 1..Len(wire), NEW k \in Positions, FlipBit(i, k)
        PROVE  TypeInv'
    <3>1. wire' = [wire EXCEPT ![i] = FlippedCell(wire[i], k)]
      BY <2>3, FlipFacts
    <3>2. /\ flipped < MaxFlips /\ flipped' = flipped + 1
          /\ UNCHANGED <<sent, lost, havePendingByte, pendingByte, accepted>>
      BY <2>3 DEF FlipBit
    <3>3. wire[i] \in Cell /\ wire[i].flips <= flipped
      BY DEF TypeOK, FlipsInv
    <3>4. /\ FlippedCell(wire[i], k) \in Cell
          /\ FlippedCell(wire[i], k).flips = wire[i].flips + 1
      <4>1. Flipped(wire[i].byte, k) \in Byte
        BY <3>3, FlippedIsOther DEF Cell
      <4>2. wire[i].flips + 1 \in 0..MaxFlips
        <5>1. wire[i].flips \in Nat
          BY <3>3, LinkAssumption DEF Cell
        <5>2. flipped \in Nat
          BY LinkAssumption DEF TypeOK
        <5> QED
          BY <5>1, <5>2, <3>2, <3>3, LinkAssumption
      <4> QED
        BY <3>3, <4>1, <4>2 DEF FlippedCell, Cell
    <3> HIDE DEF FlippedCell
    <3>5. wire' \in Seq(Cell) /\ FlipsInv'
      <4>1. /\ wire \in Seq(Cell) /\ flipped \in Nat
            /\ \A j \in 1..Len(wire) : wire[j].flips \in Nat
        <5>1. \A c \in Cell : c.flips \in Nat
          BY LinkAssumption DEF Cell
        <5> QED
          BY <5>1, LinkAssumption DEF TypeOK
      <4>2. /\ wire' \in Seq(Cell) /\ Len(wire') = Len(wire)
            /\ wire'[i] = FlippedCell(wire[i], k)
            /\ \A j \in 1..Len(wire) : j # i => wire'[j] = wire[j]
        BY <3>1, <3>4, <4>1
      <4>3. ASSUME NEW j \in 1..Len(wire')  PROVE wire'[j].flips <= flipped'
        BY <3>2, <3>3, <3>4, <4>1, <4>2 DEF FlipsInv
      <4> QED
        BY <4>2, <4>3 DEF FlipsInv
    <3>6. flipped' \in 0..MaxFlips
      BY <3>2, LinkAssumption DEF TypeOK
    <3> QED
      BY <3>2, <3>5, <3>6 DEF TypeOK
  <2>4. CASE FirstByte
    <3>1. havePendingByte' \in BOOLEAN
      BY <2>4, Zenon DEF FirstByte
    <3>2. /\ pendingByte' \in Cell /\ wire' \in Seq(Cell) /\ Len(wire') = Len(wire) - 1
          /\ \A i \in 1..Len(wire') : wire'[i] = wire[i + 1]
          /\ UNCHANGED <<sent, lost, flipped, accepted>>
      BY <2>4, ReceiveFacts DEF FirstByte
    <3>3. FlipsInv'
      <4>1. \A i \in 1..Len(wire') : i + 1 \in 1..Len(wire)
        BY <3>2 DEF TypeOK
      <4> QED
        BY <3>2, <4>1 DEF FlipsInv
    <3> QED
      BY <3>1, <3>2, <3>3 DEF TypeOK
  <2>5. CASE SecondByte
    <3>1. havePendingByte' \in BOOLEAN /\ ~havePendingByte'
      BY <2>5, Zenon DEF SecondByte
    <3>2. /\ wire[1] \in Cell /\ Head(wire) = wire[1]
          /\ wire' \in Seq(Cell) /\ Len(wire') = Len(wire) - 1
          /\ \A i \in 1..Len(wire') : wire'[i] = wire[i + 1]
          /\ UNCHANGED <<sent, lost, flipped, pendingByte>>
      BY <2>5, ReceiveFacts DEF SecondByte
    <3>3. pendingByte \in Cell
      BY <2>5 DEF SecondByte, TypeOK
    <3>4. accepted' \in Seq(Cell \X Cell)
      BY <2>5, <3>2, <3>3 DEF SecondByte, TypeOK
    <3>5. FlipsInv'
      <4>1. \A i \in 1..Len(wire') : i + 1 \in 1..Len(wire)
        BY <3>2 DEF TypeOK
      <4> QED
        BY <3>2, <4>1 DEF FlipsInv
    <3> QED
      BY <3>1, <3>2, <3>4, <3>5 DEF TypeOK
  <2>6. CASE UNCHANGED vars
    BY <2>6 DEF vars, TypeOK, FlipsInv
  <2> QED
    BY <2>1, <2>2, <2>3, <2>4, <2>5, <2>6 DEF Next
<1> QED
  BY <1>1, <1>2, PTL DEF Spec

\* What TLC checks as TypeOK: bytes, counts and pairs keep their types.
THEOREM TypeCorrect == Spec => []TypeOK
BY TypeInvariant, PTL DEF TypeInv

-----------------------------------------------------------------------------
(* The order of the bytes *)

\* The place of a byte among all that were sent.
Position(c) == 2 * (c.message - 1) + c.half

\* How many bytes were received.
Received == 2 * Len(sent) - Len(wire) - lost

\* How many were lost before the i-th byte on the line, and before the pending one.
Gap(i) == Position(wire[i]) - Received - i

PendingGap == Position(pendingByte) - Received

\* A pair that begins with a second byte.
Shifted(pair) == pair[1].half = 2

\* The receiver pairs what it receives.
Paired == Received % 2 = IF havePendingByte THEN 1 ELSE 0

\* Bytes stay in order on the line, and what is missing between them was lost.
LineInOrder ==
  \A i \in 1..Len(wire) :
    /\ wire[i].message <= Len(sent)
    /\ 0 <= Gap(i) /\ Gap(i) <= lost
    /\ \A j \in 1..Len(wire) : i <= j => Gap(i) <= Gap(j)

\* The pending byte came before them.
PendingInOrder ==
  havePendingByte =>
    /\ pendingByte.message <= Len(sent)
    /\ 0 <= PendingGap /\ PendingGap <= lost
    /\ \A i \in 1..Len(wire) : PendingGap <= Gap(i)

\* A byte was lost before a pair that begins with a second byte.
ShiftWasLoss ==
  \A n \in 1..Len(accepted) : Shifted(accepted[n]) =>
    /\ lost >= 1
    /\ \A i \in 1..Len(wire) : Gap(i) >= 1
    /\ havePendingByte => PendingGap >= 1

OrderInv == Paired /\ LineInOrder /\ PendingInOrder /\ ShiftWasLoss

\* The position of a byte is a number, odd for the first byte of a message.
LEMMA PositionIsNumber ==
  ASSUME NEW c \in Cell
  PROVE  /\ c.message \in Nat /\ c.message >= 1 /\ c.half \in {1, 2}
         /\ Position(c) \in Int
         /\ Position(c) = 2 * (c.message - 1) + c.half
BY LinkAssumption DEF Cell, Position

\* Positions and counts are numbers.
LEMMA Numbers ==
  ASSUME TypeOK
  PROVE  /\ Received \in Int /\ Len(sent) \in Nat /\ Len(wire) \in Nat /\ lost \in Nat
         /\ Received = 2 * Len(sent) - Len(wire) - lost
         /\ \A i \in 1..Len(wire) :
              /\ wire[i] \in Cell /\ Position(wire[i]) \in Int /\ Gap(i) \in Int
              /\ Gap(i) = Position(wire[i]) - Received - i
         /\ havePendingByte => /\ pendingByte \in Cell /\ PendingGap \in Int
                               /\ Position(pendingByte) \in Int
                               /\ PendingGap = Position(pendingByte) - Received
<1>1. /\ Len(sent) \in Nat /\ Len(wire) \in Nat /\ lost \in Nat
      /\ \A i \in 1..Len(wire) : wire[i] \in Cell
  BY LinkAssumption DEF TypeOK
<1>2. Received \in Int
  BY <1>1 DEF Received
<1>3. havePendingByte => pendingByte \in Cell
  BY DEF TypeOK
<1>4. \A c \in Cell : Position(c) \in Int
  BY PositionIsNumber
<1> HIDE DEF Position
<1> QED
  BY <1>1, <1>2, <1>3, <1>4 DEF Gap, PendingGap, Received

\* Sending keeps the order: the new bytes come last.
LEMMA SendKeepsOrder ==
  ASSUME TypeOK, TypeOK', OrderInv, NEW status \in Byte, SendStatus(status)
  PROVE  OrderInv'
<1> DEFINE m == Len(sent) + 1
           a == CellOf(status, m, 1)
           b == CellOf(Complement(status), m, 2)
<1>0. PICK L \in Nat : L = Len(wire)
  BY Numbers
<1>1. /\ Len(wire') = L + 2
      /\ \A i \in 1..L : wire'[i] = wire[i]
      /\ wire'[L + 1] = a /\ wire'[L + 2] = b
      /\ Len(sent') = Len(sent) + 1
  BY <1>0, SendFacts
<1>2. UNCHANGED <<lost, havePendingByte, pendingByte, accepted>>
  BY DEF SendStatus
<1>3. Len(sent) \in Nat /\ lost \in Nat /\ Received \in Int
  BY Numbers
<1>4. /\ a.message = m /\ Position(a) = 2 * Len(sent) + 1
      /\ b.message = m /\ Position(b) = 2 * Len(sent) + 2
  BY <1>3 DEF CellOf, Position
<1> HIDE DEF a, b
<1>5. Received' = Received /\ Received = 2 * Len(sent) - L - lost
  BY <1>0, <1>1, <1>2, <1>3 DEF Received
<1>6. PendingGap' = PendingGap
  BY <1>2, <1>5 DEF PendingGap, Position
<1>7. \A i \in 1..L : Gap(i)' = Gap(i)
  BY <1>1, <1>5 DEF Gap, Position
<1>8. \A i \in 1..L : Gap(i) \in Int
  BY <1>0, Numbers
<1>9. Gap(L + 1)' = lost /\ Gap(L + 2)' = lost
  <2>1. Gap(L + 1)' = Position(a) - Received - (L + 1)
    BY <1>1, <1>5 DEF Gap, Position
  <2>2. Gap(L + 2)' = Position(b) - Received - (L + 2)
    BY <1>1, <1>5 DEF Gap, Position
  <2> QED
    BY <2>1, <2>2, <1>3, <1>4, <1>5
<1>10. \A i \in 1..(L + 2) : i \in 1..L \/ i = L + 1 \/ i = L + 2
  BY <1>3
<1>11. Paired'
  BY <1>2, <1>5 DEF OrderInv, Paired
<1>12. LineInOrder'
  <2> SUFFICES ASSUME NEW i \in 1..(L + 2)
               PROVE  /\ wire'[i].message <= Len(sent')
                      /\ 0 <= Gap(i)' /\ Gap(i)' <= lost
                      /\ \A j \in 1..(L + 2) : i <= j => Gap(i)' <= Gap(j)'
    BY <1>1, <1>2 DEF LineInOrder
  <2>1. CASE i \in 1..L
    <3>1. /\ wire[i].message <= Len(sent) /\ wire[i].message \in Nat
          /\ 0 <= Gap(i) /\ Gap(i) <= lost /\ Gap(i)' = Gap(i)
          /\ \A j \in 1..L : i <= j => Gap(i) <= Gap(j)
      BY <2>1, <1>0, <1>7, Numbers, PositionIsNumber DEF OrderInv, LineInOrder
    <3>2. \A j \in 1..(L + 2) : i <= j => Gap(i)' <= Gap(j)'
      BY <3>1, <1>7, <1>9, <1>10
    <3> QED
      BY <2>1, <3>1, <3>2, <1>1, <1>3
  <2>2. CASE i = L + 1 \/ i = L + 2
    <3>1. Gap(i)' = lost /\ wire'[i].message = m
      BY <2>2, <1>1, <1>4, <1>9
    <3>2. \A j \in 1..(L + 2) : i <= j => j = L + 1 \/ j = L + 2
      BY <2>2, <1>3
    <3> QED
      BY <3>1, <3>2, <1>1, <1>3, <1>9
  <2> QED
    BY <2>1, <2>2, <1>10
<1>13. PendingInOrder'
  <2> SUFFICES ASSUME havePendingByte
               PROVE  /\ pendingByte.message <= Len(sent')
                      /\ 0 <= PendingGap /\ PendingGap <= lost
                      /\ \A i \in 1..(L + 2) : PendingGap <= Gap(i)'
    BY <1>1, <1>2, <1>6 DEF PendingInOrder
  <2>1. /\ pendingByte.message <= Len(sent) /\ pendingByte.message \in Nat
        /\ 0 <= PendingGap /\ PendingGap <= lost
        /\ \A i \in 1..L : PendingGap <= Gap(i)
    BY <1>0, Numbers, PositionIsNumber DEF OrderInv, PendingInOrder
  <2>2. \A i \in 1..(L + 2) : PendingGap <= Gap(i)'
    BY <2>1, <1>7, <1>9, <1>10
  <2> QED
    BY <2>1, <2>2, <1>1, <1>3
<1>14. ShiftWasLoss'
  <2> SUFFICES ASSUME NEW n \in 1..Len(accepted), Shifted(accepted[n])
               PROVE  /\ lost >= 1 /\ \A i \in 1..(L + 2) : Gap(i)' >= 1
                      /\ havePendingByte => PendingGap >= 1
    BY <1>1, <1>2, <1>6 DEF ShiftWasLoss, Shifted
  <2>1. /\ lost >= 1 /\ \A i \in 1..L : Gap(i) >= 1
        /\ havePendingByte => PendingGap >= 1
    BY <1>0 DEF OrderInv, ShiftWasLoss
  <2> QED
    BY <2>1, <1>7, <1>9, <1>10
<1> QED
  BY <1>11, <1>12, <1>13, <1>14 DEF OrderInv

\* Losing a byte opens a gap behind it, and everything behind sees it.
LEMMA LoseKeepsOrder ==
  ASSUME TypeOK, OrderInv, NEW i \in 1..Len(wire), LoseByte(i)
  PROVE  OrderInv'
<1> DEFINE L == Len(wire)
<1>1. /\ Len(wire') = L - 1
      /\ \A k \in 1..(L - 1) : wire'[k] = IF k < i THEN wire[k] ELSE wire[k + 1]
  BY OneLess DEF LoseByte, TypeOK
<1>2. lost' = lost + 1 /\ UNCHANGED <<sent, havePendingByte, pendingByte, accepted>>
  BY DEF LoseByte
<1>3. Len(sent) \in Nat /\ L \in Nat /\ lost \in Nat /\ Received \in Int
  BY Numbers
<1>4. Received' = Received
  BY <1>1, <1>2, <1>3 DEF Received
<1>5. PendingGap' = PendingGap
  BY <1>2, <1>4 DEF PendingGap, Position
<1>6. \A k \in 1..(L - 1) : k \in 1..L /\ k + 1 \in 1..L
  BY <1>3
<1>7. \A k \in 1..L : Gap(k) \in Int
  BY Numbers
<1>8. \A k \in 1..(L - 1) : Gap(k)' = IF k < i THEN Gap(k) ELSE Gap(k + 1) + 1
  <2> TAKE k \in 1..(L - 1)
  <2>1. CASE k < i
    BY <2>1, <1>1, <1>4 DEF Gap, Position
  <2>2. CASE ~(k < i)
    <3>1. Gap(k)' = Position(wire[k + 1]) - Received - k
      BY <2>2, <1>1, <1>4 DEF Gap, Position
    <3>2. Gap(k + 1) = Position(wire[k + 1]) - Received - (k + 1)
      BY DEF Gap
    <3>3. Position(wire[k + 1]) \in Int
      BY <1>6, Numbers
    <3> QED
      BY <2>2, <3>1, <3>2, <3>3, <1>3
  <2> QED
    BY <2>1, <2>2
<1> HIDE DEF L
<1>9. Paired'
  BY <1>2, <1>4 DEF OrderInv, Paired
<1>10. LineInOrder'
  <2> SUFFICES ASSUME NEW k \in 1..(L - 1)
               PROVE  /\ wire'[k].message <= Len(sent)
                      /\ 0 <= Gap(k)' /\ Gap(k)' <= lost + 1
                      /\ \A j \in 1..(L - 1) : k <= j => Gap(k)' <= Gap(j)'
    BY <1>1, <1>2 DEF LineInOrder
  <2>1. \A j \in 1..L : /\ wire[j].message <= Len(sent)
                        /\ 0 <= Gap(j) /\ Gap(j) <= lost
                        /\ \A h \in 1..L : j <= h => Gap(j) <= Gap(h)
    BY DEF OrderInv, LineInOrder, L
  <2>2. wire'[k].message <= Len(sent)
    BY <2>1, <1>1, <1>6
  <2>3. 0 <= Gap(k)' /\ Gap(k)' <= lost + 1
    <3>1. /\ Gap(k) \in Int /\ 0 <= Gap(k) /\ Gap(k) <= lost
          /\ Gap(k + 1) \in Int /\ 0 <= Gap(k + 1) /\ Gap(k + 1) <= lost
      BY <2>1, <1>6, <1>7
    <3>2. Gap(k)' = Gap(k) \/ Gap(k)' = Gap(k + 1) + 1
      BY <1>8
    <3> QED
      BY <3>1, <3>2, <1>3
  <2>4. ASSUME NEW j \in 1..(L - 1), k <= j  PROVE Gap(k)' <= Gap(j)'
    <3>1. /\ Gap(k) <= Gap(j) /\ Gap(k) <= Gap(j + 1) /\ Gap(k + 1) <= Gap(j + 1)
          /\ Gap(k) \in Int /\ Gap(j) \in Int
          /\ Gap(k + 1) \in Int /\ Gap(j + 1) \in Int
      BY <2>1, <2>4, <1>3, <1>6, <1>7
    <3> QED
      BY <3>1, <2>4, <1>3, <1>8
  <2> QED
    BY <2>2, <2>3, <2>4
<1>11. PendingInOrder'
  <2> SUFFICES ASSUME havePendingByte
               PROVE  /\ pendingByte.message <= Len(sent)
                      /\ 0 <= PendingGap /\ PendingGap <= lost + 1
                      /\ \A k \in 1..(L - 1) : PendingGap <= Gap(k)'
    BY <1>1, <1>2, <1>5 DEF PendingInOrder
  <2>1. /\ pendingByte.message <= Len(sent) /\ PendingGap \in Int
        /\ 0 <= PendingGap /\ PendingGap <= lost
        /\ \A k \in 1..L : PendingGap <= Gap(k)
    BY Numbers DEF OrderInv, PendingInOrder, L
  <2> QED
    BY <2>1, <1>3, <1>6, <1>7, <1>8
<1>12. ShiftWasLoss'
  <2> SUFFICES ASSUME NEW n \in 1..Len(accepted), Shifted(accepted[n])
               PROVE  /\ lost + 1 >= 1 /\ \A k \in 1..(L - 1) : Gap(k)' >= 1
                      /\ havePendingByte => PendingGap >= 1
    BY <1>1, <1>2, <1>5 DEF ShiftWasLoss, Shifted
  <2>1. /\ lost >= 1 /\ \A k \in 1..L : Gap(k) >= 1
        /\ havePendingByte => PendingGap >= 1
    BY DEF OrderInv, ShiftWasLoss, L
  <2> QED
    BY <2>1, <1>3, <1>6, <1>7, <1>8
<1> QED
  BY <1>9, <1>10, <1>11, <1>12 DEF OrderInv

\* Receiving a byte moves everything on the line one place up.
LEMMA ReceiveMoves ==
  ASSUME TypeOK, wire # <<>>, wire' = Tail(wire), UNCHANGED <<sent, lost>>
  PROVE  /\ Len(wire') = Len(wire) - 1
         /\ Received' = Received + 1
         /\ \A i \in 1..Len(wire') : /\ i + 1 \in 1..Len(wire)
                                     /\ wire'[i] = wire[i + 1]
                                     /\ Gap(i)' = Gap(i + 1)
         /\ 1 \in 1..Len(wire) /\ Head(wire) = wire[1] /\ wire[1] \in Cell
         /\ Gap(1) = Position(wire[1]) - Received - 1
<1>1. /\ Head(wire) = wire[1] /\ 1 \in 1..Len(wire) /\ wire[1] \in Cell
      /\ Len(wire') = Len(wire) - 1
      /\ \A i \in 1..Len(wire') : wire'[i] = wire[i + 1]
  BY ReceiveFacts
<1>2. /\ Received \in Int /\ Len(sent) \in Nat /\ Len(wire) \in Nat /\ lost \in Nat
      /\ \A i \in 1..Len(wire) : Position(wire[i]) \in Int
  BY Numbers
<1>3. Received' = Received + 1
  BY <1>1, <1>2 DEF Received
<1>4. \A i \in 1..Len(wire') : i + 1 \in 1..Len(wire)
  BY <1>1, <1>2
<1>5. ASSUME NEW i \in 1..Len(wire')  PROVE Gap(i)' = Gap(i + 1)
  <2>1. Gap(i)' = Position(wire[i + 1]) - (Received + 1) - i
    BY <1>1, <1>3 DEF Gap, Position
  <2>2. Gap(i + 1) = Position(wire[i + 1]) - Received - (i + 1)
    BY DEF Gap
  <2>3. Position(wire[i + 1]) \in Int /\ i \in Int
    BY <1>2, <1>4
  <2> QED
    BY <2>1, <2>2, <2>3, <1>2
<1> QED
  BY <1>1, <1>3, <1>4, <1>5 DEF Gap

\* What is left on the line stays in order.
LEMMA ReceiveKeepsLine ==
  ASSUME TypeOK, LineInOrder, wire # <<>>, wire' = Tail(wire), UNCHANGED <<sent, lost>>
  PROVE  LineInOrder'
<1>1. Len(wire) \in Nat /\ Len(wire') = Len(wire) - 1
  BY Numbers, ReceiveMoves
<1>2. \A i \in 1..Len(wire') : /\ i + 1 \in 1..Len(wire)
                               /\ wire'[i] = wire[i + 1]
                               /\ Gap(i)' = Gap(i + 1)
  BY ReceiveMoves
<1>3. ASSUME NEW i \in 1..Len(wire'), NEW j \in 1..Len(wire'), i <= j
      PROVE  Gap(i)' <= Gap(j)'
  <2>1. i + 1 <= j + 1
    BY <1>1, <1>3
  <2> QED
    BY <1>2, <2>1 DEF LineInOrder
<1> QED
  BY <1>2, <1>3 DEF LineInOrder

\* The first byte of a pair becomes the pending one, with the gap it had.
LEMMA FirstKeepsOrder ==
  ASSUME TypeOK, OrderInv, FirstByte
  PROVE  OrderInv'
<1>1. /\ wire # <<>> /\ ~havePendingByte /\ havePendingByte'
      /\ wire' = Tail(wire)
      /\ pendingByte' = wire[1]
      /\ UNCHANGED <<sent, lost, accepted>>
  BY ReceiveFacts DEF FirstByte
<1>2. /\ Received' = Received + 1 /\ Received \in Int
      /\ 1 \in 1..Len(wire) /\ Gap(1) \in Int
      /\ Gap(1) = Position(wire[1]) - Received - 1
      /\ Position(wire[1]) \in Int
      /\ \A i \in 1..Len(wire') : i + 1 \in 1..Len(wire) /\ Gap(i)' = Gap(i + 1)
  BY <1>1, ReceiveMoves, Numbers
<1>3. PendingGap' = Gap(1)
  <2>1. PendingGap' = Position(wire[1]) - (Received + 1)
    BY <1>1, <1>2 DEF PendingGap, Position
  <2> QED
    BY <2>1, <1>2
<1>4. Received % 2 = 0
  BY <1>1 DEF OrderInv, Paired
<1>5. Paired'
  <2>1. (Received + 1) % 2 = 1
    BY <1>2, <1>4
  <2> QED
    BY <2>1, <1>1, <1>2 DEF Paired
<1>6. LineInOrder'
  BY <1>1, ReceiveKeepsLine DEF OrderInv
<1>7. PendingInOrder'
  <2>1. /\ wire[1].message <= Len(sent) /\ 0 <= Gap(1) /\ Gap(1) <= lost
        /\ \A j \in 1..Len(wire) : 1 <= j => Gap(1) <= Gap(j)
    BY <1>2 DEF OrderInv, LineInOrder
  <2>2. \A i \in 1..Len(wire') : Gap(1) <= Gap(i)'
    BY <2>1, <1>2
  <2> QED
    BY <2>1, <2>2, <1>1, <1>3 DEF PendingInOrder
<1>8. ShiftWasLoss'
  BY <1>1, <1>2, <1>3 DEF OrderInv, ShiftWasLoss, Shifted
<1> QED
  BY <1>5, <1>6, <1>7, <1>8 DEF OrderInv

\* The pair the second byte completes: its bytes were sent in that order, and what
\* was lost before it is odd exactly when it begins with a second byte.
LEMMA PairFacts ==
  ASSUME TypeOK, OrderInv, SecondByte
  PROVE  /\ pendingByte \in Cell /\ wire[1] \in Cell /\ 1 \in 1..Len(wire)
         /\ pendingByte.message <= Len(sent) /\ wire[1].message <= Len(sent)
         /\ Position(pendingByte) < Position(wire[1])
         /\ PendingGap \in Int /\ 0 <= PendingGap /\ PendingGap <= lost
         /\ pendingByte.half = 1 => PendingGap % 2 = 0
         /\ pendingByte.half = 2 => PendingGap % 2 = 1
         /\ Position(pendingByte) = PendingGap + Received
         /\ Position(wire[1]) = Gap(1) + Received + 1
         /\ Received \in Int /\ Received % 2 = 1
<1>1. /\ havePendingByte /\ wire # <<>> /\ 1 \in 1..Len(wire) /\ wire[1] \in Cell
      /\ pendingByte \in Cell
  BY ReceiveFacts DEF SecondByte, TypeOK
<1>2. /\ Received \in Int /\ Gap(1) \in Int /\ PendingGap \in Int
      /\ Position(wire[1]) \in Int /\ Position(pendingByte) \in Int
      /\ Gap(1) = Position(wire[1]) - Received - 1
      /\ PendingGap = Position(pendingByte) - Received
  BY <1>1, Numbers
<1>3. /\ 0 <= PendingGap /\ PendingGap <= lost /\ PendingGap <= Gap(1)
      /\ pendingByte.message <= Len(sent) /\ wire[1].message <= Len(sent)
  BY <1>1 DEF OrderInv, PendingInOrder, LineInOrder
<1>4. Received % 2 = 1
  BY <1>1 DEF OrderInv, Paired
<1>5. /\ pendingByte.message \in Nat /\ pendingByte.half \in {1, 2}
      /\ Position(pendingByte) = 2 * (pendingByte.message - 1) + pendingByte.half
  BY <1>1, PositionIsNumber
<1>6. /\ pendingByte.half = 1 => PendingGap % 2 = 0
      /\ pendingByte.half = 2 => PendingGap % 2 = 1
  BY <1>2, <1>4, <1>5
<1>7. /\ Position(pendingByte) = PendingGap + Received
      /\ Position(wire[1]) = Gap(1) + Received + 1
      /\ Position(pendingByte) < Position(wire[1])
  BY <1>2, <1>3
<1> QED
  BY <1>1, <1>2, <1>3, <1>4, <1>6, <1>7

\* The second byte completes a pair.
LEMMA SecondKeepsOrder ==
  ASSUME TypeOK, OrderInv, SecondByte
  PROVE  OrderInv'
<1>1. /\ wire # <<>> /\ havePendingByte /\ ~havePendingByte'
      /\ wire' = Tail(wire)
      /\ UNCHANGED <<sent, lost, pendingByte>>
  BY DEF SecondByte
<1>2. /\ Received' = Received + 1 /\ Received \in Int
      /\ \A i \in 1..Len(wire') : i + 1 \in 1..Len(wire) /\ Gap(i)' = Gap(i + 1)
  BY <1>1, ReceiveMoves, Numbers
<1>3. Paired'
  <2>1. Received % 2 = 1
    BY PairFacts
  <2>2. (Received + 1) % 2 = 0
    BY <2>1, <1>2
  <2> QED
    BY <2>2, <1>1, <1>2 DEF Paired
<1>4. LineInOrder'
  BY <1>1, ReceiveKeepsLine DEF OrderInv
<1>5. PendingInOrder'
  BY <1>1 DEF PendingInOrder
<1>6. ShiftWasLoss'
  <2>1. PICK pair : /\ pair = <<pendingByte, wire[1]>>
                    /\ accepted' = accepted \/ accepted' = Append(accepted, pair)
    BY <1>1, ReceiveFacts DEF SecondByte
  <2>2. Shifted(pair) => PendingGap >= 1
    BY <2>1, PairFacts DEF Shifted
  <2>3. ASSUME NEW n \in 1..Len(accepted'), Shifted(accepted'[n])
        PROVE  lost >= 1 /\ PendingGap >= 1
    <3>1. CASE n \in 1..Len(accepted) /\ accepted'[n] = accepted[n]
      BY <2>3, <3>1, <1>1 DEF OrderInv, ShiftWasLoss
    <3>2. CASE accepted'[n] = pair
      <4>1. PendingGap >= 1 /\ PendingGap <= lost /\ PendingGap \in Int /\ lost \in Nat
        BY <2>2, <2>3, <3>2, PairFacts, Numbers
      <4> QED
        BY <4>1
    <3>3. CASE accepted' = accepted
      BY <2>3, <3>1, <3>3
    <3>4. CASE accepted' = Append(accepted, pair)
      <4>1. Len(accepted) \in Nat /\ Len(accepted') = Len(accepted) + 1
        BY <3>4 DEF TypeOK
      <4>2. \A k \in 1..Len(accepted) : accepted'[k] = accepted[k]
        BY <3>4 DEF TypeOK
      <4>3. accepted'[Len(accepted) + 1] = pair
        BY <3>4 DEF TypeOK
      <4>4. n \in 1..Len(accepted) \/ n = Len(accepted) + 1
        BY <4>1
      <4> QED
        BY <4>2, <4>3, <4>4, <3>1, <3>2
    <3> QED
      BY <2>1, <3>3, <3>4
  <2>4. \A i \in 1..Len(wire') : PendingGap <= Gap(i)'
    BY <1>1, <1>2 DEF OrderInv, PendingInOrder
  <2>5. /\ PendingGap \in Int
        /\ \A i \in 1..Len(wire') : Gap(i)' \in Int
    BY <1>1, <1>2, Numbers
  <2> QED
    BY <1>1, <2>3, <2>4, <2>5 DEF ShiftWasLoss, Shifted
<1> QED
  BY <1>3, <1>4, <1>5, <1>6 DEF OrderInv

\* A flipped bit moves nothing.
LEMMA FlipKeepsOrder ==
  ASSUME TypeOK, OrderInv, NEW i \in 1..Len(wire), NEW k \in Positions, FlipBit(i, k)
  PROVE  OrderInv'
<1>1. wire' = [wire EXCEPT ![i] = FlippedCell(wire[i], k)]
  BY FlipFacts
<1>2. UNCHANGED <<sent, lost, havePendingByte, pendingByte, accepted>>
  BY DEF FlipBit
<1>3. /\ FlippedCell(wire[i], k).message = wire[i].message
      /\ FlippedCell(wire[i], k).half = wire[i].half
  BY DEF FlippedCell, TypeOK, Cell
<1> HIDE DEF FlippedCell
<1>4. /\ Len(wire') = Len(wire)
      /\ \A j \in 1..Len(wire) : /\ wire'[j].message = wire[j].message
                                 /\ wire'[j].half = wire[j].half
  BY <1>1, <1>3 DEF TypeOK
<1>5. Received' = Received
  BY <1>2, <1>4 DEF Received
<1>6. PendingGap' = PendingGap /\ \A j \in 1..Len(wire) : Gap(j)' = Gap(j)
  BY <1>2, <1>4, <1>5 DEF PendingGap, Gap, Position
<1> QED
  BY <1>2, <1>4, <1>5, <1>6
  DEF OrderInv, Paired, LineInOrder, PendingInOrder, ShiftWasLoss, Shifted

\* The order of the bytes is kept by every step.
LEMMA OrderInvariant == Spec => [](TypeInv /\ OrderInv)
<1>1. Init => OrderInv
  <2> SUFFICES ASSUME Init  PROVE OrderInv
    OBVIOUS
  <2>1. Len(<<>>) = 0 /\ 1..0 = {}
    OBVIOUS
  <2>2. Received = 0 /\ ~havePendingByte
    BY <2>1 DEF Init, Received
  <2>3. Paired
    BY <2>2 DEF Paired
  <2> QED
    BY <2>1, <2>2, <2>3
    DEF Init, OrderInv, LineInOrder, PendingInOrder, ShiftWasLoss
<1>2. TypeOK /\ TypeOK' /\ OrderInv /\ [Next]_vars => OrderInv'
  <2> SUFFICES ASSUME TypeOK, TypeOK', OrderInv, [Next]_vars  PROVE OrderInv'
    OBVIOUS
  <2>1. ASSUME NEW status \in Byte, SendStatus(status)  PROVE OrderInv'
    BY <2>1, SendKeepsOrder
  <2>2. ASSUME NEW i \in 1..Len(wire), LoseByte(i)  PROVE OrderInv'
    BY <2>2, LoseKeepsOrder
  <2>3. ASSUME NEW i \in 1..Len(wire), NEW k \in Positions, FlipBit(i, k)
        PROVE  OrderInv'
    BY <2>3, FlipKeepsOrder
  <2>4. CASE UNCHANGED vars
    BY <2>4 DEF vars, OrderInv, Paired, LineInOrder, PendingInOrder, ShiftWasLoss,
                Shifted, Received, Gap, PendingGap, Position
  <2> QED
    BY <2>1, <2>2, <2>3, <2>4, FirstKeepsOrder, SecondKeepsOrder DEF Next
<1> QED
  BY <1>1, <1>2, TypeInvariant, PTL DEF Spec, TypeInv

-----------------------------------------------------------------------------
(* The receiver keeps its shift *)

\* What the second byte does to the statuses handed on.
LEMMA AcceptFacts ==
  ASSUME TypeOK, SecondByte
  PROVE  LET pair == <<pendingByte, wire[1]>>
         IN  \/ accepted' = accepted
             \/ /\ accepted' = Append(accepted, pair)
                /\ wire[1].byte = Complement(pendingByte.byte)
                /\ Len(accepted') = Len(accepted) + 1
                /\ accepted'[Len(accepted) + 1] = pair
                /\ \A n \in 1..Len(accepted) : accepted'[n] = accepted[n]
<1> DEFINE pair == <<pendingByte, wire[1]>>
<1>1. /\ wire # <<>> /\ wire[1] \in Cell /\ Head(wire) = wire[1]
      /\ pendingByte \in Cell /\ accepted \in Seq(Cell \X Cell)
  BY ReceiveFacts DEF SecondByte, TypeOK
<1>2. \/ accepted' = accepted
      \/ /\ accepted' = Append(accepted, pair)
         /\ ValidateStatusMessage(pendingByte.byte, wire[1].byte)
  BY <1>1 DEF SecondByte
<1>3. pendingByte.byte \in Byte /\ wire[1].byte \in Byte
  BY <1>1 DEF Cell
<1>4. ValidateStatusMessage(pendingByte.byte, wire[1].byte)
        => wire[1].byte = Complement(pendingByte.byte)
  BY <1>3, ValidIsComplement
<1>5. pair \in Cell \X Cell
  BY <1>1
<1> HIDE DEF pair
<1>6. accepted' = Append(accepted, pair) =>
        /\ Len(accepted') = Len(accepted) + 1
        /\ accepted'[Len(accepted) + 1] = pair
        /\ \A n \in 1..Len(accepted) : accepted'[n] = accepted[n]
  BY <1>1, <1>5
<1> QED
  BY <1>2, <1>4, <1>6, Zenon DEF pair

\* What TLC checks as ShiftIsKept: an odd number of bytes was lost before a shifted
\* pair and an even one, more than that, before a later pair that is in step.
THEOREM ShiftStays == Spec => []ShiftIsKept
<1>1. Init => ShiftIsKept
  <2>1. Len(<<>>) = 0 /\ 1..0 = {}
    OBVIOUS
  <2> QED
    BY <2>1 DEF Init, ShiftIsKept
<1>2. TypeInv /\ OrderInv /\ ShiftIsKept /\ [Next]_vars => ShiftIsKept'
  <2> SUFFICES ASSUME TypeOK, OrderInv, ShiftIsKept, [Next]_vars
               PROVE  ShiftIsKept'
    BY DEF TypeInv
  <2>1. CASE accepted' = accepted /\ (lost' = lost \/ lost' = lost + 1)
    BY <2>1, Numbers DEF ShiftIsKept
  <2>2. CASE SecondByte
    <3> DEFINE pair == <<pendingByte, wire[1]>>
    <3>1. \/ accepted' = accepted
          \/ /\ Len(accepted') = Len(accepted) + 1
             /\ accepted'[Len(accepted) + 1] = pair
             /\ \A n \in 1..Len(accepted) : accepted'[n] = accepted[n]
      BY <2>2, AcceptFacts
    <3>2. lost' = lost /\ havePendingByte
      BY <2>2 DEF SecondByte
    <3>3. pair[1] = pendingByte
      OBVIOUS
    <3> HIDE DEF pair
    <3>4. ASSUME NEW i \in 1..Len(accepted'), NEW j \in 1..Len(accepted'), i < j,
                 accepted'[i][1].half = 2, accepted'[j][1].half = 1
          PROVE  lost >= 2
      <4>1. CASE /\ i \in 1..Len(accepted) /\ accepted'[i] = accepted[i]
                 /\ j \in 1..Len(accepted) /\ accepted'[j] = accepted[j]
        BY <3>4, <4>1 DEF ShiftIsKept
      <4>2. CASE /\ i \in 1..Len(accepted) /\ accepted'[i] = accepted[i]
                 /\ accepted'[j] = pair
        <5>1. PendingGap >= 1
          BY <3>2, <3>4, <4>2 DEF OrderInv, ShiftWasLoss, Shifted
        <5>2. PendingGap % 2 = 0 /\ PendingGap \in Int /\ PendingGap <= lost
          BY <2>2, <3>3, <3>4, <4>2, PairFacts
        <5>3. lost \in Nat
          BY Numbers
        <5> QED
          BY <5>1, <5>2, <5>3
      <4>3. /\ Len(accepted) \in Nat
            /\ i \in 1..Len(accepted) \/ j = Len(accepted) + 1
        BY <3>1, <3>4 DEF TypeOK
      <4> QED
        BY <3>1, <3>4, <4>1, <4>2, <4>3
    <3> QED
      BY <3>2, <3>4 DEF ShiftIsKept
  <2>3. SecondByte \/ (accepted' = accepted /\ (lost' = lost \/ lost' = lost + 1))
    BY DEF Next, vars, SendStatus, LoseByte, FlipBit, FirstByte
  <2> QED
    BY <2>1, <2>2, <2>3
<1> QED
  BY <1>1, <1>2, OrderInvariant, PTL DEF Spec

-----------------------------------------------------------------------------
(* What the statuses handed on are made of *)

\* The byte the peripheral sent.
Original(c) ==
  IF c.half = 1 THEN sent[c.message] ELSE Complement(sent[c.message])

\* A byte of a message that was sent, as it was sent unless a bit was flipped.
SoundCell(c) == c.message <= Len(sent) /\ (c.flips = 0 => c.byte = Original(c))

\* Two such bytes in the order they were sent, each the complement of the other.
SoundPair(pair) ==
  /\ SoundCell(pair[1]) /\ SoundCell(pair[2])
  /\ Position(pair[1]) < Position(pair[2])
  /\ pair[2].byte = Complement(pair[1].byte)

SoundInv ==
  /\ \A i \in 1..Len(wire) : SoundCell(wire[i])
  /\ havePendingByte => SoundCell(pendingByte)
  /\ \A i \in 1..Len(accepted) : SoundPair(accepted[i])

\* What was sent stays sent.
LEMMA SentStays ==
  ASSUME TypeOK, [Next]_vars
  PROVE  /\ Len(sent) <= Len(sent')
         /\ \A n \in 1..Len(sent) : sent'[n] = sent[n]
<1>1. ASSUME NEW status \in Byte, SendStatus(status)
      PROVE  /\ Len(sent) <= Len(sent')
             /\ \A n \in 1..Len(sent) : sent'[n] = sent[n]
  BY <1>1, SendFacts, Numbers
<1>2. CASE sent' = sent
  BY <1>2, Numbers
<1> QED
  BY <1>1, <1>2 DEF Next, vars, LoseByte, FlipBit, FirstByte, SecondByte

\* A sound byte and a sound pair of the next state.
SoundNext(c) ==
  /\ c.message <= Len(sent')
  /\ c.flips = 0 => c.byte = IF c.half = 1 THEN sent'[c.message]
                             ELSE Complement(sent'[c.message])

SoundPairNext(pair) ==
  /\ SoundNext(pair[1]) /\ SoundNext(pair[2])
  /\ Position(pair[1]) < Position(pair[2])
  /\ pair[2].byte = Complement(pair[1].byte)

\* A byte of a message stays one.
LEMMA SoundStays ==
  ASSUME TypeOK, [Next]_vars, NEW c \in Cell, SoundCell(c)
  PROVE  SoundNext(c)
<1>1. c.message \in 1..Len(sent) /\ Len(sent) <= Len(sent') /\ Len(sent') \in Nat
  <2>1. Len(sent') = Len(sent) \/ Len(sent') = Len(sent) + 1
    BY SendFacts DEF Next, vars, LoseByte, FlipBit, FirstByte, SecondByte
  <2> QED
    BY <2>1, PositionIsNumber, Numbers DEF SoundCell
<1>2. sent'[c.message] = sent[c.message]
  BY <1>1, SentStays
<1>3. c.message <= Len(sent')
  BY <1>1, PositionIsNumber
<1> QED
  BY <1>2, <1>3 DEF SoundCell, SoundNext, Original

\* Every byte on the line, pending or handed on is one that was sent, and the pairs
\* are in order.
LEMMA SoundInvariant == Spec => [](TypeInv /\ OrderInv /\ SoundInv)
<1>1. Init => SoundInv
  <2>1. Len(<<>>) = 0 /\ 1..0 = {}
    OBVIOUS
  <2> QED
    BY <2>1 DEF Init, SoundInv
<1>2. TypeInv /\ TypeOK' /\ OrderInv /\ SoundInv /\ [Next]_vars => SoundInv'
  <2> SUFFICES ASSUME TypeInv, TypeOK', OrderInv, SoundInv, [Next]_vars
               PROVE  /\ \A j \in 1..Len(wire') : SoundNext(wire'[j])
                      /\ havePendingByte' => SoundNext(pendingByte')
                      /\ \A j \in 1..Len(accepted') : SoundPairNext(accepted'[j])
    BY DEF SoundInv, SoundPair, SoundCell, Original, SoundNext, SoundPairNext, Position
  <2> USE DEF TypeInv
  <2>1. \A c \in Cell : SoundCell(c) => SoundNext(c)
    BY SoundStays
  <2>2. \A j \in 1..Len(wire) : wire[j] \in Cell /\ SoundNext(wire[j])
    BY <2>1 DEF SoundInv, TypeOK
  <2>3. havePendingByte => SoundNext(pendingByte)
    BY <2>1 DEF SoundInv, TypeOK
  <2>4. \A j \in 1..Len(accepted) : SoundPairNext(accepted[j])
    BY <2>1 DEF SoundInv, SoundPair, SoundPairNext, TypeOK
  <2>5. ASSUME NEW status \in Byte, SendStatus(status)
        PROVE  \A j \in 1..Len(wire') : SoundNext(wire'[j])
    <3> DEFINE a == CellOf(status, Len(sent) + 1, 1)
               b == CellOf(Complement(status), Len(sent) + 1, 2)
    <3>1. /\ Len(wire') = Len(wire) + 2
          /\ \A i \in 1..Len(wire) : wire'[i] = wire[i]
          /\ wire'[Len(wire) + 1] = a /\ wire'[Len(wire) + 2] = b
          /\ sent'[Len(sent) + 1] = status /\ Len(sent') = Len(sent) + 1
      BY <2>5, SendFacts
    <3>2. Len(sent) \in Nat /\ Len(wire) \in Nat
      BY Numbers
    <3>3. SoundNext(a) /\ SoundNext(b)
      BY <3>1, <3>2 DEF SoundNext, CellOf
    <3> HIDE DEF a, b
    <3>4. \A j \in 1..(Len(wire) + 2) :
            j \in 1..Len(wire) \/ j = Len(wire) + 1 \/ j = Len(wire) + 2
      BY <3>2
    <3> QED
      BY <3>1, <3>3, <3>4, <2>2
  <2>6. ASSUME NEW i \in 1..Len(wire), LoseByte(i)
        PROVE  \A j \in 1..Len(wire') : SoundNext(wire'[j])
    <3>1. /\ Len(wire') = Len(wire) - 1 /\ Len(wire) \in Nat
          /\ \A j \in 1..(Len(wire) - 1) :
               wire'[j] = IF j < i THEN wire[j] ELSE wire[j + 1]
      BY <2>6, OneLess, Numbers DEF LoseByte, TypeOK
    <3>2. \A j \in 1..Len(wire') : j \in 1..Len(wire) /\ j + 1 \in 1..Len(wire)
      BY <3>1
    <3> QED
      BY <3>1, <3>2, <2>2
  <2>7. ASSUME NEW i \in 1..Len(wire), NEW k \in Positions, FlipBit(i, k)
        PROVE  \A j \in 1..Len(wire') : SoundNext(wire'[j])
    <3>1. wire' = [wire EXCEPT ![i] = FlippedCell(wire[i], k)]
      BY <2>7, FlipFacts
    <3>2. SoundNext(FlippedCell(wire[i], k))
      <4>1. \A c \in Cell : c.flips \in Nat
        BY LinkAssumption DEF Cell
      <4>2. wire[i] \in Cell /\ wire[i].flips \in Nat
        BY <4>1, <2>2
      <4>3. /\ FlippedCell(wire[i], k).message = wire[i].message
            /\ FlippedCell(wire[i], k).flips = wire[i].flips + 1
        BY <4>2 DEF FlippedCell, Cell
      <4>4. FlippedCell(wire[i], k).flips # 0
        BY <4>2, <4>3
      <4> QED
        BY <4>3, <4>4, <2>2 DEF SoundNext
    <3> HIDE DEF FlippedCell
    <3>3. /\ Len(wire') = Len(wire) /\ wire'[i] = FlippedCell(wire[i], k)
          /\ \A j \in 1..Len(wire) : j # i => wire'[j] = wire[j]
      BY <3>1 DEF TypeOK
    <3> QED
      BY <3>2, <3>3, <2>2
  <2>8. ASSUME wire # <<>>, wire' = Tail(wire)
        PROVE  \A j \in 1..Len(wire') : SoundNext(wire'[j])
    <3>1. /\ Len(wire') = Len(wire) - 1
          /\ \A j \in 1..Len(wire') : wire'[j] = wire[j + 1]
      BY <2>8, ReceiveFacts
    <3>2. \A j \in 1..Len(wire') : j + 1 \in 1..Len(wire)
      BY <3>1, Numbers
    <3> QED
      BY <3>1, <3>2, <2>2
  <2>9. \A j \in 1..Len(wire') : SoundNext(wire'[j])
    BY <2>2, <2>5, <2>6, <2>7, <2>8 DEF Next, vars, FirstByte, SecondByte
  <2>10. havePendingByte' => SoundNext(pendingByte')
    <3>1. CASE FirstByte
      BY <3>1, <2>2, ReceiveFacts DEF FirstByte
    <3>2. CASE SecondByte
      BY <3>2 DEF SecondByte
    <3>3. CASE UNCHANGED <<havePendingByte, pendingByte>>
      BY <3>3, <2>3
    <3> QED
      BY <3>1, <3>2, <3>3 DEF Next, vars, SendStatus, LoseByte, FlipBit
  <2>11. \A j \in 1..Len(accepted') : SoundPairNext(accepted'[j])
    <3>1. CASE SecondByte
      <4> DEFINE pair == <<pendingByte, wire[1]>>
      <4>1. \/ accepted' = accepted
            \/ /\ wire[1].byte = Complement(pendingByte.byte)
               /\ Len(accepted') = Len(accepted) + 1
               /\ accepted'[Len(accepted) + 1] = pair
               /\ \A n \in 1..Len(accepted) : accepted'[n] = accepted[n]
        BY <3>1, AcceptFacts
      <4>2. /\ SoundNext(pendingByte) /\ SoundNext(wire[1])
            /\ Position(pendingByte) < Position(wire[1])
        BY <3>1, <2>2, <2>3, PairFacts DEF SecondByte
      <4>3. wire[1].byte = Complement(pendingByte.byte) => SoundPairNext(pair)
        BY <4>2 DEF SoundPairNext
      <4> HIDE DEF pair
      <4>4. Len(accepted) \in Nat
        BY DEF TypeOK
      <4> QED
        BY <4>1, <4>3, <4>4, <2>4
    <3>2. CASE accepted' = accepted
      BY <3>2, <2>4
    <3> QED
      BY <3>1, <3>2 DEF Next, vars, SendStatus, LoseByte, FlipBit, FirstByte
  <2> QED
    BY <2>9, <2>10, <2>11
<1> QED
  BY <1>1, <1>2, OrderInvariant, PTL DEF Spec, TypeInv

\* A sound pair makes the status of its message when its bytes are of one message,
\* and repeats or inverts it when they are of two.
LEMMA SoundPairMeans ==
  ASSUME TypeOK, NEW pair \in Cell \X Cell, SoundPair(pair)
  PROVE  /\ pair[1].message = pair[2].message /\ Flips(pair) <= 1
              => Status(pair) = sent[pair[1].message]
         /\ pair[1].message # pair[2].message /\ Flips(pair) = 0
              => sent[pair[2].message] =
                   IF pair[1].half = pair[2].half
                   THEN Complement(sent[pair[1].message]) ELSE sent[pair[1].message]
<1> DEFINE a == pair[1]
           b == pair[2]
           one == sent[a.message]
           other == sent[b.message]
<1>1. a \in Cell /\ b \in Cell
  OBVIOUS
<1>2. \A c \in Cell : c.flips \in Nat /\ c.byte \in Byte
  BY LinkAssumption DEF Cell
<1>3. one \in Byte /\ other \in Byte
  <2>1. a.message \in 1..Len(sent) /\ b.message \in 1..Len(sent)
    BY <1>1, PositionIsNumber, Numbers DEF SoundPair, SoundCell
  <2> QED
    BY <2>1 DEF TypeOK
<1>4. /\ a.flips = 0 => a.byte = IF a.half = 1 THEN one ELSE Complement(one)
      /\ b.flips = 0 => b.byte = IF b.half = 1 THEN other ELSE Complement(other)
      /\ b.byte = Complement(a.byte)
      /\ Position(a) < Position(b)
  BY DEF SoundPair, SoundCell, Original
<1>5. /\ a.half \in {1, 2} /\ b.half \in {1, 2}
      /\ a.message = b.message => a.half = 1 /\ b.half = 2
  BY <1>1, <1>4, PositionIsNumber
<1>6. /\ a.byte = Complement(b.byte)
      /\ Complement(Complement(one)) = one /\ Complement(Complement(other)) = other
  BY <1>1, <1>2, <1>3, <1>4, ComplementIsByte
<1>7. Flips(pair) = a.flips + b.flips /\ Status(pair) = a.byte
  BY DEF Flips, Status
<1>8. /\ Flips(pair) <= 1 => a.flips = 0 \/ b.flips = 0
      /\ Flips(pair) = 0 => a.flips = 0 /\ b.flips = 0
  BY <1>1, <1>2, <1>7
<1> HIDE DEF a, b, one, other
<1>9. a.message = b.message /\ Flips(pair) <= 1 => Status(pair) = one
  BY <1>4, <1>5, <1>6, <1>7, <1>8 DEF one, other
<1>10. a.message # b.message /\ Flips(pair) = 0 =>
         other = IF a.half = b.half THEN Complement(one) ELSE one
  BY <1>4, <1>5, <1>6, <1>8
<1> QED
  BY <1>9, <1>10 DEF a, b, one, other

\* What TLC checks as WholeMessagesAreSound: the two bytes of a message, of which at
\* most one was damaged, make its status or nothing.
THEOREM WholeMessagesStaySound == Spec => []WholeMessagesAreSound
<1>1. TypeInv /\ SoundInv => WholeMessagesAreSound
  BY SoundPairMeans DEF TypeInv, TypeOK, SoundInv, WholeMessagesAreSound
<1> QED
  BY <1>1, SoundInvariant, PTL

\* What TLC checks as MixedMessagesRepeat: undamaged bytes of two messages make a
\* status only when the second repeats or inverts the first.
THEOREM MixedMessagesOnlyRepeat == Spec => []MixedMessagesRepeat
<1>1. TypeInv /\ SoundInv => MixedMessagesRepeat
  BY SoundPairMeans DEF TypeInv, TypeOK, SoundInv, MixedMessagesRepeat
<1> QED
  BY <1>1, SoundInvariant, PTL

-----------------------------------------------------------------------------
(* A line that loses and damages nothing *)

\* The receiver is in step: each pair so far was a message.
InStep ==
  /\ Received = 2 * Len(accepted) + IF havePendingByte THEN 1 ELSE 0
  /\ havePendingByte => pendingByte.flips = 0
  /\ \A i \in 1..Len(accepted) : Status(accepted[i]) = sent[i]

IntactInv == lost = 0 /\ flipped = 0 => InStep

\* On such a line the second byte completes the message the first one began.
LEMMA PairIsMessage ==
  ASSUME TypeInv, OrderInv, SoundInv, SecondByte, lost = 0, flipped = 0, InStep
  PROVE  /\ accepted' = Append(accepted, <<pendingByte, wire[1]>>)
         /\ pendingByte.byte = sent[Len(accepted) + 1]
<1>1. TypeOK /\ havePendingByte /\ wire # <<>> /\ Head(wire) = wire[1]
  BY ReceiveFacts DEF SecondByte, TypeInv
<1>2. /\ pendingByte \in Cell /\ wire[1] \in Cell /\ 1 \in 1..Len(wire)
      /\ Position(pendingByte) = PendingGap + Received
      /\ Position(wire[1]) = Gap(1) + Received + 1
      /\ PendingGap \in Int /\ 0 <= PendingGap /\ PendingGap <= lost
  BY <1>1, PairFacts
<1>3. 0 <= Gap(1) /\ Gap(1) <= lost /\ Gap(1) \in Int /\ lost \in Nat
  BY <1>1, <1>2, Numbers DEF OrderInv, LineInOrder
<1>4. PendingGap = 0 /\ Gap(1) = 0
  BY <1>2, <1>3
<1>5. Len(accepted) \in Nat /\ Received = 2 * Len(accepted) + 1
  BY <1>1 DEF InStep, TypeOK
<1>6. /\ Position(pendingByte) = 2 * Len(accepted) + 1
      /\ Position(wire[1]) = 2 * Len(accepted) + 2
  BY <1>2, <1>4, <1>5
<1>7. /\ pendingByte.message = Len(accepted) + 1 /\ pendingByte.half = 1
      /\ wire[1].message = Len(accepted) + 1 /\ wire[1].half = 2
  <2>1. ASSUME NEW m \in Nat, NEW h \in {1, 2}, NEW n \in Nat,
               2 * (m - 1) + h = 2 * n + 1
        PROVE  m = n + 1 /\ h = 1
    BY <2>1
  <2>2. \A c \in Cell : /\ c.message \in Nat /\ c.half \in {1, 2} /\ c.half \in Nat
                        /\ Position(c) = 2 * (c.message - 1) + c.half
    BY PositionIsNumber
  <2>3. /\ pendingByte.message \in Nat /\ pendingByte.half \in Nat
        /\ pendingByte.half \in {1, 2}
        /\ 2 * (pendingByte.message - 1) + pendingByte.half = 2 * Len(accepted) + 1
    BY <1>2, <1>6, <2>2
  <2>4. /\ wire[1].message \in Nat /\ wire[1].half \in Nat
        /\ wire[1].half \in {1, 2}
        /\ 2 * (wire[1].message - 1) + wire[1].half = 2 * Len(accepted) + 2
    BY <1>2, <1>6, <2>2
  <2>5. Len(accepted) \in Nat
    BY <1>5
  <2>6. pendingByte.message = Len(accepted) + 1 /\ pendingByte.half = 1
    BY <2>1, <2>3, <2>5
  <2>7. \A m, n \in Nat : 2 * (m - 1) + 1 # 2 * n + 2
    OBVIOUS
  <2>8. wire[1].half = 2
    BY <2>4, <2>5, <2>7
  <2>9. wire[1].message = Len(accepted) + 1
    BY <2>4, <2>5, <2>8
  <2> QED
    BY <2>6, <2>8, <2>9
<1>8. pendingByte.flips = 0 /\ wire[1].flips = 0
  <2>1. \A c \in Cell : c.flips \in Nat
    BY LinkAssumption DEF Cell
  <2>2. wire[1].flips <= flipped /\ wire[1].flips \in Nat
    BY <1>2, <2>1 DEF TypeInv, FlipsInv
  <2> QED
    BY <1>1, <2>2 DEF InStep
<1>9. /\ pendingByte.byte = sent[Len(accepted) + 1]
      /\ wire[1].byte = Complement(sent[Len(accepted) + 1])
  BY <1>1, <1>2, <1>7, <1>8 DEF SoundInv, SoundCell, Original
<1>10. ValidateStatusMessage(pendingByte.byte, wire[1].byte)
  <2>1. pendingByte.byte \in Byte /\ wire[1].byte \in Byte
    BY <1>2 DEF Cell
  <2> QED
    BY <2>1, <1>9, ValidIsComplement
<1> QED
  BY <1>1, <1>9, <1>10 DEF SecondByte

\* What TLC checks as FaithfulWhenIntact: on such a line the statuses handed on are
\* those that were sent, in their order, but for the bytes not yet received.
THEOREM FaithfulLine == Spec => []FaithfulWhenIntact
<1>1. Init => IntactInv
  <2> SUFFICES ASSUME Init  PROVE InStep
    BY DEF IntactInv
  <2>1. Len(<<>>) = 0 /\ 1..0 = {}
    OBVIOUS
  <2>2. Received = 0 /\ ~havePendingByte
    BY <2>1 DEF Init, Received
  <2> QED
    BY <2>1, <2>2 DEF Init, InStep
<1>2. TypeInv /\ OrderInv /\ SoundInv /\ IntactInv /\ [Next]_vars => IntactInv'
  <2> SUFFICES ASSUME TypeInv, OrderInv, SoundInv, IntactInv, [Next]_vars,
                      lost' = 0, flipped' = 0
               PROVE  InStep'
    BY DEF IntactInv
  <2>1. /\ TypeOK /\ lost \in Nat /\ flipped \in Nat /\ Len(accepted) \in Nat
        /\ Len(sent) \in Nat /\ Len(wire) \in Nat /\ Received \in Int
    BY Numbers, LinkAssumption DEF TypeInv, TypeOK
  <2>2. ~(\E i \in 1..Len(wire) : LoseByte(i))
    BY <2>1 DEF LoseByte
  <2>3. ~(\E i \in 1..Len(wire), k \in Positions : FlipBit(i, k))
    <3> SUFFICES ASSUME NEW i \in 1..Len(wire), NEW k \in Positions, FlipBit(i, k)
                 PROVE  FALSE
      OBVIOUS
    <3>1. flipped' = flipped + 1
      BY DEF FlipBit
    <3> QED
      BY <2>1, <3>1
  <2>4. InStep /\ lost = 0 /\ flipped = 0
    <3>1. UNCHANGED <<lost, flipped>>
      BY <2>2, <2>3 DEF Next, vars, SendStatus, FirstByte, SecondByte
    <3> QED
      BY <3>1 DEF IntactInv
  <2>5. ASSUME NEW status \in Byte, SendStatus(status)  PROVE InStep'
    <3>1. /\ Len(wire') = Len(wire) + 2 /\ Len(sent') = Len(sent) + 1
          /\ \A n \in 1..Len(sent) : sent'[n] = sent[n]
      BY <2>1, <2>5, SendFacts
    <3>2. UNCHANGED <<lost, havePendingByte, pendingByte, accepted>>
      BY <2>5 DEF SendStatus
    <3>3. Received' = Received
      BY <3>1, <3>2, <2>1 DEF Received
    <3>4. Len(accepted) <= Len(sent)
      BY <2>1, <2>4 DEF InStep, Received
    <3> QED
      BY <3>1, <3>2, <3>3, <3>4, <2>1, <2>4 DEF InStep, Status
  <2>6. CASE FirstByte
    <3>1. /\ ~havePendingByte /\ havePendingByte' /\ wire # <<>> /\ wire' = Tail(wire)
          /\ UNCHANGED <<sent, lost, accepted>> /\ pendingByte' = wire[1]
      BY <2>1, <2>6, ReceiveFacts DEF FirstByte
    <3>2. Received' = Received + 1 /\ wire[1] \in Cell /\ 1 \in 1..Len(wire)
      BY <3>1, <2>1, ReceiveMoves
    <3>3. wire[1].flips = 0
      <4>1. \A c \in Cell : c.flips \in Nat
        BY LinkAssumption DEF Cell
      <4>2. wire[1].flips <= flipped /\ wire[1].flips \in Nat
        BY <3>2, <4>1 DEF TypeInv, FlipsInv
      <4> QED
        BY <4>2, <2>4
    <3> QED
      BY <3>1, <3>2, <3>3, <2>1, <2>4 DEF InStep, Status
  <2>7. CASE SecondByte
    <3> DEFINE pair == <<pendingByte, wire[1]>>
    <3>1. accepted' = Append(accepted, pair) /\ pair[1].byte = sent[Len(accepted) + 1]
      BY <2>4, <2>7, PairIsMessage
    <3>2. /\ havePendingByte /\ ~havePendingByte' /\ wire # <<>> /\ wire' = Tail(wire)
          /\ UNCHANGED <<sent, lost>>
      BY <2>7 DEF SecondByte
    <3>3. Received' = Received + 1
      BY <3>2, <2>1, ReceiveMoves
    <3>4. pair \in Cell \X Cell /\ accepted \in Seq(Cell \X Cell)
      BY <2>1, <2>7, PairFacts DEF TypeOK
    <3> HIDE DEF pair
    <3>5. /\ Len(accepted') = Len(accepted) + 1
          /\ accepted'[Len(accepted) + 1] = pair
          /\ \A n \in 1..Len(accepted) : accepted'[n] = accepted[n]
      BY <3>1, <3>4
    <3>6. \A n \in 1..Len(accepted') : Status(accepted'[n]) = sent'[n]
      <4>1. Len(accepted) \in Nat
        BY <3>4
      <4>2. Status(pair) = sent[Len(accepted) + 1]
        BY <3>1 DEF Status
      <4>3. \A n \in 1..Len(accepted) : Status(accepted'[n]) = sent[n]
        BY <3>5, <2>4 DEF InStep
      <4>4. \A n \in 1..Len(accepted') : n \in 1..Len(accepted) \/ n = Len(accepted) + 1
        BY <3>5, <4>1
      <4> QED
        BY <3>2, <3>5, <4>2, <4>3, <4>4
    <3> QED
      BY <3>2, <3>3, <3>5, <3>6, <2>1, <2>4 DEF InStep, Status
  <2>8. CASE UNCHANGED vars
    BY <2>4, <2>8 DEF vars, InStep, Received, Status
  <2> QED
    BY <2>2, <2>3, <2>5, <2>6, <2>7, <2>8 DEF Next
<1>3. TypeInv /\ IntactInv => FaithfulWhenIntact
  BY Numbers DEF TypeInv, TypeOK, IntactInv, InStep, FaithfulWhenIntact, Received
<1> QED
  BY <1>1, <1>2, <1>3, SoundInvariant, PTL DEF Spec
=============================================================================
