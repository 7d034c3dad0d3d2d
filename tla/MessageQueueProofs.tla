------------------------- MODULE MessageQueueProofs -------------------------
(***************************************************************************)
(* Proofs about MessageQueue for any set of consumers, any messages and any *)
(* bound on the queue: the type invariant, the two wake-up invariants, and  *)
(* that every step of the queue is a step of FifoChannel or a stutter.      *)
(***************************************************************************)
EXTENDS MessageQueue, FiniteSetTheorems, TLAPS

\* The set of consumers at any place is finite (the threads are).
LEMMA AtFinite ==
  ASSUME NEW place  PROVE  IsFiniteSet(At(place))
BY QueueAssumption, FS_Subset DEF At

-----------------------------------------------------------------------------
\* The variables of MessageQueue keep their types, and only a tryPop() times
\* out, whatever the consumers and producers do.
THEOREM TypeCorrect == SafeSpec => []TypeOK
<1>1. Init => TypeOK
  <2> SUFFICES ASSUME Init  PROVE TypeOK
    OBVIOUS
  <2>1. <<>> \in Seq(Messages)
    OBVIOUS
  <2>2. call \in [Consumers -> Places] /\ op \in [Consumers -> {"pop", "tryPop"}]
    BY DEF Init, Places
  <2>3. result \in [Consumers -> Messages \cup {Nullopt}]
    BY DEF Init
  <2> QED
    BY <2>1, <2>2, <2>3 DEF Init, TypeOK
<1>2. TypeOK /\ [Next]_vars => TypeOK'
  <2> SUFFICES ASSUME TypeOK, [Next]_vars  PROVE TypeOK'
    OBVIOUS
  <2> USE DEF TypeOK, Places, At, Move
  <2>1. ASSUME NEW m \in Messages, Push(m)  PROVE TypeOK'
    BY <2>1 DEF Push, NotifyOne
  <2>2. CASE RequestShutdown
    BY <2>2 DEF RequestShutdown, NotifyAll
  <2>3. ASSUME NEW c \in Consumers, NEW method \in {"pop", "tryPop"},
               Call(c, method)
        PROVE TypeOK'
    BY <2>3 DEF Call
  <2>4. ASSUME NEW c \in Consumers, TakeFront(c)  PROVE TypeOK'
    BY <2>4 DEF TakeFront
  <2>5. ASSUME NEW c \in Consumers, ReturnNullopt(c)  PROVE TypeOK'
    BY <2>5 DEF ReturnNullopt
  <2>6. ASSUME NEW c \in Consumers, Block(c)  PROVE TypeOK'
    BY <2>6 DEF Block
  <2>7. ASSUME NEW c \in Consumers, Timeout(c)  PROVE TypeOK'
    BY <2>7 DEF Timeout
  <2>8. ASSUME NEW c \in Consumers, SpuriousWakeup(c)  PROVE TypeOK'
    BY <2>8 DEF SpuriousWakeup
  <2>9. CASE UNCHANGED vars
    BY <2>9 DEF vars
  <2> QED
    BY <2>1, <2>2, <2>3, <2>4, <2>5, <2>6, <2>7, <2>8, <2>9
    DEF Next, Consumer, Acquire, AcquireTimedOut
<1> QED
  BY <1>1, <1>2, PTL DEF SafeSpec

-----------------------------------------------------------------------------
\* After requestShutdown() nobody is blocked in cv_ and nobody blocks again:
\* notify_all empties the wait set and the wait predicate is true from then on.
THEOREM ShutdownReleases == SafeSpec => []ShutdownReleasesAll
<1>1. Init => ShutdownReleasesAll
  BY DEF Init, ShutdownReleasesAll
<1>2. TypeOK /\ ShutdownReleasesAll /\ [Next]_vars => ShutdownReleasesAll'
  <2> SUFFICES ASSUME TypeOK, ShutdownReleasesAll, [Next]_vars
               PROVE  ShutdownReleasesAll'
    OBVIOUS
  <2> USE DEF TypeOK, ShutdownReleasesAll, At, Move
  <2>1. ASSUME NEW m \in Messages, Push(m)  PROVE ShutdownReleasesAll'
    BY <2>1 DEF Push, NotifyOne
  <2>2. CASE RequestShutdown
    BY <2>2 DEF RequestShutdown, NotifyAll
  <2>3. ASSUME NEW c \in Consumers, Consumer(c)  PROVE ShutdownReleasesAll'
    BY <2>3 DEF Consumer, Call, Acquire, AcquireTimedOut, TakeFront,
                ReturnNullopt, Block, Timeout, SpuriousWakeup
  <2>4. CASE UNCHANGED vars
    BY <2>4 DEF vars
  <2> QED
    BY <2>1, <2>2, <2>3, <2>4 DEF Next
<1> QED
  BY <1>1, <1>2, TypeCorrect, PTL DEF SafeSpec

-----------------------------------------------------------------------------
(* No lost wake-ups *)

\* One more consumer at the place it moves to.
LEMMA Arrive ==
  ASSUME TypeOK, NEW c \in Consumers, NEW place, call[c] # place, Move(c, place)
  PROVE  Cardinality(At(place)') = Cardinality(At(place)) + 1
<1>1. At(place)' = At(place) \cup {c} /\ c \notin At(place)
  BY DEF At, Move, TypeOK
<1> QED
  BY <1>1, AtFinite, FS_AddElement

\* One consumer fewer at the place it comes from.
LEMMA Leave ==
  ASSUME TypeOK, NEW c \in Consumers, NEW to, NEW from,
         call[c] = from, to # from, Move(c, to)
  PROVE  Cardinality(At(from)') = Cardinality(At(from)) - 1
<1>1. At(from)' = At(from) \ {c} /\ c \in At(from)
  BY DEF At, Move, TypeOK
<1> QED
  BY <1>1, AtFinite, FS_RemoveElement

\* Nothing changes at a place a consumer neither leaves nor reaches.
LEMMA Elsewhere ==
  ASSUME TypeOK, NEW c \in Consumers, NEW to, NEW place,
         call[c] # place, to # place, Move(c, to)
  PROVE  At(place)' = At(place)
BY DEF At, Move, TypeOK

\* While some consumer is blocked, at least as many consumers are awake and on
\* their way to the mutex as there are messages: push() notifies one for each.
THEOREM NoWakeupLost == SafeSpec => []NoLostWakeup
<1>1. Init => NoLostWakeup
  BY DEF Init, NoLostWakeup, At
<1>2. TypeOK /\ NoLostWakeup /\ [Next]_vars => NoLostWakeup'
  <2> SUFFICES ASSUME TypeOK, NoLostWakeup, [Next]_vars,
                      At("waiting")' # {}
               PROVE  Len(queue_)' <= Cardinality(At("awake")')
    BY DEF NoLostWakeup
  <2> DEFINE Woken == Cardinality(At("awake"))
  <2>0. Woken \in Nat /\ Len(queue_) \in Nat
    BY AtFinite, FS_CardinalityType DEF TypeOK
  <2>1. ASSUME NEW m \in Messages, Push(m)
        PROVE  Len(queue_)' <= Cardinality(At("awake")')
    <3>1. PICK c \in At("waiting") : Move(c, "awake")
      BY <2>1 DEF Push, NotifyOne, At
    <3>2. Cardinality(At("awake")') = Woken + 1
      BY <3>1, Arrive DEF At
    <3>3. Len(queue_)' = Len(queue_) + 1
      BY <2>1 DEF Push, TypeOK
    <3> QED
      BY <2>0, <3>1, <3>2, <3>3 DEF NoLostWakeup
  <2>2. CASE RequestShutdown
    BY <2>2 DEF RequestShutdown, NotifyAll, At, TypeOK
  <2>3. ASSUME NEW c \in Consumers, NEW method \in {"pop", "tryPop"},
               Call(c, method)
        PROVE  Len(queue_)' <= Cardinality(At("awake")')
    <3>1. At("awake")' = At("awake") /\ At("waiting")' = At("waiting")
      BY <2>3, Elsewhere DEF Call
    <3> QED
      BY <2>3, <3>1 DEF Call, NoLostWakeup
  <2>4. ASSUME NEW c \in Consumers,
               call[c] \in {"entering", "awake", "timedOut"}, TakeFront(c)
        PROVE  Len(queue_)' <= Cardinality(At("awake")')
    <3>1. Len(queue_)' = Len(queue_) - 1
      BY <2>4 DEF TakeFront, TypeOK
    <3>2. At("waiting")' = At("waiting")
      BY <2>4, Elsewhere DEF TakeFront
    <3>3. CASE call[c] = "awake"
      <4>1. Cardinality(At("awake")') = Woken - 1
        BY <2>4, <3>3, Leave DEF TakeFront
      <4> QED
        BY <2>0, <3>1, <3>2, <4>1 DEF NoLostWakeup
    <3>4. CASE call[c] # "awake"
      <4>1. At("awake")' = At("awake")
        BY <2>4, <3>4, Elsewhere DEF TakeFront
      <4> QED
        BY <2>0, <3>1, <3>2, <4>1 DEF NoLostWakeup
    <3> QED
      BY <3>3, <3>4
  <2>5. ASSUME queue_ = <<>>, queue_' = queue_
        PROVE  Len(queue_)' <= Cardinality(At("awake")')
    <3>1. Cardinality(At("awake"))' \in Nat
      <4>1. IsFiniteSet(At("awake"))'
        BY QueueAssumption, FS_Subset DEF At
      <4> QED
        BY <4>1, FS_CardinalityType
    <3> QED
      BY <2>5, <3>1
  <2>6. ASSUME NEW c \in Consumers, Timeout(c)
        PROVE  Len(queue_)' <= Cardinality(At("awake")')
    <3>1. At("awake")' = At("awake")
      BY <2>6, Elsewhere DEF Timeout
    <3> QED
      BY <2>6, <3>1 DEF Timeout, NoLostWakeup, At
  <2>7. ASSUME NEW c \in Consumers, SpuriousWakeup(c)
        PROVE  Len(queue_)' <= Cardinality(At("awake")')
    <3>1. Cardinality(At("awake")') = Woken + 1
      BY <2>7, Arrive DEF SpuriousWakeup
    <3>2. At("waiting") # {}
      BY <2>7 DEF SpuriousWakeup, At
    <3> QED
      BY <2>0, <2>7, <3>1, <3>2 DEF SpuriousWakeup, NoLostWakeup
  <2>8. CASE UNCHANGED vars
    BY <2>8 DEF vars, NoLostWakeup, At
  <2>9. ASSUME NEW c \in Consumers, ReturnNullopt(c) \/ Block(c)
        PROVE  Len(queue_)' <= Cardinality(At("awake")')
    BY <2>5, <2>9 DEF ReturnNullopt, Block
  <2> QED
    BY <2>1, <2>2, <2>3, <2>4, <2>6, <2>7, <2>8, <2>9
    DEF Next, Consumer, Acquire, AcquireTimedOut
<1> QED
  BY <1>1, <1>2, TypeCorrect, PTL DEF SafeSpec

-----------------------------------------------------------------------------
(* The queue implements the channel *)

\* The queue of the code, with its mutex, wait set, notifications and timeouts,
\* behaves as FifoChannel: in particular each message is delivered once, in
\* order, and nullopt is returned only when the queue is empty.
THEOREM Refinement == SafeSpec => Channel!SafeSpec
<1> DEFINE request == [c \in Consumers |-> IF call[c] = "idle" THEN "none" ELSE op[c]]
<1>1. Init => Channel!Init
  BY DEF Init, Channel!Init
<1>2. TypeOK /\ [Next]_vars => [Channel!Next]_(Channel!vars)
  <2> SUFFICES ASSUME TypeOK, [Next]_vars
               PROVE  Channel!Next \/ UNCHANGED Channel!vars
    OBVIOUS
  <2> USE DEF TypeOK, Places
  <2>1. ASSUME NEW m \in Messages, Push(m)  PROVE Channel!Send(m)
    <3>1. request' = request
      BY <2>1 DEF Push, NotifyOne, Move, At
    <3> QED
      BY <2>1, <3>1 DEF Push, Channel!Send
  <2>2. CASE RequestShutdown
    <3>1. request' = request
      BY <2>2 DEF RequestShutdown, NotifyAll
    <3> QED
      BY <2>2, <3>1 DEF RequestShutdown, Channel!Close, Channel!Next
  <2>3. ASSUME NEW c \in Consumers, NEW method \in {"pop", "tryPop"},
               Call(c, method)
        PROVE  Channel!Ask(c, method)
    BY <2>3 DEF Call, Move, Channel!Ask
  <2>4. ASSUME NEW c \in Consumers, call[c] # "idle", TakeFront(c)
        PROVE  Channel!Deliver(c)
    BY <2>4 DEF TakeFront, Move, Channel!Deliver, Channel!Answer
  <2>5. ASSUME NEW c \in Consumers, call[c] # "idle", ReturnNullopt(c),
               shutdown_ \/ op[c] = "tryPop"
        PROVE  Channel!GiveUp(c)
    BY <2>5 DEF ReturnNullopt, Move, Channel!GiveUp, Channel!Answer
  <2>6. ASSUME NEW c \in Consumers, call[c] # "idle",
               Block(c) \/ Timeout(c) \/ SpuriousWakeup(c)
        PROVE  UNCHANGED Channel!vars
    <3>1. request' = request
      BY <2>6 DEF Block, Timeout, SpuriousWakeup, Move
    <3> QED
      BY <2>6, <3>1 DEF Block, Timeout, SpuriousWakeup, Channel!vars
  <2>7. CASE UNCHANGED vars
    BY <2>7 DEF vars, Channel!vars
  <2>8. ASSUME NEW c \in Consumers, Consumer(c)
        PROVE  Channel!Next \/ UNCHANGED Channel!vars
    <3>1. CASE \E method \in {"pop", "tryPop"} : Call(c, method)
      BY <2>3, <3>1 DEF Channel!Next
    <3>2. CASE Acquire(c)
      BY <2>4, <2>5, <2>6, <3>2 DEF Acquire, Channel!Next
    <3>3. CASE AcquireTimedOut(c)
      BY <2>4, <2>5, <3>3 DEF AcquireTimedOut, Channel!Next
    <3>4. CASE Timeout(c) \/ SpuriousWakeup(c)
      BY <2>6, <3>4 DEF Timeout, SpuriousWakeup
    <3> QED
      BY <2>8, <3>1, <3>2, <3>3, <3>4 DEF Consumer
  <2> QED
    BY <2>1, <2>2, <2>7, <2>8 DEF Next, Channel!Next
<1> QED
  BY <1>1, <1>2, TypeCorrect, PTL DEF SafeSpec, Channel!SafeSpec
=============================================================================
