---------------------------- MODULE MessageQueue ----------------------------
(***************************************************************************)
(* MessageQueue<T>, include/MessageQueue.h: a std::queue guarded by a      *)
(* mutex, and a condition variable its consumers wait on.                  *)
(*                                                                         *)
(* Every method does all its work holding mutex_, so a critical section is *)
(* one action.  What is not atomic is a wait: cv_.wait gives the mutex up, *)
(* and a consumer that was notified, that timed out, or that the system    *)
(* woke for no reason has to get the mutex again before it looks at the    *)
(* queue; anything can happen in between.  `call' says where each consumer *)
(* is:                                                                     *)
(*   "idle"      not in pop() or tryPop()                                  *)
(*   "entering"  called, does not have the mutex yet                       *)
(*   "waiting"   blocked in cv_, can be notified                           *)
(*   "awake"     woken by a notification or spuriously, wants the mutex    *)
(*   "timedOut"  tryPop's timeout expired, wants the mutex                 *)
(***************************************************************************)
EXTENDS Naturals, Sequences, FiniteSets

CONSTANTS Consumers,  \* threads that call pop() or tryPop()
          Messages,   \* values of the template parameter T
          Nullopt,    \* std::nullopt
          MaxQueue    \* bound on the length of the queue; the code has none

ASSUME QueueAssumption ==
  /\ IsFiniteSet(Consumers)
  /\ Nullopt \notin Messages
  /\ MaxQueue \in Nat

VARIABLES queue_,     \* the std::queue
          shutdown_,  \* set by requestShutdown(), never cleared
          call,       \* where each consumer is
          op,         \* the method a consumer last called
          result      \* what it last returned

vars == <<queue_, shutdown_, call, op, result>>

Places == {"idle", "entering", "waiting", "awake", "timedOut"}

\* Types; and only a tryPop() can have timed out, pop() waits without a limit.
TypeOK ==
  /\ queue_ \in Seq(Messages)
  /\ shutdown_ \in BOOLEAN
  /\ call \in [Consumers -> Places]
  /\ op \in [Consumers -> {"pop", "tryPop"}]
  /\ result \in [Consumers -> Messages \cup {Nullopt}]
  /\ \A c \in Consumers : call[c] = "timedOut" => op[c] = "tryPop"

At(place) == {c \in Consumers : call[c] = place}

Move(c, place) == call' = [call EXCEPT ![c] = place]

Init ==
  /\ queue_ = <<>>
  /\ shutdown_ = FALSE
  /\ call = [c \in Consumers |-> "idle"]
  /\ op = [c \in Consumers |-> "pop"]
  /\ result = [c \in Consumers |-> Nullopt]

-----------------------------------------------------------------------------
(* Producers *)

\* Mutant: push() forgets to notify.
NotifyNobody == UNCHANGED call

\* cv_.notify_one(): wakes some waiting thread if there is one, else nothing.
NotifyOne ==
  \/ \E c \in At("waiting") : Move(c, "awake")
  \/ At("waiting") = {} /\ UNCHANGED call

\* cv_.notify_all()
NotifyAll ==
  call' = [c \in Consumers |-> IF call[c] = "waiting" THEN "awake" ELSE call[c]]

Push(m) ==
  /\ Len(queue_) < MaxQueue
  /\ queue_' = Append(queue_, m)
  /\ NotifyOne
  /\ UNCHANGED <<shutdown_, op, result>>

RequestShutdown ==
  /\ shutdown_' = TRUE
  /\ NotifyAll
  /\ UNCHANGED <<queue_, op, result>>

-----------------------------------------------------------------------------
(* Consumers *)

Call(c, method) ==
  /\ call[c] = "idle"
  /\ op' = [op EXCEPT ![c] = method]
  /\ Move(c, "entering")
  /\ UNCHANGED <<queue_, shutdown_, result>>

\* Mutant: after a shutdown nullopt is returned without looking at the queue.
ReturnNulloptAlways(c) ==
  /\ result' = [result EXCEPT ![c] = Nullopt]
  /\ Move(c, "idle")
  /\ UNCHANGED <<queue_, shutdown_, op>>

\* The front of the queue is moved out and returned.
TakeFront(c) ==
  /\ queue_ # <<>>
  /\ result' = [result EXCEPT ![c] = Head(queue_)]
  /\ queue_' = Tail(queue_)
  /\ Move(c, "idle")
  /\ UNCHANGED <<shutdown_, op>>

ReturnNullopt(c) ==
  /\ queue_ = <<>>
  /\ result' = [result EXCEPT ![c] = Nullopt]
  /\ Move(c, "idle")
  /\ UNCHANGED <<queue_, shutdown_, op>>

\* The wait predicate `!queue_.empty() || shutdown_' is false.
Block(c) ==
  /\ queue_ = <<>>
  /\ ~shutdown_
  /\ Move(c, "waiting")
  /\ UNCHANGED <<queue_, shutdown_, op, result>>

\* A consumer gets the mutex, on entry or after a wake-up, and evaluates the
\* predicate.
Acquire(c) ==
  /\ call[c] \in {"entering", "awake"}
  /\ \/ TakeFront(c)
     \/ shutdown_ /\ ReturnNullopt(c)
     \/ Block(c)

\* wait_for came back by timeout: the predicate is evaluated once more.
AcquireTimedOut(c) ==
  /\ call[c] = "timedOut"
  /\ TakeFront(c) \/ ReturnNullopt(c)

\* Mutant: pop() has a time limit too.
TimeoutAny(c) ==
  /\ call[c] = "waiting"
  /\ Move(c, "timedOut")
  /\ UNCHANGED <<queue_, shutdown_, op, result>>

Timeout(c) ==
  /\ call[c] = "waiting"
  /\ op[c] = "tryPop"
  /\ Move(c, "timedOut")
  /\ UNCHANGED <<queue_, shutdown_, op, result>>

SpuriousWakeup(c) ==
  /\ call[c] = "waiting"
  /\ Move(c, "awake")
  /\ UNCHANGED <<queue_, shutdown_, op, result>>

Consumer(c) ==
  \/ \E method \in {"pop", "tryPop"} : Call(c, method)
  \/ Acquire(c)
  \/ AcquireTimedOut(c)
  \/ Timeout(c)
  \/ SpuriousWakeup(c)

Next ==
  \/ \E m \in Messages : Push(m)
  \/ RequestShutdown
  \/ \E c \in Consumers : Consumer(c)

\* A thread that wants the free mutex gets it.  wait_for computes its deadline
\* once, so wake-ups do not postpone a timeout: a tryPop() that keeps going
\* back to waiting times out (strong fairness).  Nobody is obliged to call, to
\* push, to shut down, or to wake spuriously.
Fairness ==
  \A c \in Consumers : /\ WF_vars(Acquire(c))
                       /\ WF_vars(AcquireTimedOut(c))
                       /\ SF_vars(Timeout(c))

SafeSpec == Init /\ [][Next]_vars

Spec == SafeSpec /\ Fairness

-----------------------------------------------------------------------------
(* Properties *)

\* No wake-up is lost: while a consumer is still blocked in cv_, there are at
\* least as many woken consumers on their way as messages in the queue.  It
\* is what push()'s notify_one() after every insertion has to guarantee.
NoLostWakeup ==
  At("waiting") # {} => Len(queue_) <= Cardinality(At("awake"))

\* requestShutdown() releases every blocked consumer and none blocks again.
ShutdownReleasesAll == shutdown_ => At("waiting") = {}

\* After requestShutdown() every pop() and tryPop() in progress returns.
CallsEndAfterShutdown ==
  \A c \in Consumers : (shutdown_ /\ call[c] # "idle") ~> (call[c] = "idle")

\* The queue implements the channel it promises: same messages, same order,
\* nullopt only when the channel allows it, every answerable call answered.
Channel == INSTANCE FifoChannel WITH
  items   <- queue_,
  closed  <- shutdown_,
  request <- [c \in Consumers |-> IF call[c] = "idle" THEN "none" ELSE op[c]]

ImplementsChannel == Channel!Spec
=============================================================================
