----------------------------- MODULE FifoChannel -----------------------------
(***************************************************************************)
(* What MessageQueue<T> (include/MessageQueue.h) promises its users,       *)
(* whatever locks and condition variables it is made of: messages leave in *)
(* the order in which they entered, each one once; a call never comes back *)
(* empty-handed while a message is there; a blocking call comes back empty *)
(* only when the channel is closed; and a call that can be answered is     *)
(* answered.                                                               *)
(***************************************************************************)
EXTENDS Naturals, Sequences

CONSTANTS Consumers,  \* the threads that take messages
          Messages,   \* what can be sent
          Nullopt     \* the empty answer, std::nullopt

VARIABLES items,      \* sent and not yet delivered
          closed,     \* requestShutdown() has been called
          request,    \* what each consumer is asking for: "none", "pop", "tryPop"
          result      \* the last answer each consumer got

vars == <<items, closed, request, result>>

Init ==
  /\ items   = <<>>
  /\ closed  = FALSE
  /\ request = [c \in Consumers |-> "none"]
  /\ result  = [c \in Consumers |-> Nullopt]

Send(m) ==
  /\ items' = Append(items, m)
  /\ UNCHANGED <<closed, request, result>>

Close ==
  /\ closed' = TRUE
  /\ UNCHANGED <<items, request, result>>

Ask(c, op) ==
  /\ request[c] = "none"
  /\ request' = [request EXCEPT ![c] = op]
  /\ UNCHANGED <<items, closed, result>>

Answer(c, v) ==
  /\ request[c] # "none"
  /\ request' = [request EXCEPT ![c] = "none"]
  /\ result'  = [result EXCEPT ![c] = v]
  /\ UNCHANGED closed

Deliver(c) ==
  /\ items # <<>>
  /\ Answer(c, Head(items))
  /\ items' = Tail(items)

\* Only an empty channel may answer with nothing, and it may do so to a
\* blocking pop() only once it is closed.
GiveUp(c) ==
  /\ items = <<>>
  /\ closed \/ request[c] = "tryPop"
  /\ Answer(c, Nullopt)
  /\ UNCHANGED items

Next ==
  \/ \E m \in Messages : Send(m)
  \/ Close
  \/ \E c \in Consumers : \/ \E op \in {"pop", "tryPop"} : Ask(c, op)
                          \/ Deliver(c)
                          \/ GiveUp(c)

SafeSpec == Init /\ [][Next]_vars

\* A message somebody asks for is handed out, and a request that is answered
\* with nothing forever would be answered.
Fairness ==
  /\ WF_vars(\E c \in Consumers : Deliver(c))
  /\ \A c \in Consumers : WF_vars(GiveUp(c))

Spec == SafeSpec /\ Fairness
=============================================================================
