----------------------------- MODULE SerialQueues -----------------------------
(***************************************************************************)
(* What a subscription for messages promises (transport.go:30-33): "calls  *)
(* for the same socket are serialized in arrival order".  It is as if each *)
(* socket had a queue of its own and one worker that never goes away.      *)
(***************************************************************************)
EXTENDS Naturals, Sequences

CONSTANTS Sockets, QueueSize

VARIABLES
    arrived,  \* how many messages have arrived; they are named by their number
    waiting,  \* per socket, the messages that wait, the first to be handled first
    handled,  \* per socket, the message that is being handled, if any
    refused,  \* sockets that had a message refused
    serving   \* the subscription: receiving, waiting for the workers, or stopped

vars == <<arrived, waiting, handled, refused, serving>>

Init ==
    /\ arrived = 0
    /\ waiting = [k \in Sockets |-> <<>>]
    /\ handled = [k \in Sockets |-> {}]
    /\ refused = {}
    /\ serving = "receiving"

Arrive == serving = "receiving" /\ arrived' = arrived + 1

\* A message is refused when its socket's queue is full, and at no other time.
Refuse(k) ==
    /\ Arrive
    /\ Len(waiting[k]) = QueueSize
    /\ refused' = refused \cup {k}
    /\ UNCHANGED <<waiting, handled, serving>>

Accept(k) ==
    /\ Arrive
    /\ Len(waiting[k]) < QueueSize
    /\ waiting' = [waiting EXCEPT ![k] = Append(@, arrived')]
    /\ UNCHANGED <<handled, refused, serving>>

\* The handler is called with the first message, when the call before has returned.
Call(k) ==
    /\ handled[k] = {} /\ waiting[k] # <<>>
    /\ handled' = [handled EXCEPT ![k] = {Head(waiting[k])}]
    /\ waiting' = [waiting EXCEPT ![k] = Tail(@)]
    /\ UNCHANGED <<arrived, refused, serving>>

Return(k) ==
    /\ handled[k] # {}
    /\ handled' = [handled EXCEPT ![k] = {}]
    /\ UNCHANGED <<arrived, waiting, refused, serving>>

Stop ==
    /\ serving = "receiving"
    /\ serving' = "waiting"
    /\ UNCHANGED <<arrived, waiting, handled, refused>>

\* Serve returns with nothing left to do.
Drained ==
    /\ serving = "waiting"
    /\ \A k \in Sockets : waiting[k] = <<>> /\ handled[k] = {}
    /\ serving' = "stopped"
    /\ UNCHANGED <<arrived, waiting, handled, refused>>

Next ==
    \/ \E k \in Sockets : Refuse(k) \/ Accept(k) \/ Call(k) \/ Return(k)
    \/ Stop
    \/ Drained

Spec == Init /\ [][Next]_vars

=============================================================================
