--------------------------- MODULE SocketDispatcher ---------------------------
(***************************************************************************)
(* The per-socket dispatch of the NATS transport (natstransport            *)
(* dispatch.go): serveMessages, the pump, hands each message to a worker   *)
(* goroutine of its socket.  A worker is spawned when the socket has no    *)
(* queue in d.queues and leaves when it finds that queue empty; both       *)
(* happen under d.mu.  Work is what the message handler does.              *)
(***************************************************************************)
EXTENDS Naturals, Sequences, FiniteSets

CONSTANTS
    Sockets,
    QueueSize,  \* d.queueSize
    MaxWork,    \* bound: messages the pump receives
    Stuck       \* sockets whose work may never return

ASSUME QueueSizeAssumption == QueueSize \in Nat \ {0}
ASSUME MaxWorkAssumption == MaxWork \in Nat
ASSUME StuckAssumption == Stuck \subseteq Sockets

VARIABLES
    active,     \* the keys of d.queues
    queues,     \* d.queues; <<>> for a missing key
    workers,    \* per socket, goroutines at the top of the loop of run
    executing,  \* per socket, work that has started and not returned
    pump,       \* serveMessages: receiving, waiting in wg.Wait, or stopped
    received,   \* how many messages the pump has received
    accepted,   \* per socket, the work dispatch accepted, in order
    started,    \* per socket, the work that was started, in order
    rejected    \* sockets onOverflow was called for

vars == <<active, queues, workers, executing, pump, received, accepted, started, rejected>>

TypeOK ==
    /\ active \subseteq Sockets
    /\ queues \in [Sockets -> Seq(Nat)]
    /\ workers \in [Sockets -> Nat]
    /\ executing \in [Sockets -> SUBSET Nat]
    /\ pump \in {"receiving", "waiting", "stopped"}
    /\ received \in Nat
    /\ accepted \in [Sockets -> Seq(Nat)]
    /\ started \in [Sockets -> Seq(Nat)]
    /\ rejected \subseteq Sockets

Init ==
    /\ active = {}
    /\ queues = [k \in Sockets |-> <<>>]
    /\ workers = [k \in Sockets |-> 0]
    /\ executing = [k \in Sockets |-> {}]
    /\ pump = "receiving"
    /\ received = 0
    /\ accepted = [k \in Sockets |-> <<>>]
    /\ started = [k \in Sockets |-> <<>>]
    /\ rejected = {}

-----------------------------------------------------------------------------
\* The queue is full: the message is dropped and the socket reported.
Overflow(k) ==
    /\ pump = "receiving" /\ received < MaxWork
    /\ Len(queues[k]) >= QueueSize
    /\ received' = received + 1
    /\ rejected' = rejected \cup {k}
    /\ UNCHANGED <<active, queues, workers, executing, pump, accepted, started>>

\* Mutant of Enqueue: a full queue takes one message more.
EnqueueWhenFull(k) ==
    /\ pump = "receiving" /\ received < MaxWork
    /\ Len(queues[k]) <= QueueSize
    /\ received' = received + 1
    /\ queues' = [queues EXCEPT ![k] = Append(@, received')]
    /\ accepted' = [accepted EXCEPT ![k] = Append(@, received')]
    /\ active' = active \cup {k}
    /\ workers' = [workers EXCEPT ![k] = IF k \in active THEN @ ELSE @ + 1]
    /\ UNCHANGED <<executing, pump, started, rejected>>

\* Mutant of Enqueue: every message gets a worker.
EnqueueAndSpawn(k) ==
    /\ pump = "receiving" /\ received < MaxWork
    /\ Len(queues[k]) < QueueSize
    /\ received' = received + 1
    /\ queues' = [queues EXCEPT ![k] = Append(@, received')]
    /\ accepted' = [accepted EXCEPT ![k] = Append(@, received')]
    /\ active' = active \cup {k}
    /\ workers' = [workers EXCEPT ![k] = @ + 1]
    /\ UNCHANGED <<executing, pump, started, rejected>>

Enqueue(k) ==
    /\ pump = "receiving" /\ received < MaxWork
    /\ Len(queues[k]) < QueueSize
    /\ received' = received + 1
    /\ queues' = [queues EXCEPT ![k] = Append(@, received')]
    /\ accepted' = [accepted EXCEPT ![k] = Append(@, received')]
    /\ active' = active \cup {k}
    /\ workers' = [workers EXCEPT ![k] = IF k \in active THEN @ ELSE @ + 1]
    /\ UNCHANGED <<executing, pump, started, rejected>>

dispatch(k) == Overflow(k) \/ Enqueue(k)

\* Mutant of Leave: the key stays when the worker ends.
LeaveKey(k) ==
    /\ workers[k] > 0
    /\ queues[k] = <<>>
    /\ workers' = [workers EXCEPT ![k] = @ - 1]
    /\ UNCHANGED <<active, queues, executing, pump, received, accepted, started, rejected>>

\* Mutant of Leave: a worker lingers at an empty queue.
Linger(k) ==
    /\ workers[k] > 0
    /\ queues[k] = <<>>
    /\ UNCHANGED vars

\* A worker finds the queue empty: it removes the key and ends.
Leave(k) ==
    /\ workers[k] > 0
    /\ queues[k] = <<>>
    /\ active' = active \ {k}
    /\ workers' = [workers EXCEPT ![k] = @ - 1]
    /\ UNCHANGED <<queues, executing, pump, received, accepted, started, rejected>>

\* Mutant of Start: d.mu is held while the work runs.
StartAlone(k) ==
    /\ workers[k] > 0
    /\ queues[k] # <<>>
    /\ \A j \in Sockets : executing[j] = {}
    /\ queues' = [queues EXCEPT ![k] = Tail(@)]
    /\ workers' = [workers EXCEPT ![k] = @ - 1]
    /\ executing' = [executing EXCEPT ![k] = @ \cup {Head(queues[k])}]
    /\ started' = [started EXCEPT ![k] = Append(@, Head(queues[k]))]
    /\ UNCHANGED <<active, pump, received, accepted, rejected>>

\* A worker takes the head of the queue and starts it.
Start(k) ==
    /\ workers[k] > 0
    /\ queues[k] # <<>>
    /\ queues' = [queues EXCEPT ![k] = Tail(@)]
    /\ workers' = [workers EXCEPT ![k] = @ - 1]
    /\ executing' = [executing EXCEPT ![k] = @ \cup {Head(queues[k])}]
    /\ started' = [started EXCEPT ![k] = Append(@, Head(queues[k]))]
    /\ UNCHANGED <<active, pump, received, accepted, rejected>>

\* work() returns: its worker is back at the top of the loop.
Return(k) ==
    /\ \E w \in executing[k] : executing' = [executing EXCEPT ![k] = @ \ {w}]
    /\ workers' = [workers EXCEPT ![k] = @ + 1]
    /\ UNCHANGED <<active, queues, pump, received, accepted, started, rejected>>

\* The context of serveMessages is canceled, or its stream failed: it stops
\* dispatching, then waits for the workers.
StopPump ==
    /\ pump = "receiving"
    /\ pump' = "waiting"
    /\ UNCHANGED <<active, queues, workers, executing, received, accepted, started, rejected>>

\* Mutant of WaitReturns: empty queues are taken for finished work.
WaitForQueues ==
    /\ pump = "waiting"
    /\ \A k \in Sockets : queues[k] = <<>>
    /\ pump' = "stopped"
    /\ UNCHANGED <<active, queues, workers, executing, received, accepted, started, rejected>>

\* wg counts the workers, those at work included.
WaitReturns ==
    /\ pump = "waiting"
    /\ \A k \in Sockets : workers[k] = 0 /\ executing[k] = {}
    /\ pump' = "stopped"
    /\ UNCHANGED <<active, queues, workers, executing, received, accepted, started, rejected>>

Stopped == pump = "stopped" /\ UNCHANGED vars

Next ==
    \/ \E k \in Sockets : dispatch(k) \/ Leave(k) \/ Start(k) \/ Return(k)
    \/ StopPump
    \/ WaitReturns
    \/ Stopped

Spec == Init /\ [][Next]_vars

\* Workers run; work returns, except that of the sockets in Stuck.
Fairness ==
    /\ \A k \in Sockets : WF_vars(Leave(k) \/ Start(k))
    /\ \A k \in Sockets \ Stuck : WF_vars(Return(k))
    /\ WF_vars(WaitReturns)

FairSpec == Spec /\ Fairness

-----------------------------------------------------------------------------
\* README.md:465: "ordering is preserved per socket": the work of a socket is
\* started in the order it was accepted, none is skipped, and one ends before
\* the next begins, although workers come and go.
OrderedPerSocket ==
    \A k \in Sockets :
        /\ accepted[k] = started[k] \o queues[k]
        /\ Cardinality(executing[k]) + workers[k] <= 1

\* Accepted work always has a worker to do it: dispatch and the worker that is
\* about to leave never miss each other (dispatch.go:40-43 and 53-57).
QueuedHasWorker ==
    \A k \in Sockets :
        queues[k] # <<>> => workers[k] + Cardinality(executing[k]) = 1

\* When wait returns everything accepted has been done.
WaitMeansDrained ==
    pump = "stopped" => \A k \in Sockets : started[k] = accepted[k] /\ executing[k] = {}

\* A socket holds at most its queue and the one message at work, and none is
\* dropped before that: overflow is a full queue.
Outstanding(k) == Len(queues[k]) + Cardinality(executing[k])

BoundedBacklog ==
    \A k \in Sockets : Outstanding(k) <= QueueSize + 1

Promise == INSTANCE SerialQueues WITH
    arrived <- received, waiting <- queues, handled <- executing,
    refused <- rejected, serving <- pump

\* The contract of transport.go:30-33.  Workers that are spawned, leave and are
\* spawned again pass for one that is always there (dispatch.go:28-70).
ImplementsSerialQueues == Promise!Spec

\* README.md:466: "a slow socket never stalls the others": what is accepted for
\* a socket that is not stuck gets done, even if another's work never returns.
OthersProgress ==
    \A k \in Sockets \ Stuck : queues[k] # <<>> ~> queues[k] = <<>> /\ executing[k] = {}

AtWork(k) == queues[k] # <<>> \/ executing[k] # {}

\* wait returns, unless work that may never return is among what it waits for
\* (message.go:220).
WaitEnds ==
    pump = "waiting" /\ (\A k \in Stuck : ~AtWork(k)) ~> pump = "stopped"

=============================================================================
