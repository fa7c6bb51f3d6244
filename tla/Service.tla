-------------------------------- MODULE Service --------------------------------
(***************************************************************************)
(* A service instance (service.go) and its connections (connection.go):    *)
(* from the per-socket workers of the transport, which call                *)
(* handleServiceMessage, to the handler of the application, which reads.   *)
(*                                                                         *)
(* A connection is closed by whoever gets first into its closeOnce; others *)
(* who close it wait there.  Three kinds of caller do: closure handlers,   *)
(* which the transport runs concurrently; heartbeatLoop; and Listen itself *)
(* when it stops.  A failed Write is a fourth, and it may come from any    *)
(* goroutine of the application.                                           *)
(*                                                                         *)
(* The transport is the NATS one, whose Serve returns after its workers    *)
(* have finished (SocketDispatcher).                                       *)
(***************************************************************************)
EXTENDS Naturals, FiniteSets, Sequences, Functions

CONSTANTS
    Sockets,
    MaxConnections,  \* bound: connections the service ever creates
    MailboxSize,     \* s.MailboxSize; one of 0 is as one of 1 that is read at once
    QueueSize,       \* messages of a socket that wait for its worker
    Handlers,        \* goroutines of closure handlers
    GatewayOf,       \* the gateway that owns each socket
    BatchSize,       \* heartbeatMaxBatchSize
    HeartbeatLoop,   \* the goroutine of heartbeatLoop
    Listener         \* the goroutine of Listen

ASSUME MaxConnectionsAssumption == MaxConnections \in Nat
ASSUME MailboxSizeAssumption == MailboxSize \in Nat \ {0}
ASSUME QueueSizeAssumption == QueueSize \in Nat \ {0}
ASSUME BatchSizeAssumption == BatchSize \in Nat \ {0}
ASSUME CallersAssumption ==
    HeartbeatLoop \notin Handlers /\ Listener \notin Handlers \cup {HeartbeatLoop}

VARIABLES
    phase,          \* progress of Listen
    connections,    \* s.connections; a missing entry is None
    closedSockets,  \* the keys of s.closedSockets
    socketOf,       \* Connection.socketID
    once,           \* how far the HandleClose of each connection is
    mailbox,        \* messages in Connection.messageChan
    backlog,        \* messages of a socket that wait for its worker
    worker,         \* the connection a worker calls HandleMessage of
    task,           \* the connection a caller calls HandleClose of
    toClose,        \* connections closeAllConnections has yet to close
    asking,         \* sockets whose gateway heartbeatLoop has yet to ask
    request,        \* sockets of the HeartbeatSockets call under way
    unanswered,     \* those of its batches that are still to be sent
    dead,           \* sockets it reported dead and heartbeatLoop has yet to close
    gone            \* sockets whose gateway does not track them any more

vars == <<phase, connections, closedSockets, socketOf, once, mailbox, backlog,
          worker, task, toClose, asking, request, unanswered, dead, gone>>

mapVars == <<connections, closedSockets>>
connVars == <<socketOf, once, mailbox>>
workVars == <<backlog, worker>>
heartbeatVars == <<asking, request, unanswered, dead>>

None == 0
Conns == 1..MaxConnections   \* in the order of creation
Callers == Handlers \cup {HeartbeatLoop, Listener}
Created == DOMAIN once

TypeOK ==
    /\ phase \in {"off", "listening", "stopping", "closing"}
    /\ connections \in [Sockets -> Created \cup {None}]
    /\ closedSockets \subseteq Sockets
    /\ once \in Seq({"open", "closing", "unmapped", "closed"})
    /\ socketOf \in [Created -> Sockets]
    /\ mailbox \in [Created -> 0..MailboxSize]
    /\ backlog \in [Sockets -> 0..QueueSize]
    /\ worker \in [Sockets -> Created \cup {None}]
    /\ task \in [Callers -> Created \cup {None}]
    /\ toClose \subseteq Created
    /\ asking \subseteq Sockets /\ request \subseteq Sockets /\ unanswered \subseteq request
    /\ dead \subseteq Sockets /\ gone \subseteq Sockets

Init ==
    /\ phase = "off"
    /\ connections = [k \in Sockets |-> None]
    /\ closedSockets = {}
    /\ socketOf = <<>> /\ once = <<>> /\ mailbox = <<>>
    /\ backlog = [k \in Sockets |-> 0]
    /\ worker = [k \in Sockets |-> None]
    /\ task = [g \in Callers |-> None]
    /\ toClose = {} /\ gone = {}
    /\ asking = {} /\ request = {} /\ unanswered = {} /\ dead = {}

Serving == phase \in {"listening", "stopping"}

-----------------------------------------------------------------------------
(***************************************************************************)
(* Messages.                                                               *)
(***************************************************************************)
\* The transport hands a message to the worker of its socket; one that finds
\* the queue full is refused.  The bound MaxConnections keeps a connection in
\* store for every message that waits.
Enqueue(k) ==
    /\ phase = "listening"
    /\ backlog[k] < QueueSize
    /\ FoldFunction(+, 0, backlog) + Len(once) < MaxConnections
    /\ backlog' = [backlog EXCEPT ![k] = @ + 1]
    /\ UNCHANGED <<phase, mapVars, connVars, worker, task, toClose, heartbeatVars, gone>>

\* The worker calls handleServiceMessage, up to HandleMessage.
\* ensureConnection drops the messages of a socket closed recently.
Drop(k) ==
    /\ worker[k] = None /\ backlog[k] > 0
    /\ k \in closedSockets
    /\ backlog' = [backlog EXCEPT ![k] = @ - 1]
    /\ UNCHANGED <<phase, mapVars, connVars, worker, task, toClose, heartbeatVars, gone>>

Find(k) ==
    /\ worker[k] = None /\ backlog[k] > 0
    /\ k \notin closedSockets
    /\ connections[k] # None
    /\ backlog' = [backlog EXCEPT ![k] = @ - 1]
    /\ worker' = [worker EXCEPT ![k] = connections[k]]
    /\ UNCHANGED <<phase, mapVars, connVars, task, toClose, heartbeatVars, gone>>

\* Mutant of Create: the sockets closed recently are not looked up.
CreateAnyway(k) ==
    /\ worker[k] = None /\ backlog[k] > 0
    /\ connections[k] = None
    /\ socketOf' = Append(socketOf, k)
    /\ once' = Append(once, "open")
    /\ mailbox' = Append(mailbox, 0)
    /\ connections' = [connections EXCEPT ![k] = Len(once')]
    /\ worker' = [worker EXCEPT ![k] = Len(once')]
    /\ backlog' = [backlog EXCEPT ![k] = @ - 1]
    /\ UNCHANGED <<phase, closedSockets, task, toClose, heartbeatVars, gone>>

Create(k) ==
    /\ worker[k] = None /\ backlog[k] > 0
    /\ k \notin closedSockets
    /\ connections[k] = None
    /\ socketOf' = Append(socketOf, k)
    /\ once' = Append(once, "open")
    /\ mailbox' = Append(mailbox, 0)
    /\ connections' = [connections EXCEPT ![k] = Len(once')]
    /\ worker' = [worker EXCEPT ![k] = Len(once')]
    /\ backlog' = [backlog EXCEPT ![k] = @ - 1]
    /\ UNCHANGED <<phase, closedSockets, task, toClose, heartbeatVars, gone>>

\* HandleMessage, the two cases of its select; when both are ready either is
\* taken.
Put(k) ==
    /\ worker[k] # None
    /\ mailbox[worker[k]] < MailboxSize
    /\ mailbox' = [mailbox EXCEPT ![worker[k]] = @ + 1]
    /\ worker' = [worker EXCEPT ![k] = None]
    /\ UNCHANGED <<phase, mapVars, socketOf, once, backlog, task, toClose,
                   heartbeatVars, gone>>

GiveUp(k) ==
    /\ worker[k] # None
    /\ once[worker[k]] = "closed"
    /\ worker' = [worker EXCEPT ![k] = None]
    /\ UNCHANGED <<phase, mapVars, connVars, backlog, task, toClose, heartbeatVars, gone>>

\* The application reads.
Read(c) ==
    /\ c \in Created /\ mailbox[c] > 0
    /\ mailbox' = [mailbox EXCEPT ![c] = @ - 1]
    /\ UNCHANGED <<phase, mapVars, socketOf, once, workVars, task, toClose,
                   heartbeatVars, gone>>

-----------------------------------------------------------------------------
(***************************************************************************)
(* HandleClose: whoever enters closeOnce runs onClosed, which takes the    *)
(* socket out of s.connections, and then cancels the context.              *)
(***************************************************************************)
\* Mutant of OnClosed: it does nothing.
OnClosedIgnored(c) ==
    /\ c \in Created /\ once[c] = "closing"
    /\ once' = [once EXCEPT ![c] = "unmapped"]
    /\ UNCHANGED <<phase, mapVars, socketOf, mailbox, workVars, task,
                   toClose, heartbeatVars, gone>>

\* Mutant of OnClosed: closeAllConnections holds connectionsMu while it closes.
OnClosedLocked(c) ==
    /\ c \in Created /\ once[c] = "closing"
    /\ phase # "closing"
    /\ connections' = [connections EXCEPT ![socketOf[c]] = None]
    /\ once' = [once EXCEPT ![c] = "unmapped"]
    /\ UNCHANGED <<phase, closedSockets, socketOf, mailbox, workVars, task,
                   toClose, heartbeatVars, gone>>

OnClosed(c) ==
    /\ c \in Created /\ once[c] = "closing"
    /\ connections' = [connections EXCEPT ![socketOf[c]] = None]
    /\ once' = [once EXCEPT ![c] = "unmapped"]
    /\ UNCHANGED <<phase, closedSockets, socketOf, mailbox, workVars, task,
                   toClose, heartbeatVars, gone>>

CancelContext(c) ==
    /\ c \in Created /\ once[c] = "unmapped"
    /\ once' = [once EXCEPT ![c] = "closed"]
    /\ UNCHANGED <<phase, mapVars, socketOf, mailbox, workVars, task, toClose,
                   heartbeatVars, gone>>

\* A Write fails: the gateway cannot be reached.
FailWrite(c) ==
    /\ c \in Created /\ once[c] = "open"
    /\ once' = [once EXCEPT ![c] = "closing"]
    /\ UNCHANGED <<phase, mapVars, socketOf, mailbox, workVars, task, toClose,
                   heartbeatVars, gone>>

EnterOnce(g) ==
    /\ task[g] # None
    /\ once[task[g]] = "open"
    /\ once' = [once EXCEPT ![task[g]] = "closing"]
    /\ UNCHANGED <<phase, mapVars, socketOf, mailbox, workVars, task, toClose,
                   heartbeatVars, gone>>

\* Mutant of LeaveOnce: a flag in place of closeOnce; who finds it set returns
\* at once.
LeaveFlag(g) ==
    /\ task[g] # None
    /\ once[task[g]] # "open"
    /\ task' = [task EXCEPT ![g] = None]
    /\ UNCHANGED <<phase, mapVars, connVars, workVars, toClose, heartbeatVars, gone>>

LeaveOnce(g) ==
    /\ task[g] # None
    /\ once[task[g]] = "closed"
    /\ task' = [task EXCEPT ![g] = None]
    /\ UNCHANGED <<phase, mapVars, connVars, workVars, toClose, heartbeatVars, gone>>

\* closeConnection of a caller, up to the unlock.
closeConnection(g, k) ==
    /\ task[g] = None
    /\ connections' = [connections EXCEPT ![k] = None]
    /\ closedSockets' = closedSockets \cup {k}
    /\ task' = [task EXCEPT ![g] = connections[k]]

\* A closure broadcast: from the gateway, from another service, or from this
\* one (Connection.Close and heartbeatConnections).  The stream does not wait for its
\* callback, which may still be running when Listen has returned.
HandleClosure(g, k) ==
    /\ closeConnection(g, k)
    /\ UNCHANGED <<phase, connVars, workVars, toClose, heartbeatVars, gone>>

-----------------------------------------------------------------------------
(***************************************************************************)
(* heartbeatLoop and pruneLoop.                                            *)
(***************************************************************************)
Heartbeating == asking \cup request \cup dead # {} \/ task[HeartbeatLoop] # None

\* A tick of heartbeatLoop; when the context is canceled too, select takes
\* either.
Snapshot ==
    /\ Serving
    /\ ~Heartbeating
    /\ \E k \in Sockets : connections[k] # None
    /\ asking' = {k \in Sockets : connections[k] # None}
    /\ UNCHANGED <<phase, mapVars, connVars, workVars, task, toClose, request, unanswered,
                   dead, gone>>

\* One gateway after the other is asked about all its sockets, once the dead of the
\* one before are closed.
HeartbeatSockets ==
    /\ request = {} /\ dead = {} /\ task[HeartbeatLoop] = None
    /\ \E k \in asking :
           request' = {j \in asking : GatewayOf[j] = GatewayOf[k]}
    /\ unanswered' = request'
    /\ asking' = asking \ request'
    /\ UNCHANGED <<phase, mapVars, connVars, workVars, task, toClose, dead, gone>>

\* The batches the next one is chosen from: map iteration has no order.
Batches ==
    LET left == Cardinality(unanswered)
        size == IF left < BatchSize THEN left ELSE BatchSize
    IN  {b \in SUBSET unanswered : b # {} /\ Cardinality(b) = size}

\* The gateway answers a batch with the sockets it does not track.
AnswerBatch ==
    /\ \E batch \in Batches : /\ dead' = dead \cup (batch \cap gone)
                              /\ unanswered' = unanswered \ batch
    /\ request' = IF unanswered' = {} THEN {} ELSE request
    /\ UNCHANGED <<phase, mapVars, connVars, workVars, task, toClose, asking, gone>>

\* Mutant of FailBatch: a gateway that does not answer condemns no socket.
FailQuietly ==
    /\ request # {}
    /\ request' = {} /\ unanswered' = {}
    /\ UNCHANGED <<phase, mapVars, connVars, workVars, task, toClose, asking, dead, gone>>

\* A batch fails: all sockets of the gateway are taken for dead.
FailBatch ==
    /\ request # {}
    /\ dead' = request
    /\ request' = {} /\ unanswered' = {}
    /\ UNCHANGED <<phase, mapVars, connVars, workVars, task, toClose, asking, gone>>

CloseDead(k) ==
    /\ request = {}
    /\ k \in dead
    /\ closeConnection(HeartbeatLoop, k)
    /\ dead' = dead \ {k}
    /\ UNCHANGED <<phase, connVars, workVars, toClose, asking, request, unanswered, gone>>

\* pruneStaleResources.  Nobody takes as long as ClosedSocketTTL to close a
\* connection he has taken out of s.connections.
pruneStaleResources(k) ==
    /\ Serving
    /\ k \in closedSockets
    /\ \A g \in Callers : task[g] # None => socketOf[task[g]] # k
    /\ closedSockets' = closedSockets \ {k}
    /\ UNCHANGED <<phase, connections, connVars, workVars, task, toClose,
                   heartbeatVars, gone>>

-----------------------------------------------------------------------------
(***************************************************************************)
(* Listen.                                                                 *)
(***************************************************************************)
Listen ==
    /\ phase = "off"
    /\ phase' = "listening"
    /\ UNCHANGED <<mapVars, connVars, workVars, task, toClose, heartbeatVars, gone>>

Interrupt ==
    /\ phase = "listening"
    /\ phase' = "stopping"
    /\ UNCHANGED <<mapVars, connVars, workVars, task, toClose, heartbeatVars, gone>>

TakeAllConnections ==
    /\ phase' = "closing"
    /\ toClose' = {connections[k] : k \in Sockets} \ {None}
    /\ connections' = [k \in Sockets |-> None]
    /\ UNCHANGED <<closedSockets, connVars, workVars, task, heartbeatVars, gone>>

\* Mutant of closeAllConnections: it does not wait for the streams.
closeAllConnectionsFirst ==
    /\ phase = "stopping"
    /\ ~Heartbeating
    /\ TakeAllConnections

\* The streams and loops have ended: closeAllConnections, up to the unlock.
closeAllConnections ==
    /\ phase = "stopping"
    /\ ~Heartbeating
    /\ \A k \in Sockets : backlog[k] = 0 /\ worker[k] = None
    /\ TakeAllConnections

CloseNext(c) ==
    /\ phase = "closing"
    /\ task[Listener] = None
    /\ c \in toClose
    /\ task' = [task EXCEPT ![Listener] = c]
    /\ toClose' = toClose \ {c}
    /\ UNCHANGED <<phase, mapVars, connVars, workVars, heartbeatVars, gone>>

Return ==
    /\ phase = "closing"
    /\ task[Listener] = None /\ toClose = {}
    /\ phase' = "off"
    /\ UNCHANGED <<mapVars, connVars, workVars, task, toClose, heartbeatVars, gone>>

\* The gateway stops tracking a socket, whether or not it can tell.
GatewayForgets(k) ==
    /\ k \notin gone
    /\ gone' = gone \cup {k}
    /\ UNCHANGED <<phase, mapVars, connVars, workVars, task, toClose, heartbeatVars>>

-----------------------------------------------------------------------------
WorkerStep(k) == Drop(k) \/ Find(k) \/ Create(k) \/ Put(k) \/ GiveUp(k)

HandleCloseStep(c) == OnClosed(c) \/ CancelContext(c)

CallerStep(g) == EnterOnce(g) \/ LeaveOnce(g)

HeartbeatStep ==
    \/ Snapshot \/ HeartbeatSockets \/ AnswerBatch \/ FailBatch
    \/ \E k \in Sockets : CloseDead(k)

StopStep == closeAllConnections \/ (\E c \in Conns : CloseNext(c)) \/ Return

Next ==
    \/ \E k \in Sockets : \/ Enqueue(k)
                          \/ WorkerStep(k)
                          \/ \E g \in Handlers : HandleClosure(g, k)
                          \/ pruneStaleResources(k)
                          \/ GatewayForgets(k)
    \/ \E c \in Conns : Read(c) \/ FailWrite(c) \/ HandleCloseStep(c)
    \/ \E g \in Callers : CallerStep(g)
    \/ HeartbeatStep
    \/ Listen
    \/ Interrupt
    \/ StopStep

Spec == Init /\ [][Next]_vars

\* Goroutines run, heartbeatLoop does not prefer its ticker to a canceled
\* context forever (select is random), and the application reads what it is
\* sent.  Nothing is assumed of messages, closures and writes, or of when
\* Listen is interrupted.
Fairness ==
    /\ \A k \in Sockets : WF_vars(WorkerStep(k))
    /\ \A c \in Conns : WF_vars(Read(c)) /\ WF_vars(HandleCloseStep(c))
    /\ \A g \in Callers : WF_vars(CallerStep(g))
    /\ WF_vars(HeartbeatStep)
    /\ SF_vars(StopStep)

FairSpec == Spec /\ Fairness

-----------------------------------------------------------------------------
\* A caller took connection c out of s.connections and has yet to close it.
Taken(c) == c \in toClose \/ \E g \in Callers : task[g] = c

\* No connection is orphaned: an open one can be found in s.connections by
\* closures and heartbeats, or its close is certain.  onClosed deletes by
\* socket and not by connection (service.go:296-300), so it would evict a
\* newer connection if a close could outlive the run that began it; it cannot
\* because closeAllConnections waits in closeOnce (connection.go:72).
OpenIsMapped ==
    \A c \in Created : once[c] = "open" => connections[socketOf[c]] = c \/ Taken(c)

\* No worker finds in the map a connection whose context is canceled or about to be:
\* onClosed takes it from there before the context is canceled (connection.go:78-79).
\* A worker that found it earlier may still put a message into it.
MappedIsUsable ==
    \A k \in Sockets :
        connections[k] # None => once[connections[k]] \in {"open", "closing"}

\* A socket has one connection at a time: the messages of a client are never
\* split between two handlers of the application that both can read and write,
\* although any number of connections are made for it one after the other
\* (service.go:283-306, connection.go:96).
OneUsablePerSocket ==
    \A c, d \in Created :
        socketOf[c] = socketOf[d] /\ {once[c], once[d]} \subseteq {"open", "closing"} => c = d

\* onClosed deletes by socket and not by connection, and yet takes no newer
\* connection from the map than its own (service.go:296-300).
EvictsOnlyItself ==
    [][\A c \in Created : OnClosed(c) => connections[socketOf[c]] \in {None, c}]_vars

\* While a socket is recorded as closed no message brings it back to life,
\* whichever of closures, heartbeats and messages comes first
\* (service.go:287-290, 308-313).
ClosedStaysClosed ==
    \A c \in Created : socketOf[c] \in closedSockets /\ once[c] = "open" => Taken(c)

\* Listen leaves nothing behind when it returns: every connection is closed or
\* being closed by a closure that came late (service.go:134-135).
StoppedServesNobody ==
    phase = "off" =>
        /\ \A k \in Sockets : connections[k] = None /\ worker[k] = None
        /\ \A c \in Created : once[c] = "open" => \E g \in Handlers : task[g] = c

\* Listen returns once it is interrupted, backpressure notwithstanding: a
\* worker that waits for room in a mailbox holds it up only until the
\* application reads.
ListenReturns == phase = "stopping" ~> phase = "off"

\* A connection whose gateway does not track the socket any more is closed,
\* even if no closure of it was ever broadcast.
GoneConnectionsClose ==
    \A c \in Conns :
        c \in Created /\ once[c] = "open" /\ socketOf[c] \in gone
            ~> c \in Created /\ once[c] = "closed"

=============================================================================
