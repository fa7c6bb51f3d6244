-------------------------------- MODULE Gateway --------------------------------
(***************************************************************************)
(* A gateway (gateway.go) with its service index, the client sockets it    *)
(* tracks, and what it can observe of the services: the connections they   *)
(* hold.  Every goroutine that runs gateway code is a caller.  Connect     *)
(* waits for two kinds of them: the Pruner, which is pruneLoop, and the    *)
(* Workers of the stream of gateway messages, one for a socket at a time.  *)
(* It does not wait for Goroutines: velaros runs Handle and HandleClose in *)
(* them, in any order, and NATS the callback of socket closures.  A step   *)
(* ends wherever the code releases a lock or returns from a call, so       *)
(* everything that can run in between does.                                *)
(*                                                                         *)
(* MessageService delivers or fails; transport.go promises that what fails *)
(* was not delivered, NATS may time out after the delivery, and FalseErrors*)
(* chooses between the two.  A closure broadcast reaches any of the        *)
(* services, or none; the gateway hears of it later, or never.             *)
(***************************************************************************)
EXTENDS GatewayServiceIndexer

CONSTANTS
    Goroutines,  \* goroutines that run handlers
    Workers,     \* workers of the dispatcher of gateway messages
    Pruner,      \* the goroutine of pruneLoop
    RoutesOf,    \* the paths each instance announces
    FalseErrors  \* whether a send that arrived may fail

ASSUME CallersAssumption ==
    Goroutines \cap Workers = {} /\ Pruner \notin Goroutines \cup Workers
ASSUME RoutesOfAssumption == RoutesOf \in [Instances -> SUBSET Paths]
ASSUME FalseErrorsAssumption == FalseErrors \in BOOLEAN

VARIABLES
    phase,        \* progress of Connect
    sockets,      \* keys of g.sockets
    orphans,      \* sockets closeAllSockets took from g.sockets and must close
    toClose,      \* sockets a prune found that pruneLoop must close
    task,         \* what each caller is doing
    client,       \* the client side of each socket
    connections,  \* <<i, k>>: instance i holds a connection for socket k
    notices       \* closure broadcasts that a run of the gateway has still to handle,
                  \* and whether its index has since been replaced

gatewayVars == <<phase, sockets, orphans, toClose, task>>
outsideVars == <<client, connections, notices>>
vars == <<indexVars, gatewayVars, outsideVars>>

Callers == Goroutines \cup Workers \cup {Pruner}

Idle == [pc |-> "idle"]

\* A caller at work on socket k that has no other local: in closeSocket, or before
\* Handle resolves, or in SendWithContext.
At(pc, k) == [pc |-> pc, socket |-> k]

\* A call of Handle: the service it resolved, the answer of MapSocket, whether
\* the index it loaded has since been replaced, and (for NeverResends) the
\* instances that failed it and have not announced themselves since.
Handling(k, n) ==
    [pc |-> "track", socket |-> k, service |-> n, instance |-> NoInstance,
     isNew |-> FALSE, stale |-> FALSE, failed |-> {}]

Tasks ==
    {Idle}
    \cup [pc : {"resolve", "write", "close", "shut", "broadcast", "unmap"}, socket : Sockets]
    \cup [pc : {"closureShut", "closureUnmap"}, socket : Sockets, stale : BOOLEAN]
    \cup [pc : {"track", "map", "send", "unset"}, socket : Sockets,
          service : Services, instance : Instances \cup {NoInstance},
          isNew : BOOLEAN, stale : BOOLEAN, failed : SUBSET Instances]

GatewayTypeOK ==
    /\ IndexTypeOK
    /\ phase \in {"off", "running", "stopping", "closing", "draining"}
    /\ sockets \subseteq Sockets
    /\ orphans \subseteq Sockets
    /\ toClose \subseteq Sockets
    /\ task \in [Callers -> Tasks]
    /\ client \in [Sockets -> {"open", "closed", "gone"}]
    /\ connections \subseteq Instances \X Sockets
    /\ notices \subseteq [socket : Sockets, stale : BOOLEAN]

\* Before the first Connect there is no index, and Handle skips as with a
\* closed one.
Init ==
    /\ closed = TRUE
    /\ descriptors = <<>>
    /\ servicesByName = [n \in Services |-> <<>>]
    /\ routeDescriptors = [i \in Instances |-> {}]
    /\ age = [i \in Instances |-> 0]
    /\ socketIDs = [i \in Instances |-> <<>>]
    /\ socketToInstance = [k \in Sockets |-> Unpinned]
    /\ phase = "off"
    /\ sockets = {} /\ orphans = {} /\ toClose = {}
    /\ task = [g \in Callers |-> Idle]
    /\ client = [k \in Sockets |-> "open"]
    /\ connections = {} /\ notices = {}

Run(g, t) == task' = [task EXCEPT ![g] = t]

Subscribed == phase \in {"running", "stopping"}

\* ClosedSocket: the services it reaches drop their connections for k; a gateway that
\* is connected may see the broadcast too.  It may fail, too, and reach nobody.
Broadcast(k, reached) ==
    /\ connections' = connections \ (reached \X {k})
    /\ \/ UNCHANGED notices
       \/ Subscribed /\ notices' = notices \cup {[socket |-> k, stale |-> FALSE]}

\* Callers at work on socket k, at one of the points pcs.
Busy(k, pcs) == {g \in Callers : task[g] # Idle /\ task[g].socket = k /\ task[g].pc \in pcs}

\* Socket.Close of velaros: a second close does nothing.
ShutClient(k) == client' = [client EXCEPT ![k] = IF @ = "open" THEN "closed" ELSE @]

-----------------------------------------------------------------------------
(***************************************************************************)
(* Connect and its deferred clean-up, in the order it runs: the loops and  *)
(* streams end, then gsi.Close, then closeAllSockets, then lifecycle.end.  *)
(***************************************************************************)
Connect ==
    /\ phase = "off"
    /\ phase' = "running"
    /\ closed' = FALSE /\ Clear
    /\ task' = [g \in Callers |-> IF "stale" \in DOMAIN task[g]
                                  THEN [task[g] EXCEPT !.stale = TRUE] ELSE task[g]]
    /\ notices' = {[n EXCEPT !.stale = TRUE] : n \in notices}
    /\ UNCHANGED <<sockets, orphans, toClose, client, connections>>

Interrupt ==
    /\ phase = "running"
    /\ phase' = "stopping"
    /\ UNCHANGED <<indexVars, sockets, orphans, toClose, task, outsideVars>>

\* What grp.Wait waits for: pruneLoop, and the streams, of which that of gateway
\* messages waits for its workers.  The streams of announcements and of closures do
\* not wait for a callback that is running.
GroupDone ==
    /\ toClose = {}
    /\ \A g \in Workers \cup {Pruner} : task[g] = Idle

\* Mutant of CloseIndex: the deferred calls of gateway.go:84-85 change places.
CloseIndexLast ==
    /\ phase = "stopping" /\ GroupDone
    /\ phase' = "closing"
    /\ UNCHANGED <<indexVars, sockets, orphans, toClose, task, outsideVars>>

\* grp.Wait has returned; gsi.Close is the first deferred call.
CloseIndex ==
    /\ phase = "stopping" /\ GroupDone
    /\ Close
    /\ phase' = "closing"
    /\ UNCHANGED <<sockets, orphans, toClose, task, outsideVars>>

CloseAllSockets ==
    /\ phase = "closing"
    /\ phase' = "draining"
    /\ orphans' = sockets
    /\ sockets' = {}
    /\ UNCHANGED <<indexVars, toClose, task, outsideVars>>

\* UnmapSocket finds the index closed; nothing is broadcast.
CloseOrphan(k) ==
    /\ phase = "draining"
    /\ k \in orphans
    /\ ShutClient(k)
    /\ UnmapSocket(k)
    /\ orphans' = orphans \ {k}
    /\ UNCHANGED <<phase, sockets, toClose, task, connections, notices>>

Disconnected ==
    /\ phase = "draining" /\ orphans = {}
    /\ phase' = "off"
    /\ UNCHANGED <<indexVars, sockets, orphans, toClose, task, outsideVars>>

-----------------------------------------------------------------------------
(***************************************************************************)
(* Handle: a client message on its way to a service.                       *)
(***************************************************************************)
\* velaros reads a message from the client and runs the handlers.
Receive(g, k) ==
    /\ task[g] = Idle
    /\ client[k] = "open"
    /\ Run(g, At("resolve", k))
    /\ UNCHANGED <<indexVars, phase, sockets, orphans, toClose, outsideVars>>

\* With no index, or no service for the path, the message goes to the next
\* velaros handler.  Nobody asks whether the client is still there.
Resolve(g) ==
    /\ task[g].pc = "resolve"
    /\ \E p \in Paths :
          \/ \E n \in ResolveService(p) : Run(g, Handling(task[g].socket, n))
          \/ ResolveService(p) = {} /\ Run(g, Idle)
    /\ UNCHANGED <<indexVars, phase, sockets, orphans, toClose, outsideVars>>

\* Mutant of Track: the socket is not tracked before the message is sent.
TrackLater(g) ==
    /\ task[g].pc = "track"
    /\ Run(g, [task[g] EXCEPT !.pc = "map"])
    /\ UNCHANGED <<indexVars, phase, sockets, orphans, toClose, outsideVars>>

Track(g) ==
    /\ task[g].pc = "track"
    /\ sockets' = sockets \cup {task[g].socket}
    /\ Run(g, [task[g] EXCEPT !.pc = "map"])
    /\ UNCHANGED <<indexVars, phase, orphans, toClose, outsideVars>>

\* An index that has been replaced was closed first.
Map(g) ==
    /\ task[g].pc = "map"
    /\ \E i \in Instances \cup {NoInstance}, isNew \in BOOLEAN :
          /\ IF task[g].stale THEN MapNothing(i, isNew)
             ELSE MapSocket(task[g].service, task[g].socket, i, isNew)
          /\ Run(g, IF i = NoInstance THEN At("close", task[g].socket)
                    ELSE [task[g] EXCEPT !.pc = "send", !.instance = i, !.isNew = isNew])
    /\ UNCHANGED <<phase, sockets, orphans, toClose, outsideVars>>

\* The service creates the connection with the first message of a socket, unless
\* it knows the socket as closed.
Arrive(i, k) == connections' \in {connections, connections \cup {<<i, k>>}}

\* MessageService delivers.
Deliver(g) ==
    /\ task[g].pc = "send"
    /\ Arrive(task[g].instance, task[g].socket)
    /\ Run(g, Idle)
    /\ UNCHANGED <<indexVars, phase, sockets, orphans, toClose, client, notices>>

\* MessageService fails with ErrSlowConsumer.
RejectSlow(g) ==
    /\ task[g].pc = "send"
    /\ Run(g, At("close", task[g].socket))
    /\ UNCHANGED <<indexVars, phase, sockets, orphans, toClose, outsideVars>>

\* MessageService fails with any other error: the message did not arrive, or it
\* did and only the acknowledgement is missing.
FailSend(g) ==
    /\ task[g].pc = "send"
    /\ \/ UNCHANGED connections
       \/ FalseErrors /\ Arrive(task[g].instance, task[g].socket)
    /\ Run(g, [task[g] EXCEPT !.pc = "unset", !.failed = @ \cup {task[g].instance}])
    /\ UNCHANGED <<indexVars, phase, sockets, orphans, toClose, client, notices>>

\* Mutant of UnsetAndRetry: the failed instance stays in the index.
RetryWithoutUnset(g) ==
    /\ task[g].pc = "unset"
    /\ Run(g, IF task[g].isNew THEN [task[g] EXCEPT !.pc = "map"]
              ELSE At("close", task[g].socket))
    /\ UNCHANGED <<indexVars, phase, sockets, orphans, toClose, outsideVars>>

\* Mutant of UnsetAndRetry: any failed send is simply tried again.
RetryAlways(g) ==
    /\ task[g].pc = "unset"
    /\ Run(g, [task[g] EXCEPT !.pc = "map"])
    /\ UNCHANGED <<indexVars, phase, sockets, orphans, toClose, outsideVars>>

\* The instance is dropped; only a socket that was new to it is re-routed.
UnsetAndRetry(g) ==
    /\ task[g].pc = "unset"
    /\ IF task[g].stale THEN UNCHANGED indexVars ELSE UnsetService(task[g].instance)
    /\ Run(g, IF task[g].isNew THEN [task[g] EXCEPT !.pc = "map"]
              ELSE At("close", task[g].socket))
    /\ UNCHANGED <<phase, sockets, orphans, toClose, outsideVars>>

-----------------------------------------------------------------------------
(***************************************************************************)
(* closeSocket, for any caller: take the socket from the map, or return if *)
(* someone else did; then close it, broadcast that, and unmap it in the    *)
(* index loaded at that point.                                             *)
(***************************************************************************)
Untrack(g) ==
    /\ task[g].pc = "close"
    /\ sockets' = sockets \ {task[g].socket}
    /\ Run(g, IF task[g].socket \in sockets THEN At("shut", task[g].socket) ELSE Idle)
    /\ UNCHANGED <<indexVars, phase, orphans, toClose, outsideVars>>

\* Mutant of Shut: the services are told of the closure, the client is not.
ShutServicesOnly(g) ==
    /\ task[g].pc = "shut"
    /\ Run(g, At("broadcast", task[g].socket))
    /\ UNCHANGED <<indexVars, phase, sockets, orphans, toClose, outsideVars>>

Shut(g) ==
    /\ task[g].pc = "shut"
    /\ ShutClient(task[g].socket)
    /\ Run(g, At("broadcast", task[g].socket))
    /\ UNCHANGED <<indexVars, phase, sockets, orphans, toClose,
                   connections, notices>>

BroadcastClosed(g) ==
    /\ task[g].pc = "broadcast"
    /\ \E reached \in SUBSET Instances : Broadcast(task[g].socket, reached)
    /\ Run(g, At("unmap", task[g].socket))
    /\ UNCHANGED <<indexVars, phase, sockets, orphans, toClose, client>>

Unmap(g) ==
    /\ task[g].pc = "unmap"
    /\ UnmapSocket(task[g].socket)
    /\ Run(g, Idle)
    /\ UNCHANGED <<phase, sockets, orphans, toClose, outsideVars>>

-----------------------------------------------------------------------------
(***************************************************************************)
(* The other handlers.                                                     *)
(***************************************************************************)
\* The client is gone, or velaros runs its close handlers for a socket that
\* the gateway closed: once for each socket.
HandleClose(g, k) ==
    /\ task[g] = Idle
    /\ client[k] # "gone"
    /\ client' = [client EXCEPT ![k] = "gone"]
    /\ Run(g, At("close", k))
    /\ UNCHANGED <<indexVars, phase, sockets, orphans, toClose,
                   connections, notices>>

\* A message for the client: the handler finds its socket and calls SendWithContext.
\* Messages that a worker has in its queue are handled while the gateway stops, too.
handleGatewayMessage(w, k) ==
    /\ Subscribed
    /\ task[w] = Idle
    /\ \A v \in Workers : task[v] # Idle => task[v].socket # k
    /\ k \in sockets
    /\ Run(w, At("write", k))
    /\ UNCHANGED <<indexVars, phase, sockets, orphans, toClose, outsideVars>>

WriteSocket(w) ==
    /\ task[w].pc = "write"
    /\ Run(w, Idle)
    /\ UNCHANGED <<indexVars, phase, sockets, orphans, toClose, outsideVars>>

\* Mutant of FailWrite: without a timeout, a write ends with its socket only.
FailWriteIfClosed(w) ==
    /\ task[w].pc = "write"
    /\ client[task[w].socket] # "open"
    /\ Run(w, At("close", task[w].socket))
    /\ UNCHANGED <<indexVars, phase, sockets, orphans, toClose, outsideVars>>

\* The write fails, or has taken SendTimeout.
FailWrite(w) ==
    /\ task[w].pc = "write"
    /\ Run(w, At("close", task[w].socket))
    /\ UNCHANGED <<indexVars, phase, sockets, orphans, toClose, outsideVars>>

\* Mutant of handleSocketClosure: the socket is forgotten but not closed.
ForgetSocket(g, n) ==
    /\ task[g] = Idle
    /\ notices' = notices \ {n}
    /\ sockets' = sockets \ {n.socket}
    /\ UNCHANGED <<indexVars, phase, orphans, toClose, task, client, connections>>

\* The callback knows the index of the run that subscribed, and may be called, or
\* still be running, when that run has ended and another has begun.
handleSocketClosure(g, n) ==
    /\ task[g] = Idle
    /\ notices' = notices \ {n}
    /\ sockets' = sockets \ {n.socket}
    /\ Run(g, IF n.socket \in sockets
              THEN [pc |-> "closureShut", socket |-> n.socket, stale |-> n.stale] ELSE Idle)
    /\ UNCHANGED <<indexVars, phase, orphans, toClose, client, connections>>

\* Mutant of ClosureShut: the index is not told.
ClosureShutOnly(g) ==
    /\ task[g].pc = "closureShut"
    /\ ShutClient(task[g].socket)
    /\ Run(g, Idle)
    /\ UNCHANGED <<indexVars, phase, sockets, orphans, toClose,
                   connections, notices>>

ClosureShut(g) ==
    /\ task[g].pc = "closureShut"
    /\ ShutClient(task[g].socket)
    /\ Run(g, [task[g] EXCEPT !.pc = "closureUnmap"])
    /\ UNCHANGED <<indexVars, phase, sockets, orphans, toClose,
                   connections, notices>>

ClosureUnmap(g) ==
    /\ task[g].pc = "closureUnmap"
    /\ IF task[g].stale THEN UNCHANGED indexVars ELSE UnmapSocket(task[g].socket)
    /\ Run(g, Idle)
    /\ UNCHANGED <<phase, sockets, orphans, toClose, outsideVars>>

\* An announcement addressed to this gateway; others are ignored.
handleServiceAnnouncement(i) ==
    /\ Subscribed
    /\ task' = [g \in Callers |->
                   IF "failed" \in DOMAIN task[g] /\ i \notin Registered
                   THEN [task[g] EXCEPT !.failed = @ \ {i}] ELSE task[g]]
    /\ SetServiceDescriptor(i, RoutesOf[i])
    /\ UNCHANGED <<phase, sockets, orphans, toClose, outsideVars>>

\* pruneLoop: one prune, then closeSocket for each socket it reported.  When
\* the context is canceled and the ticker fires, select takes either.
Prune ==
    /\ Subscribed
    /\ task[Pruner] = Idle /\ toClose = {}
    /\ Stale # {}
    /\ PruneStaleServices(toClose')
    /\ UNCHANGED <<phase, sockets, orphans, task, outsideVars>>

\* Mutant of PruneNext: a socket whose instance was pruned is only unmapped.
PruneUnmaps(k) ==
    /\ task[Pruner] = Idle
    /\ k \in toClose
    /\ toClose' = toClose \ {k}
    /\ Run(Pruner, At("unmap", k))
    /\ UNCHANGED <<indexVars, phase, sockets, orphans, outsideVars>>

PruneNext(k) ==
    /\ task[Pruner] = Idle
    /\ k \in toClose
    /\ toClose' = toClose \ {k}
    /\ Run(Pruner, At("close", k))
    /\ UNCHANGED <<indexVars, phase, sockets, orphans, outsideVars>>

-----------------------------------------------------------------------------
(***************************************************************************)
(* What happens outside the gateway.                                       *)
(***************************************************************************)
\* A service closes a connection (Connection.Close), or a queue for messages of
\* socket k overflows, the service's or the gateway's (serveMessages).
CloseBroadcast(k) ==
    /\ \/ \E i \in Instances : <<i, k>> \in connections
       \/ Busy(k, {"send", "write"}) # {}
    /\ \E reached \in SUBSET Instances : Broadcast(k, reached)
    /\ UNCHANGED <<indexVars, gatewayVars, client>>

\* Mutant of Heartbeat: a gateway that does not answer condemns no socket.
HeartbeatAnswered(i, k) ==
    /\ <<i, k>> \in connections
    /\ Subscribed /\ k \notin sockets
    /\ \E reached \in SUBSET Instances : Broadcast(k, reached \cup {i})
    /\ UNCHANGED <<indexVars, gatewayVars, client>>

\* A heartbeat of instance i lists socket k, and the gateway cannot be reached
\* or (handleSocketHeartbeats) does not track k: the service drops it.
Heartbeat(i, k) ==
    /\ <<i, k>> \in connections
    /\ ~ Subscribed \/ k \notin sockets
    /\ \E reached \in SUBSET Instances : Broadcast(k, reached \cup {i})
    /\ UNCHANGED <<indexVars, gatewayVars, client>>

\* Connections that end without a broadcast: the instance stops, or cannot write to
\* the gateway (Connection.Write).
ConnectionsEnd(i) ==
    /\ \E ended \in SUBSET Sockets :
          /\ connections \cap ({i} \X ended) # {}
          /\ connections' = connections \ ({i} \X ended)
    /\ UNCHANGED <<indexVars, gatewayVars, client, notices>>

TimePasses ==
    /\ Subscribed
    /\ Tick
    /\ UNCHANGED <<gatewayVars, outsideVars>>

-----------------------------------------------------------------------------
HandleStep(g) ==
    \/ Resolve(g)
    \/ Track(g)
    \/ Map(g)
    \/ Deliver(g)
    \/ RejectSlow(g)
    \/ FailSend(g)
    \/ UnsetAndRetry(g)

CloseSocketStep(g) ==
    \/ Untrack(g)
    \/ Shut(g)
    \/ BroadcastClosed(g)
    \/ Unmap(g)

Continue(g) ==
    \/ HandleStep(g)
    \/ FailWrite(g)
    \/ CloseSocketStep(g)
    \/ ClosureShut(g)
    \/ ClosureUnmap(g)

StopStep ==
    \/ CloseIndex
    \/ CloseAllSockets
    \/ \E k \in Sockets : CloseOrphan(k)
    \/ Disconnected

Next ==
    \/ Connect
    \/ Interrupt
    \/ StopStep
    \/ \E g \in Goroutines, k \in Sockets : Receive(g, k) \/ HandleClose(g, k)
    \/ \E g \in Goroutines, n \in notices : handleSocketClosure(g, n)
    \/ \E w \in Workers : WriteSocket(w) \/ \E k \in Sockets : handleGatewayMessage(w, k)
    \/ \E g \in Callers : Continue(g)
    \/ \E i \in Instances : handleServiceAnnouncement(i)
    \/ Prune
    \/ \E k \in Sockets : PruneNext(k)
    \/ \E k \in Sockets : CloseBroadcast(k)
    \/ \E i \in Instances, k \in Sockets : Heartbeat(i, k)
    \/ \E i \in Instances : ConnectionsEnd(i)
    \/ TimePasses

Spec == Init /\ [][Next]_vars

\* A goroutine that has a step to take takes it, and a write that does not succeed
\* fails in the end; the deferred calls of Connect run, pruneLoop does not prefer its
\* ticker to a canceled context forever (select is random), and a worker's queue,
\* to which nothing is added once the context is canceled, comes to its end;
\* heartbeats are sent until the connection is gone.  Nothing is assumed of clients,
\* of announcements, of broadcasts or of when Connect ends.
Fairness ==
    /\ \A g \in Callers : WF_vars(Continue(g))
    /\ WF_vars(\E k \in Sockets : PruneNext(k))
    /\ SF_vars(StopStep)
    /\ \A i \in Instances, k \in Sockets : WF_vars(Heartbeat(i, k))

FairSpec == Spec /\ Fairness

-----------------------------------------------------------------------------
\* Socket k was taken from g.sockets by a caller that has yet to close it.
BeingClosed(k) ==
    \/ Busy(k, {"shut", "closureShut"}) # {}
    \/ k \in orphans

\* A gateway that is not connected tracks no socket, save one whose Handle
\* came too late and is about to give it up: gsi.Close runs before
\* closeAllSockets (gateway.go:84-85), so no pin or delivery happens for a
\* socket tracked after the map was emptied.
StoppedTracksNothing ==
    phase \in {"draining", "off"} =>
        \A k \in sockets : Busy(k, {"map", "unset", "close"}) # {}

\* No message is lost in silence: when Handle gives up on a message it leaves
\* its client disconnected, whoever else closes the socket meanwhile
\* (gateway.go:283-320 and the early return of closeSocket at 393).
UndeliveredCloses ==
    \A g \in Callers :
        task[g].pc = "close" /\ task[g].socket \notin sockets =>
            client[task[g].socket] # "open" \/ BeingClosed(task[g].socket)

\* A heartbeat condemns no live socket: while a service holds a connection for
\* an open socket, the gateway tracks the socket or is closing it.  It holds
\* because Handle tracks the socket before it sends (gateway.go:275-297).
HeartbeatIsSound ==
    \A c \in connections :
        c[2] \in sockets \/ client[c[2]] # "open" \/ BeingClosed(c[2])

\* Within one Handle a message is not sent again to an instance that failed
\* it, unless the instance announced itself anew: UnsetService precedes every
\* retry (gateway.go:313), whatever other handlers map or unset meanwhile.
NeverResends ==
    \A g \in Goroutines :
        task[g].pc = "send" => task[g].instance \notin task[g].failed

\* A pin belongs to a socket that was tracked: it is tracked still, or its
\* client is being disconnected.
PinnedIsTrackedOrClosed ==
    \A k \in PinnedTo(Instances) :
        k \in sockets \/ client[k] # "open" \/ BeingClosed(k)

\* A prune condemns no socket that pruneLoop could fail to disconnect: closeSocket
\* finds it in the map, or somebody else has taken it from there to close it
\* (gateway.go:353-370, 393).
PrunedIsTrackedOrClosed ==
    \A k \in toClose : k \in sockets \/ client[k] # "open" \/ BeingClosed(k)

\* What README.md:247 comes to: a pin ends only with its instance, which has left
\* the index, or with its client, which is no longer connected.  Every caller that
\* unmaps a socket has closed it before (gateway.go:385-410), also one that took
\* the socket from the map when it was tracked for the message before.
PinsEndForAReason ==
    [][\A k \in Sockets, n \in Services :
          LET i == socketToInstance[k][n]
          IN  i # NoInstance /\ socketToInstance'[k][n] # i =>
                  i \notin Registered' \/ client'[k] # "open"]_vars

\* Somebody will unmap socket k from the index there is: HandleClose, which has not
\* been called yet or not come to take it from the map, or whoever took it from there.
WillBeUnmapped(k) ==
    \/ k \in sockets /\ (client[k] # "gone" \/ Busy(k, {"close"}) # {})
    \/ k \in orphans
    \/ Busy(k, {"shut", "broadcast", "unmap"}) # {}
    \/ \E g \in Busy(k, {"closureShut", "closureUnmap"}) : ~task[g].stale

Stranded(k) == k \in PinnedTo(Instances) /\ ~WillBeUnmapped(k)

\* MapSocket pins a socket that somebody took from g.sockets since Handle put it
\* there, or that Handle put there when its HandleClose had already been called.
MappedLate(g, k) ==
    /\ g \in Busy(k, {"map"}) /\ task'[g].pc = "send"
    /\ k \notin sockets \/ client[k] = "gone"

\* The callback of an earlier run takes a socket, to unmap it from an index nobody
\* uses any more.
TakenByOldRun(g, k) ==
    /\ k \in sockets /\ task[g] = Idle
    /\ task'[g] = [pc |-> "closureShut", socket |-> k, stale |-> TRUE]

\* LoadCountsActiveConnections fails in these ways only (gateway.go:275-283, 109-111):
\* closures, failed writes, prunes, stops and reconnects leave no other pin, and no
\* other load, that nobody is bound to remove.
OnlyRacesStrand ==
    [][\A k \in Sockets :
          ~Stranded(k) /\ Stranded(k)' =>
              \E g \in Callers : MappedLate(g, k) \/ TakenByOldRun(g, k)]_vars

\* A client that is gone, whose socket is tracked and will be until the gateway stops
\* or something else closes it: heartbeats of its services vouch for it.
Kept(k) == client[k] = "gone" /\ k \in sockets /\ Busy(k, {"close"}) = {}

\* Only a Handle that tracks its socket after HandleClose was called keeps a client
\* that is gone (gateway.go:275-278, 324-327); no interleaving of closures does.
OnlyLateHandlesKeep ==
    [][\A k \in Sockets :
          ~Kept(k) /\ Kept(k)' =>
              client[k] = "gone" /\ \E g \in Busy(k, {"track"}) : task'[g].pc = "map"]_vars

\* Handle gives up or delivers, unless instances announce themselves forever:
\* each retry has dropped an instance from the index.
HandleEnds ==
    \A g \in Goroutines :
        []<><<\E i \in Instances : i \notin Registered /\ handleServiceAnnouncement(i)>>_vars
        \/ (task[g].pc = "track" ~> task[g] = Idle)

\* Close returns: whatever handlers are doing, an interrupted Connect ends.  It waits
\* for the workers that write to clients, one of which may not read (SendTimeout,
\* gateway.go:197), and for the sockets that they and pruneLoop close
\* (gateway.go:88-93, 149, natstransport/message.go:220).
StopCompletes == phase = "stopping" ~> phase = "off"

\* A socket whose instance was pruned is disconnected, by pruneLoop or by whoever
\* takes it from the map first, even if the gateway is stopped; and pruneLoop gets
\* to know of every such socket (gateway-service-indexer.go:146-177).
PrunedSocketsClose ==
    /\ [][Prune => PinnedTo(Stale) \subseteq toClose']_vars
    /\ \A k \in Sockets : k \in toClose ~> client[k] # "open"

\* No ghost connections: what services hold for a client that is disconnected
\* goes away, by a broadcast or by the heartbeats that make up for one that is
\* lost, that closeAllSockets never sends or that came before a late delivery.
\* Only a gateway that tracks the socket forever keeps it alive (OnlyLateHandlesKeep).
GhostsAreCollected ==
    \A k \in Sockets :
        \/ <>[](k \in sockets)
        \/ client[k] # "open" ~> \A i \in Instances : <<i, k>> \notin connections

Quiet == \A g \in Callers : task[g] = Idle

\* README.md:247: "Every message from that client will go to the same instance
\* until the connection closes."  No client that stays connected has had
\* messages accepted by two instances of a service.
PinnedForLife ==
    Quiet => \A k \in Sockets, n \in Services :
        client[k] = "open" /\ (\A m \in notices : m.socket # k) =>
            Cardinality({i \in Instances : NameOf[i] = n /\ <<i, k>> \in connections}) <= 1

\* README.md:501: "new connections go to the instance with the fewest active
\* connections", and README.md:509: "As connections close, the distribution
\* automatically rebalances."  Once every handler has run, its close handler
\* included, no load counts a client that is gone.
LoadCountsActiveConnections ==
    Quiet /\ phase = "running" /\ notices = {} =>
        \A i \in Registered : \A k \in ToSet(socketIDs[i]) : client[k] # "gone"

=============================================================================
