--------------------------- MODULE GatewayPinProofs ---------------------------
(***************************************************************************)
(* What becomes of the pins of a gateway's index while its handlers, its   *)
(* prune loop, stops and reconnects share it, for any numbers of           *)
(* goroutines, services, instances and sockets.  GatewayProofs has the     *)
(* invariant; here are the steps: whom they pin, and whom they unpin why.  *)
(***************************************************************************)
EXTENDS GatewayProofs

\* The calls of the index that a step of the gateway may make, one at the most.
IndexCall ==
    \/ IndexNext
    \/ Clear
    \/ UNCHANGED indexVars

\* Steps that leave the index alone.
LEMMA NoIndexCall ==
    ASSUME \/ Interrupt \/ CloseAllSockets \/ Disconnected
           \/ \E g \in Goroutines, k \in Sockets : Receive(g, k) \/ HandleClose(g, k)
           \/ \E g \in Goroutines, n \in notices : handleSocketClosure(g, n)
           \/ \E w \in Workers : WriteSocket(w) \/ \E k \in Sockets : handleGatewayMessage(w, k)
           \/ \E g \in Callers :
                 \/ Resolve(g) \/ Track(g) \/ Deliver(g) \/ RejectSlow(g) \/ FailSend(g)
                 \/ FailWrite(g) \/ Untrack(g) \/ Shut(g) \/ BroadcastClosed(g) \/ ClosureShut(g)
           \/ \E k \in Sockets : PruneNext(k)
           \/ \E k \in Sockets : CloseBroadcast(k)
           \/ \E i \in Instances, k \in Sockets : Heartbeat(i, k)
           \/ \E i \in Instances : ConnectionsEnd(i)
           \/ UNCHANGED vars
    PROVE  UNCHANGED indexVars
BY DEF Interrupt, CloseAllSockets, Disconnected, Receive, HandleClose, handleSocketClosure,
       WriteSocket, handleGatewayMessage, Resolve, Track, Deliver, RejectSlow, FailSend,
       FailWrite, Untrack, Shut, BroadcastClosed, ClosureShut, PruneNext, CloseBroadcast,
       Heartbeat, ConnectionsEnd, vars

\* Every step of the gateway makes at most one call of the index.
LEMMA OneIndexCall ==
    ASSUME GatewayInv, [Next]_vars
    PROVE  IndexCall
<1>1. CASE Connect
  BY <1>1 DEF Connect, IndexCall
<1>2. CASE CloseIndex
  BY <1>2 DEF CloseIndex, IndexCall, Close
<1>3. ASSUME NEW k \in Sockets, CloseOrphan(k) PROVE IndexCall
  BY <1>3 DEF CloseOrphan, IndexCall, IndexNext
<1>4. ASSUME NEW g \in Callers, Map(g) PROVE IndexCall
  <2>1. task[g].service \in Services /\ task[g].socket \in Sockets
    BY <1>4, CallerTypes DEF Map, GatewayInv, HandleTasks
  <2> QED BY <1>4, <2>1 DEF Map, MapNothing, IndexCall, IndexNext
<1>5. ASSUME NEW g \in Callers, UnsetAndRetry(g) PROVE IndexCall
  <2>1. task[g].instance \in Instances
    BY <1>5, CallerTypes DEF UnsetAndRetry, GatewayInv, CallsInv, SoundCall
  <2> QED BY <1>5, <2>1 DEF UnsetAndRetry, IndexCall, IndexNext
<1>6. ASSUME NEW g \in Callers, Unmap(g) \/ ClosureUnmap(g) PROVE IndexCall
  <2>1. task[g].socket \in Sockets
    BY <1>6, CallerTypes DEF Unmap, ClosureUnmap, GatewayInv, SocketTasks, ClosureTasks
  <2> QED BY <1>6, <2>1 DEF Unmap, ClosureUnmap, IndexCall, IndexNext
<1>7. ASSUME NEW i \in Instances, handleServiceAnnouncement(i) PROVE IndexCall
  <2>1. RoutesOf[i] \in SUBSET Paths
    BY RoutesOfAssumption
  <2> QED BY <1>7, <2>1 DEF handleServiceAnnouncement, IndexCall, IndexNext
<1>8. CASE Prune
  <2>1. toClose' \in SUBSET Sockets
    BY <1>8, PruneCall DEF Prune, GatewayInv, StateInv, PinnedTo
  <2> QED BY <1>8, <2>1 DEF Prune, IndexCall, IndexNext
<1>9. CASE TimePasses
  BY <1>9 DEF TimePasses, IndexCall, IndexNext
<1> QED BY <1>1, <1>2, <1>3, <1>4, <1>5, <1>6, <1>7, <1>8, <1>9, NoIndexCall
        DEF IndexCall, Next, StopStep, Continue, HandleStep, CloseSocketStep

-----------------------------------------------------------------------------
(***************************************************************************)
(* Balancing.                                                              *)
(***************************************************************************)
\* A new or closed index has dismissed every instance.
LEMMA ClearRefines ==
    ASSUME IndexInv, Clear
    PROVE  Promise!Deregister(Instances)
<1>1. Registered \subseteq Instances
  BY DEF Registered, ToSet, IndexInv, IndexTypeOK
<1>2. \A k \in Sockets, n \in Services :
         socketToInstance[k][n] \in Instances \cup {NoInstance}
  BY DEF IndexInv, IndexTypeOK
<1>3. Registered' = {}
  BY EmptySequence DEF Clear, Registered
<1>4. socketToInstance' = [k \in Sockets |-> [n \in Services |->
         IF socketToInstance[k][n] \in Instances THEN NoInstance
                                                 ELSE socketToInstance[k][n]]]
  BY <1>2 DEF Clear, Unpinned
<1> QED BY <1>1, <1>3, <1>4 DEF Promise!Deregister

LEMMA GatewayStepRefines ==
    ASSUME GatewayInv, [Next]_vars
    PROVE  [Promise!Next]_Promise!vars
<1>1. IndexInv
  BY DEF GatewayInv, StateInv
<1>2. CASE Clear
  BY <1>1, <1>2, ClearRefines DEF Promise!Next
<1>3. CASE [IndexNext]_indexVars
  BY <1>1, <1>3, IndexStepRefines
<1> QED BY <1>2, <1>3, OneIndexCall DEF IndexCall

LEMMA GatewayInitRefines == Init => Promise!Init
BY EmptySequence DEF Init, Promise!Init, Registered, ToSet, Unpinned, Promise!NoPins

\* The gateway balances by least connections although its handlers, its prune loop,
\* stops and reconnects share the index: a socket that gets an instance gets one with
\* the fewest pinned sockets of those registered then, and keeps it until one of the
\* two goes (gateway.go:282, gateway-service-indexer.go:185-230).
THEOREM GatewayBalances == Spec => ImplementsLeastConnections
<1>1. GatewayInv /\ [Next]_vars => [Promise!Next]_Promise!vars
  BY GatewayStepRefines
<1> QED BY <1>1, GatewayInitRefines, GatewayIsConsistent, PTL
        DEF Spec, ImplementsLeastConnections, Promise!Spec

-----------------------------------------------------------------------------
(***************************************************************************)
(* Who ends a pin, and who begins one.                                     *)
(***************************************************************************)
\* An index without instances has no pins.
LEMMA ClosedUnpins ==
    ASSUME IndexInv, Registered = {}
    PROVE  PinnedTo(Instances) = {}
BY NoInstanceAssumption DEF IndexInv, PinsAreLive, RegisteredOnce, PinnedTo

\* UnmapSocket leaves its socket without pins, and the others theirs.
LEMMA UnmapUnpins ==
    ASSUME IndexInv, closed => Registered = {}, NEW k \in Sockets, UnmapSocket(k)
    PROVE  /\ k \notin PinnedTo(Instances)'
           /\ \A j \in Sockets \ {k} : socketToInstance'[j] = socketToInstance[j]
<1>1. CASE WhenClosed
  <2>1. UNCHANGED indexVars /\ PinnedTo(Instances) = {}
    BY <1>1, ClosedUnpins DEF WhenClosed
  <2>2. socketToInstance' = socketToInstance /\ PinnedTo(Instances)' = PinnedTo(Instances)
    BY <2>1 DEF indexVars, PinnedTo
  <2> QED BY <2>1, <2>2
<1>2. CASE socketToInstance' = [socketToInstance EXCEPT ![k] = Unpinned]
  <2>1. socketToInstance'[k] = Unpinned
    BY <1>2 DEF IndexInv, IndexTypeOK
  <2> QED BY <1>2, <2>1, NoInstanceAssumption DEF PinnedTo, Unpinned
<1> QED BY <1>1, <1>2 DEF UnmapSocket

\* What is unregistered, pruned or closed leaves no pin, and takes no other.
LEMMA UnregisterUnpins ==
    ASSUME IndexInv, NEW D \in SUBSET Instances, Unregister(D), NEW k \in Sockets, NEW n \in Services
    PROVE  socketToInstance'[k][n] = socketToInstance[k][n]
              \/ /\ socketToInstance[k][n] \notin Registered'
                 /\ socketToInstance'[k][n] = NoInstance
<1>1. Registered' = Registered \ D
  BY UnregisterCall
<1> QED BY <1>1 DEF Unregister

\* Caller g is about to call UnmapSocket(k).
Unmaps(g, k) == Does(task[g], k, {"unmap", "closureUnmap"})

\* Caller g pins socket k: its call of MapSocket finds an instance.
Pins(g, k) == /\ Does(task[g], k, {"map"}) /\ task'[g].pc = "send"
              /\ UNCHANGED <<sockets, client>>

\* A step changes a pin in one of three ways.
LEMMA PinChanges ==
    ASSUME GatewayInv, [Next]_vars, NEW k \in Sockets, NEW n \in Services,
           socketToInstance'[k][n] # socketToInstance[k][n]
    PROVE  \/ /\ socketToInstance[k][n] \notin Registered'
              /\ socketToInstance'[k][n] = NoInstance
           \/ /\ \E g \in Callers : Unmaps(g, k)
              /\ socketToInstance'[k][n] = NoInstance
           \/ /\ \E g \in Callers : Pins(g, k)
              /\ socketToInstance[k][n] = NoInstance
<1> DEFINE Gone == /\ socketToInstance[k][n] \notin Registered'
                   /\ socketToInstance'[k][n] = NoInstance
<1>1. IndexInv /\ (closed => Registered = {})
  BY DEF GatewayInv, StateInv
<1>2. socketToInstance' # socketToInstance
  OBVIOUS
<1>3. ~ UNCHANGED indexVars
  BY <1>2 DEF indexVars
<1>4. CASE Clear
  <2>1. Registered' = {} /\ socketToInstance'[k][n] = NoInstance
    BY <1>4, EmptySequence DEF Clear, Registered, Unpinned
  <2> QED BY <2>1
<1>5. CASE Connect \/ CloseIndex
  BY <1>4, <1>5 DEF Connect, CloseIndex, Close
<1>6. ASSUME NEW j \in Sockets, CloseOrphan(j) PROVE FALSE
  <2>1. closed /\ UnmapSocket(j)
    BY <1>6 DEF CloseOrphan, GatewayInv, StateInv
  <2> QED BY <1>3, <2>1 DEF UnmapSocket, WhenClosed
<1>7. ASSUME NEW g \in Callers, Map(g)
      PROVE  Pins(g, k) /\ socketToInstance[k][n] = NoInstance
  <2>1. /\ task[g].socket \in Sockets /\ task[g].service \in Services
        /\ task[g].pc = "map" /\ task[g] # Idle /\ task[g] \in HandleTasks
    BY <1>7, CallerTypes DEF Map, GatewayInv, HandleTasks, Idle
  <2>2. PICK i \in Instances \cup {NoInstance}, isNew \in BOOLEAN :
           /\ IF task[g].stale THEN MapNothing(i, isNew)
              ELSE MapSocket(task[g].service, task[g].socket, i, isNew)
           /\ Run(g, IF i = NoInstance THEN At("close", task[g].socket)
                     ELSE [task[g] EXCEPT !.pc = "send", !.instance = i, !.isNew = isNew])
    BY <1>7 DEF Map
  <2>3. MapNew(task[g].service, task[g].socket, i, isNew)
    BY <1>3, <2>2 DEF MapSocket, MapNothing, MapPinned
  <2>4. /\ socketToInstance[task[g].socket][task[g].service] = NoInstance
        /\ i # NoInstance
        /\ socketToInstance' =
              [socketToInstance EXCEPT ![task[g].socket][task[g].service] = i]
    BY <2>3, NoInstanceAssumption DEF MapNew
  <2>5. k = task[g].socket /\ n = task[g].service
    BY <2>1, <2>4 DEF GatewayInv, StateInv, IndexInv, IndexTypeOK
  <2>6. task'[g].pc = "send"
    <3>1. [task[g] EXCEPT !.pc = "send", !.instance = i, !.isNew = isNew].pc = "send"
      BY <2>1 DEF HandleTasks
    <3>2. task'[g] = [task[g] EXCEPT !.pc = "send", !.instance = i, !.isNew = isNew]
      BY <2>2, <2>4 DEF Run, GatewayInv, StateInv, GatewayTypeOK
    <3> QED BY <3>1, <3>2
  <2>7. UNCHANGED <<sockets, client>>
    BY <1>7 DEF Map, outsideVars
  <2> QED BY <2>1, <2>4, <2>5, <2>6, <2>7 DEF Pins, Does
<1>8. ASSUME NEW g \in Callers, UnsetAndRetry(g) PROVE Gone
  <2>1. UnsetService(task[g].instance) /\ task[g].instance \in Instances
    BY <1>3, <1>8, CallerTypes DEF UnsetAndRetry, GatewayInv, CallsInv, SoundCall
  <2>2. Unregister({task[g].instance})
    BY <1>3, <2>1 DEF UnsetService, WhenClosed
  <2> QED BY <1>1, <2>1, <2>2, UnregisterUnpins
<1>9. ASSUME NEW g \in Callers, Unmap(g) \/ ClosureUnmap(g)
      PROVE  Unmaps(g, k) /\ socketToInstance'[k][n] = NoInstance
  <2>1. /\ task[g].socket \in Sockets /\ task[g] # Idle
        /\ task[g].pc \in {"unmap", "closureUnmap"}
    BY <1>9, CallerTypes DEF Unmap, ClosureUnmap, GatewayInv, SocketTasks, ClosureTasks, Idle
  <2>2. UnmapSocket(task[g].socket)
    BY <1>3, <1>9 DEF Unmap, ClosureUnmap
  <2>3. k = task[g].socket /\ k \notin PinnedTo(Instances)'
    BY <1>1, <2>1, <2>2, UnmapUnpins
  <2>4. socketToInstance'[k][n] \in Instances \cup {NoInstance}
    BY <1>1, <2>1, <2>2, UnmapSocketIsConsistent DEF IndexInv, IndexTypeOK
  <2> QED BY <2>1, <2>3, <2>4 DEF Unmaps, Does, PinnedTo
<1>10. ASSUME NEW i \in Instances, handleServiceAnnouncement(i) PROVE FALSE
  BY <1>2, <1>3, <1>10 DEF handleServiceAnnouncement, SetServiceDescriptor, WhenClosed,
                           RefreshDescriptor, AddDescriptor
<1>11. CASE Prune
  <2>1. Unregister(Stale)
    BY <1>3, <1>11 DEF Prune, PruneStaleServices, WhenClosed
  <2>2. Stale \in SUBSET Instances
    BY <1>1 DEF Stale, Registered, ToSet, IndexInv, IndexTypeOK
  <2> QED BY <1>1, <2>1, <2>2, UnregisterUnpins
<1>12. CASE TimePasses
  BY <1>2, <1>12 DEF TimePasses, Tick
<1> QED BY <1>3, <1>5, <1>6, <1>7, <1>8, <1>9, <1>10, <1>11, <1>12, NoIndexCall
        DEF Next, StopStep, Continue, HandleStep, CloseSocketStep

-----------------------------------------------------------------------------
(***************************************************************************)
(* A pin ends for a reason: whoever unmaps a socket has closed it.         *)
(***************************************************************************)
\* Past Shut, or ClosureShut, the client is no longer connected.
ClosersInv ==
    \A g \in Callers :
        task[g].pc \in {"broadcast", "unmap", "closureUnmap"} => client[task[g].socket] # "open"

\* No client comes back.
LEMMA ClientsStay ==
    ASSUME GatewayInv, [Next]_vars, NEW k \in Sockets, client[k] # "open"
    PROVE  client'[k] # "open"
<1>1. client \in [Sockets -> {"open", "closed", "gone"}]
  BY DEF GatewayInv, StateInv, GatewayTypeOK
<1>2. client' = client \/ (\E j \in Sockets : ShutClient(j))
         \/ (\E j \in Sockets : client' = [client EXCEPT ![j] = "gone"])
  <2>1. ASSUME NEW g \in Callers, Shut(g) \/ ClosureShut(g) PROVE \E j \in Sockets : ShutClient(j)
    BY <2>1, CallerTypes DEF Shut, ClosureShut, GatewayInv, SocketTasks, ClosureTasks
  <2>2. ASSUME NEW g \in Goroutines, NEW j \in Sockets, HandleClose(g, j)
        PROVE  client' = [client EXCEPT ![j] = "gone"]
    BY <2>2 DEF HandleClose
  <2>3. ASSUME NEW j \in Sockets, CloseOrphan(j) PROVE ShutClient(j)
    BY <2>3 DEF CloseOrphan
  <2> QED BY <2>1, <2>2, <2>3
     DEF Next, StopStep, Continue, HandleStep, CloseSocketStep, Connect, Interrupt, CloseIndex,
         CloseAllSockets, Disconnected, Receive, handleSocketClosure, WriteSocket, FailWrite,
         handleGatewayMessage, Resolve, Track, Map, Deliver, RejectSlow, FailSend,
         UnsetAndRetry, Untrack, BroadcastClosed, Unmap, ClosureUnmap,
         handleServiceAnnouncement, Prune, PruneNext, CloseBroadcast, Heartbeat,
         ConnectionsEnd, TimePasses, vars, gatewayVars, outsideVars
<1> QED BY <1>1, <1>2 DEF ShutClient

\* A caller gets past Shut by its own Shut only.
LEMMA ClosersNext == GatewayInv /\ ClosersInv /\ [Next]_vars => ClosersInv'
<1> SUFFICES ASSUME GatewayInv, ClosersInv, [Next]_vars, NEW h \in Callers,
                    task'[h].pc \in {"broadcast", "unmap", "closureUnmap"}
             PROVE  client'[task'[h].socket] # "open"
  BY DEF ClosersInv
<1> DEFINE Past(t) == t.pc \in {"broadcast", "unmap", "closureUnmap"}
<1>1. task \in [Callers -> Tasks]
  BY DEF GatewayInv, StateInv, GatewayTypeOK
<1>2. ASSUME Past(task[h]), task'[h].socket = task[h].socket
      PROVE  client'[task'[h].socket] # "open"
  <2>1. task[h].socket \in Sockets
    BY <1>2, CallerTypes DEF GatewayInv, SocketTasks, ClosureTasks
  <2> QED BY <1>2, <2>1, ClientsStay DEF ClosersInv
<1>3. ASSUME NEW g \in Callers, NEW t, Run(g, t), ~Past(t) \/ (Past(task[g]) /\ t.socket = task[g].socket)
      PROVE  client'[task'[h].socket] # "open"
  <2>1. CASE h = g
    BY <1>1, <1>2, <1>3, <2>1 DEF Run
  <2>2. CASE h # g
    BY <1>1, <1>2, <1>3, <2>2 DEF Run
  <2> QED BY <2>1, <2>2
<1>4. ASSUME NEW g \in Callers, NEW pc \in {"resolve", "write", "close", "shut"}, NEW k, Run(g, At(pc, k))
      PROVE  client'[task'[h].socket] # "open"
  BY <1>3, <1>4 DEF At
<1>5. ASSUME NEW g \in Callers, Run(g, Idle) PROVE client'[task'[h].socket] # "open"
  BY <1>3, <1>5 DEF Idle
<1>6. ASSUME task' = task PROVE client'[task'[h].socket] # "open"
  BY <1>2, <1>6
<1>7. ASSUME NEW g \in Callers, task[g] \in HandleTasks, NEW t \in HandleTasks, Run(g, t)
      PROVE  client'[task'[h].socket] # "open"
  BY <1>3, <1>7 DEF HandleTasks
<1>8. ASSUME NEW g \in Callers, Shut(g) \/ ClosureShut(g) PROVE client'[task'[h].socket] # "open"
  <2>1. /\ task[g].socket \in Sockets /\ ShutClient(task[g].socket)
        /\ task[g] \in SocketTasks \cup ClosureTasks
    BY <1>8, CallerTypes DEF Shut, ClosureShut, GatewayInv, SocketTasks, ClosureTasks
  <2>2. client'[task[g].socket] # "open"
    BY <2>1, ShutSettles DEF GatewayInv
  <2>3. task'[g].socket = task[g].socket
    BY <1>1, <1>8, <2>1 DEF Shut, ClosureShut, Run, At, SocketTasks, ClosureTasks
  <2>4. h # g => task'[h] = task[h]
    BY <1>1, <1>8 DEF Shut, ClosureShut, Run
  <2> QED BY <1>2, <2>2, <2>3, <2>4
<1>9. ASSUME NEW g \in Callers, BroadcastClosed(g) PROVE client'[task'[h].socket] # "open"
  BY <1>3, <1>9 DEF BroadcastClosed, At
<1>10. ASSUME NEW g \in Callers, Unmap(g) \/ ClosureUnmap(g) \/ Deliver(g)
       PROVE  client'[task'[h].socket] # "open"
  BY <1>5, <1>10 DEF Unmap, ClosureUnmap, Deliver
<1>11. ASSUME NEW g \in Callers, Untrack(g) PROVE client'[task'[h].socket] # "open"
  BY <1>4, <1>5, <1>11 DEF Untrack
<1>12. ASSUME NEW g \in Callers, RejectSlow(g) PROVE client'[task'[h].socket] # "open"
  BY <1>4, <1>12 DEF RejectSlow
<1>13. ASSUME NEW g \in Callers, Track(g) \/ Map(g) \/ FailSend(g) \/ UnsetAndRetry(g)
       PROVE  client'[task'[h].socket] # "open"
  <2>1. task[g] \in HandleTasks
    BY <1>13, CallerTypes DEF Track, Map, FailSend, UnsetAndRetry, GatewayInv
  <2>2. \A i, isNew : \A t : t = [task[g] EXCEPT !.pc = "send", !.instance = i, !.isNew = isNew]
                         => ~Past(t)
    BY <2>1 DEF HandleTasks
  <2>3. \A t : t = [task[g] EXCEPT !.pc = "map"] => ~Past(t)
    BY <2>1 DEF HandleTasks
  <2>4. \A t, f : t = [task[g] EXCEPT !.pc = "unset", !.failed = f] => ~Past(t)
    BY <2>1 DEF HandleTasks
  <2>5. CASE Track(g)
    BY <1>3, <2>3, <2>5 DEF Track
  <2>6. CASE Map(g)
    BY <1>3, <1>4, <2>2, <2>6 DEF Map
  <2>7. CASE FailSend(g)
    BY <1>3, <2>4, <2>7 DEF FailSend
  <2>8. CASE UnsetAndRetry(g)
    BY <1>3, <1>4, <2>3, <2>8 DEF UnsetAndRetry
  <2> QED BY <1>13, <2>5, <2>6, <2>7, <2>8
<1>14. ASSUME NEW g \in Callers, Resolve(g) \/ WriteSocket(g) \/ FailWrite(g)
       PROVE  client'[task'[h].socket] # "open"
  <2>1. CASE Resolve(g)
    BY <1>3, <1>5, <2>1 DEF Resolve, Handling
  <2>2. CASE WriteSocket(g) \/ FailWrite(g)
    BY <1>4, <1>5, <2>2 DEF WriteSocket, FailWrite
  <2> QED BY <1>14, <2>1, <2>2
<1>15. ASSUME NEW k \in Sockets, PruneNext(k) PROVE client'[task'[h].socket] # "open"
  BY <1>4, <1>15 DEF PruneNext, Callers
<1>16. CASE Connect
  <2>1. task'[h] = IF "stale" \in DOMAIN task[h] THEN [task[h] EXCEPT !.stale = TRUE] ELSE task[h]
    BY <1>16 DEF Connect
  <2>2. task'[h].pc = task[h].pc /\ (task[h] # Idle => task'[h].socket = task[h].socket)
    BY <1>1, <2>1, StaleTask
  <2> QED BY <1>2, <2>2 DEF Idle
<1>17. ASSUME NEW i \in Instances, handleServiceAnnouncement(i)
       PROVE  client'[task'[h].socket] # "open"
  <2>1. task'[h] = IF "failed" \in DOMAIN task[h] /\ i \notin Registered
                   THEN [task[h] EXCEPT !.failed = @ \ {i}] ELSE task[h]
    BY <1>17 DEF handleServiceAnnouncement
  <2>2. task'[h].pc = task[h].pc /\ (task[h] # Idle => task'[h].socket = task[h].socket)
    BY <1>1, <2>1, ForgivingTask
  <2> QED BY <1>2, <2>2 DEF Idle
<1>18. ASSUME \/ Interrupt \/ CloseIndex \/ CloseAllSockets \/ Disconnected \/ Prune \/ TimePasses
              \/ \E k \in Sockets : CloseOrphan(k)
              \/ \E k \in Sockets : CloseBroadcast(k) \/ \E i \in Instances : Heartbeat(i, k)
              \/ \E i \in Instances : ConnectionsEnd(i)
              \/ UNCHANGED vars
       PROVE  client'[task'[h].socket] # "open"
  <2>1. task' = task
    BY <1>18 DEF Interrupt, CloseIndex, CloseAllSockets, Disconnected, Prune, TimePasses,
                 CloseOrphan, CloseBroadcast, Heartbeat, ConnectionsEnd, vars, gatewayVars
  <2> QED BY <1>6, <2>1
<1>19. ASSUME NEW g \in Callers, Continue(g) PROVE client'[task'[h].socket] # "open"
  BY <1>8, <1>9, <1>10, <1>11, <1>12, <1>13, <1>14, <1>19
     DEF Continue, HandleStep, CloseSocketStep
<1>20. Goroutines \subseteq Callers /\ Workers \subseteq Callers
  BY DEF Callers
<1>21. ASSUME NEW g \in Goroutines, NEW k \in Sockets, Receive(g, k) \/ HandleClose(g, k)
       PROVE  client'[task'[h].socket] # "open"
  BY <1>4, <1>20, <1>21 DEF Receive, HandleClose
<1>22. ASSUME NEW w \in Workers, NEW k \in Sockets, handleGatewayMessage(w, k)
       PROVE  client'[task'[h].socket] # "open"
  BY <1>4, <1>20, <1>22 DEF handleGatewayMessage
<1>23. ASSUME NEW g \in Goroutines, NEW n \in notices, handleSocketClosure(g, n)
       PROVE  client'[task'[h].socket] # "open"
  BY <1>3, <1>5, <1>20, <1>23 DEF handleSocketClosure
<1>24. ASSUME NEW w \in Workers, WriteSocket(w) PROVE client'[task'[h].socket] # "open"
  BY <1>14, <1>20, <1>24
<1> QED BY <1>15, <1>16, <1>17, <1>18, <1>19, <1>21, <1>22, <1>23, <1>24 DEF Next, StopStep

\* With the invariant of the gateway: whoever unmaps a socket has closed it.
PinInv == GatewayInv /\ ClosersInv

THEOREM PinsAreConsistent == Spec => []PinInv
<1>1. Init => PinInv
  <2>1. Init => ClosersInv
    BY DEF Init, ClosersInv, Idle
  <2> QED BY <2>1, InitGateway DEF PinInv
<1>2. PinInv /\ [Next]_vars => PinInv'
  BY ClosersNext, GatewayStep DEF PinInv
<1> QED BY <1>1, <1>2, PTL DEF Spec

\* A client keeps its instance until the instance leaves the index or the client
\* disconnects, whatever handlers, closures and prunes do meanwhile: the part of
\* README.md:247 that holds (gateway.go:385-410, gateway-service-indexer.go:90-111).
THEOREM PinsEndOnlyForAReason == Spec => PinsEndForAReason
<1>1. ASSUME PinInv, [Next]_vars, NEW k \in Sockets, NEW n \in Services,
             socketToInstance[k][n] # NoInstance,
             socketToInstance'[k][n] # socketToInstance[k][n]
      PROVE  socketToInstance[k][n] \notin Registered' \/ client'[k] # "open"
  <2>1. ASSUME NEW g \in Callers, Unmaps(g, k) PROVE client'[k] # "open"
    <3>1. client[k] # "open"
      BY <1>1, <2>1 DEF Unmaps, Does, PinInv, ClosersInv
    <3> QED BY <1>1, <3>1, ClientsStay DEF PinInv
  <2> QED BY <1>1, <2>1, PinChanges DEF PinInv
<1>2. PinInv /\ [Next]_vars =>
        [\A k \in Sockets, n \in Services :
          LET i == socketToInstance[k][n]
          IN  i # NoInstance /\ socketToInstance'[k][n] # i =>
                  i \notin Registered' \/ client'[k] # "open"]_vars
  BY <1>1
<1> QED BY <1>2, PinsAreConsistent, PTL DEF Spec, PinsEndForAReason

-----------------------------------------------------------------------------
(***************************************************************************)
(* Who puts a socket into the map, who takes it from there, and whose      *)
(* clients are gone.                                                       *)
(***************************************************************************)
\* Only Handle puts a socket into the map.
LEMMA OnlyTrackTracks ==
    ASSUME [Next]_vars, NEW k, k \in sockets', k \notin sockets
    PROVE  \E g \in Callers : Track(g) /\ task[g].socket = k
<1>1. ASSUME NEW g \in Callers, Track(g) PROVE Track(g) /\ task[g].socket = k
  BY <1>1 DEF Track
<1> QED BY <1>1
     DEF Next, StopStep, Continue, HandleStep, CloseSocketStep, Connect, Interrupt, CloseIndex,
         CloseAllSockets, CloseOrphan, Disconnected, Receive, HandleClose, handleSocketClosure,
         WriteSocket, FailWrite, handleGatewayMessage, Resolve, Map, Deliver, RejectSlow,
         FailSend, UnsetAndRetry, Untrack, Shut, BroadcastClosed, Unmap, ClosureShut,
         ClosureUnmap, handleServiceAnnouncement, Prune, PruneNext, CloseBroadcast, Heartbeat,
         ConnectionsEnd, TimePasses, vars, gatewayVars, outsideVars

\* A client goes with its HandleClose.
LEMMA OnlyHandleCloseEnds ==
    ASSUME GatewayInv, [Next]_vars, NEW k \in Sockets, client[k] # "gone", client'[k] = "gone"
    PROVE  \E g \in Goroutines : HandleClose(g, k)
<1>1. client \in [Sockets -> {"open", "closed", "gone"}]
  BY DEF GatewayInv, StateInv, GatewayTypeOK
<1>2. ASSUME NEW j, ShutClient(j) PROVE FALSE
  BY <1>1, <1>2 DEF ShutClient
<1>3. ASSUME NEW g \in Goroutines, NEW j \in Sockets, HandleClose(g, j) PROVE HandleClose(g, k)
  BY <1>1, <1>3 DEF HandleClose
<1> QED BY <1>2, <1>3
     DEF Next, StopStep, Continue, HandleStep, CloseSocketStep, Connect, Interrupt, CloseIndex,
         CloseAllSockets, CloseOrphan, Disconnected, Receive, handleSocketClosure, WriteSocket,
         FailWrite, handleGatewayMessage, Resolve, Track, Map, Deliver, RejectSlow, FailSend,
         UnsetAndRetry, Untrack, Shut, BroadcastClosed, Unmap, ClosureShut, ClosureUnmap,
         handleServiceAnnouncement, Prune, PruneNext, CloseBroadcast, Heartbeat,
         ConnectionsEnd, TimePasses, vars, gatewayVars, outsideVars

\* A caller that is to close a socket takes it from the map.
LEMMA CloseUntracks ==
    ASSUME GatewayInv, [Next]_vars, NEW h \in Callers, NEW k, Does(task[h], k, {"close"})
    PROVE  Does(task'[h], k, {"close"}) \/ k \notin sockets'
<1> DEFINE Goal == Does(task'[h], k, {"close"}) \/ k \notin sockets'
<1>1. task \in [Callers -> Tasks] /\ task[h] \in SocketTasks
  BY CallerTypes DEF GatewayInv, StateInv, GatewayTypeOK, Does
<1>2. ASSUME task'[h] = task[h] PROVE Goal
  BY <1>2
<1>3. ASSUME NEW g \in Callers \ {h}, NEW t, Run(g, t) PROVE Goal
  BY <1>1, <1>2, <1>3 DEF Run
<1>4. ASSUME NEW g \in Callers, HandleStep(g) \/ WriteSocket(g) \/ FailWrite(g) PROVE Goal
  <2>1. g # h /\ \E t : Run(g, t)
    BY <1>4 DEF HandleStep, Resolve, Track, Map, Deliver, RejectSlow, FailSend, UnsetAndRetry,
                WriteSocket, FailWrite, Does
  <2> QED BY <1>3, <2>1
<1>5. ASSUME NEW g \in Callers, Untrack(g) PROVE Goal
  <2>1. CASE g = h
    BY <1>5, <2>1 DEF Untrack, Does
  <2>2. CASE g # h
    BY <1>3, <1>5, <2>2 DEF Untrack
  <2> QED BY <2>1, <2>2
<1>6. ASSUME NEW g \in Callers, \/ Shut(g) \/ BroadcastClosed(g) \/ Unmap(g)
                                \/ ClosureShut(g) \/ ClosureUnmap(g)
      PROVE  Goal
  <2>1. g # h /\ \E t : Run(g, t)
    BY <1>6 DEF Shut, BroadcastClosed, Unmap, ClosureShut, ClosureUnmap, Does
  <2> QED BY <1>3, <2>1
<1>7. ASSUME NEW g \in Callers,
             \/ \E j \in Sockets : Receive(g, j) \/ HandleClose(g, j) \/ handleGatewayMessage(g, j)
             \/ \E n \in notices : handleSocketClosure(g, n)
      PROVE  Goal
  <2>1. g # h /\ \E t : Run(g, t)
    BY <1>7 DEF Receive, HandleClose, handleGatewayMessage, handleSocketClosure, Does
  <2> QED BY <1>3, <2>1
<1>8. ASSUME NEW j \in Sockets, PruneNext(j) PROVE Goal
  <2>1. Pruner # h /\ Pruner \in Callers /\ \E t : Run(Pruner, t)
    BY <1>8 DEF PruneNext, Does, Callers
  <2> QED BY <1>3, <2>1
<1>9. CASE Connect
  <2>1. "stale" \notin DOMAIN task[h]
    BY <1>1 DEF SocketTasks
  <2> QED BY <1>2, <1>9, <2>1 DEF Connect
<1>10. ASSUME NEW i \in Instances, handleServiceAnnouncement(i) PROVE Goal
  <2>1. "failed" \notin DOMAIN task[h]
    BY <1>1 DEF SocketTasks
  <2> QED BY <1>2, <1>10, <2>1 DEF handleServiceAnnouncement
<1>11. ASSUME \/ Interrupt \/ StopStep \/ Prune \/ TimePasses \/ UNCHANGED vars
              \/ \E j \in Sockets : CloseBroadcast(j) \/ \E i \in Instances : Heartbeat(i, j)
              \/ \E i \in Instances : ConnectionsEnd(i)
       PROVE  Goal
  BY <1>2, <1>11 DEF Interrupt, StopStep, CloseIndex, CloseAllSockets, CloseOrphan,
                     Disconnected, Prune, TimePasses, CloseBroadcast, Heartbeat,
                     ConnectionsEnd, vars, gatewayVars
<1> QED BY <1>4, <1>5, <1>6, <1>7, <1>8, <1>9, <1>10, <1>11
        DEF Next, Continue, CloseSocketStep, Callers

\* The socket is tracked, and its HandleClose has yet to take it from the map.
WillBeTaken(k) == k \in sockets /\ (client[k] # "gone" \/ Busy(k, {"close"}) # {})

\* Nobody is excused from that while the socket is tracked.
LEMMA TakenOrKept ==
    ASSUME GatewayInv, [Next]_vars, NEW k \in Sockets, WillBeTaken(k), k \in sockets'
    PROVE  WillBeTaken(k)'
<1>1. CASE client'[k] # "gone"
  BY <1>1 DEF WillBeTaken
<1>2. CASE client[k] = "gone"
  <2>1. PICK g \in Callers : Does(task[g], k, {"close"})
    BY <1>2 DEF WillBeTaken, Busy, Does
  <2> QED BY <2>1, CloseUntracks DEF WillBeTaken, Busy, Does
<1>3. CASE client[k] # "gone" /\ client'[k] = "gone"
  <2>1. PICK g \in Goroutines : HandleClose(g, k)
    BY <1>3, OnlyHandleCloseEnds
  <2>2. g \in Callers /\ task'[g] = At("close", k)
    BY <2>1 DEF HandleClose, Run, Callers, GatewayInv, StateInv, GatewayTypeOK
  <2>3. Does(task'[g], k, {"close"})
    BY <2>2 DEF Does, At, Idle
  <2> QED BY <2>2, <2>3 DEF WillBeTaken, Busy, Does
<1> QED BY <1>1, <1>2, <1>3

\* The one way to a client that is gone and stays in the map, where heartbeats find it:
\* its Handle gets to the map after HandleClose was called (gateway.go:275-278, 324-327).
THEOREM OnlyLateHandlesKeepClients == Spec => OnlyLateHandlesKeep
<1>1. ASSUME GatewayInv, [Next]_vars, NEW k \in Sockets, ~Kept(k), Kept(k)'
      PROVE  client[k] = "gone" /\ \E g \in Busy(k, {"track"}) : task'[g].pc = "map"
  <2>1. k \in sockets' /\ client'[k] = "gone" /\ ~WillBeTaken(k)'
    BY <1>1 DEF Kept, WillBeTaken
  <2>2. k \notin sockets
    BY <1>1, <2>1, TakenOrKept DEF Kept, WillBeTaken
  <2>3. PICK g \in Callers : Track(g) /\ task[g].socket = k
    BY <1>1, <2>1, <2>2, OnlyTrackTracks
  <2>4. task[g] \in HandleTasks /\ task[g].pc = "track"
    BY <1>1, <2>3, CallerTypes DEF Track, GatewayInv
  <2>5. task'[g] = [task[g] EXCEPT !.pc = "map"] /\ client' = client
    BY <1>1, <2>3 DEF Track, Run, outsideVars, GatewayInv, StateInv, GatewayTypeOK
  <2>6. task'[g].pc = "map"
    BY <2>4, <2>5 DEF HandleTasks
  <2>7. g \in Busy(k, {"track"})
    BY <2>3, <2>4 DEF Busy, Idle
  <2> QED BY <2>1, <2>5, <2>6, <2>7
<1>2. GatewayInv /\ [Next]_vars =>
        [\A k \in Sockets :
          ~Kept(k) /\ Kept(k)' =>
              client[k] = "gone" /\ \E g \in Busy(k, {"track"}) : task'[g].pc = "map"]_vars
  BY <1>1
<1> QED BY <1>2, GatewayIsConsistent, PTL DEF Spec, OnlyLateHandlesKeep

-----------------------------------------------------------------------------
(***************************************************************************)
(* Which pins nobody will remove.                                          *)
(***************************************************************************)
\* A caller with task t took socket k from the map and has yet to unmap it.
Unmapper(t, k) ==
    \/ Does(t, k, {"shut", "broadcast", "unmap"})
    \/ Does(t, k, {"closureShut", "closureUnmap"}) /\ ~t.stale

LEMMA WillBeUnmappedByTask ==
    ASSUME NEW k
    PROVE  /\ WillBeUnmapped(k) <=> \/ WillBeTaken(k) \/ k \in orphans
                                   \/ \E g \in Callers : Unmapper(task[g], k)
           /\ WillBeUnmapped(k)' <=> \/ WillBeTaken(k)' \/ k \in orphans'
                                    \/ \E g \in Callers : Unmapper(task'[g], k)
BY DEF WillBeUnmapped, WillBeTaken, Busy, Unmapper, Does

\* Who is to unmap a socket does so, or hands it to somebody who is.
LEMMA RunUnmapper ==
    ASSUME GatewayInv, [Next]_vars, NEW g \in Callers, NEW t, Run(g, t),
           NEW k \in Sockets, WillBeUnmapped(k), orphans' = orphans,
           k \in sockets => k \in sockets' \/ Unmapper(t, k),
           Unmapper(task[g], k) => Unmapper(t, k) \/ k \notin PinnedTo(Instances)'
    PROVE  WillBeUnmapped(k)' \/ k \notin PinnedTo(Instances)'
<1>1. task'[g] = t /\ \A h \in Callers \ {g} : task'[h] = task[h]
  BY DEF GatewayInv, StateInv, GatewayTypeOK, Run
<1>2. CASE k \in orphans
  BY <1>2, WillBeUnmappedByTask
<1>3. CASE WillBeTaken(k)
  <2>1. k \in sockets' => WillBeTaken(k)'
    BY <1>3, TakenOrKept
  <2>2. k \in sockets
    BY <1>3 DEF WillBeTaken
  <2> QED BY <1>1, <2>1, <2>2, WillBeUnmappedByTask
<1>4. ASSUME NEW h \in Callers, Unmapper(task[h], k)
      PROVE  WillBeUnmapped(k)' \/ k \notin PinnedTo(Instances)'
  <2>1. CASE h = g
    BY <1>1, <1>4, <2>1, WillBeUnmappedByTask
  <2>2. CASE h # g
    BY <1>1, <1>4, <2>2, WillBeUnmappedByTask
  <2> QED BY <2>1, <2>2
<1> QED BY <1>2, <1>3, <1>4, WillBeUnmappedByTask

\* What is to be unmapped stays so until it has no pin, or the callback of an old
\* run takes it.
LEMMA UnmappersStay ==
    ASSUME GatewayInv, [Next]_vars, NEW k \in Sockets, WillBeUnmapped(k)
    PROVE  \/ WillBeUnmapped(k)'
           \/ k \notin PinnedTo(Instances)'
           \/ \E g \in Callers : TakenByOldRun(g, k)
<1> DEFINE Goal == \/ WillBeUnmapped(k)'
                   \/ k \notin PinnedTo(Instances)'
                   \/ \E g \in Callers : TakenByOldRun(g, k)
<1>1. StateInv /\ IndexInv /\ (closed => Registered = {})
  BY DEF GatewayInv, StateInv
<1>2. CASE Connect \/ CloseIndex
  <2>1. Clear /\ closed' \in BOOLEAN
    BY <1>2 DEF Connect, CloseIndex, Close
  <2> QED BY <2>1, ClearCall
<1>3. ASSUME NEW j \in Sockets, CloseOrphan(j) PROVE Goal
  <2>1. closed /\ UnmapSocket(j)
    BY <1>3 DEF CloseOrphan, GatewayInv, StateInv
  <2>2. PinnedTo(Instances)' = PinnedTo(Instances)
    BY <2>1 DEF UnmapSocket, WhenClosed, indexVars, PinnedTo
  <2> QED BY <1>1, <2>1, <2>2, ClosedUnpins
<1>4. CASE CloseAllSockets
  <2>1. orphans = {} /\ orphans' = sockets /\ task' = task
    BY <1>4 DEF CloseAllSockets, GatewayInv, StateInv
  <2> QED BY <2>1, WillBeUnmappedByTask DEF WillBeTaken
<1>5. ASSUME NEW g \in Callers, HandleStep(g) \/ WriteSocket(g) \/ FailWrite(g) PROVE Goal
  <2>1. ~Unmapper(task[g], k)
    BY <1>5 DEF HandleStep, Resolve, Track, Map, Deliver, RejectSlow, FailSend, UnsetAndRetry,
                WriteSocket, FailWrite, Unmapper, Does
  <2>2. sockets \subseteq sockets' /\ orphans' = orphans
    BY <1>5 DEF HandleStep, Resolve, Track, Map, Deliver, RejectSlow, FailSend, UnsetAndRetry,
                WriteSocket, FailWrite
  <2>3. \E t : Run(g, t)
    BY <1>5 DEF HandleStep, Resolve, Track, Map, Deliver, RejectSlow, FailSend, UnsetAndRetry,
                WriteSocket, FailWrite
  <2> QED BY <2>1, <2>2, <2>3, RunUnmapper
<1>6. ASSUME NEW g \in Callers, Untrack(g) PROVE Goal
  <2>1. ~Unmapper(task[g], k) /\ orphans' = orphans /\ sockets' = sockets \ {task[g].socket}
    BY <1>6 DEF Untrack, Unmapper, Does
  <2>2. PICK t : /\ t = IF task[g].socket \in sockets THEN At("shut", task[g].socket) ELSE Idle
                 /\ Run(g, t)
    BY <1>6 DEF Untrack
  <2>3. k \in sockets => k \in sockets' \/ Unmapper(t, k)
    BY <2>1, <2>2 DEF Unmapper, Does, At, Idle
  <2> QED BY <2>1, <2>2, <2>3, RunUnmapper
<1>7. ASSUME NEW g \in Callers, Shut(g) \/ BroadcastClosed(g) PROVE Goal
  <2>1. UNCHANGED <<sockets, orphans>>
    BY <1>7 DEF Shut, BroadcastClosed
  <2>2. PICK pc \in {"broadcast", "unmap"} : Run(g, At(pc, task[g].socket))
    BY <1>7 DEF Shut, BroadcastClosed
  <2>3. Unmapper(task[g], k) => Unmapper(At(pc, task[g].socket), k)
    BY <1>7 DEF Unmapper, Does, At, Idle, Shut, BroadcastClosed
  <2> QED BY <2>1, <2>2, <2>3, RunUnmapper
<1>8. ASSUME NEW g \in Callers, ClosureShut(g) PROVE Goal
  <2>1. UNCHANGED <<sockets, orphans>>
    BY <1>8 DEF ClosureShut
  <2>2. PICK t : t = [task[g] EXCEPT !.pc = "closureUnmap"] /\ Run(g, t)
    BY <1>8 DEF ClosureShut
  <2>3. t.pc = "closureUnmap" /\ t.socket = task[g].socket /\ t.stale = task[g].stale
    BY <1>1, <1>8, <2>2, CallerTypes DEF ClosureShut, ClosureTasks
  <2>4. Unmapper(task[g], k) => Unmapper(t, k)
    BY <1>8, <2>3 DEF Unmapper, Does, Idle, ClosureShut
  <2> QED BY <2>1, <2>2, <2>4, RunUnmapper
<1>9. ASSUME NEW g \in Callers, Unmap(g) \/ ClosureUnmap(g) PROVE Goal
  <2>1. UNCHANGED <<sockets, orphans>> /\ Run(g, Idle)
    BY <1>9 DEF Unmap, ClosureUnmap
  <2>2. Unmapper(task[g], k) => UnmapSocket(k)
    BY <1>9 DEF Unmapper, Does, Unmap, ClosureUnmap
  <2> QED BY <1>1, <2>1, <2>2, UnmapUnpins, RunUnmapper
<1>10. ASSUME NEW g \in Callers, NEW j \in Sockets,
              Receive(g, j) \/ HandleClose(g, j) \/ handleGatewayMessage(g, j)
       PROVE  Goal
  <2>1. ~Unmapper(task[g], k) /\ UNCHANGED <<sockets, orphans>>
    BY <1>10 DEF Receive, HandleClose, handleGatewayMessage, Unmapper, Does
  <2>2. \E t : Run(g, t)
    BY <1>10 DEF Receive, HandleClose, handleGatewayMessage
  <2> QED BY <2>1, <2>2, RunUnmapper
<1>11. ASSUME NEW g \in Goroutines, NEW n \in notices, handleSocketClosure(g, n) PROVE Goal
  <2>1. /\ g \in Callers /\ task[g] = Idle /\ ~Unmapper(task[g], k)
        /\ orphans' = orphans /\ sockets' = sockets \ {n.socket}
        /\ n.stale \in BOOLEAN
    BY <1>1, <1>11 DEF handleSocketClosure, Unmapper, Does, Callers, StateInv, GatewayTypeOK
  <2>2. PICK t : /\ t = IF n.socket \in sockets
                        THEN [pc |-> "closureShut", socket |-> n.socket, stale |-> n.stale]
                        ELSE Idle
                 /\ Run(g, t)
    BY <1>11 DEF handleSocketClosure
  <2>3. CASE k \in sockets /\ k = n.socket /\ n.stale
    <3>1. task'[g] = t
      BY <1>1, <2>1, <2>2 DEF Run, StateInv, GatewayTypeOK
    <3> QED BY <2>1, <2>2, <2>3, <3>1 DEF TakenByOldRun
  <2>4. CASE ~(k \in sockets /\ k = n.socket /\ n.stale)
    <3>1. k \in sockets => k \in sockets' \/ Unmapper(t, k)
      BY <2>1, <2>2, <2>4 DEF Unmapper, Does, Idle
    <3> QED BY <2>1, <2>2, <3>1, RunUnmapper
  <2> QED BY <2>3, <2>4
<1>12. ASSUME NEW i \in Instances, handleServiceAnnouncement(i) PROVE Goal
  <2>1. UNCHANGED <<sockets, orphans>>
    BY <1>12 DEF handleServiceAnnouncement
  <2>2. ASSUME NEW g \in Callers, Unmapper(task[g], k) PROVE Unmapper(task'[g], k)
    <3>1. task[g] \in SocketTasks \cup ClosureTasks
      BY <1>1, <2>2, CallerTypes DEF Unmapper, Does
    <3>2. "failed" \notin DOMAIN task[g]
      BY <3>1 DEF SocketTasks, ClosureTasks
    <3>3. task'[g] = task[g]
      BY <1>12, <3>2 DEF handleServiceAnnouncement
    <3> QED BY <2>2, <3>3
  <2>3. WillBeTaken(k) => WillBeTaken(k)'
    BY <2>1, TakenOrKept DEF WillBeTaken
  <2> QED BY <2>1, <2>2, <2>3, WillBeUnmappedByTask
<1>13. ASSUME NEW j \in Sockets, PruneNext(j) PROVE Goal
  <2>1. /\ Pruner \in Callers /\ ~Unmapper(task[Pruner], k) /\ UNCHANGED <<sockets, orphans>>
        /\ Run(Pruner, At("close", j))
    BY <1>13 DEF PruneNext, Unmapper, Does, Callers
  <2> QED BY <2>1, RunUnmapper
<1>14. ASSUME \/ Interrupt \/ Disconnected \/ Prune \/ TimePasses \/ UNCHANGED vars
              \/ \E j \in Sockets : CloseBroadcast(j) \/ \E i \in Instances : Heartbeat(i, j)
              \/ \E i \in Instances : ConnectionsEnd(i)
       PROVE  Goal
  <2>1. UNCHANGED <<task, sockets, orphans>>
    BY <1>14 DEF Interrupt, Disconnected, Prune, TimePasses, CloseBroadcast, Heartbeat,
                 ConnectionsEnd, vars, gatewayVars
  <2>2. WillBeTaken(k) => WillBeTaken(k)'
    BY <2>1, TakenOrKept DEF WillBeTaken
  <2> QED BY <2>1, <2>2, WillBeUnmappedByTask
<1> QED BY <1>2, <1>3, <1>4, <1>5, <1>6, <1>7, <1>8, <1>9, <1>10, <1>11, <1>12, <1>13, <1>14
        DEF Next, StopStep, Continue, CloseSocketStep, Callers

\* The ways to a load that nobody is bound to remove: MapSocket comes after somebody
\* took the socket from the map, or for a client whose HandleClose was called before its
\* Handle tracked it; or the callback of an old run takes the socket and unmaps it from
\* the index of that run (gateway.go:109-111, 216-217, 275-283).
THEOREM OnlyRacesStrandPins == Spec => OnlyRacesStrand
<1>1. ASSUME GatewayInv, [Next]_vars, NEW k \in Sockets, ~Stranded(k), Stranded(k)'
      PROVE  \E g \in Callers : MappedLate(g, k) \/ TakenByOldRun(g, k)
  <2>1. k \in PinnedTo(Instances)' /\ ~WillBeUnmapped(k)'
    BY <1>1 DEF Stranded
  <2>2. CASE k \in PinnedTo(Instances)
    BY <1>1, <2>1, <2>2, UnmappersStay DEF Stranded
  <2>3. CASE k \notin PinnedTo(Instances)
    <3>1. PICK n \in Services : socketToInstance'[k][n] \in Instances
      BY <2>1 DEF PinnedTo
    <3>2. socketToInstance'[k][n] # socketToInstance[k][n]
      BY <2>3, <3>1 DEF PinnedTo
    <3>3. PICK g \in Callers : Pins(g, k)
      BY <1>1, <3>1, <3>2, PinChanges, NoInstanceAssumption
    <3>4. k \notin sockets \/ client[k] = "gone"
      BY <2>1, <3>3 DEF Pins, WillBeUnmapped
    <3> QED BY <3>3, <3>4 DEF Pins, Does, Busy, MappedLate
  <2> QED BY <2>2, <2>3
<1>2. GatewayInv /\ [Next]_vars =>
        [\A k \in Sockets :
          ~Stranded(k) /\ Stranded(k)' =>
              \E g \in Callers : MappedLate(g, k) \/ TakenByOldRun(g, k)]_vars
  BY <1>1
<1> QED BY <1>2, GatewayIsConsistent, PTL DEF Spec, OnlyRacesStrand

=============================================================================
