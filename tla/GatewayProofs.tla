----------------------------- MODULE GatewayProofs -----------------------------
(***************************************************************************)
(* Proofs about Gateway, for any numbers of goroutines, services,          *)
(* instances and sockets.                                                  *)
(*                                                                         *)
(* The argument about sockets is one: a socket that anything depends on    *)
(* (a handler past its Track, a pin, a connection, the list of a prune) is *)
(* accounted for (tracked, disconnected, or on its way to be), and a       *)
(* socket that is accounted for stays so.                                  *)
(***************************************************************************)
EXTENDS Gateway, GatewayServiceIndexerProofs

HandleTasks ==
    [pc : {"track", "map", "send", "unset"}, socket : Sockets,
     service : Services, instance : Instances \cup {NoInstance},
     isNew : BOOLEAN, stale : BOOLEAN, failed : SUBSET Instances]

SocketTasks ==
    [pc : {"resolve", "write", "close", "shut", "broadcast", "unmap"}, socket : Sockets]

ClosureTasks ==
    [pc : {"closureShut", "closureUnmap"}, socket : Sockets, stale : BOOLEAN]

\* Task t is about socket k and at one of the points pcs.
Does(t, k, pcs) == t # Idle /\ t.socket = k /\ t.pc \in pcs

\* What every other part of the invariant needs of the state.
StateInv ==
    /\ GatewayTypeOK
    /\ IndexInv
    /\ phase \in {"running", "stopping"} <=> ~closed
    /\ closed => Registered = {}
    /\ phase # "draining" => orphans = {}

\* Something depends on socket k.
Committed(k) ==
    \/ \E g \in Callers : Does(task[g], k, {"map", "send", "unset", "write", "close"})
    \/ k \in toClose
    \/ k \in PinnedTo(Instances)
    \/ \E i \in Instances : <<i, k>> \in connections

\* Socket k is tracked, disconnected, or about to be disconnected.
Accounted(k) == k \in sockets \/ client[k] # "open" \/ BeingClosed(k)

AccountedInv == \A k \in Sockets : Committed(k) => Accounted(k)

\* Between its FailSend and its UnsetAndRetry a call may know of one failed
\* instance that is still registered; a call with an old index knows nothing.
SoundCall(t) ==
    /\ ~t.stale => t.failed \cap Registered \subseteq
                      (IF t.pc = "unset" THEN {t.instance} ELSE {})
    /\ t.pc = "send" => t.instance \notin t.failed
    /\ t.pc \in {"send", "unset"} => t.instance \in Instances

CallsInv == \A g \in Callers : task[g] \in HandleTasks => SoundCall(task[g])

GatewayInv ==
    /\ StateInv
    /\ AccountedInv
    /\ CallsInv
    /\ StoppedTracksNothing

-----------------------------------------------------------------------------
\* The task of a caller is told by its pc.
LEMMA TaskKinds ==
    ASSUME NEW t \in Tasks
    PROVE  /\ t.pc \in {"track", "map", "send", "unset"} => t \in HandleTasks
           /\ t.pc \in {"resolve", "write", "close", "shut", "broadcast", "unmap"} => t \in SocketTasks
           /\ t.pc \in {"closureShut", "closureUnmap"} => t \in ClosureTasks
           /\ t.pc = "idle" <=> t = Idle
           /\ t = Idle \/ t.socket \in Sockets
BY DEF Tasks, Idle, HandleTasks, SocketTasks, ClosureTasks

\* The tasks that a step may leave to a caller are tasks.
LEMMA TasksOfCalls ==
    /\ Idle \in Tasks
    /\ HandleTasks \subseteq Tasks /\ SocketTasks \subseteq Tasks /\ ClosureTasks \subseteq Tasks
    /\ \A k \in Sockets, n \in Services : Handling(k, n) \in HandleTasks
    /\ \A pc \in {"resolve", "write", "close", "shut", "broadcast", "unmap"}, k \in Sockets :
          At(pc, k) \in SocketTasks
<1>1. ASSUME NEW k \in Sockets, NEW n \in Services PROVE Handling(k, n) \in HandleTasks
  BY DEF HandleTasks, Handling
<1>2. ASSUME NEW pc \in {"resolve", "write", "close", "shut", "broadcast", "unmap"}, NEW k \in Sockets
      PROVE  At(pc, k) \in SocketTasks
  BY DEF SocketTasks, At
<1>3. Idle \in Tasks /\ HandleTasks \subseteq Tasks /\ SocketTasks \subseteq Tasks
      /\ ClosureTasks \subseteq Tasks
  BY DEF Tasks, HandleTasks, SocketTasks, ClosureTasks
<1> QED BY <1>1, <1>2, <1>3

\* Replacing the index changes nothing else of a call.
LEMMA StaleTask ==
    ASSUME NEW t \in Tasks, "stale" \in DOMAIN t
    PROVE  /\ [t EXCEPT !.stale = TRUE] \in Tasks
           /\ [t EXCEPT !.stale = TRUE].pc = t.pc
           /\ [t EXCEPT !.stale = TRUE].socket = t.socket
<1>1. CASE t \in HandleTasks
  BY <1>1 DEF HandleTasks, Tasks
<1>2. CASE t \in ClosureTasks
  BY <1>2 DEF ClosureTasks, Tasks
<1> QED BY <1>1, <1>2 DEF Tasks, Idle, HandleTasks, ClosureTasks

\* Forgetting that an instance failed changes nothing else of a call.
LEMMA ForgivingTask ==
    ASSUME NEW t \in Tasks, "failed" \in DOMAIN t, NEW i \in Instances
    PROVE  /\ [t EXCEPT !.failed = @ \ {i}] \in Tasks
           /\ [t EXCEPT !.failed = @ \ {i}].pc = t.pc
           /\ [t EXCEPT !.failed = @ \ {i}].socket = t.socket
<1>1. t \in HandleTasks
  BY DEF Tasks, Idle, HandleTasks
<1> QED BY <1>1 DEF HandleTasks, Tasks

-----------------------------------------------------------------------------
(***************************************************************************)
(* What the calls of the index do to the rest of the gateway.              *)
(***************************************************************************)
IndexKept == IndexInv' /\ closed' = closed /\ Registered' \subseteq Registered

PinsKept == PinnedTo(Instances)' \subseteq PinnedTo(Instances)

\* A step that makes no call of the index.
LEMMA NoCall ==
    ASSUME IndexInv, UNCHANGED indexVars
    PROVE  IndexKept /\ PinsKept
<1>1. IndexInv'
  BY IndexNextIsConsistent
<1> QED BY <1>1 DEF IndexKept, PinsKept, Registered, PinnedTo, indexVars

\* unsetServiceLocked only removes.
LEMMA UnregisterCall ==
    ASSUME IndexInv, NEW D \in SUBSET Instances, Unregister(D)
    PROVE  IndexKept /\ PinsKept /\ Registered' = Registered \ D
<1>1. IndexInv'
  BY UnregisterIsConsistent
<1>2. Registered' = Registered \ D
  BY WithoutProperties DEF Unregister, IndexInv, IndexTypeOK, Registered
<1>3. PinsKept
  BY NoInstanceAssumption DEF PinsKept, PinnedTo, Unregister
<1> QED BY <1>1, <1>2, <1>3 DEF IndexKept, Unregister

\* UnsetService drops its instance, unless the index is closed.
LEMMA UnsetCall ==
    ASSUME IndexInv, closed => Registered = {}, NEW i \in Instances, UnsetService(i)
    PROVE  IndexKept /\ PinsKept /\ i \notin Registered'
<1>1. CASE WhenClosed
  BY <1>1, NoCall DEF WhenClosed, IndexKept
<1>2. CASE Unregister({i})
  BY <1>2, UnregisterCall
<1> QED BY <1>1, <1>2 DEF UnsetService

\* PruneStaleServices reports sockets that were pinned.
LEMMA PruneCall ==
    ASSUME IndexInv, NEW affected, PruneStaleServices(affected)
    PROVE  IndexKept /\ PinsKept /\ affected \subseteq PinnedTo(Instances)
<1>1. CASE WhenClosed /\ affected = {}
  BY <1>1, NoCall DEF WhenClosed
<1>2. CASE affected = PinnedTo(Stale) /\ Unregister(Stale)
  <2>1. Stale \in SUBSET Instances
    BY DEF Stale, Registered, ToSet, IndexInv, IndexTypeOK
  <2> QED BY <1>2, <2>1, UnregisterCall DEF PinnedTo
<1> QED BY <1>1, <1>2 DEF PruneStaleServices

\* UnmapSocket only removes.
LEMMA UnmapCall ==
    ASSUME IndexInv, NEW k \in Sockets, UnmapSocket(k)
    PROVE  IndexKept /\ PinsKept
<1>1. IndexInv'
  BY UnmapSocketIsConsistent
<1>2. CASE WhenClosed
  BY <1>2, NoCall DEF WhenClosed
<1>3. CASE ~ WhenClosed
  <2>1. closed' = closed /\ Registered' = Registered
    BY <1>3 DEF UnmapSocket, Registered
  <2>2. socketToInstance' = [socketToInstance EXCEPT ![k] = Unpinned]
    BY <1>3 DEF UnmapSocket
  <2>3. PinsKept
    BY <2>2, NoInstanceAssumption DEF PinsKept, PinnedTo, Unpinned, IndexInv, IndexTypeOK
  <2> QED BY <1>1, <2>1, <2>3 DEF IndexKept
<1> QED BY <1>2, <1>3

\* MapSocket answers with a registered instance and pins only its socket.
LEMMA MapCall ==
    ASSUME IndexInv, NEW n \in Services, NEW k \in Sockets,
           NEW i \in Instances \cup {NoInstance}, NEW isNew \in BOOLEAN,
           MapSocket(n, k, i, isNew)
    PROVE  /\ IndexKept
           /\ PinnedTo(Instances)' \subseteq PinnedTo(Instances) \cup {k}
           /\ i # NoInstance => ~closed /\ i \in Registered
<1>1. IndexInv'
  BY MapSocketIsConsistent
<1>2. CASE UNCHANGED indexVars
  <2>1. IndexKept /\ PinsKept
    BY <1>2, NoCall
  <2>2. i # NoInstance => ~closed /\ i \in InstancesOf(n)
    BY <1>2 DEF MapSocket, MapNothing, MapPinned, MapNew, IndexInv, PinsAreLive, IsTarget,
                InstancesOf, ToSet
  <2> QED BY <2>1, <2>2 DEF PinsKept, IndexInv, RegisteredOnce
<1>3. CASE MapNew(n, k, i, isNew)
  <2>1. closed' = closed /\ Registered' = Registered
    BY <1>3 DEF MapNew, Registered
  <2>2. PinnedTo(Instances)' \subseteq PinnedTo(Instances) \cup {k}
    BY <1>3 DEF MapNew, PinnedTo, IndexInv, IndexTypeOK
  <2>3. ~closed /\ i \in InstancesOf(n)
    BY <1>3 DEF MapNew, IsTarget, InstancesOf, ToSet
  <2> QED BY <1>1, <2>1, <2>2, <2>3 DEF IndexKept, IndexInv, RegisteredOnce
<1> QED BY <1>2, <1>3 DEF MapSocket, MapNothing, MapPinned

\* SetServiceDescriptor registers at most its instance and pins nothing.
LEMMA SetCall ==
    ASSUME IndexInv, NEW i \in Instances, NEW routes \in SUBSET Paths,
           SetServiceDescriptor(i, routes)
    PROVE  /\ IndexInv' /\ PinsKept /\ closed' = closed
           /\ Registered' \subseteq Registered \cup {i}
           /\ closed => Registered' = Registered
<1>1. IndexInv'
  BY SetServiceDescriptorIsConsistent
<1>2. CASE WhenClosed \/ RefreshDescriptor(i, routes)
  BY <1>1, <1>2 DEF WhenClosed, RefreshDescriptor, PinsKept, PinnedTo, Registered, indexVars
<1>3. CASE AddDescriptor(i, routes)
  <2>1. Registered' = Registered \cup {i}
    BY <1>3, AppendToSet DEF AddDescriptor, Registered, IndexInv, IndexTypeOK
  <2> QED BY <1>1, <1>3, <2>1 DEF AddDescriptor, PinsKept, PinnedTo
<1> QED BY <1>2, <1>3 DEF SetServiceDescriptor

\* Time registers nothing and pins nothing.
LEMMA TickCall ==
    ASSUME IndexInv, Tick
    PROVE  IndexKept /\ PinsKept
<1>1. IndexInv'
  BY TickIsConsistent
<1> QED BY <1>1 DEF IndexKept, PinsKept, Tick, Registered, PinnedTo

\* An index that has just been made or closed lists nothing and pins nothing.
LEMMA ClearCall ==
    ASSUME Clear, closed' \in BOOLEAN
    PROVE  IndexInv' /\ Registered' = {} /\ PinnedTo(Instances)' = {}
<1>1. IndexInv'
  BY ClearIsConsistent
<1> QED BY <1>1, NoInstanceAssumption DEF Clear, Registered, ToSet, PinnedTo, Unpinned

-----------------------------------------------------------------------------
(***************************************************************************)
(* What a step of one caller has to show for each part of the invariant.   *)
(***************************************************************************)
\* What a caller's task is about has the right types.
LEMMA CallerTypes ==
    ASSUME StateInv, NEW g \in Callers
    PROVE  /\ task[g] \in Tasks
           /\ task[g].pc \in {"track", "map", "send", "unset"} => task[g] \in HandleTasks
           /\ task[g].pc \in {"resolve", "write", "close", "shut", "broadcast", "unmap"} =>
                 task[g] \in SocketTasks
           /\ task[g].pc \in {"closureShut", "closureUnmap"} => task[g] \in ClosureTasks
           /\ task[g].pc = "idle" <=> task[g] = Idle
           /\ task[g] # Idle => task[g].socket \in Sockets
<1>1. task[g] \in Tasks
  BY DEF StateInv, GatewayTypeOK
<1> QED BY <1>1, TaskKinds

\* The new task of a caller is its alone.
LEMMA RunOne ==
    ASSUME StateInv, NEW g \in Callers, NEW t \in Tasks, Run(g, t)
    PROVE  /\ task' \in [Callers -> Tasks]
           /\ task'[g] = t
           /\ \A h \in Callers \ {g} : task'[h] = task[h]
BY DEF StateInv, GatewayTypeOK, Run

\* The variables outside the index that a step of a caller may change keep
\* their types.
OutsideTypes ==
    /\ sockets \subseteq Sockets
    /\ toClose \subseteq Sockets
    /\ client \in [Sockets -> {"open", "closed", "gone"}]
    /\ connections \subseteq Instances \X Sockets
    /\ notices \subseteq [socket : Sockets, stale : BOOLEAN]

LEMMA RunState ==
    ASSUME StateInv, NEW g \in Callers, NEW t \in Tasks, Run(g, t),
           IndexKept, phase' = phase, orphans' = orphans, OutsideTypes'
    PROVE  StateInv'
<1>1. GatewayTypeOK'
  BY RunOne DEF StateInv, GatewayTypeOK, IndexKept, OutsideTypes, IndexInv
<1> QED BY <1>1 DEF StateInv, IndexKept

\* Closing something is the business of one caller, or of closeAllSockets.
LEMMA BeingClosedByTask ==
    ASSUME NEW k \in Sockets
    PROVE  BeingClosed(k) <=> \/ \E g \in Callers : Does(task[g], k, {"shut", "closureShut"})
                              \/ k \in orphans
BY DEF BeingClosed, Busy, Does

LEMMA BeingClosedByTaskNext ==
    ASSUME NEW k \in Sockets
    PROVE  BeingClosed(k)' <=> \/ \E g \in Callers : Does(task'[g], k, {"shut", "closureShut"})
                               \/ k \in orphans'
BY DEF BeingClosed, Busy, Does

\* A socket that is accounted for stays so: a step may untrack it only to shut
\* it, and stop shutting it only when it is shut.
LEMMA AccountedStays ==
    ASSUME StateInv, NEW g \in Callers, NEW t \in Tasks, Run(g, t),
           NEW k \in Sockets, Accounted(k), orphans' = orphans,
           k \in sockets => k \in sockets' \/ Does(t, k, {"shut", "closureShut"}),
           client[k] # "open" => client'[k] # "open",
           Does(task[g], k, {"shut", "closureShut"}) => client'[k] # "open"
    PROVE  Accounted(k)'
<1>1. CASE k \in sockets
  BY <1>1, RunOne, BeingClosedByTaskNext DEF Accounted
<1>2. CASE client[k] # "open"
  BY <1>2 DEF Accounted
<1>3. CASE BeingClosed(k)
  <2>1. CASE k \in orphans
    BY <2>1, BeingClosedByTaskNext DEF Accounted
  <2>2. ASSUME NEW h \in Callers, Does(task[h], k, {"shut", "closureShut"})
        PROVE  Accounted(k)'
    <3>1. CASE h = g
      BY <2>2, <3>1 DEF Accounted
    <3>2. CASE h # g
      BY <2>2, <3>2, RunOne, BeingClosedByTaskNext DEF Accounted
    <3> QED BY <3>1, <3>2
  <2> QED BY <1>3, <2>1, <2>2, BeingClosedByTask
<1> QED BY <1>1, <1>2, <1>3 DEF Accounted

\* The part about sockets holds after a step that leaves what is accounted for
\* so, and accounts for what it commits to.
LEMMA RunAccounted ==
    ASSUME StateInv, AccountedInv, NEW g \in Callers, NEW t \in Tasks, Run(g, t),
           \A k \in Sockets : Accounted(k) => Accounted(k)',
           \A k \in Sockets : k \in toClose' => Committed(k) \/ Accounted(k)',
           \A k \in Sockets : k \in PinnedTo(Instances)' => Committed(k) \/ Accounted(k)',
           \A k \in Sockets, i \in Instances :
              <<i, k>> \in connections' => Committed(k) \/ Accounted(k)',
           \A k \in Sockets : Does(t, k, {"map", "send", "unset", "write", "close"}) =>
                                 Committed(k) \/ Accounted(k)'
    PROVE  AccountedInv'
<1> SUFFICES ASSUME NEW k \in Sockets, Committed(k)' PROVE Committed(k) \/ Accounted(k)'
  BY DEF AccountedInv
<1>1. ASSUME NEW h \in Callers, Does(task'[h], k, {"map", "send", "unset", "write", "close"})
      PROVE  Committed(k) \/ Accounted(k)'
  <2>1. CASE h = g
    BY <1>1, <2>1, RunOne
  <2>2. CASE h # g
    BY <1>1, <2>2, RunOne DEF Committed
  <2> QED BY <2>1, <2>2
<1> QED BY <1>1 DEF Committed

\* A call of Handle is told what its own step learns; others learn nothing.
LEMMA RunCalls ==
    ASSUME StateInv, CallsInv, NEW g \in Callers, NEW t \in Tasks, Run(g, t),
           Registered' \subseteq Registered, t \in HandleTasks => SoundCall(t)'
    PROVE  CallsInv'
<1> SUFFICES ASSUME NEW h \in Callers, task'[h] \in HandleTasks PROVE SoundCall(task[h])'
  BY DEF CallsInv, HandleTasks
<1>1. CASE h = g
  BY <1>1, RunOne DEF SoundCall
<1>2. CASE h # g
  BY <1>2, RunOne DEF CallsInv, SoundCall
<1> QED BY <1>1, <1>2

\* A stopped gateway gains no socket without a handler to give it up.
LEMMA RunStopped ==
    ASSUME StateInv, StoppedTracksNothing, NEW g \in Callers, NEW t \in Tasks, Run(g, t),
           phase' = phase,
           \A k \in sockets' :
              phase \in {"draining", "off"} =>
                 \/ Does(t, k, {"map", "unset", "close"})
                 \/ k \in sockets /\ ~Does(task[g], k, {"map", "unset", "close"})
    PROVE  StoppedTracksNothing'
<1> SUFFICES ASSUME phase' \in {"draining", "off"}, NEW k \in sockets'
             PROVE  Busy(k, {"map", "unset", "close"})' # {}
  BY DEF StoppedTracksNothing
<1>1. CASE Does(t, k, {"map", "unset", "close"})
  BY <1>1, RunOne DEF Does, Busy
<1>2. CASE k \in sockets /\ ~Does(task[g], k, {"map", "unset", "close"})
  <2>1. PICK h \in Callers : Does(task[h], k, {"map", "unset", "close"})
    BY <1>2 DEF StoppedTracksNothing, Busy, Does
  <2>2. h # g
    BY <1>2, <2>1
  <2> QED BY <2>1, <2>2, RunOne DEF Does, Busy
<1> QED BY <1>1, <1>2

\* A step that tracks, unpins, disconnects and unsubscribes nobody.
LEMMA RunQuiet ==
    ASSUME GatewayInv, NEW g \in Callers, NEW t \in Tasks, Run(g, t),
           IndexKept, PinsKept, UNCHANGED <<phase, sockets, orphans, client>>,
           toClose' \subseteq toClose, connections' \subseteq connections,
           notices' \subseteq [socket : Sockets, stale : BOOLEAN],
           task[g].pc \notin {"shut", "closureShut"},
           \A k \in Sockets : Does(t, k, {"map", "send", "unset", "write", "close"}) =>
                                 Committed(k) \/ Accounted(k),
           t \in HandleTasks => SoundCall(t)',
           \A k \in sockets : Does(task[g], k, {"map", "unset", "close"}) =>
                                 Does(t, k, {"map", "unset", "close"})
    PROVE  GatewayInv'
<1> USE DEF GatewayInv
<1>1. OutsideTypes'
  BY DEF OutsideTypes, StateInv, GatewayTypeOK
<1>2. StateInv'
  BY <1>1, RunState
<1>3. \A k \in Sockets : Accounted(k) => Accounted(k)'
  BY AccountedStays DEF Does
<1>4. AccountedInv'
  <2>1. \A k \in Sockets : /\ k \in toClose' => Committed(k)
                           /\ k \in PinnedTo(Instances)' => Committed(k)
                           /\ \A i \in Instances : <<i, k>> \in connections' => Committed(k)
    BY DEF Committed, PinsKept
  <2> QED BY <1>3, <2>1, RunAccounted
<1>5. CallsInv'
  BY RunCalls DEF IndexKept
<1>6. StoppedTracksNothing'
  BY RunStopped
<1> QED BY <1>2, <1>4, <1>5, <1>6

\* A task of which only the socket is known is not a call past Resolve.
LEMMA AtTask ==
    ASSUME NEW pc \in {"resolve", "write", "close", "shut", "broadcast", "unmap"}, NEW k \in Sockets
    PROVE  /\ At(pc, k) \in Tasks /\ At(pc, k) \notin HandleTasks
           /\ At(pc, k) # Idle
           /\ At(pc, k).pc = pc /\ At(pc, k).socket = k
<1>1. At(pc, k) \in Tasks
  BY TasksOfCalls
<1>2. At(pc, k).pc = pc /\ At(pc, k).socket = k
  BY DEF At
<1> QED BY <1>1, <1>2 DEF HandleTasks, Idle

\* No caller is at work once it is idle.
LEMMA IdleTask ==
    Idle \in Tasks /\ Idle \notin HandleTasks /\ Idle.pc = "idle"
BY DEF Tasks, HandleTasks, Idle

-----------------------------------------------------------------------------
(***************************************************************************)
(* Handle.                                                                 *)
(***************************************************************************)
\* A message that has been read depends on nothing yet.
LEMMA ReceiveKeeps ==
    ASSUME GatewayInv, NEW g \in Goroutines, NEW k \in Sockets, Receive(g, k)
    PROVE  GatewayInv'
<1> g \in Callers
  BY DEF Callers
<1> DEFINE t == At("resolve", k)
<1>1. task[g].pc = "idle"
  BY DEF Receive, Idle
<1>2. t \in Tasks /\ t \notin HandleTasks /\ t.pc = "resolve"
  BY AtTask
<1>3. IndexKept /\ PinsKept
  BY NoCall DEF Receive, GatewayInv, StateInv
<1>4. /\ UNCHANGED <<phase, sockets, orphans, toClose, outsideVars>> /\ Run(g, t)
      /\ notices' \subseteq [socket : Sockets, stale : BOOLEAN]
  BY DEF Receive, outsideVars, GatewayInv, StateInv, GatewayTypeOK
<1> HIDE DEF t
<1> QED BY <1>1, <1>2, <1>3, <1>4, RunQuiet DEF Does, outsideVars

\* Handle depends on nothing until it has tracked its socket.
LEMMA ResolveKeeps ==
    ASSUME GatewayInv, NEW g \in Callers, Resolve(g)
    PROVE  GatewayInv'
<1>0. PICK k : k = task[g].socket
  OBVIOUS
<1>1. task[g].pc = "resolve" /\ k \in Sockets
  BY <1>0, CallerTypes DEF Resolve, GatewayInv, SocketTasks
<1>2. PICK t : Run(g, t) /\ (t = Idle \/ \E n \in Services : t = Handling(k, n))
  BY <1>0 DEF Resolve, ResolveService
<1>3. /\ t \in Tasks /\ t.pc \in {"idle", "track"}
      /\ t \in HandleTasks => t.pc = "track" /\ t.failed = {}
  <2>1. CASE t = Idle
    BY <2>1, IdleTask
  <2>2. ASSUME NEW n \in Services, t = Handling(k, n)
        PROVE  t \in Tasks /\ t.pc = "track" /\ t.failed = {}
    BY <1>1, <2>2, TasksOfCalls DEF Handling
  <2> QED BY <1>2, <2>1, <2>2
<1>4. IndexKept /\ PinsKept
  BY NoCall DEF Resolve, GatewayInv, StateInv
<1>5. /\ UNCHANGED <<phase, sockets, orphans, toClose, outsideVars>>
      /\ notices' \subseteq [socket : Sockets, stale : BOOLEAN]
  BY DEF Resolve, outsideVars, GatewayInv, StateInv, GatewayTypeOK
<1>6. t \in HandleTasks => SoundCall(t)'
  BY <1>3 DEF SoundCall
<1> QED BY <1>1, <1>2, <1>3, <1>4, <1>5, <1>6, RunQuiet DEF Does, outsideVars

\* The client that is too slow, or whose message cannot be re-routed, is about
\* to be disconnected.
LEMMA RejectSlowKeeps ==
    ASSUME GatewayInv, NEW g \in Callers, RejectSlow(g)
    PROVE  GatewayInv'
<1> DEFINE k == task[g].socket
           t == At("close", k)
<1>1. task[g] \in HandleTasks /\ task[g].pc = "send" /\ k \in Sockets
  BY CallerTypes DEF RejectSlow, GatewayInv, HandleTasks
<1>2. t \in SocketTasks /\ t \in Tasks
  BY <1>1, TasksOfCalls
<1>3. t.pc = "close" /\ t.socket = k
  BY DEF At
<1>4. IndexKept /\ PinsKept
  BY NoCall DEF RejectSlow, GatewayInv, StateInv
<1>5. UNCHANGED <<phase, sockets, orphans, toClose, outsideVars>> /\ Run(g, t)
  BY DEF RejectSlow
<1>6. Committed(k)
  BY <1>1 DEF Committed, Does, Idle
<1>7. notices' \subseteq [socket : Sockets, stale : BOOLEAN]
  BY <1>5 DEF outsideVars, GatewayInv, StateInv, GatewayTypeOK
<1> HIDE DEF t
<1>8. t \notin HandleTasks
  BY <1>3 DEF HandleTasks
<1> QED BY <1>1, <1>2, <1>3, <1>4, <1>5, <1>6, <1>7, <1>8, RunQuiet DEF Does, outsideVars

\* The failed instance is dropped before the retry, or the index it was in was.
LEMMA UnsetAndRetryKeeps ==
    ASSUME GatewayInv, NEW g \in Callers, UnsetAndRetry(g)
    PROVE  GatewayInv'
<1>0. PICK c : c = task[g]
  OBVIOUS
<1> DEFINE again == [c EXCEPT !.pc = "map"]
           t == IF c.isNew THEN again ELSE At("close", c.socket)
<1>1. c \in HandleTasks /\ c.pc = "unset" /\ SoundCall(c) /\ c.socket \in Sockets
  BY <1>0, CallerTypes DEF UnsetAndRetry, GatewayInv, CallsInv, HandleTasks
<1>2. /\ again \in HandleTasks /\ again.pc = "map" /\ again.socket = c.socket
      /\ again.stale = c.stale /\ again.failed = c.failed
  BY <1>1 DEF HandleTasks
<1>3. At("close", c.socket) \in SocketTasks
  BY <1>1, TasksOfCalls
<1>4. /\ At("close", c.socket) \notin HandleTasks
      /\ At("close", c.socket).pc = "close" /\ At("close", c.socket).socket = c.socket
  BY DEF At, HandleTasks
<1>5. t \in Tasks /\ t.socket = c.socket /\ t.pc \in {"map", "close"}
  BY <1>2, <1>3, <1>4, TasksOfCalls
<1>6. IndexKept /\ PinsKept /\ (~c.stale => c.instance \notin Registered')
  <2>1. CASE c.stale
    BY <1>0, <2>1, NoCall DEF UnsetAndRetry, GatewayInv, StateInv
  <2>2. CASE ~c.stale
    <3>1. UnsetService(c.instance) /\ c.instance \in Instances
      BY <1>0, <1>1, <2>2 DEF UnsetAndRetry, SoundCall
    <3> QED BY <3>1, UnsetCall DEF GatewayInv, StateInv
  <2> QED BY <2>1, <2>2
<1>7. UNCHANGED <<phase, sockets, orphans, toClose, outsideVars>> /\ Run(g, t)
  BY <1>0 DEF UnsetAndRetry
<1>8. Committed(c.socket)
  BY <1>0, <1>1 DEF Committed, Does, Idle
<1>9. notices' \subseteq [socket : Sockets, stale : BOOLEAN]
  BY <1>7 DEF outsideVars, GatewayInv, StateInv, GatewayTypeOK
<1>10. t \in HandleTasks => SoundCall(t)'
  <2>1. SoundCall(again)'
    BY <1>1, <1>2, <1>6 DEF SoundCall, IndexKept
  <2> QED BY <1>4, <2>1 DEF SoundCall
<1>11. t # Idle
  BY <1>5 DEF Idle
<1> HIDE DEF t
<1> QED
  BY <1>0, <1>1, <1>5, <1>6, <1>7, <1>8, <1>9, <1>10, <1>11, RunQuiet DEF Does, outsideVars

-----------------------------------------------------------------------------
(***************************************************************************)
(* closeSocket and the other handlers that only take a socket away.        *)
(***************************************************************************)
\* A broadcast creates no connection.
LEMMA BroadcastTypes ==
    ASSUME StateInv, NEW k \in Sockets, NEW reached, Broadcast(k, reached)
    PROVE  /\ connections' \subseteq connections
           /\ notices' \subseteq [socket : Sockets, stale : BOOLEAN]
<1>1. notices' = notices \/ notices' = notices \cup {[socket |-> k, stale |-> FALSE]}
  BY DEF Broadcast
<1>2. notices \subseteq [socket : Sockets, stale : BOOLEAN]
  BY DEF StateInv, GatewayTypeOK
<1>3. [socket |-> k, stale |-> FALSE] \in [socket : Sockets, stale : BOOLEAN]
  OBVIOUS
<1> QED BY <1>1, <1>2, <1>3 DEF Broadcast

\* The services that the broadcast reaches drop their connections for the socket.
LEMMA BroadcastClosedKeeps ==
    ASSUME GatewayInv, NEW g \in Callers, BroadcastClosed(g)
    PROVE  GatewayInv'
<1> DEFINE k == task[g].socket
           t == At("unmap", k)
<1>1. task[g].pc = "broadcast" /\ task[g] \in SocketTasks /\ k \in Sockets
  BY CallerTypes DEF BroadcastClosed, GatewayInv, SocketTasks
<1>2. t \in Tasks /\ t \notin HandleTasks /\ t.pc = "unmap"
  BY <1>1, AtTask
<1>3. IndexKept /\ PinsKept
  BY NoCall DEF BroadcastClosed, GatewayInv, StateInv
<1>4. /\ UNCHANGED <<phase, sockets, orphans, toClose, client>> /\ Run(g, t)
      /\ connections' \subseteq connections
      /\ notices' \subseteq [socket : Sockets, stale : BOOLEAN]
  BY <1>1, BroadcastTypes DEF BroadcastClosed, GatewayInv
<1> HIDE DEF t
<1> QED BY <1>1, <1>2, <1>3, <1>4, RunQuiet DEF Does

\* UnmapSocket forgets the pins of the socket.
LEMMA UnmapKeeps ==
    ASSUME GatewayInv, NEW g \in Callers, Unmap(g)
    PROVE  GatewayInv'
<1>1. task[g].pc = "unmap" /\ task[g] \in SocketTasks /\ task[g].socket \in Sockets
  BY CallerTypes DEF Unmap, GatewayInv, SocketTasks
<1>2. IndexKept /\ PinsKept
  BY <1>1, UnmapCall DEF Unmap, GatewayInv, StateInv
<1>3. /\ UNCHANGED <<phase, sockets, orphans, toClose, outsideVars>> /\ Run(g, Idle)
      /\ notices' \subseteq [socket : Sockets, stale : BOOLEAN]
  BY DEF Unmap, outsideVars, GatewayInv, StateInv, GatewayTypeOK
<1> QED BY <1>1, <1>2, <1>3, IdleTask, RunQuiet DEF Does, outsideVars

\* handleSocketClosure ends as closeSocket does.
LEMMA ClosureUnmapKeeps ==
    ASSUME GatewayInv, NEW g \in Callers, ClosureUnmap(g)
    PROVE  GatewayInv'
<1>1. task[g].pc = "closureUnmap" /\ task[g] \in ClosureTasks /\ task[g].socket \in Sockets
  BY CallerTypes DEF ClosureUnmap, GatewayInv, ClosureTasks
<1>2. IndexKept /\ PinsKept
  <2>1. CASE UNCHANGED indexVars
    BY <2>1, NoCall DEF GatewayInv, StateInv
  <2>2. CASE UnmapSocket(task[g].socket)
    BY <1>1, <2>2, UnmapCall DEF GatewayInv, StateInv
  <2> QED BY <2>1, <2>2 DEF ClosureUnmap
<1>3. /\ UNCHANGED <<phase, sockets, orphans, toClose, outsideVars>> /\ Run(g, Idle)
      /\ notices' \subseteq [socket : Sockets, stale : BOOLEAN]
  BY DEF ClosureUnmap, outsideVars, GatewayInv, StateInv, GatewayTypeOK
<1> QED BY <1>1, <1>2, <1>3, IdleTask, RunQuiet DEF Does, outsideVars

\* A socket that a worker writes to was tracked when the worker found it.
LEMMA HandleGatewayMessageKeeps ==
    ASSUME GatewayInv, NEW w \in Workers, NEW k \in Sockets, handleGatewayMessage(w, k)
    PROVE  GatewayInv'
<1> w \in Callers
  BY DEF Callers
<1> DEFINE t == At("write", k)
<1>1. task[w].pc = "idle" /\ task[w] = Idle
  BY DEF handleGatewayMessage, Idle
<1>2. t \in Tasks /\ t \notin HandleTasks /\ t.socket = k
  BY AtTask
<1>3. IndexKept /\ PinsKept
  BY NoCall DEF handleGatewayMessage, GatewayInv, StateInv
<1>4. /\ UNCHANGED <<phase, sockets, orphans, toClose, outsideVars>> /\ Run(w, t)
      /\ notices' \subseteq [socket : Sockets, stale : BOOLEAN] /\ k \in sockets
  BY DEF handleGatewayMessage, outsideVars, GatewayInv, StateInv, GatewayTypeOK
<1>5. Accounted(k)
  BY <1>4 DEF Accounted
<1> HIDE DEF t
<1> QED BY <1>1, <1>2, <1>3, <1>4, <1>5, RunQuiet DEF Does, outsideVars

\* The write succeeds, or the worker goes on to close the socket.
LEMMA WriteKeeps ==
    ASSUME GatewayInv, NEW w \in Callers, WriteSocket(w) \/ FailWrite(w)
    PROVE  GatewayInv'
<1>0. PICK k : k = task[w].socket
  OBVIOUS
<1>1. task[w].pc = "write" /\ k \in Sockets
  BY <1>0, CallerTypes DEF WriteSocket, FailWrite, GatewayInv, SocketTasks
<1>2. PICK t : Run(w, t) /\ t \in {Idle, At("close", k)}
  BY <1>0 DEF WriteSocket, FailWrite
<1>3. t \in Tasks /\ t \notin HandleTasks /\ (t = Idle \/ t.socket = k)
  BY <1>1, <1>2, AtTask, IdleTask
<1>4. IndexKept /\ PinsKept
  BY NoCall DEF WriteSocket, FailWrite, GatewayInv, StateInv
<1>5. /\ UNCHANGED <<phase, sockets, orphans, toClose, outsideVars>>
      /\ notices' \subseteq [socket : Sockets, stale : BOOLEAN]
  BY DEF WriteSocket, FailWrite, outsideVars, GatewayInv, StateInv, GatewayTypeOK
<1>6. Committed(k)
  BY <1>0, <1>1 DEF Committed, Does, Idle
<1> QED BY <1>1, <1>2, <1>3, <1>4, <1>5, <1>6, RunQuiet DEF Does, outsideVars

\* A socket that pruneLoop closes was on its list.
LEMMA PruneNextKeeps ==
    ASSUME GatewayInv, NEW k \in Sockets, PruneNext(k)
    PROVE  GatewayInv'
<1> Pruner \in Callers
  BY DEF Callers
<1> DEFINE t == At("close", k)
<1>1. task[Pruner].pc = "idle" /\ task[Pruner] = Idle
  BY DEF PruneNext, Idle
<1>2. t \in Tasks /\ t \notin HandleTasks /\ t.socket = k
  BY AtTask
<1>3. IndexKept /\ PinsKept
  BY NoCall DEF PruneNext, GatewayInv, StateInv
<1>4. /\ UNCHANGED <<phase, sockets, orphans, outsideVars>> /\ Run(Pruner, t)
      /\ notices' \subseteq [socket : Sockets, stale : BOOLEAN]
      /\ toClose' \subseteq toClose
  BY DEF PruneNext, outsideVars, GatewayInv, StateInv, GatewayTypeOK
<1>5. Committed(k)
  BY DEF PruneNext, Committed
<1> HIDE DEF t
<1> QED BY <1>1, <1>2, <1>3, <1>4, <1>5, RunQuiet DEF Does, outsideVars

-----------------------------------------------------------------------------
(***************************************************************************)
(* The steps that track, untrack, pin, connect or disconnect a socket.     *)
(***************************************************************************)
\* The parts together, for such a step.
LEMMA RunKeeps ==
    ASSUME GatewayInv, NEW g \in Callers, NEW t \in Tasks, Run(g, t),
           IndexKept, phase' = phase, orphans' = orphans, OutsideTypes',
           \A k \in Sockets :
              /\ k \in sockets => k \in sockets' \/ Does(t, k, {"shut", "closureShut"})
              /\ client[k] # "open" => client'[k] # "open"
              /\ Does(task[g], k, {"shut", "closureShut"}) => client'[k] # "open",
           \A k \in Sockets :
              \/ k \in toClose'
              \/ k \in PinnedTo(Instances)'
              \/ \E i \in Instances : <<i, k>> \in connections'
              \/ Does(t, k, {"map", "send", "unset", "write", "close"})
              => \/ Committed(k) \/ k \in sockets' \/ client'[k] # "open",
           t \in HandleTasks => SoundCall(t)',
           \A k \in sockets' :
              phase \in {"draining", "off"} =>
                 \/ Does(t, k, {"map", "unset", "close"})
                 \/ k \in sockets /\ ~Does(task[g], k, {"map", "unset", "close"})
    PROVE  GatewayInv'
<1> USE DEF GatewayInv
<1>1. StateInv'
  BY RunState
<1>2. ASSUME NEW k \in Sockets, Accounted(k) PROVE Accounted(k)'
  BY <1>2, AccountedStays
<1>3. ASSUME NEW k \in Sockets, k \in sockets' \/ client'[k] # "open" PROVE Accounted(k)'
  BY <1>3 DEF Accounted
<1>4. AccountedInv'
  BY <1>2, <1>3, RunAccounted
<1>5. CallsInv'
  BY RunCalls DEF IndexKept
<1>6. StoppedTracksNothing'
  BY RunStopped
<1> QED BY <1>1, <1>4, <1>5, <1>6

\* What a commitment is when a step leaves pins, prunes and connections alone.
LEMMA CommittedStays ==
    ASSUME PinsKept, toClose' \subseteq toClose, connections' \subseteq connections,
           NEW k \in Sockets
    PROVE  \/ k \in toClose'
           \/ k \in PinnedTo(Instances)'
           \/ \E i \in Instances : <<i, k>> \in connections'
           => Committed(k)
BY DEF PinsKept, Committed

\* Handle tracks its socket before it depends on it.
LEMMA TrackKeeps ==
    ASSUME GatewayInv, NEW g \in Callers, Track(g)
    PROVE  GatewayInv'
<1>0. PICK c : c = task[g]
  OBVIOUS
<1> DEFINE t == [c EXCEPT !.pc = "map"]
<1>1. c \in HandleTasks /\ c.pc = "track" /\ SoundCall(c) /\ c.socket \in Sockets
  BY <1>0, CallerTypes DEF Track, GatewayInv, CallsInv, HandleTasks
<1>2. /\ t \in HandleTasks /\ t.pc = "map" /\ t.socket = c.socket
      /\ t.stale = c.stale /\ t.failed = c.failed
  BY <1>1 DEF HandleTasks
<1>3. t \in Tasks
  BY <1>2, TasksOfCalls
<1>4. IndexKept /\ PinsKept
  BY NoCall DEF Track, GatewayInv, StateInv
<1>5. /\ UNCHANGED <<phase, orphans, toClose, client, connections>> /\ Run(g, t)
      /\ sockets' = sockets \cup {c.socket}
  BY <1>0 DEF Track, outsideVars
<1>6. OutsideTypes'
  BY <1>1, <1>5 DEF Track, outsideVars, OutsideTypes, GatewayInv, StateInv, GatewayTypeOK
<1>7. t # Idle
  BY <1>2 DEF Idle
<1> HIDE DEF t
<1>8. SoundCall(t)'
  BY <1>1, <1>2, <1>4 DEF SoundCall, IndexKept
<1> QED
  BY <1>0, <1>1, <1>2, <1>3, <1>4, <1>5, <1>6, <1>7, <1>8, CommittedStays, RunKeeps DEF Does

\* MapSocket pins a socket that is accounted for; without an instance the
\* message is given up and the socket closed.
LEMMA MapKeeps ==
    ASSUME GatewayInv, NEW g \in Callers, Map(g)
    PROVE  GatewayInv'
<1>0. PICK c : c = task[g]
  OBVIOUS
<1>1. /\ c \in HandleTasks /\ c.pc = "map" /\ SoundCall(c)
      /\ c.socket \in Sockets /\ c.service \in Services
  BY <1>0, CallerTypes DEF Map, GatewayInv, CallsInv, HandleTasks
<1>2. PICK i \in Instances \cup {NoInstance}, isNew \in BOOLEAN :
         /\ IF c.stale THEN MapNothing(i, isNew)
            ELSE MapSocket(c.service, c.socket, i, isNew)
         /\ Run(g, IF i = NoInstance THEN At("close", c.socket)
                   ELSE [c EXCEPT !.pc = "send", !.instance = i, !.isNew = isNew])
  BY <1>0 DEF Map
<1>3. /\ IndexKept
      /\ PinnedTo(Instances)' \subseteq PinnedTo(Instances) \cup {c.socket}
      /\ i # NoInstance => ~c.stale /\ ~closed /\ i \in Registered
  <2>1. CASE c.stale
    BY <1>2, <2>1, NoCall DEF MapNothing, PinsKept, GatewayInv, StateInv
  <2>2. CASE ~c.stale
    BY <1>1, <1>2, <2>2, MapCall DEF GatewayInv, StateInv
  <2> QED BY <2>1, <2>2
<1> DEFINE sent == [c EXCEPT !.pc = "send", !.instance = i, !.isNew = isNew]
           t == IF i = NoInstance THEN At("close", c.socket) ELSE sent
<1>4. /\ sent \in HandleTasks /\ sent.pc = "send" /\ sent.socket = c.socket
      /\ sent.stale = c.stale /\ sent.failed = c.failed /\ sent.instance = i
  BY <1>1 DEF HandleTasks
<1>5. /\ At("close", c.socket) \in Tasks /\ At("close", c.socket) \notin HandleTasks
      /\ At("close", c.socket).pc = "close" /\ At("close", c.socket).socket = c.socket
      /\ At("close", c.socket) # Idle
  BY <1>1, AtTask
<1>6. /\ t \in Tasks /\ t.socket = c.socket /\ t # Idle /\ t.pc \in {"send", "close"}
      /\ t.pc = "send" => i # NoInstance
      /\ t \in HandleTasks => t.stale = c.stale /\ t.failed = c.failed /\ t.instance = i
                             /\ t.pc = "send"
  <2> HIDE DEF sent
  <2>1. CASE i = NoInstance
    <3>1. t = At("close", c.socket)
      BY <2>1
    <3> HIDE DEF t
    <3> QED BY <1>5, <3>1
  <2>2. CASE i # NoInstance
    <3>1. t = sent
      BY <2>2
    <3>2. t # Idle
      BY <1>4, <3>1 DEF Idle
    <3> HIDE DEF t
    <3> QED BY <1>4, <2>2, <3>1, <3>2, TasksOfCalls
  <2> QED BY <2>1, <2>2
<1> HIDE DEF t
<1>7. t \in HandleTasks => SoundCall(t)'
  BY <1>1, <1>3, <1>6 DEF SoundCall, IndexKept
<1>8. UNCHANGED <<phase, sockets, orphans, toClose, client, connections>> /\ Run(g, t)
  BY <1>2 DEF Map, outsideVars, t
<1>9. OutsideTypes'
  BY <1>8 DEF Map, outsideVars, OutsideTypes, GatewayInv, StateInv, GatewayTypeOK
<1>10. Committed(c.socket)
  BY <1>0, <1>1 DEF Committed, Does, Idle
<1>11. \A k \in Sockets :
          \/ k \in toClose'
          \/ k \in PinnedTo(Instances)'
          \/ \E j \in Instances : <<j, k>> \in connections'
          \/ Does(t, k, {"map", "send", "unset", "write", "close"})
          => Committed(k)
  BY <1>3, <1>6, <1>8, <1>10 DEF Committed, Does
<1>12. phase \in {"draining", "off"} => t.pc = "close"
  BY <1>3, <1>6 DEF GatewayInv, StateInv
<1>13. \A k \in sockets' :
          phase \in {"draining", "off"} =>
             \/ Does(t, k, {"map", "unset", "close"})
             \/ k \in sockets /\ ~Does(task[g], k, {"map", "unset", "close"})
  BY <1>0, <1>6, <1>8, <1>12 DEF Does
<1>14. \A k \in Sockets : ~Does(task[g], k, {"shut", "closureShut"})
  BY <1>0, <1>1 DEF Does
<1> QED
  BY <1>3, <1>6, <1>7, <1>8, <1>9, <1>11, <1>13, <1>14, RunKeeps

\* A delivery connects a socket that is accounted for.
LEMMA DeliverKeeps ==
    ASSUME GatewayInv, NEW g \in Callers, Deliver(g)
    PROVE  GatewayInv'
<1>0. PICK c : c = task[g]
  OBVIOUS
<1>1. /\ c \in HandleTasks /\ c.pc = "send" /\ c.socket \in Sockets /\ c.instance \in Instances
  BY <1>0, CallerTypes DEF Deliver, GatewayInv, CallsInv, SoundCall, HandleTasks
<1>2. IndexKept /\ PinsKept
  BY NoCall DEF Deliver, GatewayInv, StateInv
<1>3. /\ UNCHANGED <<phase, sockets, orphans, toClose, client>> /\ Run(g, Idle)
      /\ connections' \subseteq connections \cup {<<c.instance, c.socket>>}
  BY <1>0 DEF Deliver, Arrive
<1>4. OutsideTypes'
  BY <1>1, <1>3 DEF Deliver, OutsideTypes, GatewayInv, StateInv, GatewayTypeOK
<1>5. Committed(c.socket)
  BY <1>0, <1>1 DEF Committed, Does, Idle
<1>6. \A k \in Sockets :
         \/ k \in toClose'
         \/ k \in PinnedTo(Instances)'
         \/ \E j \in Instances : <<j, k>> \in connections'
         => Committed(k)
  BY <1>2, <1>3, <1>5 DEF Committed, PinsKept
<1> QED
  BY <1>0, <1>1, <1>2, <1>3, <1>4, <1>6, IdleTask, RunKeeps DEF Does

\* MessageService failed: the instance is known to have failed this message, and
\* may hold the connection all the same.
LEMMA FailSendKeeps ==
    ASSUME GatewayInv, NEW g \in Callers, FailSend(g)
    PROVE  GatewayInv'
<1>0. PICK c : c = task[g]
  OBVIOUS
<1> DEFINE t == [c EXCEPT !.pc = "unset", !.failed = @ \cup {c.instance}]
<1>1. c \in HandleTasks /\ c.pc = "send" /\ SoundCall(c)
  BY <1>0, CallerTypes DEF FailSend, GatewayInv, CallsInv
<1>2. /\ t \in HandleTasks /\ t.pc = "unset" /\ t.socket = c.socket /\ t.stale = c.stale
      /\ t.instance = c.instance /\ t.failed = c.failed \cup {c.instance}
  BY <1>1 DEF HandleTasks, SoundCall
<1>3. t \in Tasks /\ c.socket \in Sockets /\ c.instance \in Instances
  BY <1>1, <1>2, TasksOfCalls DEF HandleTasks, SoundCall
<1>4. IndexKept /\ PinsKept
  BY NoCall DEF FailSend, GatewayInv, StateInv
<1>5. /\ UNCHANGED <<phase, sockets, orphans, toClose, client>> /\ Run(g, t)
      /\ connections' \subseteq connections \cup {<<c.instance, c.socket>>}
  BY <1>0 DEF FailSend, Arrive
<1>6. OutsideTypes'
  BY <1>3, <1>5 DEF FailSend, OutsideTypes, GatewayInv, StateInv, GatewayTypeOK
<1>7. Committed(c.socket)
  BY <1>0, <1>1 DEF Committed, Does, Idle
<1> HIDE DEF t
<1>8. SoundCall(t)'
  BY <1>1, <1>2, <1>4 DEF SoundCall, IndexKept
<1>9. \A k \in Sockets :
         \/ k \in toClose'
         \/ k \in PinnedTo(Instances)'
         \/ \E j \in Instances : <<j, k>> \in connections'
         \/ Does(t, k, {"map", "send", "unset", "write", "close"})
         => Committed(k)
  BY <1>2, <1>4, <1>5, <1>7 DEF Committed, PinsKept, Does
<1>10. \A k \in sockets' :
          phase \in {"draining", "off"} =>
             \/ Does(t, k, {"map", "unset", "close"})
             \/ k \in sockets /\ ~Does(task[g], k, {"map", "unset", "close"})
  BY <1>0, <1>1, <1>5 DEF Does
<1>11. \A k \in Sockets : ~Does(task[g], k, {"shut", "closureShut"})
  BY <1>0, <1>1 DEF Does
<1> QED
  BY <1>2, <1>3, <1>4, <1>5, <1>6, <1>8, <1>9, <1>10, <1>11, RunKeeps

\* Whoever takes a socket from the map goes on to shut it.
LEMMA UntrackKeeps ==
    ASSUME GatewayInv, NEW g \in Callers, Untrack(g)
    PROVE  GatewayInv'
<1>0. PICK c : c = task[g]
  OBVIOUS
<1> DEFINE k == c.socket
<1>1. c \in SocketTasks /\ c.pc = "close" /\ k \in Sockets
  BY <1>0, CallerTypes DEF Untrack, GatewayInv, SocketTasks
<1>2. IndexKept /\ PinsKept
  BY NoCall DEF Untrack, GatewayInv, StateInv
<1>3. PICK t : t = IF k \in sockets THEN At("shut", k) ELSE Idle
  OBVIOUS
<1>4. /\ t \in Tasks /\ t \notin HandleTasks
      /\ t.pc \in {"shut", "idle"}
      /\ k \in sockets => Does(t, k, {"shut", "closureShut"})
  BY <1>1, <1>3, AtTask, IdleTask DEF Does
<1>5. /\ UNCHANGED <<phase, orphans, toClose, client, connections>>
      /\ sockets' = sockets \ {k} /\ Run(g, t)
  BY <1>0, <1>3 DEF Untrack, outsideVars
<1>6. OutsideTypes'
  BY <1>5 DEF Untrack, outsideVars, OutsideTypes, GatewayInv, StateInv, GatewayTypeOK
<1>7. \A j \in Sockets : ~Does(t, j, {"map", "send", "unset", "write", "close"})
  BY <1>4 DEF Does
<1>8. \A j \in Sockets : ~Does(task[g], j, {"shut", "closureShut"})
  BY <1>0, <1>1 DEF Does
<1>9. \A j \in sockets' : ~Does(task[g], j, {"map", "unset", "close"})
  BY <1>0, <1>5 DEF Does
<1>10. \A j \in Sockets : j \in sockets => j \in sockets' \/ Does(t, j, {"shut", "closureShut"})
  BY <1>4, <1>5
<1> QED
  BY <1>2, <1>4, <1>5, <1>6, <1>7, <1>8, <1>9, <1>10, CommittedStays, RunKeeps

\* handleSocketClosure takes the socket from the map as closeSocket does.
LEMMA HandleSocketClosureKeeps ==
    ASSUME GatewayInv, NEW g \in Goroutines, NEW n \in notices, handleSocketClosure(g, n)
    PROVE  GatewayInv'
<1> g \in Callers
  BY DEF Callers
<1> DEFINE k == n.socket
<1>0. n \in [socket : Sockets, stale : BOOLEAN]
  BY DEF GatewayInv, StateInv, GatewayTypeOK
<1>1. task[g] = Idle
  BY DEF handleSocketClosure
<1>2. IndexKept /\ PinsKept
  BY NoCall DEF handleSocketClosure, GatewayInv, StateInv
<1>3. PICK t : t = IF k \in sockets
                   THEN [pc |-> "closureShut", socket |-> k, stale |-> n.stale] ELSE Idle
  OBVIOUS
<1>4. /\ t \in Tasks /\ t \notin HandleTasks
      /\ t.pc \in {"closureShut", "idle"}
      /\ k \in sockets => Does(t, k, {"shut", "closureShut"})
  BY <1>0, <1>3, IdleTask DEF Does, Tasks, HandleTasks, Idle
<1>5. /\ UNCHANGED <<phase, orphans, toClose, client, connections>>
      /\ sockets' = sockets \ {k} /\ Run(g, t)
  BY <1>3 DEF handleSocketClosure
<1>6. OutsideTypes'
  BY <1>5 DEF handleSocketClosure, OutsideTypes, GatewayInv, StateInv, GatewayTypeOK
<1>7. \A j \in Sockets : ~Does(t, j, {"map", "send", "unset", "write", "close"})
  BY <1>4 DEF Does
<1>8. \A j \in Sockets : ~Does(task[g], j, {"shut", "closureShut"})
  BY <1>1 DEF Does
<1>9. \A j \in sockets' : j \in sockets /\ ~Does(task[g], j, {"map", "unset", "close"})
  BY <1>1, <1>5 DEF Does
<1>10. \A j \in Sockets : j \in sockets => j \in sockets' \/ Does(t, j, {"shut", "closureShut"})
  BY <1>4, <1>5
<1> QED
  BY <1>2, <1>4, <1>5, <1>6, <1>7, <1>8, <1>9, <1>10, CommittedStays, RunKeeps

\* Closing the client's side settles the socket.
LEMMA ShutSettles ==
    ASSUME StateInv, NEW k \in Sockets, ShutClient(k)
    PROVE  /\ client' \in [Sockets -> {"open", "closed", "gone"}]
           /\ client'[k] # "open"
           /\ \A j \in Sockets : client[j] # "open" => client'[j] # "open"
BY DEF StateInv, GatewayTypeOK, ShutClient

\* closeSocket closes the socket it took.
LEMMA ShutKeeps ==
    ASSUME GatewayInv, NEW g \in Callers, Shut(g)
    PROVE  GatewayInv'
<1>0. PICK c : c = task[g]
  OBVIOUS
<1> DEFINE k == c.socket
<1>1. c \in SocketTasks /\ c.pc = "shut" /\ k \in Sockets
  BY <1>0, CallerTypes DEF Shut, GatewayInv, SocketTasks
<1>2. IndexKept /\ PinsKept
  BY NoCall DEF Shut, GatewayInv, StateInv
<1>3. PICK t : t = At("broadcast", k)
  OBVIOUS
<1>4. t \in Tasks /\ t \notin HandleTasks /\ t.pc = "broadcast"
  BY <1>1, <1>3, AtTask
<1>5. /\ UNCHANGED <<phase, orphans, toClose, sockets, connections>>
      /\ Run(g, t) /\ ShutClient(k)
  BY <1>0, <1>3 DEF Shut
<1>6. OutsideTypes'
  BY <1>1, <1>5, ShutSettles
     DEF Shut, OutsideTypes, GatewayInv, StateInv, GatewayTypeOK
<1>7. \A j \in Sockets : ~Does(t, j, {"map", "send", "unset", "write", "close"})
  BY <1>4 DEF Does
<1>8. \A j \in Sockets : Does(task[g], j, {"shut", "closureShut"}) => client'[j] # "open"
  BY <1>0, <1>1, <1>5, ShutSettles DEF Does, GatewayInv
<1>9. \A j \in sockets' : j \in sockets /\ ~Does(task[g], j, {"map", "unset", "close"})
  BY <1>0, <1>1, <1>5 DEF Does
<1>10. \A j \in Sockets : client[j] # "open" => client'[j] # "open"
  BY <1>1, <1>5, ShutSettles DEF GatewayInv
<1> QED
  BY <1>2, <1>4, <1>5, <1>6, <1>7, <1>8, <1>9, <1>10, CommittedStays, RunKeeps

\* handleSocketClosure closes the socket it took.
LEMMA ClosureShutKeeps ==
    ASSUME GatewayInv, NEW g \in Callers, ClosureShut(g)
    PROVE  GatewayInv'
<1>0. PICK c : c = task[g]
  OBVIOUS
<1> DEFINE k == c.socket
<1>1. c \in ClosureTasks /\ c.pc = "closureShut" /\ k \in Sockets
  BY <1>0, CallerTypes DEF ClosureShut, GatewayInv, ClosureTasks
<1>2. IndexKept /\ PinsKept
  BY NoCall DEF ClosureShut, GatewayInv, StateInv
<1>3. PICK t : t = [c EXCEPT !.pc = "closureUnmap"]
  OBVIOUS
<1>4. t \in Tasks /\ t \notin HandleTasks /\ t.pc = "closureUnmap"
  BY <1>1, <1>3, TasksOfCalls DEF ClosureTasks, HandleTasks
<1>5. /\ UNCHANGED <<phase, orphans, toClose, sockets, connections>>
      /\ Run(g, t) /\ ShutClient(k)
  BY <1>0, <1>3 DEF ClosureShut
<1>6. OutsideTypes'
  BY <1>1, <1>5, ShutSettles
     DEF ClosureShut, OutsideTypes, GatewayInv, StateInv, GatewayTypeOK
<1>7. \A j \in Sockets : ~Does(t, j, {"map", "send", "unset", "write", "close"})
  BY <1>4 DEF Does
<1>8. \A j \in Sockets : Does(task[g], j, {"shut", "closureShut"}) => client'[j] # "open"
  BY <1>0, <1>1, <1>5, ShutSettles DEF Does, GatewayInv
<1>9. \A j \in sockets' : j \in sockets /\ ~Does(task[g], j, {"map", "unset", "close"})
  BY <1>0, <1>1, <1>5 DEF Does
<1>10. \A j \in Sockets : client[j] # "open" => client'[j] # "open"
  BY <1>1, <1>5, ShutSettles DEF GatewayInv
<1> QED
  BY <1>2, <1>4, <1>5, <1>6, <1>7, <1>8, <1>9, <1>10, CommittedStays, RunKeeps

\* HandleClose closes a socket whose client is gone.
LEMMA HandleCloseKeeps ==
    ASSUME GatewayInv, NEW g \in Goroutines, NEW k \in Sockets, HandleClose(g, k)
    PROVE  GatewayInv'
<1> g \in Callers
  BY DEF Callers
<1>1. task[g] = Idle
  BY DEF HandleClose
<1>2. IndexKept /\ PinsKept
  BY NoCall DEF HandleClose, GatewayInv, StateInv
<1>3. PICK t : t = At("close", k)
  OBVIOUS
<1>4. t \in Tasks /\ t \notin HandleTasks /\ t.socket = k
  BY <1>3, AtTask
<1>5. /\ UNCHANGED <<phase, orphans, toClose, sockets, connections>> /\ Run(g, t)
      /\ client' = [client EXCEPT ![k] = "gone"]
  BY <1>3 DEF HandleClose
<1>6. OutsideTypes'
  BY <1>5 DEF HandleClose, OutsideTypes, GatewayInv, StateInv, GatewayTypeOK
<1>7. /\ client'[k] # "open"
      /\ \A j \in Sockets : client[j] # "open" => client'[j] # "open"
  BY <1>5 DEF GatewayInv, StateInv, GatewayTypeOK
<1>8. \A j \in Sockets : Does(t, j, {"map", "send", "unset", "write", "close"}) => client'[j] # "open"
  BY <1>4, <1>7 DEF Does
<1>9. \A j \in Sockets : /\ ~Does(task[g], j, {"shut", "closureShut"})
                          /\ ~Does(task[g], j, {"map", "unset", "close"})
  BY <1>1 DEF Does
<1> QED
  BY <1>2, <1>4, <1>5, <1>6, <1>7, <1>8, <1>9, CommittedStays, RunKeeps
     DEF GatewayInv, StateInv, GatewayTypeOK

-----------------------------------------------------------------------------
(***************************************************************************)
(* Connect and its clean-up, announcements, prunes and the services: steps *)
(* that no caller's task moves in.                                         *)
(***************************************************************************)
\* Every call is where it was.
SameCalls ==
    \A g \in Callers :
        /\ task'[g] = Idle <=> task[g] = Idle
        /\ task[g] # Idle => task'[g].pc = task[g].pc /\ task'[g].socket = task[g].socket

\* What such a step has to show for the part about sockets.
LEMMA WorldAccounted ==
    ASSUME GatewayInv, SameCalls,
           \A k \in Sockets :
              /\ k \in sockets => k \in sockets' \/ k \in orphans'
              /\ k \in orphans => k \in orphans' \/ client'[k] # "open"
              /\ client[k] # "open" => client'[k] # "open",
           \A k \in Sockets :
              \/ k \in toClose'
              \/ k \in PinnedTo(Instances)'
              \/ \E i \in Instances : <<i, k>> \in connections'
              => Committed(k)
    PROVE  AccountedInv'
<1> SUFFICES ASSUME NEW k \in Sockets, Committed(k)' PROVE Accounted(k)'
  BY DEF AccountedInv
<1>1. \A g \in Callers : Does(task'[g], k, {"map", "send", "unset", "write", "close"})
                           <=> Does(task[g], k, {"map", "send", "unset", "write", "close"})
  BY DEF SameCalls, Does
<1>2. \A g \in Callers : Does(task'[g], k, {"shut", "closureShut"})
                           <=> Does(task[g], k, {"shut", "closureShut"})
  BY DEF SameCalls, Does
<1>3. Committed(k)
  BY <1>1 DEF Committed
<1>4. Accounted(k)
  BY <1>3 DEF GatewayInv, AccountedInv
<1>5. BeingClosed(k) => BeingClosed(k)' \/ client'[k] # "open"
  BY <1>2, BeingClosedByTask, BeingClosedByTaskNext
<1>6. k \in sockets => k \in sockets' \/ BeingClosed(k)'
  BY BeingClosedByTaskNext
<1> QED BY <1>4, <1>5, <1>6 DEF Accounted

\* The parts together, for a step that changes no call at all.
LEMMA WorldKeeps ==
    ASSUME GatewayInv, task' = task,
           IndexInv', Registered' \subseteq Registered, closed' => Registered' = {},
           phase' \in {"off", "running", "stopping", "closing", "draining"},
           phase' \in {"running", "stopping"} <=> ~closed',
           phase' # "draining" => orphans' = {}, orphans' \subseteq Sockets, OutsideTypes',
           \A k \in Sockets :
              /\ k \in sockets => k \in sockets' \/ k \in orphans'
              /\ k \in orphans => k \in orphans' \/ client'[k] # "open"
              /\ client[k] # "open" => client'[k] # "open",
           \A k \in Sockets :
              \/ k \in toClose'
              \/ k \in PinnedTo(Instances)'
              \/ \E i \in Instances : <<i, k>> \in connections'
              => Committed(k),
           \A k \in sockets' :
              phase' \in {"draining", "off"} => phase \in {"draining", "off"} /\ k \in sockets
    PROVE  GatewayInv'
<1>1. StateInv'
  BY DEF GatewayInv, StateInv, GatewayTypeOK, OutsideTypes, IndexInv
<1>2. AccountedInv'
  BY WorldAccounted DEF SameCalls
<1>3. CallsInv'
  BY DEF GatewayInv, CallsInv, SoundCall
<1>4. StoppedTracksNothing'
  BY DEF GatewayInv, StoppedTracksNothing, Busy
<1> QED BY <1>1, <1>2, <1>3, <1>4 DEF GatewayInv

\* Connect: the calls that loaded the old index will find it closed.
LEMMA ConnectKeeps == GatewayInv /\ Connect => GatewayInv'
<1> SUFFICES ASSUME GatewayInv, Connect PROVE GatewayInv'
  OBVIOUS
<1>1. /\ phase' = "running" /\ closed' = FALSE /\ Clear /\ orphans = {}
      /\ UNCHANGED <<sockets, orphans, toClose, client, connections>>
      /\ notices' = {[n EXCEPT !.stale = TRUE] : n \in notices}
  BY DEF Connect, GatewayInv, StateInv
<1>2. IndexInv' /\ Registered' = {} /\ PinnedTo(Instances)' = {}
  BY <1>1, ClearCall
<1>3. ASSUME NEW g \in Callers
      PROVE  /\ task'[g] \in Tasks
             /\ task'[g].pc = task[g].pc
             /\ task[g] # Idle => task'[g].socket = task[g].socket
             /\ task'[g] \in HandleTasks =>
                   /\ task[g] \in HandleTasks /\ task'[g].stale
                   /\ task'[g].failed = task[g].failed
                   /\ task'[g].instance = task[g].instance
  <2>1. task[g] \in Tasks
    BY DEF GatewayInv, StateInv, GatewayTypeOK
  <2>2. CASE "stale" \in DOMAIN task[g]
    <3>1. task'[g] = [task[g] EXCEPT !.stale = TRUE]
      BY <2>2 DEF Connect
    <3>2. task[g] \in HandleTasks \/ task[g] \in ClosureTasks
      BY <2>1, <2>2 DEF Tasks, Idle, HandleTasks, ClosureTasks
    <3>3. CASE task[g] \in HandleTasks
      BY <2>1, <2>2, <3>1, <3>3, StaleTask DEF HandleTasks
    <3>4. CASE task[g] \in ClosureTasks
      <4>1. task'[g].pc \in {"closureShut", "closureUnmap"}
        BY <2>1, <2>2, <3>1, <3>4, StaleTask DEF ClosureTasks
      <4> QED BY <2>1, <2>2, <3>1, <4>1, StaleTask DEF HandleTasks
    <3> QED BY <3>2, <3>3, <3>4
  <2>3. CASE "stale" \notin DOMAIN task[g]
    <3>1. task'[g] = task[g]
      BY <2>3 DEF Connect
    <3>2. task[g] \notin HandleTasks
      BY <2>3 DEF HandleTasks
    <3> QED BY <2>1, <3>1, <3>2
  <2> QED BY <2>2, <2>3
<1>4. SameCalls
  BY <1>3, TaskKinds, CallerTypes DEF SameCalls, GatewayInv
<1>5. StateInv'
  <2>1. task' \in [Callers -> Tasks]
    BY <1>3 DEF Connect
  <2>2. notices' \subseteq [socket : Sockets, stale : BOOLEAN]
    BY <1>1 DEF GatewayInv, StateInv, GatewayTypeOK
  <2> QED BY <1>1, <1>2, <2>1, <2>2 DEF GatewayInv, StateInv, GatewayTypeOK, IndexInv, outsideVars
<1>6. AccountedInv'
  BY <1>1, <1>2, <1>4, WorldAccounted DEF Committed, outsideVars
<1>7. CallsInv'
  BY <1>3 DEF CallsInv, SoundCall, GatewayInv
<1>8. StoppedTracksNothing'
  BY <1>1 DEF StoppedTracksNothing
<1> QED BY <1>5, <1>6, <1>7, <1>8 DEF GatewayInv

\* An instance that announces itself anew is one to send to again.
LEMMA AnnouncementKeeps ==
    ASSUME GatewayInv, NEW i \in Instances, handleServiceAnnouncement(i)
    PROVE  GatewayInv'
<1>1. UNCHANGED <<phase, sockets, orphans, toClose, outsideVars>>
  BY DEF handleServiceAnnouncement
<1>2. /\ IndexInv' /\ PinsKept /\ closed' = closed /\ ~closed
      /\ Registered' \subseteq Registered \cup {i}
  <2>1. RoutesOf[i] \in SUBSET Paths
    BY RoutesOfAssumption
  <2> QED BY <2>1, SetCall DEF handleServiceAnnouncement, Subscribed, GatewayInv, StateInv
<1>3. ASSUME NEW g \in Callers
      PROVE  /\ task'[g] \in Tasks
             /\ task'[g].pc = task[g].pc
             /\ task[g] # Idle => task'[g].socket = task[g].socket
             /\ task'[g] \in HandleTasks =>
                   /\ task[g] \in HandleTasks
                   /\ task'[g].stale = task[g].stale
                   /\ task'[g].failed = IF i \notin Registered THEN task[g].failed \ {i}
                                                               ELSE task[g].failed
                   /\ task'[g].instance = task[g].instance
  <2>1. task[g] \in Tasks
    BY DEF GatewayInv, StateInv, GatewayTypeOK
  <2>2. CASE "failed" \in DOMAIN task[g] /\ i \notin Registered
    <3>1. task'[g] = [task[g] EXCEPT !.failed = @ \ {i}]
      BY <2>2 DEF handleServiceAnnouncement
    <3>2. task[g] \in HandleTasks
      BY <2>1, <2>2 DEF Tasks, Idle, HandleTasks
    <3> QED BY <2>1, <2>2, <3>1, <3>2, ForgivingTask DEF HandleTasks
  <2>3. CASE ~("failed" \in DOMAIN task[g] /\ i \notin Registered)
    <3>1. task'[g] = task[g]
      BY <2>3 DEF handleServiceAnnouncement
    <3>2. task[g] \in HandleTasks => i \in Registered
      BY <2>3 DEF HandleTasks
    <3> QED BY <2>1, <3>1, <3>2
  <2> QED BY <2>2, <2>3
<1>4. SameCalls
  BY <1>3, TaskKinds, CallerTypes DEF SameCalls, GatewayInv
<1>5. StateInv'
  <2>1. task' \in [Callers -> Tasks]
    BY <1>3 DEF handleServiceAnnouncement
  <2> QED BY <1>1, <1>2, <2>1 DEF GatewayInv, StateInv, GatewayTypeOK, IndexInv, outsideVars
<1>6. AccountedInv'
  BY <1>1, <1>2, <1>4, WorldAccounted DEF Committed, PinsKept, outsideVars
<1>7. CallsInv'
  BY <1>2, <1>3 DEF CallsInv, SoundCall, GatewayInv
<1>8. StoppedTracksNothing'
  BY <1>1, <1>3, <1>4 DEF StoppedTracksNothing, GatewayInv, Busy, SameCalls
<1> QED BY <1>5, <1>6, <1>7, <1>8 DEF GatewayInv

\* Close interrupts the run; nothing else changes.
LEMMA InterruptKeeps == GatewayInv /\ Interrupt => GatewayInv'
<1> SUFFICES ASSUME GatewayInv, Interrupt PROVE GatewayInv'
  OBVIOUS
<1>1. IndexKept /\ PinsKept
  BY NoCall DEF Interrupt, GatewayInv, StateInv
<1>2. /\ phase = "running" /\ phase' = "stopping" /\ task' = task
      /\ UNCHANGED <<sockets, orphans, toClose, client, connections, notices>>
  BY DEF Interrupt, outsideVars
<1>3. Registered' \subseteq Registered /\ IndexInv' /\ closed' = closed
  BY <1>1 DEF IndexKept
<1>4. OutsideTypes' /\ orphans' = {}
  BY <1>2 DEF OutsideTypes, GatewayInv, StateInv, GatewayTypeOK
<1> QED
  BY <1>1, <1>2, <1>3, <1>4, CommittedStays, WorldKeeps DEF GatewayInv, StateInv

\* gsi.Close: from here on no pin is made and no message sent.
LEMMA CloseIndexKeeps == GatewayInv /\ CloseIndex => GatewayInv'
<1> SUFFICES ASSUME GatewayInv, CloseIndex PROVE GatewayInv'
  OBVIOUS
<1>1. /\ phase = "stopping" /\ phase' = "closing" /\ task' = task
      /\ UNCHANGED <<sockets, orphans, toClose, client, connections>>
      /\ notices' = notices /\ closed' = TRUE
  BY DEF CloseIndex, Close, outsideVars
<1>2. IndexInv' /\ Registered' = {} /\ PinnedTo(Instances)' = {}
  BY <1>1, ClearCall DEF CloseIndex, Close
<1>3. OutsideTypes' /\ orphans' = {}
  BY <1>1 DEF OutsideTypes, GatewayInv, StateInv, GatewayTypeOK
<1>4. PinsKept
  BY <1>2 DEF PinsKept
<1> QED BY <1>1, <1>2, <1>3, <1>4, CommittedStays, WorldKeeps

\* closeAllSockets empties the map and has the sockets to close.
LEMMA CloseAllSocketsKeeps == GatewayInv /\ CloseAllSockets => GatewayInv'
<1> SUFFICES ASSUME GatewayInv, CloseAllSockets PROVE GatewayInv'
  OBVIOUS
<1>1. IndexKept /\ PinsKept
  BY NoCall DEF CloseAllSockets, GatewayInv, StateInv
<1>2. /\ phase = "closing" /\ phase' = "draining" /\ task' = task
      /\ sockets' = {} /\ orphans' = sockets /\ orphans = {}
      /\ UNCHANGED <<toClose, client, connections, notices>>
  BY DEF CloseAllSockets, outsideVars, GatewayInv, StateInv
<1>3. Registered' \subseteq Registered /\ IndexInv' /\ closed' = closed
  BY <1>1 DEF IndexKept
<1>4. OutsideTypes' /\ orphans' \subseteq Sockets
  BY <1>2 DEF OutsideTypes, GatewayInv, StateInv, GatewayTypeOK
<1> QED
  BY <1>1, <1>2, <1>3, <1>4, CommittedStays, WorldKeeps DEF GatewayInv, StateInv

\* Each of them is closed before it is forgotten.
LEMMA CloseOrphanKeeps ==
    ASSUME GatewayInv, NEW k \in Sockets, CloseOrphan(k)
    PROVE  GatewayInv'
<1>1. IndexKept /\ PinsKept
  BY UnmapCall DEF CloseOrphan, GatewayInv, StateInv
<1>2. /\ phase = "draining" /\ phase' = phase /\ task' = task
      /\ orphans' = orphans \ {k}
      /\ UNCHANGED <<sockets, toClose, connections, notices>>
  BY DEF CloseOrphan
<1>3. /\ client' \in [Sockets -> {"open", "closed", "gone"}] /\ client'[k] # "open"
      /\ \A j \in Sockets : client[j] # "open" => client'[j] # "open"
  BY ShutSettles DEF CloseOrphan, GatewayInv
<1>4. Registered' \subseteq Registered /\ IndexInv' /\ closed' = closed
  BY <1>1 DEF IndexKept
<1>5. OutsideTypes' /\ orphans' \subseteq Sockets
  BY <1>2, <1>3 DEF OutsideTypes, GatewayInv, StateInv, GatewayTypeOK
<1> QED
  BY <1>1, <1>2, <1>3, <1>4, <1>5, CommittedStays, WorldKeeps DEF GatewayInv, StateInv

\* lifecycle.end follows when all are closed.
LEMMA DisconnectedKeeps == GatewayInv /\ Disconnected => GatewayInv'
<1> SUFFICES ASSUME GatewayInv, Disconnected PROVE GatewayInv'
  OBVIOUS
<1>1. IndexKept /\ PinsKept
  BY NoCall DEF Disconnected, GatewayInv, StateInv
<1>2. /\ phase = "draining" /\ phase' = "off" /\ task' = task /\ orphans = {}
      /\ UNCHANGED <<sockets, orphans, toClose, client, connections, notices>>
  BY DEF Disconnected, outsideVars
<1>3. Registered' \subseteq Registered /\ IndexInv' /\ closed' = closed
  BY <1>1 DEF IndexKept
<1>4. OutsideTypes'
  BY <1>2 DEF OutsideTypes, GatewayInv, StateInv, GatewayTypeOK
<1> QED
  BY <1>1, <1>2, <1>3, <1>4, CommittedStays, WorldKeeps DEF GatewayInv, StateInv

\* The sockets a prune lists were pinned, so they are accounted for.
LEMMA PruneKeeps == GatewayInv /\ Prune => GatewayInv'
<1> SUFFICES ASSUME GatewayInv, Prune PROVE GatewayInv'
  OBVIOUS
<1>1. IndexKept /\ PinsKept /\ toClose' \subseteq PinnedTo(Instances)
  BY PruneCall DEF Prune, GatewayInv, StateInv
<1>2. /\ phase' = phase /\ task' = task
      /\ UNCHANGED <<sockets, orphans, client, connections, notices>>
  BY DEF Prune, outsideVars
<1>3. Registered' \subseteq Registered /\ IndexInv' /\ closed' = closed
  BY <1>1 DEF IndexKept
<1>4. OutsideTypes' /\ orphans' \subseteq Sockets
  BY <1>1, <1>2 DEF OutsideTypes, PinnedTo, GatewayInv, StateInv, GatewayTypeOK
<1>5. \A k \in Sockets :
         \/ k \in toClose'
         \/ k \in PinnedTo(Instances)'
         \/ \E i \in Instances : <<i, k>> \in connections'
         => Committed(k)
  BY <1>1, <1>2 DEF PinsKept, Committed
<1>6. phase \in {"off", "running", "stopping", "closing", "draining"}
  BY DEF GatewayInv, StateInv, GatewayTypeOK
<1> QED
  BY <1>1, <1>2, <1>3, <1>4, <1>5, <1>6, WorldKeeps DEF GatewayInv, StateInv

\* A service closes or drops a connection, or stops.
LEMMA ServicesKeep ==
    ASSUME GatewayInv,
           \/ \E k \in Sockets : CloseBroadcast(k)
           \/ \E i \in Instances, k \in Sockets : Heartbeat(i, k)
           \/ \E i \in Instances : ConnectionsEnd(i)
    PROVE  GatewayInv'
<1>1. /\ UNCHANGED <<indexVars, gatewayVars, client>>
      /\ connections' \subseteq connections
      /\ notices' \subseteq [socket : Sockets, stale : BOOLEAN]
  <2>1. CASE \E i \in Instances : ConnectionsEnd(i)
    BY <2>1 DEF ConnectionsEnd, GatewayInv, StateInv, GatewayTypeOK
  <2>2. ASSUME NEW k \in Sockets, CloseBroadcast(k) \/ \E i \in Instances : Heartbeat(i, k)
        PROVE  /\ UNCHANGED <<indexVars, gatewayVars, client>>
               /\ \E reached : Broadcast(k, reached)
    BY <2>2 DEF CloseBroadcast, Heartbeat
  <2> QED BY <2>1, <2>2, BroadcastTypes DEF GatewayInv
<1>2. UNCHANGED <<phase, sockets, orphans, toClose, task>>
  BY <1>1 DEF gatewayVars
<1>3. IndexKept /\ PinsKept
  BY <1>1, NoCall DEF GatewayInv, StateInv
<1>4. Registered' \subseteq Registered /\ IndexInv' /\ closed' = closed
  BY <1>3 DEF IndexKept
<1>5. OutsideTypes' /\ orphans' \subseteq Sockets
  BY <1>1, <1>2 DEF OutsideTypes, GatewayInv, StateInv, GatewayTypeOK
<1>6. phase \in {"off", "running", "stopping", "closing", "draining"}
  BY DEF GatewayInv, StateInv, GatewayTypeOK
<1> QED
  BY <1>1, <1>2, <1>3, <1>4, <1>5, <1>6, CommittedStays, WorldKeeps DEF GatewayInv, StateInv

\* Time passes, or nothing does.
LEMMA TimePassesKeeps ==
    ASSUME GatewayInv, TimePasses \/ UNCHANGED vars
    PROVE  GatewayInv'
<1>1. UNCHANGED <<phase, sockets, orphans, toClose, task, client, connections,
                  notices>>
  BY DEF TimePasses, vars, gatewayVars, outsideVars
<1>2. IndexKept /\ PinsKept
  BY TickCall, NoCall DEF TimePasses, vars, GatewayInv, StateInv
<1>3. Registered' \subseteq Registered /\ IndexInv' /\ closed' = closed
  BY <1>2 DEF IndexKept
<1>4. OutsideTypes' /\ orphans' \subseteq Sockets
  BY <1>1 DEF OutsideTypes, GatewayInv, StateInv, GatewayTypeOK
<1>5. phase \in {"off", "running", "stopping", "closing", "draining"}
  BY DEF GatewayInv, StateInv, GatewayTypeOK
<1> QED
  BY <1>1, <1>2, <1>3, <1>4, <1>5, CommittedStays, WorldKeeps DEF GatewayInv, StateInv

-----------------------------------------------------------------------------
\* A gateway that never connected satisfies the invariant.
LEMMA InitGateway == Init => GatewayInv
<1> SUFFICES ASSUME Init PROVE GatewayInv
  OBVIOUS
<1>1. IndexInv
  <2>1. IndexTypeOK
    <3>1. 0 \in 0..MaxAge
      BY ThresholdAssumption DEF MaxAge
    <3> QED BY <3>1, EmptySequence DEF Init, IndexTypeOK, Unpinned
  <2>2. RegisteredOnce
    BY EmptySequence DEF Init, RegisteredOnce, Registered, InstancesOf
  <2>3. PinsAreLive
    BY DEF Init, PinsAreLive, Unpinned
  <2>4. LoadIsExact
    BY NameOfAssumption, NoInstanceAssumption, EmptySequence DEF Init, LoadIsExact, Unpinned
  <2> QED BY <2>1, <2>2, <2>3, <2>4 DEF IndexInv
<1>2. task \in [Callers -> Tasks] /\ \A g \in Callers : task[g] = Idle
  BY IdleTask DEF Init
<1>3. StateInv
  BY <1>1, <1>2 DEF Init, StateInv, GatewayTypeOK, IndexInv, Registered, ToSet
<1>4. \A k \in Sockets : ~Committed(k)
  <2>1. PinnedTo(Instances) = {}
    BY NoInstanceAssumption DEF Init, PinnedTo, Unpinned
  <2> QED BY <1>2, <2>1 DEF Init, Committed, Does
<1>5. CallsInv
  BY <1>2, IdleTask DEF CallsInv
<1>6. StoppedTracksNothing
  BY DEF Init, StoppedTracksNothing
<1> QED BY <1>3, <1>4, <1>5, <1>6 DEF GatewayInv, AccountedInv

\* Every step of a caller's task keeps the invariant.
LEMMA ContinueKeeps ==
    ASSUME GatewayInv, NEW g \in Callers, Continue(g)
    PROVE  GatewayInv'
BY ResolveKeeps, TrackKeeps, MapKeeps, DeliverKeeps, RejectSlowKeeps, FailSendKeeps, UnsetAndRetryKeeps,
   UntrackKeeps, ShutKeeps, BroadcastClosedKeeps, UnmapKeeps, ClosureShutKeeps,
   ClosureUnmapKeeps, WriteKeeps
   DEF Continue, HandleStep, CloseSocketStep

\* Every step of the gateway and of what surrounds it keeps the invariant.
LEMMA GatewayStep == GatewayInv /\ [Next]_vars => GatewayInv'
BY ConnectKeeps, InterruptKeeps, CloseIndexKeeps, CloseAllSocketsKeeps, CloseOrphanKeeps,
   DisconnectedKeeps, ReceiveKeeps, HandleCloseKeeps, HandleGatewayMessageKeeps, WriteKeeps,
   HandleSocketClosureKeeps, ContinueKeeps, AnnouncementKeeps, PruneKeeps, PruneNextKeeps,
   ServicesKeep, TimePassesKeeps
   DEF Next, StopStep, Callers

\* Whatever the handlers of any number of sockets do meanwhile, the index is
\* consistent, every socket that something depends on is accounted for, and a
\* stopped gateway is on its way to forget what came too late
\* (gateway.go, gateway-service-indexer.go).
THEOREM GatewayIsConsistent == Spec => []GatewayInv
<1> QED BY InitGateway, GatewayStep, PTL DEF Spec

-----------------------------------------------------------------------------
\* The index stays consistent under the handlers that share it: no dangling
\* pin, no socket counted twice or not at all (gateway-service-indexer.go).
THEOREM GatewayIndexIsConsistent == Spec => []IndexInv
<1>1. GatewayInv => IndexInv
  BY DEF GatewayInv, StateInv
<1> QED BY <1>1, GatewayIsConsistent, PTL

\* No heartbeat can end the connection of a live socket the gateway still
\* serves: Handle tracks a socket before it sends (gateway.go:275-297, 372-381).
THEOREM HeartbeatsAreSound == Spec => []HeartbeatIsSound
<1>1. GatewayInv => HeartbeatIsSound
  <2> SUFFICES ASSUME GatewayInv, NEW c \in connections
               PROVE  c[2] \in sockets \/ client[c[2]] # "open" \/ BeingClosed(c[2])
    BY DEF HeartbeatIsSound
  <2>1. c[1] \in Instances /\ c[2] \in Sockets /\ c = <<c[1], c[2]>>
    BY DEF GatewayInv, StateInv, GatewayTypeOK
  <2>2. Committed(c[2])
    BY <2>1 DEF Committed
  <2> QED BY <2>1, <2>2 DEF GatewayInv, AccountedInv, Accounted
<1> QED BY <1>1, GatewayIsConsistent, PTL

\* A message that is given up disconnects its client, whoever closes the socket
\* first (gateway.go:283-320, 393).
THEOREM NoMessageIsLostInSilence == Spec => []UndeliveredCloses
<1>1. GatewayInv => UndeliveredCloses
  <2> SUFFICES ASSUME GatewayInv, NEW g \in Callers, task[g].pc = "close",
                      task[g].socket \notin sockets
               PROVE  client[task[g].socket] # "open" \/ BeingClosed(task[g].socket)
    BY DEF UndeliveredCloses
  <2>1. task[g].socket \in Sockets
    BY CallerTypes DEF GatewayInv, SocketTasks
  <2>2. Committed(task[g].socket)
    BY <2>1 DEF Committed, Does, Idle
  <2> QED BY <2>1, <2>2 DEF GatewayInv, AccountedInv, Accounted
<1> QED BY <1>1, GatewayIsConsistent, PTL

\* No pin outlives the tracking of its socket, unless the socket's client is
\* being disconnected (gateway.go:275-283, 385-410).
THEOREM PinsAreTracked == Spec => []PinnedIsTrackedOrClosed
<1>1. GatewayInv => PinnedIsTrackedOrClosed
  BY DEF GatewayInv, AccountedInv, Accounted, Committed, PinnedIsTrackedOrClosed, PinnedTo
<1> QED BY <1>1, GatewayIsConsistent, PTL

\* What a prune reports, pruneLoop or somebody else disconnects: the safety half of
\* PrunedSocketsClose (gateway.go:353-370, gateway-service-indexer.go:139-172).
THEOREM PrunedSocketsAreTracked == Spec => []PrunedIsTrackedOrClosed
<1>1. GatewayInv => PrunedIsTrackedOrClosed
  BY DEF GatewayInv, StateInv, GatewayTypeOK, AccountedInv, Committed, Accounted,
         PrunedIsTrackedOrClosed
<1> QED BY <1>1, GatewayIsConsistent, PTL

\* A stopped gateway tracks only sockets that a late handler is about to give
\* up: the order of the deferred calls matters (gateway.go:84-85).
THEOREM StoppedGatewayTracksNothing == Spec => []StoppedTracksNothing
<1>1. GatewayInv => StoppedTracksNothing
  BY DEF GatewayInv
<1> QED BY <1>1, GatewayIsConsistent, PTL

\* No message is sent twice to an instance that failed it, however other
\* handlers map and unset in between (gateway.go:313).
THEOREM HandleNeverResends == Spec => []NeverResends
<1>1. GatewayInv => NeverResends
  BY CallerTypes DEF GatewayInv, CallsInv, SoundCall, NeverResends, Callers
<1> QED BY <1>1, GatewayIsConsistent, PTL

\* The fields of the gateway and the tasks of its goroutines keep their types
\* (gateway.go).
THEOREM GatewayTypesAreCorrect == Spec => []GatewayTypeOK
<1>1. GatewayInv => GatewayTypeOK
  BY DEF GatewayInv, StateInv
<1> QED BY <1>1, GatewayIsConsistent, PTL

=============================================================================
