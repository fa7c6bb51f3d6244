------------------------ MODULE GatewayServiceIndexer ------------------------
(***************************************************************************)
(* The service index of a gateway (gateway-service-indexer.go): which      *)
(* service instances are registered, which paths they serve, and to which  *)
(* instance of each service every client socket is pinned.                 *)
(*                                                                         *)
(* Every exported method of the Go type runs under r.mu, so each is one    *)
(* action here.  An action that returns a value takes it as a parameter:   *)
(* MapSocket(n, k, i, isNew) is the step in which the call                 *)
(* MapSocket(n, k) returns (i, isNew).  Gateway.tla uses these actions as  *)
(* the calls its handlers make.                                            *)
(***************************************************************************)
EXTENDS Naturals, FiniteSets, Sequences, SequencesExt

CONSTANTS
    Services,    \* service names
    Instances,   \* instance IDs (Service.ID)
    Sockets,     \* client socket IDs
    Paths,       \* message paths that a route pattern may match
    NameOf,      \* the service each instance is an instance of
    NoInstance,  \* the empty instance ID
    FreshFor,    \* age up to which FreshServiceDescriptors lists an instance
    PruneAfter   \* age beyond which PruneStaleServices drops an instance

ASSUME NoInstanceAssumption == NoInstance \notin Instances
ASSUME NameOfAssumption == NameOf \in [Instances -> Services]
ASSUME SocketsAssumption == IsFiniteSet(Sockets)
ASSUME ThresholdAssumption ==
    FreshFor \in Nat /\ PruneAfter \in Nat /\ FreshFor <= PruneAfter

VARIABLES
    closed,            \* r.closed
    descriptors,       \* r.descriptors, in registration order
    servicesByName,    \* r.servicesByName; a missing key is <<>>
    routeDescriptors,  \* ServiceDescriptor.RouteDescriptors: paths they match
    age,               \* time since ServiceDescriptor.LastSeenAt
    socketIDs,         \* ServiceDescriptor.socketIDs: the load of an instance
    socketToInstance   \* r.socketToInstance; a missing entry is NoInstance

indexVars == <<closed, descriptors, servicesByName, routeDescriptors, age,
               socketIDs, socketToInstance>>

\* Ages are not told apart once they exceed PruneAfter.
MaxAge == PruneAfter + 1

IndexTypeOK ==
    /\ closed \in BOOLEAN
    /\ descriptors \in Seq(Instances)
    /\ servicesByName \in [Services -> Seq(Instances)]
    /\ routeDescriptors \in [Instances -> SUBSET Paths]
    /\ age \in [Instances -> 0..MaxAge]
    /\ socketIDs \in [Instances -> Seq(Sockets)]
    /\ socketToInstance \in [Sockets -> [Services -> Instances \cup {NoInstance}]]

-----------------------------------------------------------------------------
\* The sequence s without the members of D (slices.Delete of the first entry
\* with a given ID: an ID occurs once, see RegisteredOnce and LoadIsExact).
\* A recursive function, so that its properties can be proved.
Without(s, D) ==
    LET kept[x \in 0..Len(s)] ==
            IF x = 0 THEN <<>>
            ELSE IF s[x] \in D THEN kept[x - 1] ELSE Append(kept[x - 1], s[x])
    IN  kept[Len(s)]

Registered == ToSet(descriptors)

InstancesOf(n) == ToSet(servicesByName[n])

\* The sockets pinned to an instance of D.
PinnedTo(D) ==
    {k \in Sockets : \E n \in Services : socketToInstance[k][n] \in D}

Unpinned == [n \in Services |-> NoInstance]

NewIndex ==
    /\ closed = FALSE
    /\ descriptors = <<>>
    /\ servicesByName = [n \in Services |-> <<>>]
    /\ routeDescriptors = [i \in Instances |-> {}]
    /\ age = [i \in Instances |-> 0]
    /\ socketIDs = [i \in Instances |-> <<>>]
    /\ socketToInstance = [k \in Sockets |-> Unpinned]

\* Every exported method returns at once when the index is closed.
WhenClosed == closed /\ UNCHANGED indexVars

Clear ==
    /\ descriptors' = <<>>
    /\ servicesByName' = [n \in Services |-> <<>>]
    /\ routeDescriptors' = [i \in Instances |-> {}]
    /\ age' = [i \in Instances |-> 0]
    /\ socketIDs' = [i \in Instances |-> <<>>]
    /\ socketToInstance' = [k \in Sockets |-> Unpinned]

Close == closed' = TRUE /\ Clear

\* An announcement of an instance already listed only refreshes its routes and
\* its age; a new one is listed with no sockets.
RefreshDescriptor(i, routes) ==
    /\ ~closed
    /\ i \in InstancesOf(NameOf[i])
    /\ routeDescriptors' = [routeDescriptors EXCEPT ![i] = routes]
    /\ age' = [age EXCEPT ![i] = 0]
    /\ UNCHANGED <<closed, descriptors, servicesByName, socketIDs, socketToInstance>>

AddDescriptor(i, routes) ==
    /\ ~closed
    /\ i \notin InstancesOf(NameOf[i])
    /\ descriptors' = Append(descriptors, i)
    /\ servicesByName' = [servicesByName EXCEPT ![NameOf[i]] = Append(@, i)]
    /\ routeDescriptors' = [routeDescriptors EXCEPT ![i] = routes]
    /\ age' = [age EXCEPT ![i] = 0]
    /\ UNCHANGED <<closed, socketIDs, socketToInstance>>

SetServiceDescriptor(i, routes) ==
    \/ WhenClosed
    \/ RefreshDescriptor(i, routes)
    \/ AddDescriptor(i, routes)

\* unsetServiceLocked for each ID of D: the descriptors go, and with them
\* their loads; so does every pin to one of them.
Unregister(D) ==
    /\ ~closed
    /\ descriptors' = Without(descriptors, D)
    /\ servicesByName' = [n \in Services |-> Without(servicesByName[n], D)]
    /\ routeDescriptors' =
          [i \in Instances |-> IF i \in D THEN {} ELSE routeDescriptors[i]]
    /\ age' = [i \in Instances |-> IF i \in D THEN 0 ELSE age[i]]
    /\ socketIDs' = [i \in Instances |-> IF i \in D THEN <<>> ELSE socketIDs[i]]
    /\ socketToInstance' =
          [k \in Sockets |-> [n \in Services |->
              IF socketToInstance[k][n] \in D THEN NoInstance
                                              ELSE socketToInstance[k][n]]]
    /\ UNCHANGED closed

UnsetService(i) == WhenClosed \/ Unregister({i})

Stale == {i \in Registered : age[i] > PruneAfter}

PruneStaleServices(affected) ==
    \/ WhenClosed /\ affected = {}
    \/ affected = PinnedTo(Stale) /\ Unregister(Stale)

\* Mutant of IsTarget: the loads are not compared.
IsFirstRegistered(n, i) == servicesByName[n] # <<>> /\ Head(servicesByName[n]) = i

\* The instance MapSocket picks for an unpinned socket: the first registered
\* of those with the fewest sockets.
IsTarget(n, i) ==
    \E x \in DOMAIN servicesByName[n] :
        /\ servicesByName[n][x] = i
        /\ \A y \in DOMAIN servicesByName[n] :
              LET load == Len(socketIDs[servicesByName[n][y]])
              IN  IF y < x THEN load > Len(socketIDs[i])
                           ELSE load >= Len(socketIDs[i])

MapNothing(i, isNew) == i = NoInstance /\ ~isNew /\ UNCHANGED indexVars

MapPinned(n, k, i, isNew) ==
    /\ ~closed
    /\ i = socketToInstance[k][n] /\ i # NoInstance
    /\ ~isNew
    /\ UNCHANGED indexVars

MapNew(n, k, i, isNew) ==
    /\ ~closed
    /\ socketToInstance[k][n] = NoInstance
    /\ i \in Instances /\ IsTarget(n, i)
    /\ isNew
    /\ socketIDs' = [socketIDs EXCEPT ![i] = Append(@, k)]
    /\ socketToInstance' = [socketToInstance EXCEPT ![k][n] = i]
    /\ UNCHANGED <<closed, descriptors, servicesByName, routeDescriptors, age>>

MapSocket(n, k, i, isNew) ==
    \/ closed /\ MapNothing(i, isNew)
    \/ MapPinned(n, k, i, isNew)
    \/ /\ ~closed /\ socketToInstance[k][n] = NoInstance
       /\ servicesByName[n] = <<>>
       /\ MapNothing(i, isNew)
    \/ MapNew(n, k, i, isNew)

\* Mutant of UnmapSocket: the pins go, the loads stay.
UnmapKeepingLoad(k) ==
    \/ WhenClosed
    \/ /\ ~closed
       /\ socketToInstance' = [socketToInstance EXCEPT ![k] = Unpinned]
       /\ UNCHANGED <<closed, descriptors, servicesByName, routeDescriptors, age,
                      socketIDs>>

\* The socket leaves the load of the instances it is pinned to, found through
\* servicesByName, and its pins are forgotten.
UnmapSocket(k) ==
    \/ WhenClosed
    \/ /\ ~closed
       /\ socketIDs' =
             [i \in Instances |->
                 IF /\ socketToInstance[k][NameOf[i]] = i
                    /\ i \in InstancesOf(NameOf[i])
                 THEN Without(socketIDs[i], {k})
                 ELSE socketIDs[i]]
       /\ socketToInstance' = [socketToInstance EXCEPT ![k] = Unpinned]
       /\ UNCHANGED <<closed, descriptors, servicesByName, routeDescriptors, age>>

\* Time passes: every registered descriptor is one unit older.
Tick ==
    /\ age' = [i \in Instances |->
                  IF i \in Registered /\ age[i] < MaxAge THEN age[i] + 1 ELSE age[i]]
    /\ UNCHANGED <<closed, descriptors, servicesByName, routeDescriptors,
                   socketIDs, socketToInstance>>

\* The read-only methods.
FreshServiceDescriptors == {i \in Registered : age[i] <= FreshFor}

ResolveService(p) ==   \* map order decides between several names
    {n \in Services : \E i \in InstancesOf(n) : p \in routeDescriptors[i]}

SocketIDsByServiceInstance ==
    [i \in Instances |-> {k \in Sockets : \E n \in Services : socketToInstance[k][n] = i}]

-----------------------------------------------------------------------------
IndexNext ==
    \/ \E i \in Instances, routes \in SUBSET Paths : SetServiceDescriptor(i, routes)
    \/ \E i \in Instances : UnsetService(i)
    \/ \E affected \in SUBSET Sockets : PruneStaleServices(affected)
    \/ \E n \in Services, k \in Sockets, i \in Instances \cup {NoInstance},
          isNew \in BOOLEAN : MapSocket(n, k, i, isNew)
    \/ \E k \in Sockets : UnmapSocket(k)
    \/ Close
    \/ Tick

IndexSpec == NewIndex /\ [][IndexNext]_indexVars

-----------------------------------------------------------------------------
IsInjectiveSeq(s) == \A x, y \in DOMAIN s : s[x] = s[y] => x = y

\* An instance is listed at most once, under its own name, and in both lists
\* or in neither: re-announcements, unsets and prunes in any order keep the
\* lists of gateway-service-indexer.go:13-14 in step.
RegisteredOnce ==
    /\ IsInjectiveSeq(descriptors)
    /\ \A n \in Services :
          /\ IsInjectiveSeq(servicesByName[n])
          /\ InstancesOf(n) = {i \in Registered : NameOf[i] = n}

\* A pin always names a registered instance of the right service: whatever
\* removes an instance removes the pins to it (unsetServiceLocked), so
\* MapSocket never answers with an instance the index has dropped.
PinsAreLive ==
    \A k \in Sockets, n \in Services :
        socketToInstance[k][n] # NoInstance => socketToInstance[k][n] \in InstancesOf(n)

\* The count that least-connections balancing compares is exact: the socketIDs
\* of an instance are the sockets pinned to it, each once.
LoadIsExact ==
    \A i \in Instances :
        /\ IsInjectiveSeq(socketIDs[i])
        /\ ToSet(socketIDs[i]) =
              {k \in Sockets : socketToInstance[k][NameOf[i]] = i}

\* The inductive invariant: each part needs the others.
IndexInv == IndexTypeOK /\ RegisteredOnce /\ PinsAreLive /\ LoadIsExact

\* PruneStaleServices reports exactly the sockets that it unpins: the prune
\* loop closes no other socket and leaves none of them open.
PruneReportsUnpinned ==
    [][\A affected \in SUBSET Sockets :
          PruneStaleServices(affected) =>
              affected = {k \in Sockets : socketToInstance'[k] # socketToInstance[k]}
      ]_indexVars

\* A pin is released before it can name another instance: no call re-routes a
\* pinned socket in one step.
PinNeverMoves ==
    [][\A k \in Sockets, n \in Services :
          socketToInstance[k][n] # NoInstance =>
              socketToInstance'[k][n] \in {socketToInstance[k][n], NoInstance}]_indexVars

\* Refinement: the index pins sockets as least-connections balancing promises
\* (README.md:501).  The promise counts the sockets pinned to an instance;
\* MapSocket compares the lengths of the socketIDs the other methods maintain.
Promise == INSTANCE LeastConnections
             WITH registered <- Registered, pinnedTo <- socketToInstance

ImplementsLeastConnections == Promise!Spec

=============================================================================
