--------------------- MODULE GatewayServiceIndexerProofs ---------------------
(***************************************************************************)
(* The index of a gateway is consistent for any numbers of services,       *)
(* instances and sockets.  The first part is about sequences, the second   *)
(* about the index.                                                        *)
(***************************************************************************)
EXTENDS GatewayServiceIndexer, TLAPS, WellFoundedInduction, SequenceTheorems,
        FiniteSetTheorems

-----------------------------------------------------------------------------
\* A set of naturals that is not empty has a least element.
LEMMA NatMinimum ==
    ASSUME NEW T, T \subseteq Nat, T # {}
    PROVE  \E m \in T : \A k \in T : m <= k
<1> DEFINE R == {ss \in Nat \X Nat : ss[1] < ss[2]}
<1>1. OpToRel(<, Nat) = R
  BY Zenon DEF OpToRel
<1>2. IsWellFoundedOn(R, Nat)
  BY <1>1, NatLessThanWellFounded
<1>3. PICK m \in T : \A k \in T : ~ (<<k, m>> \in R)
  <2> HIDE DEF R
  <2> QED BY <1>2, WFMin
<1>4. \A k \in T : ~ (k < m)
  BY <1>3
<1> QED BY <1>4

\* What appending an element to a sequence adds.
LEMMA AppendToSet ==
    ASSUME NEW S, NEW s \in Seq(S), NEW e \in S
    PROVE  /\ Append(s, e) \in Seq(S)
           /\ ToSet(Append(s, e)) = ToSet(s) \cup {e}
           /\ IsInjectiveSeq(s) /\ e \notin ToSet(s) => IsInjectiveSeq(Append(s, e))
<1> DEFINE t == Append(s, e)
<1>1. /\ t \in Seq(S)
      /\ Len(t) = Len(s) + 1
      /\ \A x \in 1..Len(s) : t[x] = s[x]
      /\ t[Len(s) + 1] = e
  BY AppendProperties
<1>2. Len(s) \in Nat /\ DOMAIN s = 1..Len(s) /\ DOMAIN t = 1..Len(t)
  BY <1>1, LenProperties
<1> HIDE DEF t
<1>3. ASSUME NEW z PROVE z \in ToSet(t) <=> z \in ToSet(s) \cup {e}
  <2>1. z \in ToSet(t) <=> \E x \in 1..(Len(s) + 1) : t[x] = z
    BY <1>1, <1>2 DEF ToSet
  <2>2. (\E x \in 1..(Len(s) + 1) : t[x] = z)
           <=> (\E x \in 1..Len(s) : s[x] = z) \/ e = z
    BY <1>1, <1>2
  <2> QED BY <1>2, <2>1, <2>2 DEF ToSet
<1>4. ASSUME IsInjectiveSeq(s), e \notin ToSet(s) PROVE IsInjectiveSeq(t)
  <2>1. \A x \in 1..Len(s) : s[x] # e
    BY <1>2, <1>4 DEF ToSet
  <2>2. \A x, y \in 1..Len(s) : s[x] = s[y] => x = y
    BY <1>2, <1>4 DEF IsInjectiveSeq
  <2>3. ASSUME NEW x \in 1..(Len(s) + 1), NEW y \in 1..(Len(s) + 1), t[x] = t[y]
        PROVE  x = y
    BY <1>1, <1>2, <2>1, <2>2, <2>3
  <2> QED BY <1>1, <1>2, <2>3 DEF IsInjectiveSeq
<1> QED BY <1>1, <1>3, <1>4 DEF t

\* The recursion that defines Without has a solution.
LEMMA WithoutDef ==
    ASSUME NEW S, NEW s \in Seq(S), NEW D
    PROVE  \E f : /\ f = [x \in 0..Len(s) |->
                             IF x = 0 THEN <<>>
                             ELSE IF s[x] \in D THEN f[x - 1]
                             ELSE Append(f[x - 1], s[x])]
                  /\ Without(s, D) = f[Len(s)]
<1> DEFINE Body(f, m) == [x \in 0..m |->
                             IF x = 0 THEN <<>>
                             ELSE IF s[x] \in D THEN f[x - 1]
                             ELSE Append(f[x - 1], s[x])]
           Bad == {m \in Nat : ~ \E f : f = Body(f, m)}
<1>1. Bad = {}
  <2> SUFFICES ASSUME Bad # {} PROVE FALSE
    OBVIOUS
  <2>1. PICK m \in Bad : \A k \in Bad : m <= k
    BY NatMinimum
  <2>2. m # 0
    <3> DEFINE g == [x \in {0} |-> <<>>]
    <3>1. g = Body(g, 0)
      OBVIOUS
    <3> QED BY <3>1, <2>1
  <2>3. PICK f : f = Body(f, m - 1)
    <3>1. m - 1 \in Nat /\ m - 1 \notin Bad
      <4> HIDE DEF Body
      <4> QED BY <2>1, <2>2
    <3> QED BY <3>1
  <2> DEFINE g == [x \in 0..m |-> IF x < m THEN f[x]
                                  ELSE IF s[m] \in D THEN f[m - 1]
                                  ELSE Append(f[m - 1], s[m])]
  <2>4. \A x \in 0..m : g[x] = Body(g, m)[x]
    <3> SUFFICES ASSUME NEW x \in 0..m PROVE g[x] = Body(g, m)[x]
      OBVIOUS
    <3>1. CASE x = m
      BY <3>1, <2>1, <2>2
    <3>2. CASE x < m
      <4>1. g[x] = Body(f, m - 1)[x]
        BY <3>2, <2>1, <2>2, <2>3
      <4>2. x # 0 => g[x - 1] = f[x - 1]
        BY <3>2, <2>1
      <4> QED BY <4>1, <4>2, <3>2, <2>1, <2>2
    <3> QED BY <3>1, <3>2, <2>1
  <2>5. g = Body(g, m)
    <3> HIDE DEF g
    <3> QED BY <2>4 DEF g
  <2> QED BY <2>5, <2>1
<1>2. \E f : f = Body(f, Len(s))
  BY <1>1, LenProperties
<1> QED BY <1>2 DEF Without

\* What removing elements from a sequence leaves.
LEMMA WithoutProperties ==
    ASSUME NEW S, NEW s \in Seq(S), NEW D
    PROVE  /\ Without(s, D) \in Seq(S)
           /\ ToSet(Without(s, D)) = ToSet(s) \ D
           /\ IsInjectiveSeq(s) => IsInjectiveSeq(Without(s, D))
<1>0. Len(s) \in Nat /\ DOMAIN s = 1..Len(s)
  BY LenProperties
<1>1. PICK f : /\ f = [x \in 0..Len(s) |->
                          IF x = 0 THEN <<>>
                          ELSE IF s[x] \in D THEN f[x - 1]
                          ELSE Append(f[x - 1], s[x])]
               /\ Without(s, D) = f[Len(s)]
  BY WithoutDef
<1> DEFINE Good(x) == /\ f[x] \in Seq(S)
                      /\ ToSet(f[x]) = {s[y] : y \in 1..x} \ D
                      /\ IsInjectiveSeq(s) => IsInjectiveSeq(f[x])
           Bad == {x \in 0..Len(s) : ~ Good(x)}
<1>2. Bad = {}
  <2> SUFFICES ASSUME Bad # {} PROVE FALSE
    OBVIOUS
  <2>1. PICK x \in Bad : \A y \in Bad : x <= y
    <3> HIDE DEF Good
    <3>1. Bad \subseteq Nat
      BY <1>0
    <3> QED BY <3>1, NatMinimum
  <2>2. x # 0
    <3>1. f[0] = <<>>
      BY <1>0, <1>1
    <3>2. Good(0)
      BY <3>1 DEF ToSet, IsInjectiveSeq
    <3> QED BY <3>2, <2>1
  <2>3. Good(x - 1)
    <3> HIDE DEF Good
    <3>1. x - 1 \in 0..Len(s) /\ x - 1 \notin Bad
      BY <1>0, <2>1, <2>2
    <3> QED BY <3>1
  <2>4. x \in 1..Len(s) /\ s[x] \in S
    BY <1>0, <2>1, <2>2, ElementOfSeq
  <2>5. f[x] = IF s[x] \in D THEN f[x - 1] ELSE Append(f[x - 1], s[x])
    BY <1>0, <1>1, <2>2, <2>4
  <2>6. {s[y] : y \in 1..x} = {s[y] : y \in 1..(x - 1)} \cup {s[x]}
    BY <1>0, <2>4
  <2>7. CASE s[x] \in D
    BY <2>1, <2>3, <2>5, <2>6, <2>7
  <2>8. CASE s[x] \notin D
    <3>1. f[x] = Append(f[x - 1], s[x])
      BY <2>5, <2>8
    <3>2. /\ f[x] \in Seq(S)
          /\ ToSet(f[x]) = ToSet(f[x - 1]) \cup {s[x]}
          /\ IsInjectiveSeq(f[x - 1]) /\ s[x] \notin ToSet(f[x - 1])
                => IsInjectiveSeq(f[x])
      BY <2>3, <2>4, <3>1, AppendToSet
    <3>3. ToSet(f[x]) = {s[y] : y \in 1..x} \ D
      BY <2>3, <2>6, <2>8, <3>2
    <3>4. ASSUME IsInjectiveSeq(s) PROVE s[x] \notin {s[y] : y \in 1..(x - 1)}
      BY <1>0, <2>4, <3>4 DEF IsInjectiveSeq
    <3> QED BY <2>1, <2>3, <3>2, <3>3, <3>4
  <2> QED BY <2>7, <2>8
<1>3. Good(Len(s))
  <2> HIDE DEF Good
  <2> QED BY <1>0, <1>2
<1>4. ToSet(s) = {s[y] : y \in 1..Len(s)}
  BY <1>0 DEF ToSet
<1> QED BY <1>1, <1>3, <1>4

-----------------------------------------------------------------------------
\* The empty sequence repeats nothing and holds nothing.
LEMMA EmptySequence ==
    ASSUME NEW S
    PROVE  <<>> \in Seq(S) /\ ToSet(<<>>) = {} /\ IsInjectiveSeq(<<>>)
BY DEF ToSet, IsInjectiveSeq

\* NewGatewayServiceIndexer returns a consistent index.
LEMMA NewIndexIsConsistent == NewIndex => IndexInv
<1> SUFFICES ASSUME NewIndex PROVE IndexInv
  OBVIOUS
<1> USE DEF NewIndex
<1>1. IndexTypeOK
  <2>1. 0 \in 0..MaxAge
    BY ThresholdAssumption DEF MaxAge
  <2> QED BY <2>1, EmptySequence DEF IndexTypeOK, Unpinned
<1>2. RegisteredOnce
  BY EmptySequence DEF RegisteredOnce, Registered, InstancesOf
<1>3. PinsAreLive
  BY DEF PinsAreLive, Unpinned
<1>4. LoadIsExact
  BY NameOfAssumption, NoInstanceAssumption, EmptySequence DEF LoadIsExact, Unpinned
<1> QED BY <1>1, <1>2, <1>3, <1>4 DEF IndexInv

\* Clear leaves a consistent index, whatever it finds.
LEMMA ClearIsConsistent ==
    ASSUME Clear, closed' \in BOOLEAN
    PROVE  IndexInv'
<1> USE DEF Clear
<1>1. IndexTypeOK'
  <2>1. 0 \in 0..MaxAge
    BY ThresholdAssumption DEF MaxAge
  <2> QED BY <2>1, EmptySequence DEF IndexTypeOK, Unpinned
<1>2. RegisteredOnce'
  BY EmptySequence DEF RegisteredOnce, Registered, InstancesOf
<1>3. PinsAreLive'
  BY DEF PinsAreLive, Unpinned
<1>4. LoadIsExact'
  BY NameOfAssumption, NoInstanceAssumption, EmptySequence DEF LoadIsExact, Unpinned
<1> QED BY <1>1, <1>2, <1>3, <1>4 DEF IndexInv

\* Registering or refreshing an instance keeps the index consistent.
LEMMA SetServiceDescriptorIsConsistent ==
    ASSUME IndexInv, NEW i \in Instances, NEW routes \in SUBSET Paths,
           SetServiceDescriptor(i, routes)
    PROVE  IndexInv'
<1> USE DEF IndexInv
<1>0. 0 \in 0..MaxAge /\ NameOf[i] \in Services
  BY ThresholdAssumption, NameOfAssumption DEF MaxAge
<1>1. CASE WhenClosed
  BY <1>1 DEF WhenClosed, indexVars, IndexTypeOK, RegisteredOnce, PinsAreLive,
              LoadIsExact, InstancesOf, Registered
<1>2. CASE RefreshDescriptor(i, routes)
  <2>1. IndexTypeOK'
    BY <1>0, <1>2 DEF RefreshDescriptor, IndexTypeOK
  <2>2. RegisteredOnce' /\ PinsAreLive' /\ LoadIsExact'
    BY <1>2 DEF RefreshDescriptor, RegisteredOnce, PinsAreLive, LoadIsExact,
                InstancesOf, Registered
  <2> QED BY <2>1, <2>2
<1>3. CASE AddDescriptor(i, routes)
  <2> USE <1>3 DEF AddDescriptor
  <2>1. i \notin Registered
    BY <1>0 DEF RegisteredOnce
  <2>2. /\ descriptors' \in Seq(Instances)
        /\ Registered' = Registered \cup {i}
        /\ IsInjectiveSeq(descriptors')
    BY <2>1, AppendToSet DEF IndexTypeOK, RegisteredOnce, Registered
  <2>3. ASSUME NEW n \in Services
        PROVE  /\ servicesByName'[n] \in Seq(Instances)
               /\ InstancesOf(n)' = InstancesOf(n) \cup (IF n = NameOf[i] THEN {i} ELSE {})
               /\ IsInjectiveSeq(servicesByName'[n])
    <3>1. /\ servicesByName[n] \in Seq(Instances)
          /\ IsInjectiveSeq(servicesByName[n])
      BY DEF IndexTypeOK, RegisteredOnce
    <3>2. CASE n = NameOf[i]
      <4>1. servicesByName'[n] = Append(servicesByName[n], i)
        BY <3>2 DEF IndexTypeOK
      <4>2. i \notin ToSet(servicesByName[n])
        BY <3>2 DEF InstancesOf
      <4> QED BY <3>1, <3>2, <4>1, <4>2, AppendToSet DEF InstancesOf
    <3>3. CASE n # NameOf[i]
      <4>1. servicesByName'[n] = servicesByName[n]
        BY <3>3 DEF IndexTypeOK
      <4> QED BY <3>1, <3>3, <4>1 DEF InstancesOf
    <3> QED BY <3>2, <3>3
  <2>4. IndexTypeOK'
    <3>1. servicesByName' \in [Services -> Seq(Instances)]
      BY <2>3 DEF IndexTypeOK
    <3> QED BY <1>0, <2>2, <3>1 DEF IndexTypeOK
  <2>5. RegisteredOnce'
    BY <2>2, <2>3 DEF RegisteredOnce
  <2>6. PinsAreLive'
    BY <2>3 DEF PinsAreLive
  <2>7. LoadIsExact'
    BY DEF LoadIsExact
  <2> QED BY <2>4, <2>5, <2>6, <2>7
<1> QED BY <1>1, <1>2, <1>3 DEF SetServiceDescriptor

\* unsetServiceLocked removes an instance from both lists and ends its pins.
LEMMA UnregisterIsConsistent ==
    ASSUME IndexInv, NEW D \in SUBSET Instances, Unregister(D)
    PROVE  IndexInv'
<1> USE DEF IndexInv, Unregister
<1>1. /\ descriptors' \in Seq(Instances)
      /\ Registered' = Registered \ D
      /\ IsInjectiveSeq(descriptors')
  BY WithoutProperties DEF IndexTypeOK, RegisteredOnce, Registered
<1>2. ASSUME NEW n \in Services
      PROVE  /\ servicesByName'[n] \in Seq(Instances)
             /\ InstancesOf(n)' = InstancesOf(n) \ D
             /\ IsInjectiveSeq(servicesByName'[n])
  <2>1. /\ servicesByName[n] \in Seq(Instances)
        /\ IsInjectiveSeq(servicesByName[n])
    BY DEF IndexTypeOK, RegisteredOnce
  <2>2. servicesByName'[n] = Without(servicesByName[n], D)
    OBVIOUS
  <2> QED BY <2>1, <2>2, WithoutProperties DEF InstancesOf
<1>3. \A k \in Sockets, n \in Services :
         socketToInstance'[k][n] = IF socketToInstance[k][n] \in D
                                   THEN NoInstance ELSE socketToInstance[k][n]
  OBVIOUS
<1>4. IndexTypeOK'
  <2>1. /\ servicesByName' \in [Services -> Seq(Instances)]
        /\ routeDescriptors' \in [Instances -> SUBSET Paths]
    BY <1>2 DEF IndexTypeOK
  <2>2. age' \in [Instances -> 0..MaxAge]
    BY ThresholdAssumption DEF IndexTypeOK, MaxAge
  <2>3. socketIDs' \in [Instances -> Seq(Sockets)]
    BY EmptySequence DEF IndexTypeOK
  <2>4. socketToInstance' \in [Sockets -> [Services -> Instances \cup {NoInstance}]]
    BY DEF IndexTypeOK
  <2> QED BY <1>1, <2>1, <2>2, <2>3, <2>4 DEF IndexTypeOK
<1>5. RegisteredOnce'
  BY <1>1, <1>2 DEF RegisteredOnce
<1>6. PinsAreLive'
  BY <1>2, <1>3, NoInstanceAssumption DEF PinsAreLive
<1>7. LoadIsExact'
  <2> SUFFICES ASSUME NEW i \in Instances
               PROVE  /\ IsInjectiveSeq(socketIDs'[i])
                      /\ ToSet(socketIDs'[i]) =
                            {k \in Sockets : socketToInstance'[k][NameOf[i]] = i}
    BY DEF LoadIsExact
  <2>1. NameOf[i] \in Services /\ i # NoInstance
    BY NameOfAssumption, NoInstanceAssumption
  <2>2. CASE i \in D
    <3>1. socketIDs'[i] = <<>>
      BY <2>2
    <3>2. \A k \in Sockets : socketToInstance'[k][NameOf[i]] # i
      BY <1>3, <2>1, <2>2
    <3> QED BY <3>1, <3>2, EmptySequence
  <2>3. CASE i \notin D
    <3>1. socketIDs'[i] = socketIDs[i]
      BY <2>3
    <3>2. \A k \in Sockets : socketToInstance'[k][NameOf[i]] = i
                                <=> socketToInstance[k][NameOf[i]] = i
      BY <1>3, <2>1, <2>3
    <3> QED BY <3>1, <3>2 DEF LoadIsExact
  <2> QED BY <2>2, <2>3
<1> QED BY <1>4, <1>5, <1>6, <1>7

\* UnsetService, of an instance known or not, keeps the index consistent.
LEMMA UnsetServiceIsConsistent ==
    ASSUME IndexInv, NEW i \in Instances, UnsetService(i)
    PROVE  IndexInv'
<1>1. CASE WhenClosed
  BY <1>1 DEF WhenClosed, indexVars, IndexInv, IndexTypeOK, RegisteredOnce,
              PinsAreLive, LoadIsExact, InstancesOf, Registered
<1>2. CASE Unregister({i})
  BY <1>2, UnregisterIsConsistent
<1> QED BY <1>1, <1>2 DEF UnsetService

\* PruneStaleServices keeps the index consistent, however many instances are stale.
LEMMA PruneIsConsistent ==
    ASSUME IndexInv, NEW affected \in SUBSET Sockets, PruneStaleServices(affected)
    PROVE  IndexInv'
<1>1. CASE WhenClosed
  BY <1>1 DEF WhenClosed, indexVars, IndexInv, IndexTypeOK, RegisteredOnce,
              PinsAreLive, LoadIsExact, InstancesOf, Registered
<1>2. CASE Unregister(Stale)
  <2>1. Stale \in SUBSET Instances
    BY DEF Stale, Registered, ToSet, IndexInv, IndexTypeOK
  <2> QED BY <1>2, <2>1, UnregisterIsConsistent
<1> QED BY <1>1, <1>2 DEF PruneStaleServices

\* Pinning a socket, or answering with the pin there is, keeps every load exact.
LEMMA MapSocketIsConsistent ==
    ASSUME IndexInv, NEW n \in Services, NEW k \in Sockets,
           NEW i \in Instances \cup {NoInstance}, NEW isNew \in BOOLEAN,
           MapSocket(n, k, i, isNew)
    PROVE  IndexInv'
<1> USE DEF IndexInv
<1>1. CASE UNCHANGED indexVars
  BY <1>1 DEF indexVars, IndexTypeOK, RegisteredOnce, PinsAreLive, LoadIsExact,
              InstancesOf, Registered
<1>2. CASE MapNew(n, k, i, isNew)
  <2> USE <1>2 DEF MapNew
  <2>1. i \in Instances /\ i \in InstancesOf(n) /\ NameOf[i] = n /\ i # NoInstance
    <3>1. i \in InstancesOf(n)
      BY DEF IsTarget, InstancesOf, ToSet
    <3>2. NameOf[i] = n
      BY <3>1 DEF RegisteredOnce
    <3> QED BY <3>1, <3>2, NoInstanceAssumption
  <2>2. \A j \in Sockets, m \in Services :
           socketToInstance'[j][m] = IF j = k /\ m = n THEN i ELSE socketToInstance[j][m]
    BY DEF IndexTypeOK
  <2>3. k \notin ToSet(socketIDs[i])
    BY <2>1 DEF LoadIsExact
  <2>4. /\ socketIDs'[i] \in Seq(Sockets)
        /\ ToSet(socketIDs'[i]) = ToSet(socketIDs[i]) \cup {k}
        /\ IsInjectiveSeq(socketIDs'[i])
    <3>1. /\ socketIDs[i] \in Seq(Sockets)
          /\ IsInjectiveSeq(socketIDs[i])
          /\ socketIDs'[i] = Append(socketIDs[i], k)
      BY <2>1 DEF IndexTypeOK, LoadIsExact
    <3> QED BY <2>3, <3>1, AppendToSet
  <2>5. \A j \in Instances : j # i => socketIDs'[j] = socketIDs[j]
    BY DEF IndexTypeOK
  <2>6. IndexTypeOK'
    <3>1. socketIDs' \in [Instances -> Seq(Sockets)]
      BY <2>4, <2>5 DEF IndexTypeOK
    <3>2. socketToInstance' \in [Sockets -> [Services -> Instances \cup {NoInstance}]]
      BY DEF IndexTypeOK
    <3> QED BY <3>1, <3>2 DEF IndexTypeOK
  <2>7. RegisteredOnce'
    BY DEF RegisteredOnce, Registered, InstancesOf
  <2>8. PinsAreLive'
    BY <2>1, <2>2 DEF PinsAreLive, InstancesOf
  <2>9. LoadIsExact'
    <3> SUFFICES ASSUME NEW j \in Instances
                 PROVE  /\ IsInjectiveSeq(socketIDs'[j])
                        /\ ToSet(socketIDs'[j]) =
                              {h \in Sockets : socketToInstance'[h][NameOf[j]] = j}
      BY DEF LoadIsExact
    <3>1. NameOf[j] \in Services
      BY NameOfAssumption
    <3>2. CASE j = i
      BY <2>1, <2>2, <2>4, <3>2 DEF LoadIsExact
    <3>3. CASE j # i
      <4>1. \A h \in Sockets : socketToInstance'[h][NameOf[j]] = j
                                  <=> socketToInstance[h][NameOf[j]] = j
        BY <2>1, <2>2, <3>1, <3>3, NoInstanceAssumption
      <4> QED BY <2>5, <3>3, <4>1 DEF LoadIsExact
    <3> QED BY <3>2, <3>3
  <2> QED BY <2>6, <2>7, <2>8, <2>9
<1> QED BY <1>1, <1>2 DEF MapSocket, MapNothing, MapPinned

\* Unmapping a socket takes it out of every load it is counted in.
LEMMA UnmapSocketIsConsistent ==
    ASSUME IndexInv, NEW k \in Sockets, UnmapSocket(k)
    PROVE  IndexInv'
<1> USE DEF IndexInv
<1>1. CASE WhenClosed
  BY <1>1 DEF WhenClosed, indexVars, IndexTypeOK, RegisteredOnce,
              PinsAreLive, LoadIsExact, InstancesOf, Registered
<1>2. CASE ~ WhenClosed
  <2> USE <1>2 DEF UnmapSocket
  <2>1. \A h \in Sockets, m \in Services :
           socketToInstance'[h][m] = IF h = k THEN NoInstance ELSE socketToInstance[h][m]
    BY DEF Unpinned, IndexTypeOK
  <2>2. ASSUME NEW i \in Instances
        PROVE  /\ socketIDs'[i] \in Seq(Sockets)
               /\ IsInjectiveSeq(socketIDs'[i])
               /\ ToSet(socketIDs'[i]) = ToSet(socketIDs[i]) \ {k}
    <3>1. /\ socketIDs[i] \in Seq(Sockets)
          /\ IsInjectiveSeq(socketIDs[i])
          /\ NameOf[i] \in Services
      BY NameOfAssumption DEF IndexTypeOK, LoadIsExact
    <3>2. CASE socketToInstance[k][NameOf[i]] = i
      <4>1. i \in InstancesOf(NameOf[i])
        BY <3>1, <3>2, NoInstanceAssumption DEF PinsAreLive
      <4>2. socketIDs'[i] = Without(socketIDs[i], {k})
        BY <3>2, <4>1
      <4> QED BY <3>1, <4>2, WithoutProperties
    <3>3. CASE socketToInstance[k][NameOf[i]] # i
      <4>1. socketIDs'[i] = socketIDs[i] /\ k \notin ToSet(socketIDs[i])
        BY <3>3 DEF LoadIsExact
      <4> QED BY <3>1, <4>1
    <3> QED BY <3>2, <3>3
  <2>3. IndexTypeOK'
    <3>1. socketIDs' \in [Instances -> Seq(Sockets)]
      BY <2>2
    <3>2. socketToInstance' \in [Sockets -> [Services -> Instances \cup {NoInstance}]]
      BY DEF IndexTypeOK, Unpinned
    <3> QED BY <3>1, <3>2 DEF IndexTypeOK
  <2>4. RegisteredOnce'
    BY DEF RegisteredOnce, Registered, InstancesOf
  <2>5. PinsAreLive'
    BY <2>1 DEF PinsAreLive, InstancesOf
  <2>6. LoadIsExact'
    <3> SUFFICES ASSUME NEW i \in Instances
                 PROVE  /\ IsInjectiveSeq(socketIDs'[i])
                        /\ ToSet(socketIDs'[i]) =
                              {h \in Sockets : socketToInstance'[h][NameOf[i]] = i}
      BY DEF LoadIsExact
    <3>1. NameOf[i] \in Services /\ i # NoInstance
      BY NameOfAssumption, NoInstanceAssumption
    <3>2. ToSet(socketIDs[i]) = {h \in Sockets : socketToInstance[h][NameOf[i]] = i}
      BY DEF LoadIsExact
    <3>3. \A h \in Sockets : socketToInstance'[h][NameOf[i]] = i
                                <=> socketToInstance[h][NameOf[i]] = i /\ h # k
      BY <2>1, <3>1
    <3> QED BY <2>2, <3>2, <3>3
  <2> QED BY <2>3, <2>4, <2>5, <2>6
<1> QED BY <1>1, <1>2

\* Time makes descriptors stale and changes nothing else.
LEMMA TickIsConsistent == IndexInv /\ Tick => IndexInv'
<1> SUFFICES ASSUME IndexInv, Tick PROVE IndexInv'
  OBVIOUS
<1>1. age' \in [Instances -> 0..MaxAge]
  BY ThresholdAssumption DEF Tick, IndexInv, IndexTypeOK, MaxAge
<1> QED BY <1>1 DEF Tick, IndexInv, IndexTypeOK, RegisteredOnce, PinsAreLive,
                    LoadIsExact, InstancesOf, Registered

\* Every step of the index preserves its inductive invariant.
LEMMA IndexNextIsConsistent == IndexInv /\ [IndexNext]_indexVars => IndexInv'
<1> SUFFICES ASSUME IndexInv, [IndexNext]_indexVars PROVE IndexInv'
  OBVIOUS
<1>1. CASE UNCHANGED indexVars
  BY <1>1 DEF indexVars, IndexInv, IndexTypeOK, RegisteredOnce, PinsAreLive,
              LoadIsExact, InstancesOf, Registered
<1>2. CASE IndexNext
  BY <1>2, SetServiceDescriptorIsConsistent, UnsetServiceIsConsistent,
     PruneIsConsistent, MapSocketIsConsistent, UnmapSocketIsConsistent,
     ClearIsConsistent, TickIsConsistent DEF IndexNext, Close
<1> QED BY <1>1, <1>2

\* Type correctness and consistency of the index, in every reachable state:
\* the lists agree, no pin dangles, and every load is exact
\* (gateway-service-indexer.go, all methods).
THEOREM IndexIsConsistent == IndexSpec => []IndexInv
<1> QED BY NewIndexIsConsistent, IndexNextIsConsistent, PTL DEF IndexSpec

-----------------------------------------------------------------------------
\* Refinement of LeastConnections.

\* A sequence without repetition is as long as its set of elements is large.
LEMMA InjectiveLength ==
    ASSUME NEW S, NEW s \in Seq(S), IsInjectiveSeq(s)
    PROVE  Cardinality(ToSet(s)) = Len(s)
<1>1. Len(s) \in Nat /\ DOMAIN s = 1..Len(s) /\ s \in [1..Len(s) -> S]
  BY LenProperties
<1>2. s \in Bijection(1..Len(s), ToSet(s))
  BY <1>1 DEF Bijection, Injection, Surjection, IsInjective, IsInjectiveSeq, ToSet
<1>3. ExistsBijection(1..Len(s), ToSet(s))
  BY <1>2 DEF ExistsBijection
<1>4. IsFiniteSet(1..Len(s)) /\ Cardinality(1..Len(s)) = Len(s)
  BY <1>1, FS_Interval
<1> QED BY <1>3, <1>4, FS_Bijection

\* What MapSocket compares is what the promise counts.
LEMMA LoadIsLength ==
    ASSUME IndexInv, NEW i \in Instances
    PROVE  Promise!Load(i) = Len(socketIDs[i])
<1>1. /\ socketIDs[i] \in Seq(Sockets)
      /\ IsInjectiveSeq(socketIDs[i])
      /\ ToSet(socketIDs[i]) = {k \in Sockets : socketToInstance[k][NameOf[i]] = i}
  BY DEF IndexInv, IndexTypeOK, LoadIsExact
<1>2. \A T : Promise!Cardinality(T) = Cardinality(T)
  BY DEF Promise!Cardinality, Cardinality, Promise!IsFiniteSet, IsFiniteSet
<1> QED BY <1>1, <1>2, InjectiveLength DEF Promise!Load

\* A new index promises nothing to anybody.
LEMMA NewIndexRefines == NewIndex => Promise!Init
BY DEF NewIndex, Promise!Init, Registered, Unpinned, Promise!NoPins, ToSet

\* MapSocket of an unpinned socket pins it to a least loaded instance.
LEMMA MapNewRefines ==
    ASSUME IndexInv, NEW n \in Services, NEW k \in Sockets,
           NEW i \in Instances, NEW isNew \in BOOLEAN, MapNew(n, k, i, isNew)
    PROVE  Promise!Pin(k, n, i)
<1> USE DEF IndexInv, MapNew
<1>1. i \in InstancesOf(n)
  BY DEF IsTarget, InstancesOf, ToSet
<1>2. i \in Registered /\ NameOf[i] = n
  BY <1>1 DEF RegisteredOnce
<1>3. ASSUME NEW j \in Registered, NameOf[j] = n
      PROVE  Promise!Load(i) <= Promise!Load(j)
  <2>1. j \in Instances
    BY DEF Registered, ToSet, IndexTypeOK
  <2>2. Len(socketIDs[i]) \in Nat /\ Len(socketIDs[j]) \in Nat
    BY <2>1, LenProperties DEF IndexTypeOK
  <2>3. j \in InstancesOf(n)
    BY <1>3 DEF RegisteredOnce
  <2>4. PICK y \in DOMAIN servicesByName[n] : servicesByName[n][y] = j
    BY <2>3 DEF InstancesOf, ToSet
  <2>5. Len(socketIDs[i]) <= Len(socketIDs[j])
    BY <2>2, <2>4 DEF IsTarget
  <2> QED BY <2>1, <2>5, LoadIsLength
<1> QED BY <1>2, <1>3 DEF Promise!Pin, Registered

\* Removing an instance is the Deregister step of the promise.
LEMMA UnregisterRefines ==
    ASSUME IndexInv, NEW D \in SUBSET Instances, Unregister(D)
    PROVE  Promise!Deregister(D)
<1>1. Registered' = Registered \ D
  BY WithoutProperties DEF Unregister, IndexInv, IndexTypeOK, Registered
<1> QED BY <1>1 DEF Unregister, Promise!Deregister

\* Every step of the index is a step of the promise, or leaves it alone.
LEMMA IndexStepRefines ==
    ASSUME IndexInv, [IndexNext]_indexVars
    PROVE  [Promise!Next]_Promise!vars
<1>1. CASE UNCHANGED indexVars
  BY <1>1 DEF indexVars, Promise!vars, Registered
<1>2. ASSUME NEW i \in Instances, NEW routes \in SUBSET Paths,
             SetServiceDescriptor(i, routes)
      PROVE  [Promise!Next]_Promise!vars
  <2>1. CASE WhenClosed
    BY <1>1, <2>1 DEF WhenClosed
  <2>2. CASE RefreshDescriptor(i, routes)
    BY <2>2 DEF RefreshDescriptor, Promise!vars, Registered
  <2>3. CASE AddDescriptor(i, routes)
    <3>1. Registered' = Registered \cup {i}
      BY <2>3, AppendToSet DEF AddDescriptor, IndexInv, IndexTypeOK, Registered
    <3>2. Promise!Register(i)
      BY <2>3, <3>1 DEF AddDescriptor, Promise!Register
    <3> QED BY <3>2 DEF Promise!Next
  <2> QED BY <1>2, <2>1, <2>2, <2>3 DEF SetServiceDescriptor
<1>3. ASSUME NEW i \in Instances, UnsetService(i)
      PROVE  [Promise!Next]_Promise!vars
  BY <1>1, <1>3, UnregisterRefines DEF UnsetService, WhenClosed, Promise!Next
<1>4. ASSUME NEW affected \in SUBSET Sockets, PruneStaleServices(affected)
      PROVE  [Promise!Next]_Promise!vars
  <2>1. Stale \in SUBSET Instances
    BY DEF Stale, Registered, ToSet, IndexInv, IndexTypeOK
  <2> QED BY <1>1, <1>4, <2>1, UnregisterRefines
          DEF PruneStaleServices, WhenClosed, Promise!Next
<1>5. ASSUME NEW n \in Services, NEW k \in Sockets, NEW i \in Instances \cup {NoInstance},
             NEW isNew \in BOOLEAN, MapSocket(n, k, i, isNew)
      PROVE  [Promise!Next]_Promise!vars
  <2>1. CASE MapNew(n, k, i, isNew)
    <3>1. i \in Instances
      BY <2>1 DEF MapNew
    <3> QED BY <2>1, <3>1, MapNewRefines DEF Promise!Next
  <2> QED BY <1>1, <1>5, <2>1 DEF MapSocket, MapNothing, MapPinned
<1>6. ASSUME NEW k \in Sockets, UnmapSocket(k)
      PROVE  [Promise!Next]_Promise!vars
  <2>1. CASE WhenClosed
    BY <1>1, <2>1 DEF WhenClosed
  <2>2. CASE ~ WhenClosed
    <3>1. Promise!Release(k)
      BY <1>6, <2>2 DEF UnmapSocket, Promise!Release, Registered, Unpinned, Promise!NoPins
    <3> QED BY <3>1 DEF Promise!Next
  <2> QED BY <2>1, <2>2
<1>7. CASE Close
  <2>1. Promise!Deregister(Instances)
    <3>1. Registered \subseteq Instances
      BY DEF Registered, ToSet, IndexInv, IndexTypeOK
    <3>2. \A k \in Sockets, n \in Services :
             socketToInstance[k][n] \in Instances \cup {NoInstance}
      BY DEF IndexInv, IndexTypeOK
    <3>3. Registered' = {}
      BY <1>7, EmptySequence DEF Close, Clear, Registered
    <3>4. socketToInstance' = [k \in Sockets |-> [n \in Services |->
             IF socketToInstance[k][n] \in Instances THEN NoInstance
                                                     ELSE socketToInstance[k][n]]]
      BY <1>7, <3>2 DEF Close, Clear, Unpinned
    <3> QED BY <3>1, <3>3, <3>4 DEF Promise!Deregister
  <2> QED BY <2>1 DEF Promise!Next
<1>8. CASE Tick
  BY <1>8 DEF Tick, Promise!vars, Registered
<1> QED BY <1>1, <1>2, <1>3, <1>4, <1>5, <1>6, <1>7, <1>8 DEF IndexNext

\* The index is least-connections balancing for any numbers of services,
\* instances and sockets: what it counts is exact, so what it picks is least
\* loaded (MapSocket, with every method that moves socketIDs).
THEOREM IndexRefinesLeastConnections == IndexSpec => ImplementsLeastConnections
<1>1. IndexInv /\ [IndexNext]_indexVars => [Promise!Next]_Promise!vars
  BY IndexStepRefines
<1> QED BY <1>1, NewIndexRefines, IndexIsConsistent, PTL
        DEF IndexSpec, ImplementsLeastConnections, Promise!Spec

\* No call moves a pin from an instance to another in one step (MapSocket
\* answers with the pin there is, unsetServiceLocked and UnmapSocket end it).
THEOREM PinsNeverMove == IndexSpec => PinNeverMoves
<1>1. IndexInv /\ [IndexNext]_indexVars =>
        \A k \in Sockets, n \in Services :
          socketToInstance[k][n] # NoInstance =>
              socketToInstance'[k][n] \in {socketToInstance[k][n], NoInstance}
  <2> SUFFICES ASSUME IndexInv, [IndexNext]_indexVars, NEW k \in Sockets,
                      NEW n \in Services, socketToInstance[k][n] # NoInstance
               PROVE  socketToInstance'[k][n] \in {socketToInstance[k][n], NoInstance}
    OBVIOUS
  <2>1. [Promise!Next]_Promise!vars
    BY IndexStepRefines
  <2>2. CASE UNCHANGED Promise!vars
    BY <2>2 DEF Promise!vars
  <2>3. ASSUME NEW i \in Instances, Promise!Register(i)
        PROVE  socketToInstance'[k][n] = socketToInstance[k][n]
    BY <2>3 DEF Promise!Register
  <2>4. ASSUME NEW D \in SUBSET Instances, Promise!Deregister(D)
        PROVE  socketToInstance'[k][n] \in {socketToInstance[k][n], NoInstance}
    BY <2>4 DEF Promise!Deregister
  <2>5. ASSUME NEW j \in Sockets, NEW m \in Services, NEW i \in Instances,
               Promise!Pin(j, m, i)
        PROVE  socketToInstance'[k][n] = socketToInstance[k][n]
    BY <2>5 DEF Promise!Pin, IndexInv, IndexTypeOK
  <2>6. ASSUME NEW j \in Sockets, Promise!Release(j)
        PROVE  socketToInstance'[k][n] \in {socketToInstance[k][n], NoInstance}
    BY <2>6 DEF Promise!Release, Promise!NoPins, IndexInv, IndexTypeOK
  <2> QED BY <2>1, <2>2, <2>3, <2>4, <2>5, <2>6 DEF Promise!Next
<1> QED BY <1>1, IndexIsConsistent, PTL DEF IndexSpec, PinNeverMoves

\* PruneStaleServices tells its caller exactly the sockets it unpins, however
\* many stale instances they share (gateway-service-indexer.go:163-182).
THEOREM PruneReportsExactly == IndexSpec => PruneReportsUnpinned
<1>1. ASSUME IndexInv, NEW affected \in SUBSET Sockets, PruneStaleServices(affected)
      PROVE  affected = {k \in Sockets : socketToInstance'[k] # socketToInstance[k]}
  <2>1. CASE WhenClosed
    BY <1>1, <2>1 DEF PruneStaleServices, WhenClosed, Unregister, indexVars
  <2>2. CASE ~ WhenClosed
    <3> USE <1>1, <2>2 DEF PruneStaleServices, Unregister
    <3>1. NoInstance \notin Stale
      BY NoInstanceAssumption DEF Stale, Registered, ToSet, IndexInv, IndexTypeOK
    <3>2. \A k \in Sockets : k \in PinnedTo(Stale) =>
                                socketToInstance'[k] # socketToInstance[k]
      BY <3>1 DEF PinnedTo
    <3>3. ASSUME NEW k \in Sockets, k \notin PinnedTo(Stale)
          PROVE  socketToInstance'[k] = socketToInstance[k]
      <4>1. \A n \in Services : socketToInstance'[k][n] = socketToInstance[k][n]
        BY <3>3 DEF PinnedTo
      <4>2. /\ socketToInstance[k] \in [Services -> Instances \cup {NoInstance}]
            /\ DOMAIN socketToInstance'[k] = Services
        BY DEF IndexInv, IndexTypeOK
      <4>3. socketToInstance'[k] = [n \in Services |-> socketToInstance'[k][n]]
        OBVIOUS
      <4>4. socketToInstance[k] = [n \in Services |-> socketToInstance[k][n]]
        BY <4>2
      <4> QED BY <4>1, <4>3, <4>4
    <3> QED BY <3>2, <3>3 DEF PinnedTo
  <2> QED BY <2>1, <2>2
<1>2. IndexInv /\ [IndexNext]_indexVars =>
        \A affected \in SUBSET Sockets :
          PruneStaleServices(affected) =>
              affected = {k \in Sockets : socketToInstance'[k] # socketToInstance[k]}
  BY <1>1
<1> QED BY <1>2, IndexIsConsistent, PTL DEF IndexSpec, PruneReportsUnpinned

=============================================================================
