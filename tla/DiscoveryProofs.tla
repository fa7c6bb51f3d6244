---------------------------- MODULE DiscoveryProofs ----------------------------
(***************************************************************************)
(* For any gateways, instances and length of the interval: a gateway knows *)
(* the instances that are up and can be reached, save those it dropped     *)
(* after a failed send and has not announced without since.                *)
(***************************************************************************)
EXTENDS Discovery, TLAPS

\* What holds of a gateway and an instance that hear of each other and have no
\* announcement to wait for.  The bound on the age is why the instance is not
\* pruned: at the latest an interval after an announcement found it fresh comes
\* one that asks for it.
InTime(g, i) ==
    index[g][i] <= FreshFor + clock[g] + (IF "announce" \in due[g] THEN Interval ELSE 0)

InTouch(g, i) ==
    /\ instance[i] = "listening" /\ g \in Wants[i] /\ i \notin Cut
    /\ Quiet(g, i)
    => /\ gateway[g] = "running" => i \in Registered(g) \cup dropped[g]
       /\ gateway[g] # "off" /\ i \in Registered(g) => InTime(g, i)

\* No descriptor is older than the prune that is due, or comes next, will find it.
NoneOverdue(g) ==
    \A i \in Registered(g) :
        index[g][i] <= PruneAfter + clock[g] + (IF "prune" \in due[g] THEN Interval ELSE 0)

DiscoveryInv ==
    /\ TypeOK
    /\ \A g \in Gateways : NoneOverdue(g)
    /\ \A g \in Gateways, i \in Instances : InTouch(g, i)

-----------------------------------------------------------------------------
LEMMA IntervalIsNat == /\ Interval \in Nat /\ Interval > 0
                       /\ FreshFor \in Nat /\ PruneAfter \in Nat
                       /\ FreshFor = 3 * Interval /\ PruneAfter = 5 * Interval
                       /\ Ages \subseteq Nat /\ 0 \in Ages
BY DiscoveryAssumption DEF FreshFor, PruneAfter, Ages

\* Indexes: what its members are, and how to become one.
LEMMA IndexesElim ==
    ASSUME NEW f \in Indexes
    PROVE  DOMAIN f \subseteq Instances /\ \A i \in DOMAIN f : f[i] \in Ages
<1>1. PICK known \in SUBSET Instances : f \in [known -> Ages]
  BY DEF Indexes
<1> QED BY <1>1

LEMMA IndexesIntro ==
    ASSUME NEW known \in SUBSET Instances, NEW f, f \in [known -> Ages]
    PROVE  f \in Indexes
BY DEF Indexes

LEMMA NoDescriptorsInIndexes == NoDescriptors \in Indexes /\ DOMAIN NoDescriptors = {}
<1>1. NoDescriptors \in [{} -> Ages]
  BY DEF NoDescriptors
<1> QED BY <1>1, IndexesIntro DEF NoDescriptors

LEMMA WithoutInIndexes ==
    ASSUME TypeOK, NEW g \in Gateways, NEW removed
    PROVE  /\ Without(g, removed) \in Indexes
           /\ DOMAIN Without(g, removed) = Registered(g) \ removed
           /\ \A i \in Registered(g) \ removed : Without(g, removed)[i] = index[g][i]
<1>1. index[g] \in Indexes
  BY DEF TypeOK
<1>2. /\ Registered(g) \subseteq Instances
      /\ \A i \in Registered(g) : index[g][i] \in Ages
  BY <1>1, IndexesElim DEF Registered
<1>3. Without(g, removed) \in [Registered(g) \ removed -> Ages]
  BY <1>2 DEF Without
<1>4. (Registered(g) \ removed) \in SUBSET Instances
  BY <1>2
<1>5. Without(g, removed) \in Indexes
  BY <1>3, <1>4, IndexesIntro
<1> QED BY <1>5 DEF Without

LEMMA RefreshedInIndexes ==
    ASSUME TypeOK, NEW g \in Gateways, NEW seen \in Instances
    PROVE  /\ Refreshed(g, seen) \in Indexes
           /\ DOMAIN Refreshed(g, seen) = Registered(g) \cup {seen}
           /\ Refreshed(g, seen)[seen] = 0
           /\ \A i \in Registered(g) \ {seen} : Refreshed(g, seen)[i] = index[g][i]
<1>1. index[g] \in Indexes
  BY DEF TypeOK
<1>2. /\ Registered(g) \subseteq Instances
      /\ \A i \in Registered(g) : index[g][i] \in Ages
  BY <1>1, IndexesElim DEF Registered
<1>3. Refreshed(g, seen) \in [Registered(g) \cup {seen} -> Ages]
  BY <1>2, IntervalIsNat DEF Refreshed
<1>4. (Registered(g) \cup {seen}) \in SUBSET Instances
  BY <1>2
<1>5. Refreshed(g, seen) \in Indexes
  BY <1>3, <1>4, IndexesIntro
<1> QED BY <1>5 DEF Refreshed

LEMMA OlderByOne ==
    ASSUME TypeOK, NEW g \in Gateways
    PROVE  /\ DOMAIN Older(g) = Registered(g)
           /\ Registered(g) \subseteq Instances
           /\ \A i \in Registered(g) : index[g][i] \in Nat /\ Older(g)[i] = index[g][i] + 1
           /\ index[g] = NoDescriptors => Older(g) = NoDescriptors
<1>1. index[g] \in Indexes
  BY DEF TypeOK
<1>2. /\ Registered(g) \subseteq Instances
      /\ \A i \in Registered(g) : index[g][i] \in Nat
  BY <1>1, IndexesElim, IntervalIsNat DEF Registered
<1>3. ASSUME index[g] = NoDescriptors PROVE Older(g) = NoDescriptors
  <2>1. Registered(g) = {}
    BY <1>3, NoDescriptorsInIndexes DEF Registered
  <2> QED BY <2>1 DEF Older, NoDescriptors
<1> QED BY <1>2, <1>3 DEF Older

\* What a gateway's tickers do to its clock.
LEMMA TickClock ==
    ASSUME TypeOK, Tick, NEW g \in Gateways
    PROVE  /\ clock'[g] \in 0..(Interval - 1)
           /\ gateway[g] # "off" =>
                 \/ /\ clock[g] = Interval - 1 /\ due[g] = {}
                    /\ clock'[g] = 0 /\ due'[g] = {"announce", "prune"}
                 \/ clock'[g] = clock[g] + 1 /\ due'[g] = due[g]
<1>1. clock[g] \in 0..(Interval - 1)
  BY DEF TypeOK
<1>2. clock'[g] = IF gateway[g] = "off" THEN 0 ELSE (clock[g] + 1) % Interval
  BY DEF Tick
<1>3. clock[g] = Interval - 1 => due[g] = {} /\ (clock[g] + 1) % Interval = 0
  BY <1>1, IntervalIsNat DEF Tick
<1>4. clock[g] # Interval - 1 => (clock[g] + 1) % Interval = clock[g] + 1
  BY <1>1, IntervalIsNat
<1>5. /\ gateway[g] # "off" /\ clock'[g] = 0 => due'[g] = {"announce", "prune"}
      /\ clock'[g] # 0 => due'[g] = due[g]
  BY DEF Tick
<1>6. clock'[g] \in 0..(Interval - 1)
  BY <1>1, <1>2, <1>3, <1>4, IntervalIsNat
<1>7. CASE clock[g] = Interval - 1
  BY <1>2, <1>3, <1>5, <1>6, <1>7
<1>8. CASE clock[g] # Interval - 1
  BY <1>1, <1>2, <1>4, <1>5, <1>6, <1>8, IntervalIsNat
<1> QED BY <1>7, <1>8

\* A tick ages a descriptor and brings the next prune nearer by as much.
LEMMA TickOverdue ==
    ASSUME TypeOK, Tick, NEW g \in Gateways, NoneOverdue(g)
    PROVE  NoneOverdue(g)'
<1>1. index'[g] = Older(g) /\ Registered(g)' = Registered(g)
  BY OlderByOne DEF Tick, Registered
<1> SUFFICES ASSUME NEW i \in Registered(g)
             PROVE  index'[g][i] <= PruneAfter + clock'[g]
                                      + (IF "prune" \in due'[g] THEN Interval ELSE 0)
  BY <1>1 DEF NoneOverdue
<1>2. index[g][i] \in Nat /\ index'[g][i] = index[g][i] + 1
  BY <1>1, OlderByOne
<1>3. index[g][i] <= PruneAfter + clock[g] + (IF "prune" \in due[g] THEN Interval ELSE 0)
  BY DEF NoneOverdue
<1>4. gateway[g] # "off"
  BY NoDescriptorsInIndexes DEF TypeOK, Registered
<1>5. clock[g] \in Nat
  BY IntervalIsNat DEF TypeOK
<1>6. CASE clock[g] = Interval - 1 /\ due[g] = {} /\ clock'[g] = 0 /\ due'[g] = {"announce", "prune"}
  BY <1>2, <1>3, <1>6, IntervalIsNat
<1>7. CASE clock'[g] = clock[g] + 1 /\ due'[g] = due[g]
  BY <1>2, <1>3, <1>5, <1>7, IntervalIsNat
<1> QED BY <1>4, <1>6, <1>7, TickClock

\* The bound of the ages: no type but a consequence of when descriptors are pruned.
LEMMA OverdueAges ==
    ASSUME NEW g \in Gateways, NoneOverdue(g), clock[g] \in 0..(Interval - 1),
           NEW i \in Registered(g), index[g][i] \in Nat
    PROVE  index[g][i] \in Ages /\ index[g][i] < 7 * Interval
BY IntervalIsNat DEF NoneOverdue, Ages

LEMMA TickTypes ==
    ASSUME TypeOK, Tick, \A g \in Gateways : NoneOverdue(g)
    PROVE  TypeOK'
<1>1. ASSUME NEW g \in Gateways PROVE index'[g] \in Indexes
  <2>1. /\ index'[g] = Older(g) /\ Registered(g)' = Registered(g)
        /\ Registered(g) \subseteq Instances
        /\ \A i \in Registered(g) : index'[g][i] \in Nat
    BY OlderByOne DEF Tick, Registered
  <2>2. NoneOverdue(g)' /\ clock'[g] \in 0..(Interval - 1)
    BY TickOverdue, TickClock
  <2>3. \A i \in Registered(g) : index'[g][i] \in Ages
    <3>1. ASSUME NEW i \in Registered(g) PROVE index'[g][i] \in Ages
      BY <2>1, <2>2, IntervalIsNat DEF NoneOverdue, Ages
    <3> QED BY <3>1
  <2>4. Older(g) \in [Registered(g) -> Ages]
    BY <2>1, <2>3 DEF Older
  <2> QED BY <2>1, <2>4, IndexesIntro
<1>2. index' \in [Gateways -> Indexes]
  <2>1. index' = [g \in Gateways |-> Older(g)]
    BY DEF Tick
  <2>2. \A g \in Gateways : Older(g) \in Indexes
    BY <1>1, <2>1
  <2> QED BY <2>1, <2>2
<1>3. clock' \in [Gateways -> 0..(Interval - 1)]
  <2>1. clock' = [g \in Gateways |-> clock'[g]]
    BY DEF Tick
  <2>2. \A g \in Gateways : clock'[g] \in 0..(Interval - 1)
    BY TickClock
  <2> HIDE DEF Tick
  <2> QED BY <2>1, <2>2
<1>4. due' \in [Gateways -> SUBSET {"announce", "prune"}]
  BY DEF Tick, TypeOK
<1>5. ASSUME NEW g \in Gateways, gateway'[g] = "off"
      PROVE  index'[g] = NoDescriptors /\ due'[g] = {}
  <2>1. gateway[g] = "off" /\ index[g] = NoDescriptors /\ due[g] = {}
    BY <1>5 DEF Tick, TypeOK
  <2> QED BY <2>1, OlderByOne DEF Tick
<1> QED BY <1>2, <1>3, <1>4, <1>5 DEF TypeOK, Tick

LEMMA InitInv == Init => DiscoveryInv
<1> SUFFICES ASSUME Init PROVE DiscoveryInv
  OBVIOUS
<1>1. TypeOK
  <2>1. clock \in [Gateways -> 0..(Interval - 1)]
    BY IntervalIsNat DEF Init
  <2>2. index \in [Gateways -> Indexes]
    BY NoDescriptorsInIndexes DEF Init
  <2> QED BY <2>1, <2>2 DEF Init, TypeOK
<1>2. \A g \in Gateways : gateway[g] = "off"
  BY DEF Init
<1>3. \A g \in Gateways : Registered(g) = {}
  BY NoDescriptorsInIndexes DEF Init, Registered
<1> QED BY <1>1, <1>2, <1>3 DEF DiscoveryInv, InTouch, NoneOverdue, Init

-----------------------------------------------------------------------------
(***************************************************************************)
(* Every action keeps the types ...                                        *)
(***************************************************************************)
LEMMA TypeNext == TypeOK /\ (\A g \in Gateways : NoneOverdue(g)) /\ Next => TypeOK'
<1> SUFFICES ASSUME TypeOK, \A g \in Gateways : NoneOverdue(g), Next PROVE TypeOK'
  OBVIOUS
<1> USE DEF TypeOK
<1>1. ASSUME NEW g \in Gateways, SubscribeGateway(g) PROVE TypeOK'
  BY <1>1 DEF SubscribeGateway
<1>2. ASSUME NEW g \in Gateways, StartGateway(g) PROVE TypeOK'
  BY <1>2 DEF StartGateway, AnnounceGateway, Ask
<1>3. ASSUME NEW g \in Gateways, StopGateway(g) PROVE TypeOK'
  <2>1. index' \in [Gateways -> Indexes]
    BY <1>3, NoDescriptorsInIndexes DEF StopGateway
  <2>2. clock' \in [Gateways -> 0..(Interval - 1)]
    BY <1>3, IntervalIsNat DEF StopGateway
  <2> QED BY <1>3, <2>1, <2>2 DEF StopGateway
<1>4. ASSUME NEW g \in Gateways, announceLoop(g) PROVE TypeOK'
  BY <1>4 DEF announceLoop, AnnounceGateway, Ask
<1>5. ASSUME NEW g \in Gateways, pruneLoop(g) PROVE TypeOK'
  <2>1. index' \in [Gateways -> Indexes]
    BY <1>5, WithoutInIndexes DEF pruneLoop
  <2>2. gateway[g] # "off"
    BY <1>5 DEF pruneLoop
  <2> QED BY <1>5, <2>1, <2>2 DEF pruneLoop
<1>6. ASSUME NEW g \in Gateways, NEW i \in Instances, UnsetService(g, i) PROVE TypeOK'
  <2>1. index' \in [Gateways -> Indexes]
    BY <1>6, WithoutInIndexes DEF UnsetService
  <2>2. gateway[g] # "off"
    BY <1>6, NoDescriptorsInIndexes DEF UnsetService, Registered
  <2> QED BY <1>6, <2>1, <2>2 DEF UnsetService
<1>7. ASSUME NEW i \in Instances, SubscribeInstance(i) PROVE TypeOK'
  BY <1>7 DEF SubscribeInstance, gatewayVars
<1>8. ASSUME NEW i \in Instances, StartInstance(i) PROVE TypeOK'
  BY <1>8 DEF StartInstance, gatewayVars, doAnnounce, News
<1>9. ASSUME NEW i \in Instances, StopInstance(i) PROVE TypeOK'
  <2>1. asks' \subseteq asks
    BY <1>9 DEF StopInstance
  <2> QED BY <1>9, <2>1 DEF StopInstance, gatewayVars
<1>10. ASSUME NEW m \in news, handleServiceAnnouncement(m) PROVE TypeOK'
  <2>1. m.to \in Gateways /\ m.from \in Instances /\ gateway[m.to] # "off"
    OBVIOUS
  <2>2. index' \in [Gateways -> Indexes]
    <3>1. Refreshed(m.to, m.from) \in Indexes
      BY <2>1, RefreshedInIndexes
    <3> QED BY <1>10, <3>1 DEF handleServiceAnnouncement
  <2>3. ASSUME NEW g \in Gateways, gateway[g] = "off" PROVE index'[g] = index[g]
    BY <1>10, <2>1, <2>3 DEF handleServiceAnnouncement
  <2> QED BY <1>10, <2>2, <2>3 DEF handleServiceAnnouncement
<1>11. ASSUME NEW m \in news, LoseNews(m) PROVE TypeOK'
  BY <1>11 DEF LoseNews, gatewayVars
<1>12. ASSUME NEW m \in asks, handleGatewayAnnounce(m) PROVE TypeOK'
  BY <1>12 DEF handleGatewayAnnounce, gatewayVars, doAnnounce, News
<1>13. ASSUME NEW m \in asks, LoseAsk(m) PROVE TypeOK'
  BY <1>13 DEF LoseAsk, gatewayVars
<1>14. CASE Tick
  BY <1>14, TickTypes DEF Tick
<1> QED BY <1>1, <1>2, <1>3, <1>4, <1>5, <1>6, <1>7, <1>8, <1>9, <1>10, <1>11, <1>12,
           <1>13, <1>14 DEF Next

-----------------------------------------------------------------------------
(***************************************************************************)
(* ... and keeps a gateway and an instance in touch.                       *)
(***************************************************************************)
\* Steps that change nothing of the two leave them in touch, whatever they send.
LEMMA Undisturbed ==
    ASSUME NEW g \in Gateways, NEW i \in Instances, InTouch(g, i),
           instance'[i] = "listening" => instance[i] = "listening",
           Quiet(g, i)' => Quiet(g, i),
           UNCHANGED <<gateway[g], index[g], clock[g], due[g], dropped[g]>>
    PROVE  InTouch(g, i)'
BY DEF InTouch, InTime, Registered

\* A prune finds the instance younger than it may be.
LEMMA NotStale ==
    ASSUME TypeOK, NEW g \in Gateways, NEW i \in Registered(g), InTime(g, i)
    PROVE  ~(index[g][i] > PruneAfter)
<1>1. index[g] \in Indexes /\ clock[g] \in 0..(Interval - 1)
  BY DEF TypeOK
<1>2. index[g][i] \in Nat
  BY <1>1, IndexesElim, IntervalIsNat DEF Registered
<1> QED BY <1>1, <1>2, IntervalIsNat DEF InTime

LEMMA TouchNext ==
    ASSUME DiscoveryInv, Next, NEW g \in Gateways, NEW i \in Instances
    PROVE  InTouch(g, i)'
<1>1. TypeOK /\ InTouch(g, i)
  BY DEF DiscoveryInv
<1>2. ASSUME NEW h \in Gateways, SubscribeGateway(h) PROVE InTouch(g, i)'
  <2>1. CASE h = g
    <3>1. index'[g] = NoDescriptors /\ gateway'[g] = "subscribed"
      BY <1>1, <1>2, <2>1 DEF SubscribeGateway, TypeOK
    <3> QED BY <3>1, NoDescriptorsInIndexes DEF InTouch, Registered
  <2>2. CASE h # g
    BY <1>1, <1>2, <2>2, Undisturbed DEF SubscribeGateway, Quiet, TypeOK
  <2> QED BY <2>1, <2>2
<1>3. ASSUME NEW h \in Gateways, StartGateway(h) PROVE InTouch(g, i)'
  <2>1. CASE h = g
    <3>1. Quiet(g, i)' => Quiet(g, i)
      BY <1>3 DEF StartGateway, AnnounceGateway, Quiet
    <3>2. gateway[g] # "off"
      BY <1>3, <2>1 DEF StartGateway
    <3>3. UNCHANGED <<instance, index, clock, due>>
      BY <1>3 DEF StartGateway
    <3>4. instance[i] = "listening" /\ g \in Wants[i] /\ Quiet(g, i)' => i \in Registered(g)
      BY <1>3, <2>1 DEF StartGateway, AnnounceGateway, Quiet, NotFound
    <3> QED BY <1>1, <3>1, <3>2, <3>3, <3>4 DEF InTouch, InTime, Registered
  <2>2. CASE h # g
    BY <1>1, <1>3, <2>2, Undisturbed DEF StartGateway, AnnounceGateway, Quiet, TypeOK
  <2> QED BY <2>1, <2>2
<1>4. ASSUME NEW h \in Gateways, StopGateway(h) PROVE InTouch(g, i)'
  <2>1. CASE h = g
    BY <1>1, <1>4, <2>1 DEF StopGateway, InTouch, TypeOK
  <2>2. CASE h # g
    <3>1. Quiet(g, i)' => Quiet(g, i)
      BY <1>4, <2>2 DEF StopGateway, Quiet, News
    <3> QED BY <1>1, <1>4, <2>2, <3>1, Undisturbed DEF StopGateway, TypeOK
  <2> QED BY <2>1, <2>2
<1>5. ASSUME NEW h \in Gateways, announceLoop(h) PROVE InTouch(g, i)'
  <2>1. Quiet(g, i)' => Quiet(g, i)
    BY <1>5 DEF announceLoop, AnnounceGateway, Quiet
  <2>2. UNCHANGED <<gateway, index, clock, instance>>
    BY <1>5 DEF announceLoop
  <2>3. CASE h = g
    <3>1. instance[i] = "listening" /\ g \in Wants[i] /\ Quiet(g, i)' => i \in Fresh(g)
      BY <1>5, <2>3 DEF announceLoop, AnnounceGateway, Quiet, NotFound
    <3>2. i \in Registered(g) => index[g][i] \in Nat
      BY <1>1, IndexesElim, IntervalIsNat DEF TypeOK, Registered
    <3>3. clock[g] \in Nat
      BY <1>1, IntervalIsNat DEF TypeOK
    <3>4. i \in Fresh(g) => i \in Registered(g) /\ InTime(g, i)'
      BY <2>2, <3>2, <3>3, IntervalIsNat DEF Fresh, InTime
    <3> QED BY <1>1, <2>1, <2>2, <3>1, <3>4 DEF InTouch, Registered
  <2>4. CASE h # g
    <3>1. due'[g] = due[g] /\ dropped'[g] = dropped[g]
      BY <1>1, <1>5, <2>4 DEF announceLoop, AnnounceGateway, TypeOK
    <3> QED BY <1>1, <2>1, <2>2, <3>1, Undisturbed
  <2> QED BY <2>3, <2>4
<1>6. ASSUME NEW h \in Gateways, pruneLoop(h) PROVE InTouch(g, i)'
  <2>1. /\ UNCHANGED <<gateway, clock, instance, asks, news, dropped>>
        /\ Quiet(g, i)' <=> Quiet(g, i)
    BY <1>6 DEF pruneLoop, Quiet
  <2>2. CASE h = g
    <3>1. index'[g] = Without(g, {j \in Registered(g) : index[g][j] > PruneAfter})
      BY <1>1, <1>6, <2>2 DEF pruneLoop, TypeOK
    <3>2. "announce" \in due'[g] <=> "announce" \in due[g]
      BY <1>1, <1>6, <2>2 DEF pruneLoop, TypeOK
    <3> DEFINE stale == {j \in Registered(g) : index[g][j] > PruneAfter}
    <3>3. /\ Registered(g)' = Registered(g) \ stale
          /\ \A j \in Registered(g) \ stale : index'[g][j] = index[g][j]
      <4>1. /\ DOMAIN Without(g, stale) = Registered(g) \ stale
            /\ \A j \in Registered(g) \ stale : Without(g, stale)[j] = index[g][j]
        <5> HIDE DEF stale
        <5> QED BY <1>1, WithoutInIndexes
      <4> QED BY <3>1, <4>1 DEF Registered
    <3>4. i \in Registered(g)' => i \in Registered(g) /\ index'[g][i] = index[g][i]
      BY <3>3
    <3>5. i \in Registered(g) /\ InTime(g, i) => i \in Registered(g)'
      BY <1>1, <3>3, NotStale
    <3> QED BY <1>1, <2>1, <3>2, <3>4, <3>5 DEF InTouch, InTime
  <2>3. CASE h # g
    <3>1. due'[g] = due[g] /\ index'[g] = index[g]
      BY <1>1, <1>6, <2>3 DEF pruneLoop, TypeOK
    <3> QED BY <1>1, <2>1, <3>1, Undisturbed
  <2> QED BY <2>2, <2>3
<1>7. ASSUME NEW h \in Gateways, NEW j \in Instances, UnsetService(h, j) PROVE InTouch(g, i)'
  <2>1. UNCHANGED <<gateway, clock, due, instance, asks, news>> /\ (Quiet(g, i)' <=> Quiet(g, i))
    BY <1>7 DEF UnsetService, Quiet
  <2>2. CASE h = g /\ j = i
    <3>1. /\ DOMAIN Without(g, {i}) = Registered(g) \ {i}
          /\ index'[g] = Without(g, {i})
      BY <1>1, <1>7, <2>2, WithoutInIndexes DEF UnsetService, TypeOK
    <3>2. i \in dropped'[g] /\ i \notin Registered(g)'
      BY <1>1, <1>7, <2>2, <3>1 DEF UnsetService, TypeOK, Registered
    <3> QED BY <3>2 DEF InTouch
  <2>3. CASE h = g /\ j # i
    <3>1. index'[g] = Without(g, {j})
      BY <1>1, <1>7, <2>3 DEF UnsetService, TypeOK
    <3>2. /\ DOMAIN Without(g, {j}) = Registered(g) \ {j}
          /\ \A k \in Registered(g) \ {j} : Without(g, {j})[k] = index[g][k]
      BY <1>1, WithoutInIndexes
    <3>3. Registered(g)' = Registered(g) \ {j}
      BY <3>1, <3>2 DEF Registered
    <3>4. /\ i \in Registered(g)' <=> i \in Registered(g)
          /\ i \in Registered(g) => index'[g][i] = index[g][i]
      BY <2>3, <3>1, <3>2, <3>3
    <3>5. i \in dropped'[g] <=> i \in dropped[g]
      BY <1>1, <1>7, <2>3 DEF UnsetService, TypeOK
    <3> QED BY <1>1, <2>1, <3>4, <3>5 DEF InTouch, InTime
  <2>4. CASE h # g
    <3>1. index'[g] = index[g] /\ dropped'[g] = dropped[g]
      BY <1>1, <1>7, <2>4 DEF UnsetService, TypeOK
    <3> QED BY <1>1, <2>1, <3>1, Undisturbed
  <2> QED BY <2>2, <2>3, <2>4
<1>8. ASSUME NEW j \in Instances, SubscribeInstance(j) PROVE InTouch(g, i)'
  <2>1. instance'[i] = "listening" => instance[i] = "listening"
    BY <1>1, <1>8 DEF SubscribeInstance, TypeOK
  <2> QED BY <1>1, <1>8, <2>1, Undisturbed DEF SubscribeInstance, gatewayVars, Quiet
<1>9. ASSUME NEW j \in Instances, StartInstance(j) PROVE InTouch(g, i)'
  <2>1. Quiet(g, i)' => Quiet(g, i)
    BY <1>9 DEF StartInstance, doAnnounce, Quiet
  <2>2. UNCHANGED <<gateway, index, clock, due, dropped>>
    BY <1>9 DEF StartInstance, gatewayVars
  <2>3. CASE j = i
    <3>1. gateway[g] # "off" => ~Quiet(g, i)'
      BY <1>9, <2>3 DEF StartInstance, doAnnounce, Quiet
    <3> QED BY <2>2, <3>1 DEF InTouch
  <2>4. CASE j # i
    <3>1. instance'[i] = instance[i]
      BY <1>1, <1>9, <2>4 DEF StartInstance, TypeOK
    <3> QED BY <1>1, <2>1, <2>2, <3>1, Undisturbed
  <2> QED BY <2>3, <2>4
<1>10. ASSUME NEW j \in Instances, StopInstance(j) PROVE InTouch(g, i)'
  <2>1. instance'[i] = "listening" => instance[i] = "listening" /\ j # i
    BY <1>1, <1>10 DEF StopInstance, TypeOK
  <2>2. j # i => (Quiet(g, i)' => Quiet(g, i))
    BY <1>10 DEF StopInstance, Quiet, Ask
  <2>3. UNCHANGED <<gateway, index, clock, due, dropped>>
    BY <1>10 DEF StopInstance, gatewayVars
  <2>4. CASE j = i
    BY <2>1, <2>4 DEF InTouch
  <2> QED BY <1>1, <2>1, <2>2, <2>3, <2>4, Undisturbed
<1>11. ASSUME NEW m \in news, handleServiceAnnouncement(m) PROVE InTouch(g, i)'
  <2>1. m.to \in Gateways /\ m.from \in Instances /\ m = News(m.from, m.to)
    BY <1>1 DEF TypeOK, News
  <2>2. UNCHANGED <<gateway, clock, due, instance, asks>>
    BY <1>11 DEF handleServiceAnnouncement
  <2>3. CASE m.to = g /\ m.from = i
    <3>1. g \in Wants[i] => index'[g] = Refreshed(g, i)
      BY <1>1, <1>11, <2>3 DEF handleServiceAnnouncement, TypeOK
    <3>2. g \in Wants[i] => i \in Registered(g)' /\ index'[g][i] = 0
      BY <1>1, <3>1, RefreshedInIndexes DEF Registered
    <3>3. clock'[g] \in Nat
      BY <1>1, <2>2, IntervalIsNat DEF TypeOK
    <3>4. g \in Wants[i] => InTime(g, i)'
      BY <3>2, <3>3, IntervalIsNat DEF InTime
    <3> QED BY <3>2, <3>4 DEF InTouch
  <2>4. CASE ~(m.to = g /\ m.from = i)
    <3>1. Quiet(g, i)' => Quiet(g, i)
      BY <1>11, <2>1, <2>4 DEF handleServiceAnnouncement, Quiet, News
    <3>2. /\ i \in Registered(g)' <=> i \in Registered(g)
          /\ i \in Registered(g) => index'[g][i] = index[g][i]
      <4>1. index'[g] = index[g] \/ (m.to = g /\ index'[g] = Refreshed(g, m.from))
        BY <1>1, <1>11, <2>1 DEF handleServiceAnnouncement, TypeOK
      <4>2. CASE index'[g] = index[g]
        BY <4>2 DEF Registered
      <4>3. CASE m.to = g /\ index'[g] = Refreshed(g, m.from)
        <5>1. /\ DOMAIN Refreshed(g, m.from) = Registered(g) \cup {m.from}
              /\ \A k \in Registered(g) \ {m.from} : Refreshed(g, m.from)[k] = index[g][k]
          BY <1>1, <2>1, RefreshedInIndexes
        <5>2. Registered(g)' = Registered(g) \cup {m.from}
          BY <4>3, <5>1 DEF Registered
        <5> QED BY <2>4, <4>3, <5>1, <5>2
      <4> QED BY <4>1, <4>2, <4>3
    <3>3. i \in dropped'[g] <=> i \in dropped[g]
      BY <1>1, <1>11, <2>1, <2>4 DEF handleServiceAnnouncement, TypeOK
    <3> QED BY <1>1, <2>2, <3>1, <3>2, <3>3 DEF InTouch, InTime
  <2> QED BY <2>3, <2>4
<1>12. ASSUME NEW m \in news, LoseNews(m) PROVE InTouch(g, i)'
  <2>1. i \notin Cut /\ Quiet(g, i)' => Quiet(g, i)
    BY <1>12 DEF LoseNews, Quiet, News
  <2> QED BY <1>1, <1>12, <2>1 DEF LoseNews, gatewayVars, InTouch, InTime, Registered
<1>13. ASSUME NEW m \in asks, handleGatewayAnnounce(m) PROVE InTouch(g, i)'
  <2>1. m.to \in Instances /\ m = Ask(m.from, m.to)
    BY <1>1 DEF TypeOK, Ask
  <2>2. UNCHANGED <<gatewayVars, instance>>
    BY <1>13 DEF handleGatewayAnnounce
  <2>3. CASE m.to = i
    <3>1. gateway[g] # "off" => ~Quiet(g, i)'
      BY <1>13, <2>3 DEF handleGatewayAnnounce, doAnnounce, Quiet
    <3> QED BY <2>2, <3>1 DEF InTouch, gatewayVars
  <2>4. CASE m.to # i
    <3>1. Quiet(g, i)' => Quiet(g, i)
      BY <1>13, <2>1, <2>4 DEF handleGatewayAnnounce, doAnnounce, Quiet, Ask
    <3> QED BY <1>1, <2>2, <3>1, Undisturbed DEF gatewayVars
  <2> QED BY <2>3, <2>4
<1>14. ASSUME NEW m \in asks, LoseAsk(m) PROVE InTouch(g, i)'
  <2>1. i \notin Cut /\ Quiet(g, i)' => Quiet(g, i)
    BY <1>14 DEF LoseAsk, Quiet, Ask
  <2> QED BY <1>1, <1>14, <2>1 DEF LoseAsk, gatewayVars, InTouch, InTime, Registered
<1>15. CASE Tick
  <2>1. UNCHANGED <<gateway, instance, asks, news, dropped>> /\ (Quiet(g, i)' <=> Quiet(g, i))
    BY <1>15 DEF Tick, Quiet
  <2>2. index'[g] = Older(g)
    BY <1>15 DEF Tick
  <2>3. /\ i \in Registered(g)' <=> i \in Registered(g)
        /\ i \in Registered(g) => /\ index[g][i] \in Nat /\ index'[g][i] \in Nat
                                  /\ index'[g][i] <= index[g][i] + 1
    BY <1>1, <2>2, OlderByOne DEF Registered
  <2>4. ASSUME gateway[g] # "off", i \in Registered(g), InTime(g, i) PROVE InTime(g, i)'
    <3>1. clock[g] \in Nat
      BY <1>1, IntervalIsNat DEF TypeOK
    <3>2. CASE /\ clock[g] = Interval - 1 /\ due[g] = {}
               /\ clock'[g] = 0 /\ due'[g] = {"announce", "prune"}
      BY <2>3, <2>4, <3>2, IntervalIsNat DEF InTime
    <3>3. CASE clock'[g] = clock[g] + 1 /\ due'[g] = due[g]
      BY <2>3, <2>4, <3>1, <3>3, IntervalIsNat DEF InTime
    <3> QED BY <1>1, <1>15, <2>4, <3>2, <3>3, TickClock
  <2> QED BY <1>1, <2>1, <2>3, <2>4 DEF InTouch
<1> QED BY <1>2, <1>3, <1>4, <1>5, <1>6, <1>7, <1>8, <1>9, <1>10, <1>11, <1>12, <1>13,
           <1>14, <1>15 DEF Next

-----------------------------------------------------------------------------
(***************************************************************************)
(* ... and no gateway ever misses the time to prune.                       *)
(***************************************************************************)
\* Steps that neither add a descriptor, nor age one, nor take a prune off the list.
LEMMA NotDelayed ==
    ASSUME NEW g \in Gateways, NoneOverdue(g),
           Registered(g)' \subseteq Registered(g),
           \A i \in Registered(g)' : index'[g][i] = index[g][i],
           clock'[g] = clock[g],
           "prune" \in due'[g] <=> "prune" \in due[g]
    PROVE  NoneOverdue(g)'
<1> SUFFICES ASSUME NEW i \in Registered(g)'
             PROVE  index'[g][i] <= PruneAfter + clock'[g]
                                      + (IF "prune" \in due'[g] THEN Interval ELSE 0)
  BY DEF NoneOverdue
<1>1. i \in Registered(g) /\ index'[g][i] = index[g][i]
  OBVIOUS
<1>2. index[g][i] <= PruneAfter + clock[g] + (IF "prune" \in due[g] THEN Interval ELSE 0)
  BY <1>1 DEF NoneOverdue
<1> QED BY <1>1, <1>2

LEMMA OverdueNext ==
    ASSUME DiscoveryInv, Next, NEW g \in Gateways
    PROVE  NoneOverdue(g)'
<1>1. TypeOK /\ NoneOverdue(g)
  BY DEF DiscoveryInv
<1>2. ASSUME NEW h \in Gateways, SubscribeGateway(h) \/ StartGateway(h) PROVE NoneOverdue(g)'
  BY <1>1, <1>2, NotDelayed DEF SubscribeGateway, StartGateway, Registered
<1>3. ASSUME NEW h \in Gateways, StopGateway(h) PROVE NoneOverdue(g)'
  <2>1. CASE h = g
    <3>1. index'[g] = NoDescriptors
      BY <1>1, <1>3, <2>1 DEF StopGateway, TypeOK
    <3> QED BY <3>1, NoDescriptorsInIndexes DEF NoneOverdue, Registered
  <2>2. CASE h # g
    BY <1>1, <1>3, <2>2, NotDelayed DEF StopGateway, TypeOK, Registered
  <2> QED BY <2>1, <2>2
<1>4. ASSUME NEW h \in Gateways, announceLoop(h) PROVE NoneOverdue(g)'
  <2>1. "prune" \in due'[g] <=> "prune" \in due[g]
    BY <1>1, <1>4 DEF announceLoop, TypeOK
  <2> QED BY <1>1, <1>4, <2>1, NotDelayed DEF announceLoop, Registered
<1>5. ASSUME NEW h \in Gateways, pruneLoop(h) PROVE NoneOverdue(g)'
  <2>1. CASE h = g
    <3> DEFINE stale == {j \in Registered(g) : index[g][j] > PruneAfter}
    <3>1. index'[g] = Without(g, stale) /\ clock'[g] = clock[g]
      BY <1>1, <1>5, <2>1 DEF pruneLoop, TypeOK
    <3>2. /\ DOMAIN Without(g, stale) = Registered(g) \ stale
          /\ \A j \in Registered(g) \ stale : Without(g, stale)[j] = index[g][j]
      <4> HIDE DEF stale
      <4> QED BY <1>1, WithoutInIndexes
    <3>3. ASSUME NEW i \in Registered(g)'
          PROVE  index'[g][i] \in Nat /\ index'[g][i] <= PruneAfter
      <4>1. i \in Registered(g) \ stale /\ index'[g][i] = index[g][i]
        BY <3>1, <3>2 DEF Registered
      <4>2. index[g][i] \in Nat
        BY <1>1, <4>1, IndexesElim, IntervalIsNat DEF TypeOK, Registered
      <4> QED BY <4>1, <4>2, IntervalIsNat
    <3>4. clock'[g] \in Nat
      BY <1>1, <3>1, IntervalIsNat DEF TypeOK
    <3> QED BY <3>3, <3>4, IntervalIsNat DEF NoneOverdue
  <2>2. CASE h # g
    <3>1. due'[g] = due[g] /\ index'[g] = index[g] /\ clock'[g] = clock[g]
      BY <1>1, <1>5, <2>2 DEF pruneLoop, TypeOK
    <3> QED BY <1>1, <3>1, NotDelayed DEF Registered
  <2> QED BY <2>1, <2>2
<1>6. ASSUME NEW h \in Gateways, NEW j \in Instances, UnsetService(h, j) PROVE NoneOverdue(g)'
  <2>1. UNCHANGED <<clock, due>>
    BY <1>6 DEF UnsetService
  <2>2. index'[g] = index[g] \/ index'[g] = Without(g, {j})
    BY <1>1, <1>6 DEF UnsetService, TypeOK
  <2>3. /\ Registered(g)' \subseteq Registered(g)
        /\ \A i \in Registered(g)' : index'[g][i] = index[g][i]
    <3>1. /\ DOMAIN Without(g, {j}) = Registered(g) \ {j}
          /\ \A i \in Registered(g) \ {j} : Without(g, {j})[i] = index[g][i]
      BY <1>1, WithoutInIndexes
    <3> QED BY <2>2, <3>1 DEF Registered
  <2> QED BY <1>1, <2>1, <2>3, NotDelayed
<1>7. ASSUME NEW i \in Instances, SubscribeInstance(i) \/ StartInstance(i) \/ StopInstance(i)
      PROVE  NoneOverdue(g)'
  BY <1>1, <1>7, NotDelayed
  DEF SubscribeInstance, StartInstance, StopInstance, gatewayVars, Registered
<1>8. ASSUME NEW m \in news, handleServiceAnnouncement(m) PROVE NoneOverdue(g)'
  <2>1. m.to \in Gateways /\ m.from \in Instances /\ UNCHANGED <<clock, due>>
    BY <1>1, <1>8 DEF TypeOK, handleServiceAnnouncement
  <2>2. index'[g] = index[g] \/ (m.to = g /\ index'[g] = Refreshed(g, m.from))
    BY <1>1, <1>8, <2>1 DEF handleServiceAnnouncement, TypeOK
  <2>3. CASE index'[g] = index[g]
    BY <1>1, <2>1, <2>3, NotDelayed DEF Registered
  <2>4. CASE m.to = g /\ index'[g] = Refreshed(g, m.from)
    <3>1. /\ DOMAIN Refreshed(g, m.from) = Registered(g) \cup {m.from}
          /\ Refreshed(g, m.from)[m.from] = 0
          /\ \A k \in Registered(g) \ {m.from} : Refreshed(g, m.from)[k] = index[g][k]
      BY <1>1, <2>1, RefreshedInIndexes
    <3>2. clock'[g] \in Nat
      BY <1>1, <2>1, IntervalIsNat DEF TypeOK
    <3> SUFFICES ASSUME NEW i \in Registered(g)'
                 PROVE  index'[g][i] <= PruneAfter + clock'[g]
                                          + (IF "prune" \in due'[g] THEN Interval ELSE 0)
      BY DEF NoneOverdue
    <3>3. CASE i = m.from
      BY <2>4, <3>1, <3>2, <3>3, IntervalIsNat
    <3>4. CASE i # m.from
      <4>1. i \in Registered(g) /\ index'[g][i] = index[g][i]
        BY <2>4, <3>1, <3>4 DEF Registered
      <4>2. index[g][i] <= PruneAfter + clock[g] + (IF "prune" \in due[g] THEN Interval ELSE 0)
        BY <1>1, <4>1 DEF NoneOverdue
      <4> QED BY <2>1, <4>1, <4>2
    <3> QED BY <3>3, <3>4
  <2> QED BY <2>2, <2>3, <2>4
<1>9. ASSUME NEW m \in news, LoseNews(m) PROVE NoneOverdue(g)'
  BY <1>1, <1>9, NotDelayed DEF LoseNews, gatewayVars, Registered
<1>10. ASSUME NEW m \in asks, handleGatewayAnnounce(m) \/ LoseAsk(m) PROVE NoneOverdue(g)'
  BY <1>1, <1>10, NotDelayed DEF handleGatewayAnnounce, LoseAsk, gatewayVars, Registered
<1>11. CASE Tick
  BY <1>1, <1>11, TickOverdue
<1> QED BY <1>2, <1>3, <1>4, <1>5, <1>6, <1>7, <1>8, <1>9, <1>10, <1>11 DEF Next

-----------------------------------------------------------------------------
LEMMA StutterInv == DiscoveryInv /\ UNCHANGED vars => DiscoveryInv'
BY DEF DiscoveryInv, vars, gatewayVars, TypeOK, InTouch, InTime, Quiet, Registered, NoneOverdue

\* DiscoveryInv is inductive: types, no descriptor overdue, and every gateway and
\* instance in touch.
THEOREM DiscoveryIsConsistent == Spec => []DiscoveryInv
<1>1. Init => DiscoveryInv
  BY InitInv
<1>2. DiscoveryInv /\ [Next]_vars => DiscoveryInv'
  <2>1. ASSUME DiscoveryInv, Next PROVE DiscoveryInv'
    BY <2>1, TypeNext, OverdueNext, TouchNext DEF DiscoveryInv
  <2> QED BY <2>1, StutterInv
<1> QED BY <1>1, <1>2, PTL DEF Spec

\* A gateway knows every instance that is up, can be reached and wants it to, once their
\* announcements have arrived, whatever sends fail and however late they do: one it
\* dropped is known again when its next announcement has been answered
\* (gateway.go:297, 313, 329-370, service.go:221-247).
THEOREM GatewaysKnowWhoIsUp == Spec => []UpMeansKnown
<1>1. DiscoveryInv => UpMeansKnown
  BY DEF DiscoveryInv, InTouch, UpMeansKnown, Up
<1> QED BY <1>1, DiscoveryIsConsistent, PTL

\* A gateway forgets whoever falls silent within seven intervals, for any length of
\* the interval and however late its loops are (gateway.go:352-362).
THEOREM TheSilentAreForgotten == Spec => []ForgottenInTime
<1>1. DiscoveryInv => ForgottenInTime
  <2> SUFFICES ASSUME DiscoveryInv, NEW g \in Gateways, NEW i \in Registered(g)
               PROVE  index[g][i] < 7 * Interval
    BY DEF ForgottenInTime
  <2>1. NoneOverdue(g) /\ clock[g] \in 0..(Interval - 1)
    BY DEF DiscoveryInv, TypeOK
  <2>2. index[g][i] \in Nat
    BY IndexesElim, IntervalIsNat DEF DiscoveryInv, TypeOK, Registered
  <2> QED BY <2>1, <2>2, OverdueAges
<1> QED BY <1>1, DiscoveryIsConsistent, PTL

\* In an index, those with nothing left to say only get older.
LEMMA DeadNext ==
    ASSUME TypeOK, Next, NEW g \in Gateways, NEW i \in Instances,
           Silenced(g, i)
    PROVE  /\ News(i, g) \notin news'
           /\ i \in Registered(g)' => i \in Registered(g) /\ index'[g][i] >= index[g][i]
<1> DEFINE Silent == News(i, g) \notin news'
           Aged == i \in Registered(g)' => i \in Registered(g) /\ index'[g][i] >= index[g][i]
<1> USE DEF Silenced
<1>1. index[g] \in Indexes /\ \A j \in Registered(g) : index[g][j] \in Nat
  BY IndexesElim, IntervalIsNat DEF TypeOK, Registered
<1>2. index'[g] = index[g] => Aged
  BY <1>1 DEF Registered
<1>3. ASSUME NEW removed, index'[g] = Without(g, removed) PROVE Aged
  <2>1. /\ DOMAIN Without(g, removed) = Registered(g) \ removed
        /\ \A j \in Registered(g) \ removed : Without(g, removed)[j] = index[g][j]
    BY WithoutInIndexes
  <2> QED BY <1>1, <1>3, <2>1 DEF Registered
<1>4. ASSUME NEW h \in Gateways, SubscribeGateway(h) \/ StartGateway(h) \/ announceLoop(h)
      PROVE  Silent /\ Aged
  BY <1>2, <1>4 DEF SubscribeGateway, StartGateway, announceLoop
<1>5. ASSUME NEW h \in Gateways, StopGateway(h) PROVE Silent /\ Aged
  <2>1. index'[g] = index[g] \/ index'[g] = NoDescriptors
    BY <1>5 DEF StopGateway, TypeOK
  <2> QED BY <1>2, <1>5, <2>1, NoDescriptorsInIndexes DEF StopGateway, Registered
<1>6. ASSUME NEW h \in Gateways, pruneLoop(h) PROVE Silent /\ Aged
  <2>1. \/ index'[g] = index[g]
        \/ index'[g] = Without(g, {j \in Registered(g) : index[g][j] > PruneAfter})
    BY <1>6 DEF pruneLoop, TypeOK
  <2> QED BY <1>2, <1>3, <1>6, <2>1 DEF pruneLoop
<1>7. ASSUME NEW h \in Gateways, NEW j \in Instances, UnsetService(h, j) PROVE Silent /\ Aged
  <2>1. index'[g] = index[g] \/ index'[g] = Without(g, {j})
    BY <1>7 DEF UnsetService, TypeOK
  <2> QED BY <1>2, <1>3, <1>7, <2>1 DEF UnsetService
<1>8. ASSUME NEW j \in Instances, SubscribeInstance(j) \/ StartInstance(j) \/ StopInstance(j)
      PROVE  Silent /\ Aged
  BY <1>2, <1>8
  DEF SubscribeInstance, StartInstance, StopInstance, doAnnounce, News, gatewayVars
<1>9. ASSUME NEW m \in news, handleServiceAnnouncement(m) PROVE Silent /\ Aged
  <2>1. m.to \in Gateways /\ m.from \in Instances /\ m = News(m.from, m.to)
    BY DEF TypeOK, News
  <2>2. index'[g] = index[g] \/ (m.to = g /\ index'[g] = Refreshed(g, m.from))
    BY <1>9, <2>1 DEF handleServiceAnnouncement, TypeOK
  <2>3. ASSUME m.to = g, index'[g] = Refreshed(g, m.from) PROVE Aged
    <3>1. m.from # i
      BY <2>1, <2>3
    <3>2. /\ DOMAIN Refreshed(g, m.from) = Registered(g) \cup {m.from}
          /\ \A j \in Registered(g) \ {m.from} : Refreshed(g, m.from)[j] = index[g][j]
      BY <2>1, RefreshedInIndexes
    <3> QED BY <1>1, <2>3, <3>1, <3>2 DEF Registered
  <2> QED BY <1>2, <1>9, <2>2, <2>3 DEF handleServiceAnnouncement
<1>10. ASSUME NEW m \in news, LoseNews(m) PROVE Silent /\ Aged
  BY <1>2, <1>10 DEF LoseNews, gatewayVars
<1>11. ASSUME NEW m \in asks, handleGatewayAnnounce(m) \/ LoseAsk(m) PROVE Silent /\ Aged
  <2>1. m.to # i
    OBVIOUS
  <2> QED BY <1>2, <1>11, <2>1 DEF handleGatewayAnnounce, LoseAsk, doAnnounce, News, gatewayVars
<1>12. CASE Tick
  <2>1. index'[g] = Older(g)
    BY <1>12 DEF Tick
  <2>2. \A j \in Registered(g) : index[g][j] \in Nat /\ Older(g)[j] = index[g][j] + 1
    BY OlderByOne
  <2>3. DOMAIN Older(g) = Registered(g)
    BY OlderByOne
  <2> QED BY <1>12, <2>1, <2>2, <2>3 DEF Tick, Registered
<1> QED BY <1>4, <1>5, <1>6, <1>7, <1>8, <1>9, <1>10, <1>11, <1>12 DEF Next

\* Nothing but its own announcement makes an instance that is gone look younger, or
\* known again, once no call of its handler is left to announce it
\* (gateway-service-indexer.go:41-65).
THEOREM OnlyItsOwnNewsRefreshes == Spec => TheDeadOnlyAge
<1>1. DiscoveryInv /\ [Next]_vars =>
        [\A g \in Gateways, i \in Instances :
            Silenced(g, i) =>
                /\ News(i, g) \notin news'
                /\ i \in Registered(g)' => i \in Registered(g) /\ index'[g][i] >= index[g][i]
        ]_vars
  BY DeadNext DEF DiscoveryInv
<1> QED BY <1>1, DiscoveryIsConsistent, PTL DEF Spec, TheDeadOnlyAge

\* The types, and that announcements of instances under way have a gateway that is
\* subscribed.
THEOREM DiscoveryTypes == Spec => []TypeOK
<1>1. DiscoveryInv => TypeOK
  BY DEF DiscoveryInv
<1> QED BY <1>1, DiscoveryIsConsistent, PTL

=============================================================================
