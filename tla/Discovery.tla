------------------------------- MODULE Discovery -------------------------------
(***************************************************************************)
(* How gateways and the instances of a service find and forget each other  *)
(* (gateway.go, service.go, natstransport announce-*.go).  An instance     *)
(* announces itself when it starts, and again whenever a gateway's         *)
(* announcement does not list it.  A gateway announces the instances it    *)
(* has heard of lately, drops those it has not heard of for long, and      *)
(* those a message could not be delivered to.  Announcements are published *)
(* and may be lost; nobody says goodbye.                                   *)
(*                                                                         *)
(* Time is counted in fractions of AnnounceInterval.  It is assumed that a *)
(* loop handles its tick before the next one, which for pruneLoop includes *)
(* that the sockets it closes one by one (gateway.go:364-367) take it less *)
(* than an interval, and that messages are delivered or lost, and handlers *)
(* done with them, within a unit.                                          *)
(* Of the index (GatewayServiceIndexer) only who is in it and for how long *)
(* matters here.                                                           *)
(***************************************************************************)
EXTENDS Naturals

CONSTANTS
    Gateways, Instances,
    Wants,      \* the gateways each instance's GatewayNames let it announce to
    Cut,        \* instances that may be cut off: messages from and to them get lost
    Interval    \* units of time in an AnnounceInterval

ASSUME DiscoveryAssumption ==
    /\ Wants \in [Instances -> SUBSET Gateways]
    /\ Cut \subseteq Instances
    /\ Interval \in Nat \ {0}

VARIABLES
    gateway,    \* off, subscribed, or running: start-up announcement made
    instance,   \* off, subscribed, or listening
    index,      \* the age of each descriptor in a gateway's index
    clock,      \* time since the last tick of a gateway's tickers
    due,        \* ticks that its loops have still to handle
    asks,       \* gateway announcements under way that do not list their receiver
    news,       \* service announcements under way
    dropped     \* history: instances a gateway dropped after a failed send and has
                \* not announced without since

gatewayVars == <<gateway, index, clock, due, dropped>>
vars == <<gatewayVars, instance, asks, news>>

FreshFor == 3 * Interval
PruneAfter == 5 * Interval
Ages == 0..(7 * Interval - 1)   \* no descriptor gets older: see ForgottenInTime

Ask(g, i) == [from |-> g, to |-> i]
News(i, g) == [from |-> i, to |-> g]

NoDescriptors == [i \in {} |-> 0]
Indexes == UNION {[known -> Ages] : known \in SUBSET Instances}

TypeOK ==
    /\ gateway \in [Gateways -> {"off", "subscribed", "running"}]
    /\ instance \in [Instances -> {"off", "subscribed", "listening"}]
    /\ index \in [Gateways -> Indexes]
    /\ \A g \in Gateways : gateway[g] = "off" => index[g] = NoDescriptors /\ due[g] = {}
    /\ clock \in [Gateways -> 0..(Interval - 1)]
    /\ due \in [Gateways -> SUBSET {"announce", "prune"}]
    /\ asks \subseteq [from : Gateways, to : Instances]
    /\ news \subseteq [from : Instances, to : Gateways]
    /\ \A m \in news : gateway[m.to] # "off"
    /\ dropped \in [Gateways -> SUBSET Instances]

Init ==
    /\ gateway = [g \in Gateways |-> "off"]
    /\ instance = [i \in Instances |-> "off"]
    /\ index = [g \in Gateways |-> NoDescriptors]
    /\ clock = [g \in Gateways |-> 0]
    /\ due = [g \in Gateways |-> {}]
    /\ asks = {} /\ news = {}
    /\ dropped = [g \in Gateways |-> {}]

Registered(g) == DOMAIN index[g]

Without(g, removed) == [i \in Registered(g) \ removed |-> index[g][i]]

Refreshed(g, seen) ==
    [i \in Registered(g) \cup {seen} |-> IF i = seen THEN 0 ELSE index[g][i]]

Older(g) == [i \in Registered(g) |-> index[g][i] + 1]

\* Mutant of NotFound: any instance of the service is taken for oneself.
NotFoundByName(i, listed) == listed = {}

\* All that an instance looks for in an announcement is its own ID.
NotFound(i, listed) == i \notin listed

\* AnnounceGateway: to the instances that are subscribed, wish to announce to g
\* and do not find themselves; the others let the announcement go by.
AnnounceGateway(g, listed) ==
    /\ asks' = asks \cup
          {Ask(g, i) : i \in {j \in Instances :
              instance[j] # "off" /\ g \in Wants[j] /\ NotFound(j, listed)}}
    /\ dropped' = [dropped EXCEPT ![g] = {}]

\* To the gateways that are subscribed.
doAnnounce(i) ==
    news' = news \cup {News(i, g) : g \in {h \in Gateways : gateway[h] # "off"}}

-----------------------------------------------------------------------------
(***************************************************************************)
(* A gateway: Connect, its loops, and the handler of service announcements.*)
(***************************************************************************)
SubscribeGateway(g) ==
    /\ gateway[g] = "off"
    /\ gateway' = [gateway EXCEPT ![g] = "subscribed"]
    /\ UNCHANGED <<index, clock, due, instance, asks, news, dropped>>

\* Connect announces all it knows once it is subscribed, and is ready.
StartGateway(g) ==
    /\ gateway[g] = "subscribed"
    /\ gateway' = [gateway EXCEPT ![g] = "running"]
    /\ AnnounceGateway(g, Registered(g))
    /\ UNCHANGED <<index, clock, due, instance, news>>

\* Connect ends, for whatever reason; the index is closed.
StopGateway(g) ==
    /\ gateway[g] # "off"
    /\ gateway' = [gateway EXCEPT ![g] = "off"]
    /\ index' = [index EXCEPT ![g] = NoDescriptors]
    /\ clock' = [clock EXCEPT ![g] = 0]
    /\ due' = [due EXCEPT ![g] = {}]
    /\ news' = {m \in news : m.to # g}
    /\ dropped' = [dropped EXCEPT ![g] = {}]
    /\ UNCHANGED <<instance, asks>>

Fresh(g) == {i \in Registered(g) : index[g][i] <= FreshFor}

announceLoop(g) ==
    /\ "announce" \in due[g]
    /\ due' = [due EXCEPT ![g] = @ \ {"announce"}]
    /\ AnnounceGateway(g, Fresh(g))
    /\ UNCHANGED <<gateway, index, clock, instance, news>>

\* Mutant of pruneLoop: descriptors the gateway would still announce count as used.
pruneOneLoop(g) ==
    /\ "prune" \in due[g]
    /\ due' = [due EXCEPT ![g] = @ \ {"prune"}]
    /\ index' = [index EXCEPT ![g] =
          IF Fresh(g) = {} THEN Without(g, {i \in Registered(g) : index[g][i] > PruneAfter})
          ELSE @]
    /\ UNCHANGED <<gateway, clock, instance, asks, news, dropped>>

\* Mutant of pruneLoop: whatever is no longer fresh is dropped.
pruneEarlyLoop(g) ==
    /\ "prune" \in due[g]
    /\ due' = [due EXCEPT ![g] = @ \ {"prune"}]
    /\ index' = [index EXCEPT ![g] = Without(g, Registered(g) \ Fresh(g))]
    /\ UNCHANGED <<gateway, clock, instance, asks, news, dropped>>

pruneLoop(g) ==
    /\ "prune" \in due[g]
    /\ due' = [due EXCEPT ![g] = @ \ {"prune"}]
    /\ index' = [index EXCEPT ![g] = Without(g, {i \in Registered(g) : index[g][i] > PruneAfter})]
    /\ UNCHANGED <<gateway, clock, instance, asks, news, dropped>>

\* Mutant of handleServiceAnnouncement: a known name is enough to refresh.
RefreshByName(m) ==
    /\ m \in news
    /\ news' = news \ {m}
    /\ LET known == IF Registered(m.to) = {} THEN {m.from} ELSE Registered(m.to) IN
       index' = [index EXCEPT ![m.to] = [i \in known |-> 0]]
    /\ dropped' = [dropped EXCEPT ![m.to] = @ \ {m.from}]
    /\ UNCHANGED <<gateway, clock, due, instance, asks>>

handleServiceAnnouncement(m) ==
    /\ m \in news
    /\ news' = news \ {m}
    /\ IF m.to \in Wants[m.from]
       THEN index' = [index EXCEPT ![m.to] = Refreshed(m.to, m.from)]
       ELSE UNCHANGED index
    /\ dropped' = [dropped EXCEPT ![m.to] = @ \ {m.from}]
    /\ UNCHANGED <<gateway, clock, due, instance, asks>>

\* Handle could not deliver a message to i, and drops it whatever has become of it
\* since: the send failed up to SendTimeout ago, when i was gone, out of reach, or
\* slow to acknowledge, and i may be back by now, or never have been away.
UnsetService(g, i) ==
    /\ i \in Registered(g)
    /\ index' = [index EXCEPT ![g] = Without(g, {i})]
    /\ dropped' = [dropped EXCEPT ![g] = @ \cup {i}]
    /\ UNCHANGED <<gateway, clock, due, instance, asks, news>>

-----------------------------------------------------------------------------
(***************************************************************************)
(* An instance: Listen and the handler of gateway announcements.           *)
(***************************************************************************)
SubscribeInstance(i) ==
    /\ instance[i] = "off"
    /\ instance' = [instance EXCEPT ![i] = "subscribed"]
    /\ UNCHANGED <<gatewayVars, asks, news>>

StartInstance(i) ==
    /\ instance[i] = "subscribed"
    /\ instance' = [instance EXCEPT ![i] = "listening"]
    /\ doAnnounce(i)
    /\ UNCHANGED <<gatewayVars, asks>>

\* Listen ends, or the process does.  Listen may be called again, with the same ID.
\* What has not reached the handler does not reach it any more, but the end of the
\* subscription waits for no call of the handler, which announces i later.
StopInstance(i) ==
    /\ instance[i] # "off"
    /\ instance' = [instance EXCEPT ![i] = "off"]
    /\ \E late \in SUBSET {m \in asks : m.to = i} :
          asks' = {m \in asks : m.to # i} \cup late
    /\ UNCHANGED <<gatewayVars, news>>

handleGatewayAnnounce(m) ==
    /\ m \in asks
    /\ asks' = asks \ {m}
    /\ doAnnounce(m.to)
    /\ UNCHANGED <<gatewayVars, instance>>

-----------------------------------------------------------------------------
\* NATS delivers at most once.
LoseAsk(m) ==
    /\ m \in asks /\ m.to \in Cut
    /\ asks' = asks \ {m}
    /\ UNCHANGED <<gatewayVars, instance, news>>

LoseNews(m) ==
    /\ m \in news /\ m.from \in Cut
    /\ news' = news \ {m}
    /\ UNCHANGED <<gatewayVars, instance, asks>>

\* A unit of time passes.  A loop has handled its tick before the next (assumed).
Tick ==
    /\ asks = {} /\ news = {}
    /\ \A g \in Gateways : clock[g] = Interval - 1 => due[g] = {}
    /\ clock' = [g \in Gateways |-> IF gateway[g] = "off" THEN 0 ELSE (clock[g] + 1) % Interval]
    /\ due' = [g \in Gateways |->
                  IF gateway[g] # "off" /\ clock'[g] = 0 THEN {"announce", "prune"} ELSE due[g]]
    /\ index' = [g \in Gateways |-> Older(g)]
    /\ UNCHANGED <<gateway, instance, asks, news, dropped>>

Next ==
    \/ \E g \in Gateways :
          \/ SubscribeGateway(g) \/ StartGateway(g) \/ StopGateway(g)
          \/ announceLoop(g) \/ pruneLoop(g)
          \/ \E i \in Instances : UnsetService(g, i)
    \/ \E i \in Instances : SubscribeInstance(i) \/ StartInstance(i) \/ StopInstance(i)
    \/ \E m \in news : handleServiceAnnouncement(m) \/ LoseNews(m)
    \/ \E m \in asks : handleGatewayAnnounce(m) \/ LoseAsk(m)
    \/ Tick

Spec == Init /\ [][Next]_vars

\* Loops and start-up go on, time passes, and of the announcements that one side
\* sends again and again some arrive.
Fairness ==
    /\ SF_vars(Tick)
    /\ \A g \in Gateways :
          WF_vars(StartGateway(g)) /\ WF_vars(announceLoop(g)) /\ WF_vars(pruneLoop(g))
    /\ \A i \in Instances : WF_vars(StartInstance(i))
    /\ \A g \in Gateways, i \in Instances :
          /\ SF_vars(handleServiceAnnouncement(News(i, g)))
          /\ SF_vars(handleGatewayAnnounce(Ask(g, i)))

FairSpec == Spec /\ Fairness

-----------------------------------------------------------------------------
Up(g, i) == gateway[g] = "running" /\ instance[i] = "listening" /\ g \in Wants[i]

Quiet(g, i) == Ask(g, i) \notin asks /\ News(i, g) \notin news

\* An instance that is gone and has nothing left to say to g.
Silenced(g, i) ==
    /\ instance[i] = "off" /\ News(i, g) \notin news
    /\ \A m \in asks : m.to # i

\* Whatever the order in which the two start, stop and start again, and however
\* late the loops are: a gateway knows an instance that is not cut off as soon as
\* their announcements have arrived, and does not prune it.  Only a failed send makes
\* the gateway forget it (gateway.go:297, 313), and not for longer than until its next
\* announcement has been answered.  It rests on both subscribing before they announce
\* (gateway.go:117-141, service.go:162-186), on an instance being asked for its news
\* (3 intervals, gateway.go:338) a whole interval and more before it is pruned (5
\* intervals, gateway.go:361), and on what was dropped not being announced any more.
UpMeansKnown ==
    \A g \in Gateways, i \in Instances :
        Up(g, i) /\ Quiet(g, i) /\ i \notin Cut => i \in Registered(g) \cup dropped[g]

\* Whoever falls silent is forgotten within seven intervals, gateway loops that lag up
\* to an interval behind their ticks included: five until it counts as stale, one until the next
\* tick, one until pruneLoop has handled it (gateway.go:352-362).
ForgottenInTime ==
    \A g \in Gateways : \A i \in Registered(g) : index[g][i] < 7 * Interval

\* Nothing but its own announcement makes an instance that is gone look younger, or
\* known again: no announcement of another instance, and none of a gateway's
\* (gateway-service-indexer.go:41-65), unless the instance still was to answer it
\* when it ended.
TheDeadOnlyAge ==
    [][\A g \in Gateways, i \in Instances :
          Silenced(g, i) =>
              /\ News(i, g) \notin news'
              /\ i \in Registered(g)' => i \in Registered(g) /\ index'[g][i] >= index[g][i]
      ]_vars

\* An instance that stays up at a gateway that stays up is known to it again and
\* again, although announcements are lost and deliveries fail
\* (TestServiceReannounceAfterPrune, README.md:269-271).
LiveComesBack ==
    \A g \in Gateways, i \in Instances : []<>(Up(g, i) => i \in Registered(g))

\* An instance that is gone for good is forgotten for good, also one that no
\* message is ever sent to, and whatever the other instances announce
\* (gateway.go:352-362).
DeadIsForgotten ==
    \A g \in Gateways, i \in Instances :
        <>[](instance[i] = "off") => <>[](i \notin Registered(g))

=============================================================================
