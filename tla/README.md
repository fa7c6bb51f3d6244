# Eurus: specifications, model checking and proofs

Eurus connects WebSocket clients to microservices. A *gateway* accepts the clients and
routes each of their messages by its path to an instance of a service; a *service*
instance handles them as if the clients were connected to it; a *transport* (NATS, or an
in-process one) carries messages, announcements, closures and heartbeats between the
two. This directory holds TLA+ specifications of the parts of Eurus where order matters,
TLC configurations that check them on small instances, and TLAPS proofs about every
module of a component.

Line numbers refer to the files of the repository root unless a path is given.

## The system

| Component | State | Operations | Where |
|---|---|---|---|
| Gateway service index | registered instances, their routes, age and load; the pin of each socket per service | SetServiceDescriptor, UnsetService, PruneStaleServices, ResolveService, MapSocket, UnmapSocket, Close, snapshots | `gateway-service-indexer.go` |
| Gateway | the sockets it tracks, the index of the current run | Connect/Close, Handle, HandleClose, handlers of announcements, messages to clients, closures and heartbeats; announceLoop, pruneLoop | `gateway.go` |
| Lifecycle | `cancel`, `done`, `ready` | begin, markReady, readyChan, interrupt, end, close | `lifecycle.go` |
| Service and connections | connection per socket, recently closed sockets; mailbox, closeOnce and context per connection | Listen/Close, handlers of messages, gateway announcements and closures; pruneLoop, heartbeatLoop; Read, Write, Close of a connection | `service.go`, `connection.go` |
| NATS dispatch | a queue and at most one worker per socket | dispatch, run, wait | `transport/natstransport/dispatch.go` |
| NATS delivery | request/reply, acknowledgements, chunk streams | sendEnvelope, streamChunks, receiveChunks, serveMessages | `transport/natstransport/message*.go` |
| Discovery | the age of each descriptor in a gateway's index; announcements under way | announce, hear, refresh, prune, re-announce | `gateway.go`, `service.go`, `transport/natstransport/announce-*.go` |
| NATS subjects, announcements, closures, heartbeats | none | publish/subscribe wrappers, `namespace`, heartbeat batches | `transport/natstransport/` |
| Local transport | handler registries | calls the handlers on the caller's goroutine | `transport/localtransport/` |

**How they interact.** A service announces itself; the gateway's handler puts it into
the index. Handle resolves the path of a client's message to a service, tracks the
socket, asks the index for the instance the socket is pinned to (or pins it to the one
with the fewest sockets) and sends. At the service the pump of the transport hands the
message to the worker of its socket, which finds or creates the connection and puts the
message into its mailbox. A closed socket is broadcast; gateways and services drop it,
and services refuse it for a while. Services ask gateways by heartbeat whether their
sockets are still alive. The prune loop of the gateway drops instances that are not
heard of any more.

**What is hard.** Handlers run on goroutines of velaros, of the transport and of the
gateway's own loops, and hold `socketsMu` or the lock of the index only for moments.
Sends fail and are retried elsewhere; closures race with messages; a gateway or a
service is stopped while handlers run, and is started again. `PROJECT.json` lists each
hazard at its line, with the properties that cover it.

**What makes each part correct.** The index: its lists, pins and loads agree, pins are
live and do not move, balancing is by load. The gateway: no message is lost without its
client being told, no live socket is condemned, nothing survives a stop, every pruned or
closed socket is let go at both ends. The lifecycle: one run at a time, Close waits for
the right run. The service: one usable connection per socket that closures and
heartbeats can find, none after a stop. The dispatcher: order per socket, no lost work,
no interference between sockets. Delivery: a message is handled at most once, whole and
in order, and what its sender is told of it is true. Discovery: who is up is known, who
is gone is forgotten.

## Modules

| Module | What it is |
|---|---|
| `GatewayServiceIndexer` | the index; one action per exported method, with the invariants `IndexInv` is made of |
| `LeastConnections` | what balancing promises (README.md:501): instances register and deregister, sockets are pinned to one with the fewest pins and released |
| `GatewayServiceIndexerProofs`, `GatewayProofs`, `GatewayPinProofs`, `LifecycleProofs`, `SocketDispatcherProofs`, `MessageDeliveryProofs`, `ServiceProofs`, `DiscoveryProofs` | theorems and proofs about the module each is named for; `GatewayPinProofs` extends `GatewayProofs` with what becomes of pins, of clients that are gone, and of balancing in the gateway |
| `Gateway` | the gateway, extending the index; services appear through the connections they hold |
| `Lifecycle` | `lifecycle.go` |
| `SocketDispatcher` | `dispatch.go` with the pump that feeds it |
| `SerialQueues` | what a subscription for messages promises (transport.go:30–33): a queue for each socket, and a worker that never goes away |
| `MessageDelivery` | requests, acknowledgements and chunk streams over a network that loses and delays, with a receiver that uses `SocketDispatcher` |
| `AtMostOnce` | what a caller of the transport may rely on: each message has a fate and each call an answer, and the answer is true |
| `Service` | a service instance and its connections |
| `Discovery` | how gateways and instances find and forget each other |
| `MC…` | model values, symmetry and constraints for TLC |

An operator marked as a mutant changes the definition that follows it the way a slip in
the code would. It is used by no specification; put in place of that definition, it
makes a property listed in `PROJECT.json` fail.

### GatewayServiceIndexer

Every exported method holds `r.mu` from its first line to its last, so it is one action.
`descriptors` and `servicesByName` are sequences because `MapSocket` prefers the
instance registered first among equals. A descriptor's `socketIDs` and age live in
functions of the instance. An action whose call returns values takes them as parameters
(`MapSocket(n, k, i, isNew)`). Times are ages, advanced by `Tick` and capped just above
the prune threshold, since nothing distinguishes older ones. `LeastConnections` knows
only who is registered and pinned; under the mapping `registered <- Registered, pinnedTo
<- socketToInstance` the index must take only its steps, which is a claim about the
`socketIDs` bookkeeping: the abstract choice counts pins, the code compares lengths of
lists that other methods maintain.

### Gateway

`task[g]` is the program counter and the locals of a caller, a goroutine that runs
gateway code. There are three kinds: `Goroutines` run the handlers that velaros calls
(Handle, HandleClose) and the callback of socket closures, and nobody waits for them;
`Workers` are those of the stream of gateway messages, one socket each, and `Pruner` is
pruneLoop: Connect waits for these (`GroupDone`, gateway.go:88–94 and 149, with
`natstransport/message.go:220`). announceLoop, which Connect waits for too, touches no
socket and ends with its context.

Handle is cut where it lets go of a lock or returns from a call: resolve (255–273),
track (275–278), map (282), send (297, with its outcomes `Deliver`, `RejectSlow` and
`FailSend`), unset (313). `closeSocket` is cut into untrack, shut, broadcast and unmap
for all its callers. `handleGatewayMessage` finds the socket and is then in
`SendWithContext`, which succeeds (`WriteSocket`), or fails, at the latest after
`SendTimeout` (`FailWrite`), and then closes the socket. `phase` follows Connect:
`running`, `stopping` (context canceled, loops and workers ending), `closing`
(`gsi.Close` done), `draining` (`closeAllSockets` has taken the map), `off`.

`stale` says that the index a task uses has been replaced by a reconnect; such an index
is closed and all its methods return at once. A closure callback has captured the index
of the run that subscribed (gateway.go:109–111), and the end of a subscription waits for
no callback (`nats-transport.go:60–66`): `notices` are the closures a subscription has
received and its callback has not handled, they outlive the run, and a reconnect makes
them stale. So a callback of an earlier run may take a socket of this one.

The other side is kept as small as the properties allow: `client` (open, closed by the
gateway, or gone: its close handler has been started) and `connections` (which instance
holds a connection of which socket). A closure broadcast reaches any of the services or
none, and the gateway itself or not; it may be lost or fail. A delivered message leaves a
connection or none, as the service may know the socket as closed. By the contract of the
transport an error means that nothing was delivered (transport.go:45–46); the NATS
transport does not keep that part of it (see Findings). `FalseErrors` chooses: when it
is TRUE, a send that fails may have reached the instance all the same. The passing runs
set it, and the theorems hold for both values. The two runs that show a violation do
not, so that what they show happens with any transport.

`failed`, inside a task, is kept for `NeverResends` only.

velaros calls the handlers of a client's messages and `HandleClose` on goroutines the
gateway does not order, and the model takes them in any order. One order leaves
something behind: a `Handle` that resolved its path before and tracks its socket after
the client's `HandleClose` took nothing from the map leaves a tracked socket nobody will
take from it, for which every heartbeat then vouches, until the gateway stops or a
failed send, a prune or a closure closes it. The properties say so and do not assume it
away: `GhostsAreCollected` promises the end of a connection unless the gateway tracks
its socket for ever, `OnlyLateHandlesKeep` that nothing but such a `Handle` makes it
track a client that is gone, and `OnlyRacesStrand` counts a pin made in this way among
those nobody is bound to remove.

### Lifecycle

Each method is one action, except that `end` and `close` are cut at the unlock. A run's
cancel function and done channel carry the name of the run; ready channels are numbered
as they are made. A `waiter` remembers with each channel how many runs had ended when it
asked, which is what `ServingWakesWaiters` is about.

### SocketDispatcher

`active` is the key set of `d.queues`: `dispatch` decides by the key, not by the queue,
whether to spawn a worker. A worker is counted in `workers` at the top of its loop and
has an entry in `executing` while it does work, so that two workers of one socket, were
they possible, would show. `Stuck` sockets have work that may never return.
`SerialQueues` has no keys and no workers that come and go: under the mapping `waiting
<- queues, handled <- executing` the dispatcher must take only its steps, so that it
refuses nothing while there is room, starts nothing while something is at work, and is
done with everything when Serve returns.

### MessageDelivery

A call of `MessageService` or `MessageGateway` is a model value with a socket and a
number of chunks. `sender` is the progress of `sendEnvelope`, `stage` that of the
message at the receiver: taken by the pump and `queued` or `refused`, then `open` while
its worker takes chunks, `whole`, `handling`, `done`, or `dropped`. The queues and
workers are an instance of `SocketDispatcher` (whose work always returns here); `callOf`
says which call the n-th message of the pump is. `wire` holds what is under way. A reply
that nobody waits for any more and a chunk for a closed inbox vanish, anything may be
lost, and nothing is duplicated or, between two calls, ordered. A request may time out
at any moment, before or after it is received; so may a transfer.

Under the mapping of `stage` to a fate and of `sender` to an answer the protocol
implements `AtMostOnce`. Its weak point is explicit there: the answer `failed` says
nothing about the fate.

Left out: an envelope that cannot be decoded (it is logged and answered with an error,
and no sender of this code makes one), and a receiver that crashes (nothing of it
persists).

### Discovery

Time is counted in fractions of `AnnounceInterval`. `index[g]` gives the age of each
descriptor. An announcement of a gateway matters only to instances it does not list, so
`asks` holds the pairs of a gateway and an instance that will answer, and `news` the
announcements of instances under way. `Tick` lets a unit of time pass: messages are
delivered or lost within the unit, and a loop has handled its tick before the next.
That is an assumption, the one about speed: for pruneLoop it includes that the sockets
it closes one after the other, over the network, take it less than an interval
(gateway.go:364–367). `ForgottenInTime` and `UpMeansKnown` rest on it.
Messages from and to the instances in `Cut` may be lost. `Wants` is what `GatewayNames`
allows. An instance may be stopped and started again with the same ID; nobody says
goodbye, and a callback that was running when Listen returned may still announce.

A gateway may drop any instance at any time (`UnsetService`): the send that failed began
up to `SendTimeout` ago, and whether the instance was away then, has come back, or was
only slow to acknowledge, is not looked at again (gateway.go:297, 313). An instance that
is up is therefore unknown for a while now and then. `dropped` remembers whom a gateway
has dropped and has not announced without since, so that `UpMeansKnown` can say that
nothing else makes it unknown, and for how long this does.

### Service

`once[c]` is how far connection `c` has come: open, inside `closeOnce` before and after
`onClosed`, closed with its context canceled. Whoever calls `HandleClose` has `task[g] =
c` until `closeOnce` lets him through, which for all but the first is when the first is
done. `worker[k]` is the connection the worker of socket `k` is in `HandleMessage` of;
`backlog[k]` is its queue, which is emptied before the transport's Serve returns. `gone`
holds sockets the gateway does not track any more. A closure broadcast may arrive for
any socket at any time, and its callback may still run when Listen has returned, since
the end of that subscription does not wait for it.

`heartbeatConnections` asks the gateways of its snapshot one after the other
(`GatewayOf`), each in batches (4096 in the code, `BatchSize` here; README.md:469 of the
repository speaks of one request), and closes in between. One batch that fails condemns
all sockets of that gateway, also those that an earlier batch has reported alive. In
`Gateway` a connected gateway always answers; `HeartbeatIsSound` is about such
heartbeats. A mailbox of size 0 behaves as one of size 1 that is read at once. A record
in `closedSockets` may expire at any time, except while somebody is in the middle of
closing a connection of that socket (the TTL is 30 seconds).

## Runs

| Run | Question | Instance | States |
|---|---|---|---|
| `MCIndexer` | do the structures of the index stay consistent, does it implement `LeastConnections`? | 2 services, 3 instances, 3 sockets, thresholds 0 and 1 | 59 k |
| `MCGateway` | every interleaving of two handlers, a worker, the prune loop, closures, heartbeats, stops and reconnects | 1 socket, 1 instance, 2 goroutines, 1 worker | 1.7 M |
| `MCGatewayTwoSockets` | sockets that disturb each other through a shared instance, stops and reconnects included | 2 sockets, 2 instances, 2 goroutines; no stale instance (`NoneStale`), no connections (`NoConnections`) | 2.1 M |
| `MCGatewayLive` | does what must happen happen? | 1 socket, 1 instance, 1 worker, a goroutine for messages and one for HandleClose; no closure by a service (`OneHandler`) | 94 k |
| `MCGatewayPinning` | README.md:247, found false | 2 sockets, 2 instances, one connected run (`SteadyRun`), handlers of a client one at a time (`SerialHandlers`) | |
| `MCGatewayLoad` | README.md:501 and 509, found false | 1 socket, 2 instances, handlers of a client one at a time | |
| `MCLifecycle` | overlap of runs, closers and waiters; does Close return? | 3 runs, 2 closers, 1 waiter | 453 k |
| `MCSocketDispatcher` | order and completeness, independence of sockets, end of wait; does it implement `SerialQueues`? | 2 sockets, one of them `Stuck`, queues of 2, 6 messages | 30 k |
| `MCMessageDelivery` | is every message handled at most once, whole, in order, and is its sender told the truth? Is what is accepted handled in the end? | 2 messages and a stream of 2 chunks, queue of 1 | 123 k |
| `MCMessageDeliveryError` | transport.go:45, found false | 1 message, 1 stream | |
| `MCService` | does any order of messages, closures, heartbeats, failed writes, stops and restarts orphan a connection? Does Listen return, are dead connections closed? | 2 sockets, 2 connections, mailbox and queue of 1, 1 closure handler, batches of 1 | 281 k |
| `MCDiscovery` | are those who are up known, those cut off found again, the silent forgotten within seven intervals, the dead for good? | 1 gateway, 2 instances, one of them in `Cut`, a unit of half an interval | 215 k |

**Why the bounds are enough.** Balancing needs three sockets to tell loads of 2, 1 and 0
apart, and a second service to show that pins are per service. The steps of the gateway
touch one socket and the instances of one service. `MCGateway` is about who takes a
socket from the map and who closes it: one socket and one instance, which may fail, go
and come back, and all kinds of callers, two of them free ones. `MCGatewayTwoSockets` is
about the index: two instances are needed for a retry and a pin that moves, a second
socket for the pins that `UnsetService` takes from the first. What services hold and
what a worker writes is of no consequence there: `NoConnections` keeps to the
executions in which a message leaves no connection behind, which any may do, and the
prune, like `UnsetService`, removes instances. What must happen is checked with one
instance, one handler that works on messages one after the other, a HandleClose that
may come at any point of it, the worker and the prune loop, so that up to four callers
meet at the one socket. In the lifecycle a Close can be late by one run, so three
runs let it be late and hit the third. A queue of two is the least with a head, a tail
and a full state. A service needs two connections of one socket for the second to be
evicted by the close of the first, and two sockets for two batches. A queue of one
refuses the third message, when one is at work and one waits; a stream of two chunks has
a first, a next and an end. An announcement is at stake between one gateway and one
instance; the second instance is there because one descriptor might be taken for
another's, and is the one that is not cut off. Half an interval is the least time that
tells a late loop from a late message. All of these bounds are gone in the proofs.
Bounds in the models: `MaxAge` (ages in the index), `MaxWork` (messages the pump
receives), `MaxConnections` (connections a service creates), `Interval` (units of time
in an announce interval).

**Fairness.** A goroutine that can take its next step takes it (weak fairness per
goroutine or connection). Deferred clean-up gets strong fairness because of one choice:
a loop whose context is canceled while its ticker fires may run once more, and Go's
`select` picks at random, so it does not do so forever; and a worker whose context is
canceled comes to the end of its queue, to which nothing is added any more. A write to a
client that does not read fails in the end, because it has a timeout (`SendTimeout`,
gateway.go:197); without it `StopCompletes` fails, which is its mutant. Of clients
nothing is assumed, not even that their HandleClose is ever called. `GhostsAreCollected` and
`GoneConnectionsClose` need the heartbeat loop to run. `ListenReturns` needs the
application to read: a worker in `HandleMessage` waits for room in the mailbox, and
Listen waits for the worker before it cancels the connection. A handler that never reads
again keeps `Service.Close` waiting. In the delivery goroutines run, timers fire and
handlers return; of the network nothing is assumed. In discovery time passes (strongly
fair, so that restarts cannot hold it up for ever), the loops run, and of the
announcements that one side repeats again and again some arrive. Elsewhere nothing is
assumed of clients, announcements, broadcasts, or of when somebody calls Close.
`HandleEnds` holds unless new instances go on announcing themselves: each retry removes
the instance that failed, so only a new one can prolong the loop.

**Where the system may stop.** Deadlock is checked in every run.

## Findings

* `MCMessageDeliveryError`: transport.go:45–46 says of an error that "the message was
  not delivered and the caller may re-route", and message.go:187–188 has the sender
  treat a late acknowledgement like that. But the acknowledgement may be lost or late
  when the message is queued or handled, or when the last chunk has arrived;
  Gateway.Handle then sends the message to a second instance.
* `MCGatewayPinning`: after a failed send, `UnsetService` (gateway.go:313) drops the
  pins of all sockets of the instance, but only the socket whose send failed is closed.
  The others stay connected and are routed to another instance with their next message,
  although README.md:247 promises one instance until the connection closes. (The prune
  loop, in the same situation, closes the sockets.)
* `MCGatewayLoad`: when a socket is closed, by a message to the client that cannot be
  written or by a closure, after Handle has tracked it and before Handle maps it, the
  pin is made after `UnmapSocket` ran. The client's close handler finds the socket
  untracked and returns (gateway.go:393). The instance counts a connection that no
  longer exists until it is dropped from the index. `OnlyRacesStrand` names the other
  ways to such a load: a Handle that comes after HandleClose, and a closure callback of
  an earlier run, which unmaps the socket from the index of that run.

The last two are found with the handlers of each client running one at a time.

## Proofs

`GatewayServiceIndexerProofs` proves, for all sets of services and instances, any finite
set of sockets, and the named assumptions in `GatewayServiceIndexer` (an instance has
one service, `NoInstance` is none, thresholds are natural numbers):

* `IndexIsConsistent`: `IndexInv` always holds. It is inductive as it stands, and only
  as a whole: that a pin names a registered instance (`PinsAreLive`) needs
  `RegisteredOnce` to know that unregistering removes the instance from both lists; that
  loads are exact needs `PinsAreLive`, because `UnmapSocket` finds the load to correct
  by searching `servicesByName`. The proof has one lemma per method.
* `IndexRefinesLeastConnections`: every step of the index is a step of
  `LeastConnections` or leaves its variables unchanged. The argument is that the length
  of an instance's `socketIDs` equals the number of sockets pinned to it
  (`LoadIsLength`, from `LoadIsExact`), so the target of `MapSocket` has the fewest.
* `PinsNeverMove` and `PruneReportsExactly`, action properties, from the same invariant.

`Without`, the removal of members from a sequence, is written as a recursive function so
that its properties can be proved (`WithoutProperties`).

`GatewayProofs` proves, for any numbers of goroutines, services, instances and sockets,
and any routes, that `GatewayInv` always holds under `Spec`; type correctness, the
safety properties of the gateway's runs and `IndexInv` follow from it. What makes it
inductive:

* `AccountedInv`: a socket that something depends on (`Committed`: a handler past Track,
  a worker that writes to it, a handler about to close it, a pin, a connection, the list of a prune) is tracked,
  disconnected or being disconnected (`Accounted`). The two halves move independently:
  `AccountedStays` shows that nothing un-accounts a socket, because whoever takes it
  from `g.sockets` goes on to close it; and each action is shown to commit only to
  sockets that were committed or are accounted for. A socket becomes committed only
  after Track. `HeartbeatIsSound`, `UndeliveredCloses` and `PinnedIsTrackedOrClosed` are
  three instances of it.
* `CallsInv`: what a call of Handle knows to have failed is not registered, but for the
  one instance between FailSend and UnsetAndRetry; MapSocket answers only with
  registered instances, so `NeverResends`. A call with a replaced index finds it closed.
* `StoppedTracksNothing` needs `StateInv`: the index is closed whenever the phase is
  closing or later, so a late Map answers nothing and its handler gives up.
* The calls of the index enter through one lemma each (`UnsetCall`, `MapCall`, …), which
  cite the lemmas of `GatewayServiceIndexerProofs`.
* `PrunedSocketsAreTracked`, another instance of `AccountedInv`, is the safety half of
  `PrunedSocketsClose`: closeSocket does not return early on a socket nobody closes.

`GatewayPinProofs` builds on that invariant and looks at steps.

* `GatewayBalances`: the gateway implements `LeastConnections`. Each of its steps makes
  at most one call of the index or clears it (`IndexCall`). The calls refine by the
  theorem about the index; clearing deregisters everybody and drops all pins, which is
  a step of `LeastConnections` as well.
* `PinsEndOnlyForAReason`: a pin ends only with its instance or its client. `PinInv`
  adds to `GatewayInv` that whoever is past Shut or ClosureShut finds the client of his
  socket closed, and that no client comes back; so an unmap never hits an open one.
* `OnlyRacesStrandPins`: `MCGatewayLoad` shows a pin nobody removes, and this what else
  can lead to one, and that the list is complete. Somebody is bound to unmap a socket
  (`WillBeUnmapped`) while it is tracked and its HandleClose is still to come, and from
  then on whoever takes it from the map, if he has the current index. That obligation
  ends in the unmap itself, or with an index that is closed and has no pins, except when
  a Handle maps too late (the socket was taken, or its client gone, before) or the
  callback of an earlier run takes the socket.
* `OnlyLateHandlesKeepClients`: the safety half of `GhostsAreCollected`. A client that
  is gone comes to be tracked, with no HandleClose left to untrack it, in no step but
  Track; HandleClose itself is about to close the socket when it marks the client as
  gone, and whoever gives up a call of closeSocket found the socket untracked.

`LifecycleProofs` proves, for any finite set of runs and any closers and waiters
(`RunsAssumption` is needed to count the runs that ended), type correctness, the safety
properties of the run, and that end closes its done channel once (`DoneClosedOnce`).
`HolderInv` adds that end takes what its own begin stored, that a done channel is closed
exactly when its run is over, and that no call of close knows a run that has not begun:
without the last, a run could begin canceled. `NobodyClosesInVain` is the safety half of
`CloseReturns`: a call of close that waits waits for a run that has been told to stop
and will close the channel. `ReadinessInv` adds that a channel handed out since the last
end is the one in `l.ready`.

`SocketDispatcherProofs` proves the safety invariants of the dispatcher for any sockets,
queue size and number of messages. `DispatcherInv` is local to a socket: its key is in
`d.queues` exactly while it has one worker or one message at work. With it every step is
one of `SerialQueues`, or one that only a worker's coming or going tells from stuttering
(`DispatcherIsSerial`): a worker that takes a message finds none at work, and when wait
returns the keys, and so the queues, are gone.

`MessageDeliveryProofs` proves, for any calls, sockets, queue sizes and numbers of
chunks, all safety properties of the delivery and the refinement of `AtMostOnce`. The
proofs about the dispatcher are used, not repeated: the receiver takes only steps of
`SocketDispatcher` (`ReceiverIsADispatcher`), so its lemmas hold of it through an
instance. `DeliveryInv` has two halves.

* `ReceiverInv`, about the pump and the workers: a waiting message is in the queue of
  its socket, one that is worked on is its worker's, and queues are in the order of
  arrival. Hence `OrderInv`: when a worker begins on a message nothing earlier of its
  socket is waiting or at work, and that stays so (`HandledInOrder`).
* `Consistent`, about one call at a time: at most one chunk or its acknowledgement is
  under way, it is the one the sender waits for, and the receiver has exactly those
  before it. This is why `receiveChunks` needs no index.

`SocketsWorkOneByOne` and `StopLeavesNothing` say of whole calls what the dispatcher
says of its work: one transfer or handler at a time for a socket, and when
serveMessages has returned each message it accepted has been handled or has failed in
transfer. The second needs that messages are numbered as they are received, each
number naming one call (`CallsAreNumbered`).

`ServiceProofs` proves the five invariants of the service for any sockets, connections,
closure handlers, gateways and sizes. `OpenIsMapped` is not inductive: a connection
inside `closeOnce` will still delete whatever its socket maps to. `ConnectionInv`
therefore also covers connections whose `onClosed` is to come: they are mapped or their
close is certain. That no newer connection takes their place before is due to
`closedSockets`, which holds the socket until the closure or heartbeat is done with it
(`TaskInv`). Two results about pairs of connections follow: a socket never has two that
are in use (`OneConnectionAtATime`), and a close that deletes by socket ID never evicts
another connection than its own (`ClosersEvictOnlyThemselves`).

`DiscoveryProofs` proves `UpMeansKnown` and `ForgottenInTime` for any gateways,
instances and length of the interval. `InTime` bounds the age of a descriptor of an
instance in reach: three intervals, plus the time since the last tick, plus one interval
while the announcement is still due. An announcement that finds the descriptor older
asks for it, so the bound stays below the five intervals of the prune. Who has been
dropped after a failed send is in no announcement either, so that the next one asks for
it, which is when `dropped` forgets it. `NoneOverdue`
bounds the age of any descriptor from the other side: five intervals, plus the time
since the last tick, plus one interval while a prune is due. A tick adds to both, and a
prune removes whatever has passed five. With it the ages need no cap in the model: their
type is a consequence (`TheSilentAreForgotten`). `OnlyItsOwnNewsRefreshes` is the safety
half of `DeadIsForgotten`: nothing but its own announcement makes an instance that is
gone younger, or known again.

Model-checked only: the three violated properties, and all liveness, here
`OthersProgress`, `WaitEnds`, `CloseReturns`, `HandleEnds`, `StopCompletes`,
`PrunedSocketsClose`, `GhostsAreCollected`, `ListenReturns`, `GoneConnectionsClose`,
`OkIsHandled`, `EachGetsItsTurn`, `LiveComesBack` and `DeadIsForgotten` (the prover
treats neither fairness nor ENABLED). Of four of them the safety half is proved, as said
above: of `CloseReturns`, `PrunedSocketsClose`, `GhostsAreCollected` and
`DeadIsForgotten`.

Conversely, these are proved and no run of the project checks them: the types of every
module but the index (`IndexInv` has them), `GatewayServiceIndexer`'s action properties,
`PinnedIsTrackedOrClosed`, `PrunedIsTrackedOrClosed`, `OnlyLateHandlesKeep`, that the
gateway implements `LeastConnections`, `CloseWaitsForGood`, `DoneClosedOnce`,
`BoundedBacklog`, `OneUsablePerSocket`, `EvictsOnlyItself`, `OneAtWorkPerSocket`,
`StoppedLeavesNothing`, `TheDeadOnlyAge`, `OkMeansTaken` and `SlowMeansRefused`.

## Not modelled, and what could follow

1. *Gateway and service together*: one module in which a closure that is lost, or a
   message that arrives after it, shows at both ends (service.go:215). Each end has the
   other in its environment now.
2. *Local transport*: handlers that outlive Serve, those of gateway messages included,
   and descriptors shared between gateways, as variants of the environments of Service,
   Gateway and the index.
3. *Subjects*: `namespace` as a function, and which names collide.
4. Messages in the mailbox when a connection is closed, which nobody reads any more: the
   repository does not say what becomes of them.

Left out for good: formatting, logging and encoding; velaros and nats themselves
(external, modelled by how this code uses them); IDs, taken to be unique.
