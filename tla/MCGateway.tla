------------------------------- MODULE MCGateway -------------------------------
(***************************************************************************)
(* Small gateways: one service with two instances that serve one path.     *)
(***************************************************************************)
EXTENDS Gateway

CONSTANTS chat, chat1, chat2, p1

MCNameOf == [i \in Instances |-> chat]

MCRoutesOf == [i \in Instances |-> {p1}]

Symmetry ==
    Permutations(Goroutines) \cup Permutations(Sockets) \cup Permutations(Instances)

\* No instance goes stale.
NoneStale == Stale = {}

\* One connected run in which no instance goes stale.
SteadyRun == phase \in {"off", "running"} /\ NoneStale

\* What connections the services hold is of no consequence for the index: a message
\* may leave none behind.
NoConnections == connections = {}

\* The gateway hears no closure of a service; one goroutine handles messages, one
\* after the other, and the other one runs HandleClose, at any time.
Handler == CHOOSE g \in Goroutines : TRUE

OneHandler ==
    /\ notices' = {}
    /\ \A g \in Goroutines \ {Handler} : task'[g].pc # "resolve"
    /\ client' # client => task'[Handler] = Idle \/ task[Handler] # Idle

\* The handlers of one client run one after the other.
SerialHandlers ==
    \A k \in Sockets :
        LET handling == Busy(k, {"resolve", "track", "map", "send", "unset"})
        IN  /\ Cardinality(handling') <= 1
            /\ client'[k] = "gone" /\ client[k] # "gone" => handling = {}

=============================================================================
