--------------------------- MODULE LeastConnections ---------------------------
(***************************************************************************)
(* What a gateway's index promises its users: a client socket is pinned to *)
(* at most one instance of each service, a new pin goes to a registered    *)
(* instance with the fewest pinned sockets, a pin ends only with its       *)
(* socket or with its instance.  There are no lists and no counters here:  *)
(* the load of an instance is the number of sockets pinned to it.          *)
(***************************************************************************)
EXTENDS Naturals, FiniteSets

CONSTANTS Services, Instances, Sockets, NameOf, NoInstance

VARIABLES
    registered,  \* the instances that may be given sockets
    pinnedTo     \* the instance of each service a socket is pinned to

vars == <<registered, pinnedTo>>

Load(i) == Cardinality({k \in Sockets : pinnedTo[k][NameOf[i]] = i})

NoPins == [n \in Services |-> NoInstance]

Init ==
    /\ registered = {}
    /\ pinnedTo = [k \in Sockets |-> NoPins]

Register(i) ==
    /\ registered' = registered \cup {i}
    /\ UNCHANGED pinnedTo

\* Instances leave, and every pin to one of them ends.
Deregister(D) ==
    /\ registered' = registered \ D
    /\ pinnedTo' = [k \in Sockets |-> [n \in Services |->
                       IF pinnedTo[k][n] \in D THEN NoInstance ELSE pinnedTo[k][n]]]

\* A socket with no pin to service n gets one, to a least loaded instance.
Pin(k, n, i) ==
    /\ i \in registered /\ NameOf[i] = n
    /\ pinnedTo[k][n] = NoInstance
    /\ \A j \in registered : NameOf[j] = n => Load(i) <= Load(j)
    /\ pinnedTo' = [pinnedTo EXCEPT ![k][n] = i]
    /\ UNCHANGED registered

\* A socket is gone: it counts for no instance any more.
Release(k) ==
    /\ pinnedTo' = [pinnedTo EXCEPT ![k] = NoPins]
    /\ UNCHANGED registered

Next ==
    \/ \E i \in Instances : Register(i)
    \/ \E D \in SUBSET Instances : Deregister(D)
    \/ \E k \in Sockets, n \in Services, i \in Instances : Pin(k, n, i)
    \/ \E k \in Sockets : Release(k)

Spec == Init /\ [][Next]_vars

=============================================================================
