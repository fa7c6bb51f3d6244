------------------------------ MODULE MCDiscovery ------------------------------
(***************************************************************************)
(* Two instances of a service that announce to every gateway; a unit of    *)
(* time is half an interval.                                               *)
(***************************************************************************)
EXTENDS Discovery

MCWants == [i \in Instances |-> Gateways]

=============================================================================
