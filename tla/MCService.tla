------------------------------- MODULE MCService -------------------------------
(***************************************************************************)
(* A small service whose sockets belong to one gateway and are asked about *)
(* one at a time.                                                          *)
(***************************************************************************)
EXTENDS Service

MCGatewayOf == [k \in Sockets |-> "gateway"]

=============================================================================
