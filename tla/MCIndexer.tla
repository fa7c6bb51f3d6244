------------------------------- MODULE MCIndexer -------------------------------
(***************************************************************************)
(* A small index: a service with two or three instances and one with a     *)
(* single instance, so that sockets share an instance, hold pins to two    *)
(* services at once and see one of them go.                                *)
(***************************************************************************)
EXTENDS GatewayServiceIndexer

CONSTANTS chat, docs, chat1, chat2, docs1

MCNameOf == (chat1 :> chat) @@ (chat2 :> chat) @@ (docs1 :> docs)

\* The sockets are interchangeable, as are the two instances of chat.
Symmetry == Permutations(Sockets) \cup Permutations({chat1, chat2})

=============================================================================
