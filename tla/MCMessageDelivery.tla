---------------------------- MODULE MCMessageDelivery ----------------------------
(***************************************************************************)
(* Calls for one socket, whose queue takes one message: the third to come  *)
(* may be refused.                                                         *)
(***************************************************************************)
EXTENDS MessageDelivery

CONSTANTS k1, large   \* the socket; the call that is streamed

MCSocketOf == [c \in Calls |-> k1]
MCChunks == [c \in Calls |-> IF c = large THEN 2 ELSE 0]

=============================================================================
