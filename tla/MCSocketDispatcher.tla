-------------------------- MODULE MCSocketDispatcher --------------------------
(***************************************************************************)
(* Two sockets, one of which may get stuck.                                *)
(***************************************************************************)
EXTENDS SocketDispatcher

=============================================================================
