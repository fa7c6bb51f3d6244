------------------------------- MODULE MCLifecycle -------------------------------
(***************************************************************************)
(* Calls of Connect, of Close and of Ready that overlap in every way.      *)
(***************************************************************************)
EXTENDS Lifecycle

=============================================================================
