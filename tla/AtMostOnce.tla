------------------------------ MODULE AtMostOnce ------------------------------
(***************************************************************************)
(* What MessageService and MessageGateway promise of each call             *)
(* (transport.go:45-54), as far as the NATS transport keeps it: a message  *)
(* is handled at most once; success means that it has been or will be      *)
(* handled; a slow consumer's message is not; another error says nothing.  *)
(***************************************************************************)
CONSTANT Calls

VARIABLES
    fate,     \* what becomes of the message at the receiver
    answer    \* what the call returns; "none" before it does

vars == <<fate, answer>>

Init ==
    /\ fate = [c \in Calls |-> "underway"]
    /\ answer = [c \in Calls |-> "none"]

\* The receiver's part.
Become(c, before, after) ==
    /\ fate[c] = before
    /\ fate' = [fate EXCEPT ![c] = after]
    /\ UNCHANGED answer

Accept(c) == Become(c, "underway", "accepted")
Refuse(c) == Become(c, "underway", "refused")
Handle(c) == Become(c, "accepted", "handled")

\* A message is abandoned only while its call has not succeeded.
Abandon(c) == answer[c] # "ok" /\ Become(c, "accepted", "abandoned")

\* The caller's part.
Return(c, result) ==
    /\ answer[c] = "none"
    /\ answer' = [answer EXCEPT ![c] = result]
    /\ UNCHANGED fate

Succeed(c) == fate[c] \in {"accepted", "handled"} /\ Return(c, "ok")
Rejected(c) == fate[c] = "refused" /\ Return(c, "slow")
Fail(c) == Return(c, "failed")

Next ==
    \E c \in Calls :
        \/ Accept(c) \/ Refuse(c) \/ Handle(c) \/ Abandon(c)
        \/ Succeed(c) \/ Rejected(c) \/ Fail(c)

Spec == Init /\ [][Next]_vars

=============================================================================
