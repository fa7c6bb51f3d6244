---------------------------- MODULE MessageDelivery ----------------------------
(***************************************************************************)
(* MessageService and MessageGateway over NATS (natstransport message.go,  *)
(* message-service.go, message-gateway.go): senders, a network that loses  *)
(* and delays, and one receiver, whose pump feeds the per-socket workers   *)
(* of SocketDispatcher.                                                    *)
(*                                                                         *)
(* A message that fits into one NATS message is sent with one request,     *)
(* which the pump acknowledges once the message is queued.  A larger one   *)
(* is announced by a request; when its turn comes the worker opens an      *)
(* inbox, names it in the acknowledgement, and takes the chunks from it,   *)
(* each acknowledged, up to an empty one that marks the end.               *)
(***************************************************************************)
EXTENDS Naturals, Sequences, FiniteSets

CONSTANTS
    Calls,      \* calls of MessageService or MessageGateway
    SocketOf,   \* the socket of each
    Chunks,     \* chunks of its payload; 0 if it fits into the request
    Sockets, QueueSize, MaxWork   \* as in SocketDispatcher

ASSUME SizesAssumption ==
    /\ QueueSize \in Nat \ {0}
    /\ MaxWork \in Nat

ASSUME CallsAssumption ==
    /\ SocketOf \in [Calls -> Sockets]
    /\ Chunks \in [Calls -> Nat]

VARIABLES
    active, queues, workers, executing, pump, received, accepted, started,
    rejected,   \* as in SocketDispatcher
    sender,     \* progress of sendEnvelope
    next,       \* streamChunks: the chunk that waits for its acknowledgement
    wire,       \* NATS messages under way
    unanswered, \* the acknowledgement the pump is about to publish
    callOf,     \* the call of each message the pump has dispatched
    stage,      \* what has become of the message at the receiver
    assembled   \* receiveChunks: the chunks appended so far

dispatchVars == <<active, queues, workers, executing, pump, received, accepted,
                  started, rejected>>
senderVars == <<sender, next>>
receiverVars == <<unanswered, callOf, stage, assembled>>
vars == <<dispatchVars, senderVars, wire, receiverVars>>

\* Handlers return; SocketDispatcher has those that do not.
Dispatcher == INSTANCE SocketDispatcher WITH Stuck <- {}

Streamed(c) == Chunks[c] > 0
EOF(c) == Chunks[c]   \* the index of the chunk that ends the stream

Msg(kind, c, i) == [kind |-> kind, call |-> c, index |-> i]

Replies == {"accepted", "slow", "inbox", "chunkAck"}

Messages == [kind : Replies \cup {"request", "chunk"}, call : Calls, index : Nat]

TypeOK ==
    /\ Dispatcher!TypeOK
    /\ sender \in [Calls -> {"idle", "requesting", "streaming", "ok", "slow", "failed"}]
    /\ next \in [Calls -> Nat]
    /\ wire \subseteq Messages
    /\ unanswered \subseteq Messages
    /\ callOf \in Seq(Calls)
    /\ stage \in [Calls -> {"underway", "refused", "queued", "open", "whole",
                          "handling", "done", "dropped"}]
    /\ assembled \in [Calls -> Seq(Nat)]

Init ==
    /\ Dispatcher!Init
    /\ sender = [c \in Calls |-> "idle"]
    /\ next = [c \in Calls |-> 0]
    /\ wire = {}
    /\ unanswered = {}
    /\ callOf = <<>>
    /\ stage = [c \in Calls |-> "underway"]
    /\ assembled = [c \in Calls |-> <<>>]

-----------------------------------------------------------------------------
(***************************************************************************)
(* The network.  NATS delivers at most once.  A reply nobody waits for and *)
(* a chunk for an inbox that is closed have no subscriber and vanish.      *)
(***************************************************************************)
Waiting(c) == sender[c] \in {"requesting", "streaming"}

Reply(m) == IF Waiting(m.call) THEN {m} ELSE {}

SendChunk(c, i) == IF stage[c] = "open" THEN {Msg("chunk", c, i)} ELSE {}

Lose(m) ==
    /\ m \in wire
    /\ wire' = wire \ {m}
    /\ UNCHANGED <<dispatchVars, senderVars, receiverVars>>

-----------------------------------------------------------------------------
(***************************************************************************)
(* The sender: sendEnvelope, streamChunks and sendChunk.                   *)
(***************************************************************************)
Request(c) ==
    /\ sender[c] = "idle"
    /\ sender' = [sender EXCEPT ![c] = "requesting"]
    /\ wire' = wire \cup {Msg("request", c, 0)}
    /\ UNCHANGED <<dispatchVars, next, receiverVars>>

\* parseMessageAck, for an answer that ends the call.
Result(kind) ==
    CASE kind = "accepted" -> "ok" [] kind = "slow" -> "slow"

ReceiveAck(c) ==
    \E kind \in {"accepted", "slow"} :
        /\ Msg(kind, c, 0) \in wire
        /\ sender[c] = "requesting"
        /\ sender' = [sender EXCEPT ![c] = Result(kind)]
        /\ wire' = wire \ {Msg(kind, c, 0)}
        /\ UNCHANGED <<dispatchVars, next, receiverVars>>

\* The answer names an inbox: the first chunk goes there.
StartStream(c) ==
    /\ Msg("inbox", c, 0) \in wire
    /\ sender[c] = "requesting"
    /\ sender' = [sender EXCEPT ![c] = "streaming"]
    /\ wire' = (wire \ {Msg("inbox", c, 0)}) \cup SendChunk(c, 0)
    /\ UNCHANGED <<dispatchVars, next, receiverVars>>

\* The last chunk was acknowledged: the next one, or the end of the call.
ReceiveChunkAck(c) ==
    /\ Msg("chunkAck", c, next[c]) \in wire
    /\ sender[c] = "streaming"
    /\ IF next[c] = EOF(c)
       THEN /\ sender' = [sender EXCEPT ![c] = "ok"]
            /\ wire' = wire \ {Msg("chunkAck", c, next[c])}
            /\ UNCHANGED next
       ELSE /\ next' = [next EXCEPT ![c] = @ + 1]
            /\ wire' = (wire \ {Msg("chunkAck", c, next[c])}) \cup SendChunk(c, next[c] + 1)
            /\ UNCHANGED sender
    /\ UNCHANGED <<dispatchVars, receiverVars>>

\* Mutant of GiveUp: a chunk whose acknowledgement is late is sent again.
SendAgain(c) ==
    /\ Waiting(c)
    /\ IF sender[c] = "streaming"
       THEN wire' = wire \cup SendChunk(c, next[c]) /\ UNCHANGED sender
       ELSE /\ sender' = [sender EXCEPT ![c] = "failed"]
            /\ wire' = {m \in wire : m.call # c \/ m.kind \notin Replies}
    /\ UNCHANGED <<dispatchVars, next, receiverVars>>

\* A Request of the call fails: no answer within MessageTimeout, nobody
\* subscribed, or no connection.
GiveUp(c) ==
    /\ Waiting(c)
    /\ sender' = [sender EXCEPT ![c] = "failed"]
    /\ wire' = {m \in wire : m.call # c \/ m.kind \notin Replies}
    /\ UNCHANGED <<dispatchVars, next, receiverVars>>

-----------------------------------------------------------------------------
(***************************************************************************)
(* The receiver: serveMessages, deliverServiceMessage and its twin for the *)
(* gateway, receiveChunks.  The pump handles one message at a time.        *)
(***************************************************************************)
\* The next request of the subscription is c's.
NextMsg(c) ==
    /\ pump = "receiving" /\ unanswered = {}
    /\ Msg("request", c, 0) \in wire
    /\ wire' = wire \ {Msg("request", c, 0)}

RefuseSlow(c) ==
    /\ NextMsg(c)
    /\ Dispatcher!Overflow(SocketOf[c])
    /\ callOf' = Append(callOf, c)
    /\ stage' = [stage EXCEPT ![c] = "refused"]
    /\ unanswered' = {Msg("slow", c, 0)}
    /\ UNCHANGED <<senderVars, assembled>>

Accept(c) ==
    /\ NextMsg(c)
    /\ Dispatcher!Enqueue(SocketOf[c])
    /\ callOf' = Append(callOf, c)
    /\ stage' = [stage EXCEPT ![c] = "queued"]
    /\ unanswered' = IF Streamed(c) THEN {} ELSE {Msg("accepted", c, 0)}
    /\ UNCHANGED <<senderVars, assembled>>

respondAck ==
    /\ unanswered # {}
    /\ wire' = wire \cup UNION {Reply(m) : m \in unanswered}
    /\ unanswered' = {}
    /\ UNCHANGED <<dispatchVars, senderVars, callOf, stage, assembled>>

\* The context is canceled or the subscription fails.
StopPump ==
    /\ unanswered = {}
    /\ Dispatcher!StopPump
    /\ UNCHANGED <<senderVars, wire, receiverVars>>

\* Mutant of Begin: workers stop with the context, whatever is queued.
BeginUnlessStopped(k) ==
    /\ pump = "receiving"
    /\ Dispatcher!Start(k)
    /\ LET c == callOf[Head(queues[k])] IN
       /\ stage' = [stage EXCEPT ![c] = IF Streamed(c) THEN "open" ELSE "whole"]
       /\ wire' = IF Streamed(c) THEN wire \cup Reply(Msg("inbox", c, 0)) ELSE wire
    /\ UNCHANGED <<senderVars, unanswered, callOf, assembled>>

\* A worker starts on a message: it has the payload, or opens an inbox for it.
Begin(k) ==
    /\ Dispatcher!Start(k)
    /\ LET c == callOf[Head(queues[k])] IN
       /\ stage' = [stage EXCEPT ![c] = IF Streamed(c) THEN "open" ELSE "whole"]
       /\ wire' = IF Streamed(c) THEN wire \cup Reply(Msg("inbox", c, 0)) ELSE wire
    /\ UNCHANGED <<senderVars, unanswered, callOf, assembled>>

\* The next chunk of the inbox is acknowledged and appended.
ReceiveChunk(c) ==
    \E m \in wire :
        /\ m.kind = "chunk" /\ m.call = c
        /\ stage[c] = "open"
        /\ wire' = (wire \ {m}) \cup Reply(Msg("chunkAck", c, m.index))
        /\ IF m.index = EOF(c)
           THEN stage' = [stage EXCEPT ![c] = "whole"] /\ UNCHANGED assembled
           ELSE /\ assembled' = [assembled EXCEPT ![c] = Append(@, m.index)]
                /\ UNCHANGED stage
        /\ UNCHANGED <<dispatchVars, senderVars, unanswered, callOf>>

\* Mutant of AbandonStream: a stream that stops is taken to be at its end.
EndStream(c) ==
    /\ stage[c] = "open"
    /\ stage' = [stage EXCEPT ![c] = "whole"]
    /\ wire' = {m \in wire : m.call # c \/ m.kind # "chunk"}
    /\ UNCHANGED <<dispatchVars, senderVars, unanswered, callOf, assembled>>

\* Mutant of AbandonStream: the transfer has no time limit of its own.
AbandonWhenStopped(c) ==
    /\ stage[c] = "open" /\ pump # "receiving"
    /\ stage' = [stage EXCEPT ![c] = "dropped"]
    /\ wire' = {m \in wire : m.call # c \/ m.kind # "chunk"}
    /\ UNCHANGED <<dispatchVars, senderVars, unanswered, callOf, assembled>>

\* receiveChunks fails: MessageTimeout for the whole transfer, a canceled
\* context, or no connection.  The inbox is closed and the message dropped.
AbandonStream(c) ==
    /\ stage[c] = "open"
    /\ stage' = [stage EXCEPT ![c] = "dropped"]
    /\ wire' = {m \in wire : m.call # c \/ m.kind # "chunk"}
    /\ UNCHANGED <<dispatchVars, senderVars, unanswered, callOf, assembled>>

\* Mutant of Handle: a payload that is complete after the stop is dropped.
HandleUnlessStopped(c) ==
    /\ stage[c] = "whole"
    /\ stage' = [stage EXCEPT ![c] = IF pump = "receiving" THEN "handling" ELSE "dropped"]
    /\ UNCHANGED <<dispatchVars, senderVars, wire, unanswered, callOf, assembled>>

\* The handler is called with the payload.
Handle(c) ==
    /\ stage[c] = "whole"
    /\ stage' = [stage EXCEPT ![c] = "handling"]
    /\ UNCHANGED <<dispatchVars, senderVars, wire, unanswered, callOf, assembled>>

\* Mutant of Finish: the transfer is left to a goroutine of its own.
FinishEarly(k) ==
    /\ \E w \in executing[k] :
           LET c == callOf[w] IN
           /\ stage[c] \in {"open", "handling", "dropped"}
           /\ stage' = [stage EXCEPT ![c] = IF @ = "handling" THEN "done" ELSE @]
    /\ Dispatcher!Return(k)
    /\ UNCHANGED <<senderVars, wire, unanswered, callOf, assembled>>

\* deliver returns: the handler has, or there was nothing to handle.
Finish(k) ==
    /\ \E w \in executing[k] :
           LET c == callOf[w] IN
           /\ stage[c] \in {"handling", "dropped"}
           /\ stage' = [stage EXCEPT ![c] = IF @ = "handling" THEN "done" ELSE @]
    /\ Dispatcher!Return(k)
    /\ UNCHANGED <<senderVars, wire, unanswered, callOf, assembled>>

\* A worker finds its queue empty, or serveMessages returns: as in
\* SocketDispatcher.
Idle ==
    /\ (\E k \in Sockets : Dispatcher!Leave(k)) \/ Dispatcher!WaitReturns \/ Dispatcher!Stopped
    /\ UNCHANGED <<senderVars, wire, receiverVars>>

-----------------------------------------------------------------------------
SenderStep(c) == ReceiveAck(c) \/ StartStream(c) \/ ReceiveChunkAck(c) \/ GiveUp(c)

PumpStep == respondAck \/ \E c \in Calls : RefuseSlow(c) \/ Accept(c)

TransferStep(c) == ReceiveChunk(c) \/ AbandonStream(c) \/ Handle(c)

Next ==
    \/ \E m \in wire : Lose(m)
    \/ \E c \in Calls : Request(c) \/ SenderStep(c) \/ TransferStep(c)
    \/ \E k \in Sockets : Begin(k) \/ Finish(k)
    \/ PumpStep
    \/ StopPump
    \/ Idle

Spec == Init /\ [][Next]_vars

\* Goroutines run, timers fire, and handlers return.  Nothing is assumed of the network.
Fairness ==
    /\ \A c \in Calls : WF_vars(SenderStep(c)) /\ WF_vars(TransferStep(c))
    /\ \A k \in Sockets : WF_vars(Begin(k)) /\ WF_vars(Finish(k))
    /\ WF_vars(PumpStep)
    /\ WF_vars(Idle)

FairSpec == Spec /\ Fairness

-----------------------------------------------------------------------------
Complete == {"whole", "handling", "done"}

\* The handler gets the payload as it was sent, no chunk missing, repeated or
\* out of place, although receiveChunks compares no index (message.go:178):
\* the next chunk is only sent once the one before is acknowledged.
DeliveredWhole ==
    \A c \in Calls :
        stage[c] \in Complete => assembled[c] = [i \in 1..Chunks[c] |-> i - 1]

\* Success is reported only of a message that will be handled: it waits in its
\* socket's queue with its payload, or its last chunk has arrived
\* (message.go:244-246, 180).
OkMeansTaken ==
    \A c \in Calls :
        sender[c] = "ok" =>
            stage[c] \in IF Streamed(c) THEN Complete ELSE Complete \cup {"queued"}

\* ErrSlowConsumer is reported only of a message that nobody will handle, and
\* after the closure of its socket was broadcast (message.go:216, 241): the
\* gateway that closes the client on it (gateway.go:307-310) loses nothing else.
SlowMeansRefused ==
    \A c \in Calls :
        sender[c] = "slow" => stage[c] = "refused" /\ SocketOf[c] \in rejected

\* transport.go:32-33: calls of the handler "for the same socket are serialized
\* in arrival order", however long a transfer takes and whether it succeeds.
HandledInOrder ==
    \A n \in 1..Len(callOf) : \A m \in 1..(n - 1) :
        SocketOf[callOf[m]] = SocketOf[callOf[n]] /\ stage[callOf[n]] \in Complete
            => stage[callOf[m]] \in {"refused", "done", "dropped"}

\* A socket has one message at work, a transfer included: at most one inbox is open
\* for it, and none while its handler runs (dispatch.go:48-63, message.go:140-185).
OneAtWorkPerSocket ==
    \A c, d \in Calls :
        LET work == {"open", "whole", "handling"}
        IN  SocketOf[c] = SocketOf[d] /\ stage[c] \in work /\ stage[d] \in work => c = d

\* When Serve returns, nothing it accepted is left: no handler runs or will run, so
\* that a service may close its connections and a gateway its sockets
\* (message.go:220, service.go:134-135, gateway.go:84-91).
StoppedLeavesNothing ==
    pump = "stopped" =>
        \A c \in Calls : stage[c] \in {"underway", "refused", "done", "dropped"}

\* A sender that gives up before the last chunk can re-route the message: the
\* receiver will not handle the part it has.
AbortedIsNotHandled ==
    \A c \in Calls :
        Streamed(c) /\ sender[c] = "failed" /\ next[c] < EOF(c) => stage[c] \notin Complete

\* transport.go:45 and 53: "An error indicates the message was not delivered".
\* Not so when the acknowledgement is lost or late, of a request or of the last
\* chunk: the message is or will be handled, and Gateway.Handle re-routes it.
ErrorMeansUndelivered ==
    \A c \in Calls : sender[c] = "failed" => stage[c] \notin Complete

Fate ==
    [c \in Calls |->
        CASE stage[c] = "underway" -> "underway"
          [] stage[c] = "refused" -> "refused"
          [] stage[c] \in {"queued", "open", "whole"} -> "accepted"
          [] stage[c] \in {"handling", "done"} -> "handled"
          [] stage[c] = "dropped" -> "abandoned"]

Answer ==
    [c \in Calls |->
        IF sender[c] \in {"idle", "requesting", "streaming"} THEN "none" ELSE sender[c]]

Promise == INSTANCE AtMostOnce WITH fate <- Fate, answer <- Answer

\* The protocol as a whole: what its callers may rely on (AtMostOnce), through
\* losses, delays, timeouts and a receiver that stops.
KeepsPromise == Promise!Spec

\* What a call reports as delivered is handled in the end, even if the receiver
\* is stopped meanwhile (message.go:220).
OkIsHandled == \A c \in Calls : sender[c] = "ok" ~> stage[c] = "done"

\* A sender that has gone away holds up the messages behind its own only until
\* MessageTimeout (message.go:156): each gets its turn.
EachGetsItsTurn == \A c \in Calls : stage[c] = "queued" ~> stage[c] \in {"done", "dropped"}

=============================================================================
