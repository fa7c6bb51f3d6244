------------------------- MODULE MessageDeliveryProofs -------------------------
(***************************************************************************)
(* Proofs about MessageDelivery, for any calls, sockets, sizes of queues   *)
(* and numbers of chunks.                                                  *)
(***************************************************************************)
EXTENDS MessageDelivery, SequenceTheorems, TLAPS

\* What is proved of the dispatcher is used here of the receiver's.
D == INSTANCE SocketDispatcherProofs WITH Stuck <- {}

\* The worker of a message's socket has taken it from the queue.
Taken == {"open", "whole", "handling", "done", "dropped"}

\* Of these, it is still busy with it.
Busy == {"open", "whole", "handling"}

Finished == {"refused", "done", "dropped"}

\* callOf numbers the messages the pump received, one per call.
CallInv ==
    /\ Len(callOf) = received
    /\ \A m, n \in 1..received : callOf[m] = callOf[n] => m = n
    /\ \A n \in 1..received : stage[callOf[n]] # "underway"

\* The queue and the work of a socket are messages of that socket, the queue in
\* the order they came in.
QueueInv(k) ==
    /\ \A i \in 1..Len(queues[k]) :
           /\ queues[k][i] \in 1..received
           /\ SocketOf[callOf[queues[k][i]]] = k
           /\ stage[callOf[queues[k][i]]] = "queued"
    /\ \A i, j \in 1..Len(queues[k]) : i < j => queues[k][i] < queues[k][j]
    /\ \A n \in executing[k] :
           /\ n \in 1..received
           /\ SocketOf[callOf[n]] = k
           /\ stage[callOf[n]] \in Busy \cup {"dropped"}

\* A message that waits is in the queue of its socket, and one that a worker is
\* busy with is that worker's.
PlaceInv(n) ==
    LET k == SocketOf[callOf[n]] IN
    /\ stage[callOf[n]] = "queued" => \E i \in 1..Len(queues[k]) : queues[k][i] = n
    /\ stage[callOf[n]] \in Busy => n \in executing[k]

\* What a worker has taken came after nothing that is not finished.
OrderInv ==
    \A n \in 1..received : \A m \in 1..(n - 1) :
        SocketOf[callOf[m]] = SocketOf[callOf[n]] /\ stage[callOf[n]] \in Taken
            => stage[callOf[m]] \in Finished

\* The chunks that have arrived are the first ones, up to the one the sender
\* waits for.
TransferInv(c) ==
    /\ next[c] <= EOF(c)
    /\ Len(assembled[c]) <= EOF(c)
    /\ \A i \in 1..Len(assembled[c]) : assembled[c][i] = i - 1
    /\ stage[c] \in Complete => Len(assembled[c]) = EOF(c) /\ next[c] = EOF(c)
    /\ stage[c] \in {"open", "dropped"} => Streamed(c)
    /\ sender[c] = "idle" => stage[c] = "underway"
    /\ sender[c] \in {"idle", "requesting"} => next[c] = 0 /\ assembled[c] = <<>>

\* What is under way between the two ends agrees with both.
WireInv(c) ==
    /\ Msg("request", c, 0) \in wire => stage[c] = "underway" /\ sender[c] # "idle"
    /\ Msg("accepted", c, 0) \in wire \cup unanswered =>
           ~Streamed(c) /\ stage[c] \in Complete \cup {"queued"}
    /\ Msg("slow", c, 0) \in wire \cup unanswered =>
           stage[c] = "refused" /\ SocketOf[c] \in rejected
    /\ \A i \in Nat : Msg("chunk", c, i) \in wire =>
           /\ stage[c] = "open"
           /\ sender[c] \in {"streaming", "failed"}
           /\ i = next[c] /\ i = Len(assembled[c])
    /\ \A i \in Nat : Msg("chunkAck", c, i) \in wire =>
           /\ sender[c] = "streaming"
           /\ i = next[c]
           /\ \A j \in Nat : Msg("chunk", c, j) \notin wire
           /\ stage[c] \in Complete \cup {"open", "dropped"}
           /\ i = EOF(c) => stage[c] \in Complete
           /\ stage[c] = "open" => Len(assembled[c]) = i + 1

\* The answer of a call agrees with the stage of its message.
AnswerInv(c) ==
    /\ sender[c] = "ok" =>
           stage[c] \in IF Streamed(c) THEN Complete ELSE Complete \cup {"queued"}
    /\ sender[c] = "slow" => stage[c] = "refused" /\ SocketOf[c] \in rejected

ReceiverInv ==
    /\ CallInv
    /\ \A k \in Sockets : QueueInv(k)
    /\ \A n \in 1..received : PlaceInv(n)
    /\ OrderInv

\* All that is kept of a call.
Consistent(c) == TransferInv(c) /\ WireInv(c) /\ AnswerInv(c)

UnansweredInv == \A m \in unanswered : m.kind \in {"accepted", "slow"} /\ m.index = 0

DeliveryInv ==
    /\ TypeOK
    /\ D!DispatcherInv
    /\ ReceiverInv
    /\ UnansweredInv
    /\ \A c \in Calls : Consistent(c)

-----------------------------------------------------------------------------
\* The dispatcher of the receiver takes steps of SocketDispatcher only, whose
\* proofs therefore hold of it.
LEMMA DispatcherStep ==
    ASSUME D!DispatcherInv,
           \/ \E k \in Sockets : \/ Dispatcher!Overflow(k) \/ Dispatcher!Enqueue(k)
                               \/ Dispatcher!Leave(k) \/ Dispatcher!Start(k)
                               \/ Dispatcher!Return(k)
           \/ Dispatcher!StopPump \/ Dispatcher!WaitReturns \/ UNCHANGED dispatchVars
    PROVE  D!DispatcherInv' /\ Dispatcher!TypeOK'
<1> USE SizesAssumption
<1>1. ASSUME NEW k \in Sockets, Dispatcher!Overflow(k) PROVE D!DispatcherInv'
  <2>1. D!Overflow(k)
    BY <1>1 DEF D!Overflow, Dispatcher!Overflow
  <2> QED BY <2>1, D!OverflowKeeps
<1>2. ASSUME NEW k \in Sockets, Dispatcher!Enqueue(k) PROVE D!DispatcherInv'
  <2>1. D!Enqueue(k)
    BY <1>2 DEF D!Enqueue, Dispatcher!Enqueue
  <2> QED BY <2>1, D!EnqueueKeeps
<1>3. ASSUME NEW k \in Sockets, Dispatcher!Leave(k) PROVE D!DispatcherInv'
  <2>1. D!Leave(k)
    BY <1>3 DEF D!Leave, Dispatcher!Leave
  <2> QED BY <2>1, D!LeaveKeeps
<1>4. ASSUME NEW k \in Sockets, Dispatcher!Start(k) PROVE D!DispatcherInv'
  <2>1. D!Start(k)
    BY <1>4 DEF D!Start, Dispatcher!Start
  <2> QED BY <2>1, D!StartKeeps
<1>5. ASSUME NEW k \in Sockets, Dispatcher!Return(k) PROVE D!DispatcherInv'
  <2>1. D!Return(k)
    BY <1>5 DEF D!Return, Dispatcher!Return
  <2> QED BY <2>1, D!ReturnKeeps
<1>6. ASSUME Dispatcher!StopPump \/ Dispatcher!WaitReturns \/ UNCHANGED dispatchVars
      PROVE  D!DispatcherInv'
  <2>1. D!StopPump \/ D!WaitReturns \/ UNCHANGED D!vars
    BY <1>6 DEF D!StopPump, Dispatcher!StopPump, D!WaitReturns, Dispatcher!WaitReturns,
                D!vars, dispatchVars
  <2> QED BY <2>1, D!PumpKeeps
<1>7. D!DispatcherInv' => Dispatcher!TypeOK'
  BY DEF D!DispatcherInv, D!TypeOK, Dispatcher!TypeOK
<1> QED BY <1>1, <1>2, <1>3, <1>4, <1>5, <1>6, <1>7

\* What the receiver needs to know of its dispatcher.
LEMMA DispatcherFacts ==
    ASSUME D!DispatcherInv
    PROVE  /\ Dispatcher!TypeOK
           /\ \A k \in Sockets :
                  /\ workers[k] > 0 => executing[k] = {}
                  /\ \A n \in executing[k] : executing[k] = {n}
<1>1. D!TypeOK
  BY DEF D!DispatcherInv
<1>2. Dispatcher!TypeOK
  BY <1>1 DEF D!TypeOK, Dispatcher!TypeOK
<1>3. ASSUME NEW k \in Sockets
      PROVE  (workers[k] > 0 => executing[k] = {}) /\ \A n \in executing[k] : executing[k] = {n}
  <2>1. D!OneWorker(k) \/ D!NoWorker(k)
    BY DEF D!DispatcherInv, D!SocketInv
  <2> QED BY <2>1 DEF D!OneWorker, D!NoWorker
<1> QED BY <1>2, <1>3

-----------------------------------------------------------------------------
\* A call the pump has numbered is one of Calls, on one of Sockets.
LEMMA Numbered ==
    ASSUME TypeOK, CallInv, NEW n \in 1..received
    PROVE  callOf[n] \in Calls /\ SocketOf[callOf[n]] \in Sockets
<1>1. callOf[n] \in Calls
  BY DEF TypeOK, CallInv
<1> QED BY <1>1, CallsAssumption

\* What the pump has done is not changed by what only the ends see.
LEMMA ReceiverStays ==
    ASSUME ReceiverInv, UNCHANGED <<queues, executing, received, callOf, stage>>
    PROVE  ReceiverInv'
BY DEF ReceiverInv, CallInv, QueueInv, PlaceInv, OrderInv

\* A worker goes on with its message, or drops it.
LEMMA StageMoves ==
    ASSUME TypeOK, ReceiverInv, NEW c \in Calls, stage[c] \in Busy,
           NEW s \in Busy \cup {"dropped"}, stage' = [stage EXCEPT ![c] = s],
           UNCHANGED <<queues, executing, received, callOf>>
    PROVE  ReceiverInv'
<1>1. stage'[c] = s /\ \A d \in Calls : d # c => stage'[d] = stage[d]
  BY DEF TypeOK
<1>2. CallInv /\ \A n \in 1..received : callOf[n] \in Calls
  BY Numbered DEF ReceiverInv
<1>3. CallInv'
  BY <1>1, <1>2 DEF CallInv, Busy
<1>4. ASSUME NEW k \in Sockets PROVE QueueInv(k)'
  <2>1. QueueInv(k)
    BY DEF ReceiverInv
  <2>2. ASSUME NEW i \in 1..Len(queues[k]) PROVE stage'[callOf[queues[k][i]]] = "queued"
    BY <1>1, <1>2, <2>1 DEF QueueInv, Busy
  <2>3. ASSUME NEW n \in executing[k] PROVE stage'[callOf[n]] \in Busy \cup {"dropped"}
    BY <1>1, <1>2, <2>1 DEF QueueInv
  <2> QED BY <2>1, <2>2, <2>3 DEF QueueInv
<1>5. ASSUME NEW n \in 1..received PROVE PlaceInv(n)'
  <2>1. PlaceInv(n)
    BY DEF ReceiverInv
  <2>2. stage'[callOf[n]] = "queued" => stage[callOf[n]] = "queued"
    BY <1>1, <1>2 DEF Busy
  <2>3. stage'[callOf[n]] \in Busy => stage[callOf[n]] \in Busy
    BY <1>1, <1>2
  <2> QED BY <2>1, <2>2, <2>3 DEF PlaceInv
<1>6. OrderInv'
  <2> SUFFICES ASSUME NEW n \in 1..received, NEW m \in 1..(n - 1),
                      SocketOf[callOf[m]] = SocketOf[callOf[n]], stage'[callOf[n]] \in Taken
               PROVE  stage'[callOf[m]] \in Finished
    BY DEF OrderInv
  <2>1. received \in Nat
    BY DEF TypeOK, Dispatcher!TypeOK
  <2>2. m \in 1..received
    BY <2>1
  <2>3. stage[callOf[n]] \in Taken
    BY <1>1, <1>2 DEF Busy, Taken
  <2>4. stage[callOf[m]] \in Finished
    BY <2>3 DEF ReceiverInv, OrderInv
  <2>5. callOf[m] # c
    BY <2>4 DEF Finished, Busy
  <2> QED BY <1>1, <1>2, <2>2, <2>4, <2>5
<1> QED BY <1>3, <1>4, <1>5, <1>6 DEF ReceiverInv

\* The pump numbers a message and has it refused or queued.
LEMMA ReceivedKeeps ==
    ASSUME TypeOK, ReceiverInv, NEW c \in Calls, stage[c] = "underway",
           NEW s \in {"refused", "queued"}, stage' = [stage EXCEPT ![c] = s],
           callOf' = Append(callOf, c), received' = received + 1, UNCHANGED executing,
           queues' = IF s = "queued"
                     THEN [queues EXCEPT ![SocketOf[c]] = Append(@, received + 1)] ELSE queues
    PROVE  ReceiverInv'
<1> DEFINE N == received + 1
<1>1. stage'[c] = s /\ \A d \in Calls : d # c => stage'[d] = stage[d]
  BY DEF TypeOK
<1>2. CallInv /\ \A n \in 1..received : callOf[n] \in Calls
  BY Numbered DEF ReceiverInv
<1>3. received \in Nat /\ \A k \in Sockets : queues[k] \in Seq(Nat)
  BY DEF TypeOK, Dispatcher!TypeOK
<1>4. Len(callOf') = N /\ callOf'[N] = c /\ \A n \in 1..received : callOf'[n] = callOf[n]
  BY <1>2, <1>3, AppendProperties DEF TypeOK, CallInv
<1>5. \A n \in 1..received : callOf[n] # c
  BY <1>2 DEF CallInv
<1>6. \A n \in 1..N : n = N \/ n \in 1..received
  BY <1>3
<1>7. \A n \in 1..received : stage'[callOf'[n]] = stage[callOf[n]]
  BY <1>1, <1>2, <1>4, <1>5
<1>8. \A k \in Sockets :
          \/ queues'[k] = queues[k]
          \/ k = SocketOf[c] /\ s = "queued" /\ queues'[k] = Append(queues[k], N)
  BY DEF TypeOK, Dispatcher!TypeOK
<1>9. CallInv'
  <2>1. ASSUME NEW m \in 1..N, NEW n \in 1..N, callOf'[m] = callOf'[n] PROVE m = n
    BY <1>2, <1>4, <1>5, <1>6, <2>1 DEF CallInv
  <2>2. ASSUME NEW n \in 1..N PROVE stage'[callOf'[n]] # "underway"
    BY <1>1, <1>2, <1>4, <1>6, <1>7 DEF CallInv
  <2> QED BY <1>4, <2>1, <2>2 DEF CallInv
<1>10. ASSUME NEW k \in Sockets PROVE QueueInv(k)'
  <2>1. QueueInv(k)
    BY DEF ReceiverInv
  <2>2. ASSUME NEW n \in 1..received PROVE n \in 1..N /\ SocketOf[callOf'[n]] = SocketOf[callOf[n]]
    BY <1>3, <1>4
  <2>3. ASSUME NEW n \in executing[k]
        PROVE  /\ n \in 1..N
               /\ SocketOf[callOf'[n]] = k
               /\ stage'[callOf'[n]] \in Busy \cup {"dropped"}
    BY <1>7, <2>1, <2>2 DEF QueueInv
  <2>4. CASE queues'[k] = queues[k]
    <3>1. ASSUME NEW i \in 1..Len(queues[k])
          PROVE  /\ queues[k][i] \in 1..N
                 /\ SocketOf[callOf'[queues[k][i]]] = k
                 /\ stage'[callOf'[queues[k][i]]] = "queued"
      BY <1>7, <2>1, <2>2 DEF QueueInv
    <3> QED BY <2>1, <2>3, <2>4, <3>1 DEF QueueInv
  <2>5. CASE k = SocketOf[c] /\ s = "queued" /\ queues'[k] = Append(queues[k], N)
    <3> DEFINE q == queues[k]
               r == Append(q, N)
    <3>1. /\ Len(r) = Len(q) + 1 /\ r[Len(q) + 1] = N
          /\ \A i \in 1..Len(q) : r[i] = q[i]
          /\ Len(q) \in Nat
      BY <1>3, AppendProperties, LenProperties
    <3>4. queues'[k] = r
      BY <2>5
    <3> HIDE DEF r
    <3>2. ASSUME NEW i \in 1..Len(r)
          PROVE  r[i] \in 1..N /\ SocketOf[callOf'[r[i]]] = k /\ stage'[callOf'[r[i]]] = "queued"
      <4>1. CASE i \in 1..Len(q)
        <5>1. q[i] \in 1..received /\ SocketOf[callOf[q[i]]] = k /\ stage[callOf[q[i]]] = "queued"
          BY <2>1, <4>1 DEF QueueInv
        <5> QED BY <1>7, <2>2, <3>1, <4>1, <5>1
      <4>2. CASE i = Len(q) + 1
        <5>1. r[i] = N /\ N \in 1..N
          BY <1>3, <3>1, <4>2
        <5> QED BY <1>1, <1>4, <2>5, <5>1
      <4>3. i \in 1..Len(q) \/ i = Len(q) + 1
        BY <3>1
      <4> QED BY <4>1, <4>2, <4>3
    <3>3. ASSUME NEW i \in 1..Len(r), NEW j \in 1..Len(r), i < j PROVE r[i] < r[j]
      <4>1. i \in 1..Len(q) /\ r[i] = q[i] /\ q[i] \in 1..received
        BY <2>1, <3>1, <3>3 DEF QueueInv
      <4>2. CASE j \in 1..Len(q)
        BY <2>1, <3>1, <3>3, <4>1, <4>2 DEF QueueInv
      <4>3. CASE j = Len(q) + 1
        BY <1>3, <3>1, <4>1, <4>3
      <4> QED BY <3>1, <4>2, <4>3
    <3> QED BY <2>3, <3>2, <3>3, <3>4 DEF QueueInv
  <2> QED BY <1>8, <2>4, <2>5
<1>11. ASSUME NEW n \in 1..N PROVE PlaceInv(n)'
  <2>1. CASE n \in 1..received
    <3> DEFINE k == SocketOf[callOf[n]]
    <3>1. k \in Sockets /\ PlaceInv(n) /\ SocketOf[callOf'[n]] = k
      BY <1>2, <1>4, <2>1, CallsAssumption DEF ReceiverInv
    <3>2. ASSUME stage[callOf[n]] = "queued"
          PROVE  \E i \in 1..Len(queues'[k]) : queues'[k][i] = n
      <4>1. PICK i \in 1..Len(queues[k]) : queues[k][i] = n
        BY <3>1, <3>2 DEF PlaceInv
      <4>2. Len(Append(queues[k], N)) = Len(queues[k]) + 1 /\ Append(queues[k], N)[i] = n
        BY <1>3, <3>1, <4>1, AppendProperties
      <4>3. i \in 1..Len(Append(queues[k], N))
        BY <1>3, <3>1, <4>2, LenProperties
      <4> QED BY <1>8, <3>1, <4>1, <4>2, <4>3
    <3> HIDE DEF k
    <3>3. SocketOf[callOf[n]] = k
      BY DEF k
    <3> QED BY <1>7, <2>1, <3>1, <3>2, <3>3 DEF PlaceInv
  <2>2. CASE n = N
    <3>1. SocketOf[callOf'[n]] = SocketOf[c] /\ SocketOf[c] \in Sockets /\ stage'[callOf'[n]] = s
      BY <1>1, <1>4, <2>2, CallsAssumption
    <3>2. ASSUME s = "queued"
          PROVE  \E i \in 1..Len(queues'[SocketOf[c]]) : queues'[SocketOf[c]][i] = N
      <4>1. queues'[SocketOf[c]] = Append(queues[SocketOf[c]], N)
        BY <3>1, <3>2 DEF TypeOK, Dispatcher!TypeOK
      <4>2. /\ Len(queues'[SocketOf[c]]) = Len(queues[SocketOf[c]]) + 1
            /\ queues'[SocketOf[c]][Len(queues[SocketOf[c]]) + 1] = N
            /\ Len(queues[SocketOf[c]]) \in Nat
        BY <1>3, <3>1, <4>1, AppendProperties, LenProperties
      <4> QED BY <4>2
    <3> QED BY <2>2, <3>1, <3>2 DEF PlaceInv, Busy
  <2> QED BY <1>6, <2>1, <2>2
<1>12. OrderInv'
  <2> SUFFICES ASSUME NEW n \in 1..N, NEW m \in 1..(n - 1),
                      SocketOf[callOf'[m]] = SocketOf[callOf'[n]], stage'[callOf'[n]] \in Taken
               PROVE  stage'[callOf'[m]] \in Finished
    BY DEF OrderInv
  <2>1. n # N
    BY <1>1, <1>4 DEF Taken
  <2>2. n \in 1..received /\ m \in 1..received
    BY <1>3, <2>1
  <2>3. SocketOf[callOf[m]] = SocketOf[callOf[n]] /\ stage[callOf[n]] \in Taken
    BY <1>4, <1>7, <2>2
  <2>4. stage[callOf[m]] \in Finished
    BY <2>2, <2>3 DEF ReceiverInv, OrderInv
  <2> QED BY <1>7, <2>2, <2>4
<1> QED BY <1>9, <1>10, <1>11, <1>12 DEF ReceiverInv

\* A worker starts on the head of its queue: nothing of its socket that came
\* before is still waiting or at work.
LEMMA BeginKeeps ==
    ASSUME TypeOK, D!DispatcherInv, ReceiverInv, NEW k \in Sockets, Dispatcher!Start(k),
           NEW s \in {"open", "whole"},
           stage' = [stage EXCEPT ![callOf[Head(queues[k])]] = s], UNCHANGED callOf
    PROVE  /\ ReceiverInv'
           /\ callOf[Head(queues[k])] \in Calls
           /\ stage[callOf[Head(queues[k])]] = "queued"
<1> DEFINE q == queues[k]
           h == Head(queues[k])
           c == callOf[Head(queues[k])]
<1>1. /\ q \in Seq(Nat) /\ q # <<>> /\ received \in Nat
      /\ queues' = [queues EXCEPT ![k] = Tail(@)]
      /\ executing' = [executing EXCEPT ![k] = @ \cup {h}]
      /\ received' = received
      /\ queues \in [Sockets -> Seq(Nat)] /\ executing \in [Sockets -> SUBSET Nat]
      /\ workers[k] > 0
  BY DEF TypeOK, Dispatcher!TypeOK, Dispatcher!Start
<1>2. executing[k] = {}
  BY <1>1, DispatcherFacts
<1>3. CallInv /\ QueueInv(k) /\ \A n \in 1..received : callOf[n] \in Calls
  BY Numbered DEF ReceiverInv
<1>4. /\ Len(q) \in Nat \ {0} /\ h = q[1]
      /\ Len(Tail(q)) = Len(q) - 1 /\ \A i \in 1..Len(Tail(q)) : Tail(q)[i] = q[i + 1]
  BY <1>1, HeadTailProperties, LenProperties, EmptySeq
<1>5. h \in 1..received /\ SocketOf[c] = k /\ stage[c] = "queued" /\ c \in Calls
  BY <1>3, <1>4 DEF QueueInv
<1>6. stage'[c] = s /\ \A d \in Calls : d # c => stage'[d] = stage[d]
  BY <1>5 DEF TypeOK
<1>7. \A n \in 1..received : n # h => callOf[n] # c /\ stage'[callOf[n]] = stage[callOf[n]]
  BY <1>3, <1>5, <1>6 DEF CallInv
<1>8. queues'[k] = Tail(q) /\ executing'[k] = {h}
  BY <1>1, <1>2
<1>9. \A j \in Sockets : j # k => queues'[j] = queues[j] /\ executing'[j] = executing[j]
  BY <1>1
<1>10. \A i \in 1..Len(Tail(q)) :
          i + 1 \in 1..Len(q) /\ Tail(q)[i] = q[i + 1] /\ q[i + 1] # h
  <2> TAKE i \in 1..Len(Tail(q))
  <2>1. i + 1 \in 1..Len(q) /\ 1 \in 1..Len(q) /\ 1 < i + 1 /\ Tail(q)[i] = q[i + 1]
    BY <1>4
  <2>2. q[1] < q[i + 1] /\ q[1] \in Nat /\ q[i + 1] \in Nat
    BY <1>1, <1>3, <2>1 DEF QueueInv
  <2> QED BY <1>4, <2>1, <2>2
<1> HIDE DEF h, c, q
<1>11. CallInv'
  BY <1>1, <1>3, <1>6, <1>7 DEF CallInv
<1>12. ASSUME NEW j \in Sockets PROVE QueueInv(j)'
  <2>1. CASE j = k
    <3>1. ASSUME NEW i \in 1..Len(Tail(q))
          PROVE  /\ Tail(q)[i] \in 1..received
                 /\ SocketOf[callOf[Tail(q)[i]]] = k
                 /\ stage'[callOf[Tail(q)[i]]] = "queued"
      <4>1. /\ q[i + 1] \in 1..received
            /\ SocketOf[callOf[q[i + 1]]] = k
            /\ stage[callOf[q[i + 1]]] = "queued"
        BY <1>3, <1>10 DEF QueueInv, q
      <4> QED BY <1>7, <1>10, <4>1
    <3>2. ASSUME NEW i \in 1..Len(Tail(q)), NEW m \in 1..Len(Tail(q)), i < m
          PROVE  Tail(q)[i] < Tail(q)[m]
      <4>1. i + 1 < m + 1 /\ i + 1 \in 1..Len(q) /\ m + 1 \in 1..Len(q)
        BY <1>4, <1>10, <3>2
      <4>2. q[i + 1] < q[m + 1]
        BY <1>3, <4>1 DEF QueueInv, q
      <4> QED BY <1>10, <4>2
    <3>3. ASSUME NEW n \in executing'[k]
          PROVE  /\ n \in 1..received
                 /\ SocketOf[callOf[n]] = k
                 /\ stage'[callOf[n]] \in Busy \cup {"dropped"}
      BY <1>5, <1>6, <1>8 DEF Busy, c, h
    <3> QED BY <1>1, <1>8, <2>1, <3>1, <3>2, <3>3 DEF QueueInv
  <2>2. CASE j # k
    <3>1. QueueInv(j)
      BY DEF ReceiverInv
    <3>2. ASSUME NEW n \in 1..received, SocketOf[callOf[n]] = j
          PROVE  stage'[callOf[n]] = stage[callOf[n]]
      BY <1>5, <1>7, <2>2, <3>2 DEF c, h
    <3>3. queues'[j] = queues[j] /\ executing'[j] = executing[j]
      BY <1>9, <2>2
    <3>4. ASSUME NEW i \in 1..Len(queues[j]) PROVE stage'[callOf[queues[j][i]]] = "queued"
      BY <3>1, <3>2 DEF QueueInv
    <3>5. ASSUME NEW n \in executing[j] PROVE stage'[callOf[n]] \in Busy \cup {"dropped"}
      BY <3>1, <3>2 DEF QueueInv
    <3>6. received' = received /\ callOf' = callOf
      BY <1>1
    <3> QED BY <3>1, <3>3, <3>4, <3>5, <3>6 DEF QueueInv
  <2> QED BY <2>1, <2>2
<1>13. ASSUME NEW n \in 1..received PROVE PlaceInv(n)'
  <2>1. CASE n = h
    <3>1. callOf[n] = c
      BY <2>1 DEF c, h
    <3> QED BY <1>5, <1>6, <1>8, <2>1, <3>1 DEF PlaceInv
  <2>2. CASE n # h
    <3>1. PlaceInv(n) /\ stage'[callOf[n]] = stage[callOf[n]]
      BY <1>7, <2>2 DEF ReceiverInv
    <3>2. SocketOf[callOf[n]] \in Sockets
      BY <1>3, CallsAssumption
    <3>3. CASE SocketOf[callOf[n]] = k
      <4>1. ASSUME stage[callOf[n]] = "queued"
            PROVE  \E i \in 1..Len(queues'[k]) : queues'[k][i] = n
        <5>1. PICK i \in 1..Len(q) : q[i] = n
          BY <3>1, <3>3, <4>1 DEF PlaceInv, q
        <5>2. i # 1
          BY <1>4, <2>2, <5>1
        <5>3. i - 1 \in 1..Len(Tail(q)) /\ (i - 1) + 1 = i
          BY <1>4, <5>2
        <5>4. Tail(q)[i - 1] = n
          BY <1>10, <5>1, <5>3
        <5> QED BY <1>8, <5>3, <5>4
      <4>2. stage[callOf[n]] \notin Busy
        BY <1>2, <3>1, <3>3 DEF PlaceInv
      <4> QED BY <3>1, <3>3, <4>1, <4>2 DEF PlaceInv
    <3>4. CASE SocketOf[callOf[n]] # k
      BY <1>9, <3>1, <3>2, <3>4 DEF PlaceInv
    <3> QED BY <3>3, <3>4
  <2> QED BY <2>1, <2>2
<1>14. OrderInv'
  <2> SUFFICES ASSUME NEW n \in 1..received, NEW m \in 1..(n - 1),
                      SocketOf[callOf[m]] = SocketOf[callOf[n]], stage'[callOf[n]] \in Taken
               PROVE  stage'[callOf[m]] \in Finished
    BY <1>1 DEF OrderInv
  <2>1. m \in 1..received /\ m < n /\ m \in Nat /\ n \in Nat
    BY <1>1
  <2>2. CASE n = h
    <3>1. SocketOf[callOf[m]] = k /\ m # h
      BY <1>5, <2>1, <2>2 DEF c, h
    <3>2. PlaceInv(m) /\ stage[callOf[m]] # "underway" /\ callOf[m] \in Calls
      BY <1>3, <2>1 DEF ReceiverInv, CallInv
    <3>3. stage[callOf[m]] \notin Busy
      BY <1>2, <3>1, <3>2 DEF PlaceInv
    <3>4. stage[callOf[m]] # "queued"
      <4>1. SUFFICES ASSUME stage[callOf[m]] = "queued" PROVE FALSE
        OBVIOUS
      <4>2. PICK i \in 1..Len(q) : q[i] = m
        BY <3>1, <3>2, <4>1 DEF PlaceInv, q
      <4>3. i # 1 /\ 1 \in 1..Len(q)
        BY <1>4, <3>1, <4>2
      <4>4. q[1] < q[i]
        BY <1>3, <1>4, <4>3 DEF QueueInv, q
      <4> QED BY <1>4, <2>1, <2>2, <4>2, <4>4
    <3>5. stage[callOf[m]] \in Finished
      BY <3>2, <3>3, <3>4 DEF TypeOK, Finished, Busy
    <3> QED BY <1>7, <2>1, <3>1, <3>5
  <2>3. CASE n # h
    <3>1. stage[callOf[n]] \in Taken
      BY <1>7, <2>3
    <3>2. stage[callOf[m]] \in Finished
      BY <3>1 DEF ReceiverInv, OrderInv
    <3>3. m # h
      BY <1>5, <3>2 DEF Finished, c, h
    <3> QED BY <1>7, <2>1, <3>2, <3>3
  <2> QED BY <2>2, <2>3
<1> QED BY <1>1, <1>5, <1>11, <1>12, <1>13, <1>14 DEF ReceiverInv, c, h

\* A worker is done with its message.
LEMMA FinishKeeps ==
    ASSUME TypeOK, D!DispatcherInv, ReceiverInv, NEW k \in Sockets, Dispatcher!Return(k),
           NEW n \in executing[k], stage[callOf[n]] \in {"handling", "dropped"},
           stage' = [stage EXCEPT ![callOf[n]] = IF @ = "handling" THEN "done" ELSE @],
           UNCHANGED callOf
    PROVE  ReceiverInv' /\ callOf[n] \in Calls
<1> DEFINE c == callOf[n]
<1>1. /\ received \in Nat /\ received' = received /\ queues' = queues
      /\ executing \in [Sockets -> SUBSET Nat]
  BY DEF TypeOK, Dispatcher!TypeOK, Dispatcher!Return
<1>2. executing[k] = {n}
  BY DispatcherFacts
<1>3. executing'[k] = {} /\ \A j \in Sockets : j # k => executing'[j] = executing[j]
  <2>1. PICK w \in executing[k] : executing' = [executing EXCEPT ![k] = @ \ {w}]
    BY DEF Dispatcher!Return
  <2> QED BY <1>1, <1>2, <2>1
<1>4. CallInv /\ \A m \in 1..received : callOf[m] \in Calls
  BY Numbered DEF ReceiverInv
<1>5. n \in 1..received /\ SocketOf[c] = k /\ c \in Calls
  BY <1>4 DEF ReceiverInv, QueueInv
<1>6. stage'[c] \in {"done", "dropped"} /\ \A d \in Calls : d # c => stage'[d] = stage[d]
  BY <1>5 DEF TypeOK
<1>7. \A m \in 1..received : m # n => callOf[m] # c /\ stage'[callOf[m]] = stage[callOf[m]]
  BY <1>4, <1>5, <1>6 DEF CallInv
<1> HIDE DEF c
<1>8. CallInv'
  BY <1>1, <1>4, <1>6, <1>7 DEF CallInv, c
<1>9. ASSUME NEW j \in Sockets PROVE QueueInv(j)'
  <2>1. QueueInv(j)
    BY DEF ReceiverInv
  <2>2. ASSUME NEW i \in 1..Len(queues[j]) PROVE stage'[callOf[queues[j][i]]] = "queued"
    <3>1. queues[j][i] \in 1..received /\ stage[callOf[queues[j][i]]] = "queued"
      BY <2>1 DEF QueueInv
    <3> QED BY <1>7, <3>1
  <2>3. ASSUME NEW m \in executing'[j]
        PROVE  m \in executing[j] /\ stage'[callOf[m]] = stage[callOf[m]]
    <3>1. j # k /\ m \in executing[j]
      BY <1>3
    <3>2. m \in 1..received /\ SocketOf[callOf[m]] = j
      BY <2>1, <3>1 DEF QueueInv
    <3> QED BY <1>5, <1>7, <3>1, <3>2 DEF c
  <2> QED BY <1>1, <2>1, <2>2, <2>3 DEF QueueInv
<1>10. ASSUME NEW m \in 1..received PROVE PlaceInv(m)'
  <2>1. CASE m = n
    BY <1>6, <2>1 DEF PlaceInv, Busy, c
  <2>2. CASE m # n
    <3>1. PlaceInv(m) /\ stage'[callOf[m]] = stage[callOf[m]] /\ SocketOf[callOf[m]] \in Sockets
      BY <1>4, <1>7, <2>2, CallsAssumption DEF ReceiverInv
    <3>2. ASSUME stage[callOf[m]] \in Busy PROVE m \in executing'[SocketOf[callOf[m]]]
      BY <1>2, <1>3, <2>2, <3>1, <3>2 DEF PlaceInv
    <3> QED BY <1>1, <3>1, <3>2 DEF PlaceInv
  <2> QED BY <2>1, <2>2
<1>11. OrderInv'
  <2> SUFFICES ASSUME NEW p \in 1..received, NEW m \in 1..(p - 1),
                      SocketOf[callOf[m]] = SocketOf[callOf[p]], stage'[callOf[p]] \in Taken
               PROVE  stage'[callOf[m]] \in Finished
    BY <1>1 DEF OrderInv
  <2>1. m \in 1..received
    BY <1>1
  <2>2. stage[callOf[p]] \in Taken
    BY <1>7 DEF Taken
  <2>3. stage[callOf[m]] \in Finished
    BY <2>2 DEF ReceiverInv, OrderInv
  <2> QED BY <1>6, <1>7, <2>1, <2>3 DEF Finished, c
<1> QED BY <1>1, <1>5, <1>8, <1>9, <1>10, <1>11 DEF ReceiverInv, c

-----------------------------------------------------------------------------
\* A call at whose two ends nothing happens stays consistent, whatever messages
\* of it are lost.
LEMMA CallStays ==
    ASSUME NEW c \in Calls, Consistent(c),
           sender'[c] = sender[c], next'[c] = next[c],
           stage'[c] = stage[c], assembled'[c] = assembled[c],
           rejected \subseteq rejected',
           \A kind \in {"request", "chunk", "chunkAck"}, i \in Nat :
               Msg(kind, c, i) \in wire' => Msg(kind, c, i) \in wire,
           \A kind \in {"accepted", "slow"} :
               Msg(kind, c, 0) \in wire' \cup unanswered'
                   => Msg(kind, c, 0) \in wire \cup unanswered
    PROVE  Consistent(c)'
<1>1. TransferInv(c)' /\ AnswerInv(c)'
  BY DEF Consistent, TransferInv, AnswerInv
<1>2. WireInv(c)'
  <2> USE DEF Consistent, WireInv
  <2>1. Msg("request", c, 0) \in wire' => stage'[c] = "underway" /\ sender'[c] # "idle"
    OBVIOUS
  <2>2. Msg("accepted", c, 0) \in wire' \cup unanswered' =>
            ~Streamed(c) /\ stage'[c] \in Complete \cup {"queued"}
    OBVIOUS
  <2>3. Msg("slow", c, 0) \in wire' \cup unanswered' =>
            stage'[c] = "refused" /\ SocketOf[c] \in rejected'
    OBVIOUS
  <2>4. \A i \in Nat : Msg("chunk", c, i) \in wire' =>
            /\ stage'[c] = "open"
            /\ sender'[c] \in {"streaming", "failed"}
            /\ i = next'[c] /\ i = Len(assembled'[c])
    OBVIOUS
  <2>5. \A i \in Nat : Msg("chunkAck", c, i) \in wire' =>
            /\ sender'[c] = "streaming"
            /\ i = next'[c]
            /\ \A j \in Nat : Msg("chunk", c, j) \notin wire'
            /\ stage'[c] \in Complete \cup {"open", "dropped"}
            /\ i = EOF(c) => stage'[c] \in Complete
            /\ stage'[c] = "open" => Len(assembled'[c]) = i + 1
    OBVIOUS
  <2> QED BY <2>1, <2>2, <2>3, <2>4, <2>5
<1> QED BY <1>1, <1>2 DEF Consistent

\* In a step of the sender only its call and the network have to be looked at.
LEMMA SenderKeeps ==
    ASSUME DeliveryInv, UNCHANGED <<dispatchVars, receiverVars>>,
           NEW c \in Calls, TypeOK', Consistent(c)',
           \A d \in Calls \ {c} : sender'[d] = sender[d] /\ next'[d] = next[d],
           \A m \in wire' : m \in wire \/ m.call = c
    PROVE  DeliveryInv'
<1>1. D!DispatcherInv'
  BY DispatcherStep DEF DeliveryInv
<1>2. ReceiverInv'
  BY ReceiverStays DEF DeliveryInv, dispatchVars, receiverVars
<1>3. ASSUME NEW d \in Calls, d # c PROVE Consistent(d)'
  <2>1. \A kind, j : Msg(kind, d, j) \in wire' => Msg(kind, d, j) \in wire
    BY <1>3 DEF Msg
  <2>2. sender'[d] = sender[d] /\ next'[d] = next[d]
    BY <1>3
  <2>3. /\ stage' = stage /\ assembled' = assembled
        /\ rejected' = rejected /\ unanswered' = unanswered
    BY DEF dispatchVars, receiverVars
  <2>4. Consistent(d)
    BY DEF DeliveryInv
  <2> QED BY <2>1, <2>2, <2>3, <2>4, CallStays
<1>4. UnansweredInv'
  BY DEF DeliveryInv, UnansweredInv, receiverVars
<1> QED BY <1>1, <1>2, <1>3, <1>4 DEF DeliveryInv

LEMMA RequestKeeps ==
    ASSUME DeliveryInv, NEW c \in Calls, Request(c)
    PROVE  DeliveryInv'
<1>1. TypeOK /\ Consistent(c)
  BY DEF DeliveryInv
<1>2. /\ sender[c] = "idle" /\ sender' = [sender EXCEPT ![c] = "requesting"]
      /\ wire' = wire \cup {Msg("request", c, 0)} /\ next' = next
      /\ UNCHANGED <<dispatchVars, receiverVars>>
  BY DEF Request
<1>3. Msg("request", c, 0) \in Messages
  BY DEF Msg, Messages
<1>4. stage' = stage /\ assembled' = assembled /\ rejected' = rejected /\ unanswered' = unanswered
      /\ sender'[c] = "requesting"
  BY <1>1, <1>2 DEF dispatchVars, receiverVars, TypeOK
<1>5. TypeOK'
  <2>1. Dispatcher!TypeOK'
    BY <1>1, <1>2 DEF TypeOK, Dispatcher!TypeOK, dispatchVars
  <2> QED BY <1>1, <1>2, <1>3, <2>1 DEF TypeOK, receiverVars
<1>6. stage[c] = "underway" /\ next[c] = 0 /\ assembled[c] = <<>>
  BY <1>1, <1>2 DEF Consistent, TransferInv
<1>7. Consistent(c)'
  <2>1. TransferInv(c)'
    BY <1>1, <1>2, <1>4, <1>6 DEF Consistent, TransferInv
  <2>2. WireInv(c)'
    BY <1>1, <1>2, <1>4, <1>6 DEF Consistent, WireInv, Msg
  <2>3. AnswerInv(c)'
    BY <1>1, <1>2, <1>4 DEF Consistent, AnswerInv
  <2> QED BY <2>1, <2>2, <2>3 DEF Consistent
<1>8. /\ \A d \in Calls \ {c} : sender'[d] = sender[d] /\ next'[d] = next[d]
      /\ \A m \in wire' : m \in wire \/ m.call = c
  BY <1>1, <1>2 DEF TypeOK, Msg
<1> QED BY <1>2, <1>5, <1>7, <1>8, SenderKeeps

LEMMA ReceiveAckKeeps ==
    ASSUME DeliveryInv, NEW c \in Calls, ReceiveAck(c)
    PROVE  DeliveryInv'
<1>1. TypeOK /\ Consistent(c)
  BY DEF DeliveryInv
<1>2. PICK kind \in {"accepted", "slow"} :
          /\ Msg(kind, c, 0) \in wire /\ sender[c] = "requesting"
          /\ sender' = [sender EXCEPT ![c] = Result(kind)]
          /\ wire' = wire \ {Msg(kind, c, 0)} /\ next' = next
          /\ UNCHANGED <<dispatchVars, receiverVars>>
  BY DEF ReceiveAck
<1>3. Result(kind) = IF kind = "accepted" THEN "ok" ELSE "slow"
  BY DEF Result
<1>4. stage' = stage /\ assembled' = assembled /\ rejected' = rejected /\ unanswered' = unanswered
      /\ sender'[c] = Result(kind)
  BY <1>1, <1>2 DEF dispatchVars, receiverVars, TypeOK
<1>5. TypeOK'
  <2>1. Dispatcher!TypeOK'
    BY <1>1, <1>2 DEF TypeOK, Dispatcher!TypeOK, dispatchVars
  <2> QED BY <1>1, <1>2, <1>3, <2>1 DEF TypeOK, receiverVars
<1>6. Consistent(c)'
  <2>1. TransferInv(c)'
    BY <1>1, <1>2, <1>3, <1>4 DEF Consistent, TransferInv
  <2>2. WireInv(c)'
    BY <1>1, <1>2, <1>3, <1>4 DEF Consistent, WireInv
  <2>3. AnswerInv(c)'
    <3>1. kind = "accepted" => ~Streamed(c) /\ stage[c] \in Complete \cup {"queued"}
      BY <1>1, <1>2 DEF Consistent, WireInv
    <3>2. kind = "slow" => stage[c] = "refused" /\ SocketOf[c] \in rejected
      BY <1>1, <1>2 DEF Consistent, WireInv
    <3> QED BY <1>2, <1>3, <1>4, <3>1, <3>2 DEF AnswerInv
  <2> QED BY <2>1, <2>2, <2>3 DEF Consistent
<1>7. /\ \A d \in Calls \ {c} : sender'[d] = sender[d] /\ next'[d] = next[d]
      /\ \A m \in wire' : m \in wire \/ m.call = c
  BY <1>1, <1>2 DEF TypeOK
<1> QED BY <1>2, <1>5, <1>6, <1>7, SenderKeeps

LEMMA StartStreamKeeps ==
    ASSUME DeliveryInv, NEW c \in Calls, StartStream(c)
    PROVE  DeliveryInv'
<1>1. TypeOK /\ Consistent(c)
  BY DEF DeliveryInv
<1>2. /\ sender[c] = "requesting" /\ sender' = [sender EXCEPT ![c] = "streaming"]
      /\ wire' = (wire \ {Msg("inbox", c, 0)}) \cup SendChunk(c, 0) /\ next' = next
      /\ UNCHANGED <<dispatchVars, receiverVars>>
  BY DEF StartStream
<1>3. SendChunk(c, 0) = IF stage[c] = "open" THEN {Msg("chunk", c, 0)} ELSE {}
  BY DEF SendChunk
<1>4. stage' = stage /\ assembled' = assembled /\ rejected' = rejected /\ unanswered' = unanswered
      /\ sender'[c] = "streaming"
  BY <1>1, <1>2 DEF dispatchVars, receiverVars, TypeOK
<1>5. TypeOK'
  <2>1. Dispatcher!TypeOK'
    BY <1>1, <1>2 DEF TypeOK, Dispatcher!TypeOK, dispatchVars
  <2>2. SendChunk(c, 0) \subseteq Messages
    BY <1>3 DEF Msg, Messages
  <2> QED BY <1>1, <1>2, <2>1, <2>2 DEF TypeOK, receiverVars
<1>6. next[c] = 0 /\ assembled[c] = <<>>
  BY <1>1, <1>2 DEF Consistent, TransferInv
<1>7. Consistent(c)'
  <2>1. TransferInv(c)'
    BY <1>1, <1>2, <1>4 DEF Consistent, TransferInv
  <2>2. WireInv(c)'
    <3>1. \A i \in Nat : Msg("chunk", c, i) \notin wire /\ Msg("chunkAck", c, i) \notin wire
      BY <1>1, <1>2 DEF Consistent, WireInv
    <3>2. ASSUME NEW i \in Nat, Msg("chunk", c, i) \in wire' PROVE stage[c] = "open" /\ i = 0
      <4>1. Msg("chunk", c, i) \in SendChunk(c, 0)
        BY <1>2, <3>1, <3>2
      <4> QED BY <1>3, <4>1 DEF Msg
    <3>3. ASSUME NEW i \in Nat PROVE Msg("chunkAck", c, i) \notin wire'
      <4>1. Msg("chunkAck", c, i) \notin SendChunk(c, 0)
        BY <1>3 DEF Msg
      <4> QED BY <1>2, <3>1, <4>1
    <3>4. \A kind \in {"request", "accepted", "slow"} :
              Msg(kind, c, 0) \in wire' => Msg(kind, c, 0) \in wire
      BY <1>2, <1>3 DEF Msg
    <3> QED BY <1>1, <1>2, <1>4, <1>6, <3>2, <3>3, <3>4 DEF Consistent, WireInv
  <2>3. AnswerInv(c)'
    BY <1>1, <1>4 DEF Consistent, AnswerInv
  <2> QED BY <2>1, <2>2, <2>3 DEF Consistent
<1>8. /\ \A d \in Calls \ {c} : sender'[d] = sender[d] /\ next'[d] = next[d]
      /\ \A m \in wire' : m \in wire \/ m.call = c
  BY <1>1, <1>2, <1>3 DEF TypeOK, Msg
<1> QED BY <1>2, <1>5, <1>7, <1>8, SenderKeeps

\* The chunk that is acknowledged has been appended, so the next is the next
\* one in order; or it was the last.
LEMMA ReceiveChunkAckKeeps ==
    ASSUME DeliveryInv, NEW c \in Calls, ReceiveChunkAck(c)
    PROVE  DeliveryInv'
<1> DEFINE i == next[c]
           ack == Msg("chunkAck", c, i)
<1>1. TypeOK /\ Consistent(c) /\ i \in Nat /\ EOF(c) \in Nat
  BY CallsAssumption DEF DeliveryInv, TypeOK, EOF
<1>2. /\ ack \in wire /\ sender[c] = "streaming"
      /\ UNCHANGED <<dispatchVars, receiverVars>>
      /\ \/ /\ i = EOF(c) /\ sender' = [sender EXCEPT ![c] = "ok"]
            /\ wire' = wire \ {ack} /\ next' = next
         \/ /\ i # EOF(c) /\ next' = [next EXCEPT ![c] = i + 1]
            /\ wire' = (wire \ {ack}) \cup SendChunk(c, i + 1) /\ sender' = sender
  BY DEF ReceiveChunkAck
<1>3. SendChunk(c, i + 1) = IF stage[c] = "open" THEN {Msg("chunk", c, i + 1)} ELSE {}
  BY DEF SendChunk
<1>4. stage' = stage /\ assembled' = assembled /\ rejected' = rejected /\ unanswered' = unanswered
  BY <1>2 DEF dispatchVars, receiverVars
<1>5. TypeOK'
  <2>1. Dispatcher!TypeOK'
    BY <1>1, <1>2 DEF TypeOK, Dispatcher!TypeOK, dispatchVars
  <2>2. SendChunk(c, i + 1) \subseteq Messages
    BY <1>1, <1>3 DEF Msg, Messages
  <2>3. wire' \subseteq Messages
    BY <1>1, <1>2, <2>2 DEF TypeOK
  <2>4. sender' \in [Calls -> {"idle", "requesting", "streaming", "ok", "slow", "failed"}]
    BY <1>1, <1>2 DEF TypeOK
  <2>5. next' \in [Calls -> Nat]
    <3>1. i + 1 \in Nat /\ next \in [Calls -> Nat]
      BY <1>1 DEF TypeOK
    <3>2. next' = next \/ next' = [next EXCEPT ![c] = i + 1]
      BY <1>2
    <3> HIDE DEF i
    <3> QED BY <3>1, <3>2
  <2> QED BY <1>1, <1>2, <2>1, <2>3, <2>4, <2>5 DEF TypeOK, receiverVars
<1>6. /\ \A j \in Nat : Msg("chunk", c, j) \notin wire
      /\ i = EOF(c) => stage[c] \in Complete
      /\ stage[c] = "open" => Len(assembled[c]) = i + 1
      /\ i <= EOF(c)
  BY <1>1, <1>2 DEF Consistent, WireInv, TransferInv
<1>7. \A j \in Nat : Msg("chunkAck", c, j) \in wire => j = i
  BY <1>1 DEF Consistent, WireInv
<1>8. \A j \in Nat : Msg("chunkAck", c, j) \notin wire'
  BY <1>2, <1>3, <1>7 DEF Msg
<1>9. \A kind \in {"request", "accepted", "slow"} :
          Msg(kind, c, 0) \in wire' => Msg(kind, c, 0) \in wire
  BY <1>2, <1>3 DEF Msg
<1>10. Consistent(c)'
  <2>1. CASE i = EOF(c)
    <3>1. sender'[c] = "ok" /\ next' = next /\ wire' \subseteq wire
      BY <1>1, <1>2, <2>1 DEF TypeOK
    <3>2. TransferInv(c)'
      BY <1>1, <1>4, <3>1 DEF Consistent, TransferInv
    <3>3. WireInv(c)'
      BY <1>1, <1>4, <1>6, <1>8, <3>1 DEF Consistent, WireInv
    <3>4. AnswerInv(c)'
      BY <1>4, <1>6, <2>1, <3>1 DEF AnswerInv
    <3> QED BY <3>2, <3>3, <3>4 DEF Consistent
  <2>2. CASE i # EOF(c)
    <3>1. sender' = sender /\ next'[c] = i + 1 /\ stage[c] \notin Complete
      BY <1>1, <1>2, <2>2 DEF TypeOK, Consistent, TransferInv
    <3>2. TransferInv(c)'
      BY <1>1, <1>2, <1>4, <1>6, <2>2, <3>1 DEF Consistent, TransferInv
    <3>3. \A j \in Nat : Msg("chunk", c, j) \in wire' => stage[c] = "open" /\ j = i + 1
      BY <1>2, <1>3, <1>6, <2>2 DEF Msg
    <3>4. WireInv(c)'
      BY <1>1, <1>2, <1>4, <1>6, <1>8, <1>9, <3>1, <3>3 DEF Consistent, WireInv
    <3>5. AnswerInv(c)'
      BY <1>1, <1>4, <3>1 DEF Consistent, AnswerInv
    <3> QED BY <3>2, <3>4, <3>5 DEF Consistent
  <2> QED BY <2>1, <2>2
<1>11. /\ \A d \in Calls \ {c} : sender'[d] = sender[d] /\ next'[d] = next[d]
       /\ \A m \in wire' : m \in wire \/ m.call = c
  BY <1>1, <1>2, <1>3 DEF TypeOK, Msg
<1> QED BY <1>2, <1>5, <1>10, <1>11, SenderKeeps

LEMMA GiveUpKeeps ==
    ASSUME DeliveryInv, NEW c \in Calls, GiveUp(c)
    PROVE  DeliveryInv'
<1>1. TypeOK /\ Consistent(c)
  BY DEF DeliveryInv
<1>2. /\ Waiting(c) /\ sender' = [sender EXCEPT ![c] = "failed"]
      /\ wire' = {m \in wire : m.call # c \/ m.kind \notin Replies} /\ next' = next
      /\ UNCHANGED <<dispatchVars, receiverVars>>
  BY DEF GiveUp
<1>3. stage' = stage /\ assembled' = assembled /\ rejected' = rejected /\ unanswered' = unanswered
      /\ sender'[c] = "failed"
  BY <1>1, <1>2 DEF dispatchVars, receiverVars, TypeOK
<1>4. TypeOK'
  <2>1. Dispatcher!TypeOK'
    BY <1>1, <1>2 DEF TypeOK, Dispatcher!TypeOK, dispatchVars
  <2> QED BY <1>1, <1>2, <2>1 DEF TypeOK, receiverVars
<1>5. wire' \subseteq wire /\ \A j : Msg("chunkAck", c, j) \notin wire'
  BY <1>2 DEF Msg, Replies
<1>6. \A j \in Nat : Msg("chunk", c, j) \in wire => sender[c] \in {"streaming", "failed"}
  BY <1>1 DEF Consistent, WireInv
<1>7. Consistent(c)'
  <2>1. TransferInv(c)'
    BY <1>1, <1>2, <1>3 DEF Consistent, TransferInv
  <2>2. WireInv(c)'
    BY <1>1, <1>2, <1>3, <1>5 DEF Consistent, WireInv
  <2>3. AnswerInv(c)'
    BY <1>3 DEF AnswerInv
  <2> QED BY <2>1, <2>2, <2>3 DEF Consistent
<1>8. /\ \A d \in Calls \ {c} : sender'[d] = sender[d] /\ next'[d] = next[d]
      /\ \A m \in wire' : m \in wire \/ m.call = c
  BY <1>1, <1>2 DEF TypeOK
<1> QED BY <1>2, <1>4, <1>7, <1>8, SenderKeeps

\* Whatever is lost, what is left is consistent.
LEMMA LoseKeeps ==
    ASSUME DeliveryInv, NEW m \in wire, Lose(m)
    PROVE  DeliveryInv'
<1>1. /\ wire' = wire \ {m} /\ sender' = sender /\ next' = next
      /\ UNCHANGED <<dispatchVars, receiverVars>>
  BY DEF Lose, senderVars
<1>2. /\ stage' = stage /\ assembled' = assembled /\ rejected' = rejected
      /\ unanswered' = unanswered /\ callOf' = callOf
  BY <1>1 DEF dispatchVars, receiverVars
<1>3. D!DispatcherInv'
  BY <1>1, DispatcherStep DEF DeliveryInv
<1>4. Dispatcher!TypeOK'
  BY <1>1 DEF DeliveryInv, TypeOK, Dispatcher!TypeOK, dispatchVars
<1>5. TypeOK'
  BY <1>1, <1>2, <1>4 DEF DeliveryInv, TypeOK
<1>6. ReceiverInv'
  BY <1>1, ReceiverStays DEF DeliveryInv, dispatchVars, receiverVars
<1>7. ASSUME NEW c \in Calls PROVE Consistent(c)'
  <2>1. Consistent(c)
    BY DEF DeliveryInv
  <2> QED BY <1>1, <1>2, <2>1, CallStays
<1>8. UnansweredInv'
  BY <1>2 DEF DeliveryInv, UnansweredInv
<1> QED BY <1>3, <1>5, <1>6, <1>7, <1>8 DEF DeliveryInv

-----------------------------------------------------------------------------
\* In a step of the receiver on a call only that call and the network have to
\* be looked at.
LEMMA ReceiverKeeps ==
    ASSUME DeliveryInv, sender' = sender, next' = next, rejected \subseteq rejected',
           D!DispatcherInv', ReceiverInv', UnansweredInv', TypeOK',
           NEW c \in Calls, Consistent(c)',
           \A d \in Calls \ {c} : stage'[d] = stage[d] /\ assembled'[d] = assembled[d],
           \A m \in wire' : m \in wire \/ m.call = c,
           \A m \in unanswered' : m \in unanswered \/ m.call = c
    PROVE  DeliveryInv'
<1>1. ASSUME NEW d \in Calls, d # c PROVE Consistent(d)'
  <2>1. \A kind, j : /\ Msg(kind, d, j) \in wire' => Msg(kind, d, j) \in wire
                     /\ Msg(kind, d, j) \in unanswered' => Msg(kind, d, j) \in unanswered
    BY <1>1 DEF Msg
  <2>2. Consistent(d)
    BY DEF DeliveryInv
  <2> QED BY <1>1, <2>1, <2>2, CallStays
<1> QED BY <1>1 DEF DeliveryInv

\* A request that the pump takes from the network is not in it any more, and
\* nothing is known of its message yet.
LEMMA Requested ==
    ASSUME DeliveryInv, NEW c \in Calls, NextMsg(c)
    PROVE  /\ wire' = wire \ {Msg("request", c, 0)} /\ unanswered = {}
           /\ stage[c] = "underway" /\ sender[c] \notin {"idle", "ok", "slow"}
           /\ \A kind \in {"accepted", "slow"} : Msg(kind, c, 0) \notin wire
           /\ \A i \in Nat : Msg("chunk", c, i) \notin wire /\ Msg("chunkAck", c, i) \notin wire
<1>1. Consistent(c) /\ Msg("request", c, 0) \in wire
  BY DEF DeliveryInv, NextMsg
<1>2. stage[c] = "underway" /\ sender[c] # "idle"
  BY <1>1 DEF Consistent, WireInv
<1>3. sender[c] \notin {"ok", "slow"}
  BY <1>1, <1>2 DEF Consistent, AnswerInv, Complete
<1>4. /\ \A kind \in {"accepted", "slow"} : Msg(kind, c, 0) \notin wire
      /\ \A i \in Nat : Msg("chunk", c, i) \notin wire /\ Msg("chunkAck", c, i) \notin wire
  BY <1>1, <1>2 DEF Consistent, WireInv, Complete
<1> QED BY <1>2, <1>3, <1>4 DEF NextMsg

LEMMA RefuseSlowKeeps ==
    ASSUME DeliveryInv, NEW c \in Calls, RefuseSlow(c)
    PROVE  DeliveryInv'
<1> DEFINE k == SocketOf[c]
<1>1. TypeOK /\ Consistent(c) /\ ReceiverInv /\ k \in Sockets
  BY CallsAssumption DEF DeliveryInv
<1>2. /\ NextMsg(c) /\ Dispatcher!Overflow(k)
      /\ callOf' = Append(callOf, c) /\ stage' = [stage EXCEPT ![c] = "refused"]
      /\ unanswered' = {Msg("slow", c, 0)}
      /\ sender' = sender /\ next' = next /\ assembled' = assembled
  BY DEF RefuseSlow, senderVars
<1>3. /\ wire' = wire \ {Msg("request", c, 0)} /\ unanswered = {}
      /\ stage[c] = "underway" /\ sender[c] \notin {"idle", "ok", "slow"}
      /\ \A kind \in {"accepted", "slow"} : Msg(kind, c, 0) \notin wire
      /\ \A i \in Nat : Msg("chunk", c, i) \notin wire /\ Msg("chunkAck", c, i) \notin wire
  BY <1>2, Requested
<1>4. /\ received' = received + 1 /\ rejected' = rejected \cup {k}
      /\ queues' = queues /\ executing' = executing
  BY <1>2 DEF Dispatcher!Overflow
<1>5. D!DispatcherInv' /\ Dispatcher!TypeOK'
  BY <1>1, <1>2, DispatcherStep DEF DeliveryInv
<1>6. TypeOK'
  <2>1. callOf' \in Seq(Calls)
    BY <1>1, <1>2, AppendProperties DEF TypeOK
  <2> QED BY <1>1, <1>2, <1>3, <1>5, <2>1 DEF TypeOK, Msg, Messages, Replies
<1>7. ReceiverInv'
  BY <1>1, <1>2, <1>3, <1>4, ReceivedKeeps
<1>8. UnansweredInv'
  BY <1>2 DEF UnansweredInv, Msg
<1>9. stage'[c] = "refused"
  BY <1>1, <1>2 DEF TypeOK
<1>10. Consistent(c)'
  <2>1. TransferInv(c)'
    BY <1>1, <1>2, <1>3, <1>9 DEF Consistent, TransferInv, Complete
  <2>2. WireInv(c)'
    <3>1. /\ Msg("request", c, 0) \notin wire'
          /\ Msg("accepted", c, 0) \notin wire' \cup unanswered'
      BY <1>2, <1>3 DEF Msg
    <3>2. \A i \in Nat : Msg("chunk", c, i) \notin wire' /\ Msg("chunkAck", c, i) \notin wire'
      BY <1>3
    <3> QED BY <1>2, <1>4, <1>9, <3>1, <3>2 DEF WireInv
  <2>3. AnswerInv(c)'
    BY <1>2, <1>3 DEF AnswerInv
  <2> QED BY <2>1, <2>2, <2>3 DEF Consistent
<1>11. /\ \A d \in Calls \ {c} : stage'[d] = stage[d] /\ assembled'[d] = assembled[d]
       /\ \A m \in wire' : m \in wire \/ m.call = c
       /\ \A m \in unanswered' : m \in unanswered \/ m.call = c
  BY <1>1, <1>2, <1>3 DEF TypeOK, Msg
<1> QED BY <1>2, <1>4, <1>5, <1>6, <1>7, <1>8, <1>10, <1>11, ReceiverKeeps

LEMMA AcceptKeeps ==
    ASSUME DeliveryInv, NEW c \in Calls, Accept(c)
    PROVE  DeliveryInv'
<1> DEFINE k == SocketOf[c]
<1>1. TypeOK /\ Consistent(c) /\ ReceiverInv /\ k \in Sockets
  BY CallsAssumption DEF DeliveryInv
<1>2. /\ NextMsg(c) /\ Dispatcher!Enqueue(k)
      /\ callOf' = Append(callOf, c) /\ stage' = [stage EXCEPT ![c] = "queued"]
      /\ unanswered' = IF Streamed(c) THEN {} ELSE {Msg("accepted", c, 0)}
      /\ sender' = sender /\ next' = next /\ assembled' = assembled
  BY DEF Accept, senderVars
<1>3. /\ wire' = wire \ {Msg("request", c, 0)} /\ unanswered = {}
      /\ stage[c] = "underway" /\ sender[c] \notin {"idle", "ok", "slow"}
      /\ \A kind \in {"accepted", "slow"} : Msg(kind, c, 0) \notin wire
      /\ \A i \in Nat : Msg("chunk", c, i) \notin wire /\ Msg("chunkAck", c, i) \notin wire
  BY <1>2, Requested
<1>4. /\ received' = received + 1 /\ rejected' = rejected
      /\ queues' = [queues EXCEPT ![k] = Append(@, received + 1)] /\ executing' = executing
  BY <1>2 DEF Dispatcher!Enqueue
<1>5. D!DispatcherInv' /\ Dispatcher!TypeOK'
  BY <1>1, <1>2, DispatcherStep DEF DeliveryInv
<1>6. TypeOK'
  <2>1. callOf' \in Seq(Calls)
    BY <1>1, <1>2, AppendProperties DEF TypeOK
  <2> QED BY <1>1, <1>2, <1>3, <1>5, <2>1 DEF TypeOK, Msg, Messages, Replies
<1>7. ReceiverInv'
  BY <1>1, <1>2, <1>3, <1>4, ReceivedKeeps
<1>8. UnansweredInv'
  BY <1>2 DEF UnansweredInv, Msg
<1>9. stage'[c] = "queued"
  BY <1>1, <1>2 DEF TypeOK
<1>10. Consistent(c)'
  <2>1. TransferInv(c)'
    BY <1>1, <1>2, <1>3, <1>9 DEF Consistent, TransferInv, Complete
  <2>2. WireInv(c)'
    <3>1. /\ Msg("request", c, 0) \notin wire'
          /\ Msg("accepted", c, 0) \in wire' \cup unanswered' => ~Streamed(c)
          /\ Msg("slow", c, 0) \notin wire' \cup unanswered'
      BY <1>2, <1>3 DEF Msg
    <3>2. \A i \in Nat : Msg("chunk", c, i) \notin wire' /\ Msg("chunkAck", c, i) \notin wire'
      BY <1>3
    <3> QED BY <1>2, <1>4, <1>9, <3>1, <3>2 DEF WireInv
  <2>3. AnswerInv(c)'
    BY <1>2, <1>3 DEF AnswerInv
  <2> QED BY <2>1, <2>2, <2>3 DEF Consistent
<1>11. /\ \A d \in Calls \ {c} : stage'[d] = stage[d] /\ assembled'[d] = assembled[d]
       /\ \A m \in wire' : m \in wire \/ m.call = c
       /\ \A m \in unanswered' : m \in unanswered \/ m.call = c
  BY <1>1, <1>2, <1>3 DEF TypeOK, Msg
<1> QED BY <1>2, <1>4, <1>5, <1>6, <1>7, <1>8, <1>10, <1>11, ReceiverKeeps

\* An acknowledgement is as true under way as before.
LEMMA RespondKeeps ==
    ASSUME DeliveryInv, respondAck
    PROVE  DeliveryInv'
<1>1. /\ wire' = wire \cup UNION {Reply(m) : m \in unanswered} /\ unanswered' = {}
      /\ UNCHANGED <<dispatchVars, sender, next, callOf, stage, assembled>>
  BY DEF respondAck, senderVars
<1>2. UNION {Reply(m) : m \in unanswered} \subseteq unanswered
  BY DEF Reply
<1>3. \A m \in unanswered : m.kind \in {"accepted", "slow"}
  BY DEF DeliveryInv, UnansweredInv
<1>4. D!DispatcherInv' /\ Dispatcher!TypeOK'
  BY <1>1, DispatcherStep DEF DeliveryInv
<1>5. TypeOK'
  BY <1>1, <1>2, <1>4 DEF DeliveryInv, TypeOK
<1>6. ReceiverInv'
  BY <1>1, ReceiverStays DEF DeliveryInv, dispatchVars
<1>7. ASSUME NEW c \in Calls PROVE Consistent(c)'
  <2>1. Consistent(c)
    BY DEF DeliveryInv
  <2>2. \A kind \in {"request", "chunk", "chunkAck"}, i \in Nat :
            Msg(kind, c, i) \in wire' => Msg(kind, c, i) \in wire
    BY <1>1, <1>2, <1>3 DEF Msg
  <2>3. \A kind \in {"accepted", "slow"} :
            Msg(kind, c, 0) \in wire' \cup unanswered' => Msg(kind, c, 0) \in wire \cup unanswered
    BY <1>1, <1>2
  <2>4. rejected' = rejected
    BY <1>1 DEF dispatchVars
  <2> QED BY <1>1, <2>1, <2>2, <2>3, <2>4, CallStays
<1>8. UnansweredInv'
  BY <1>1 DEF UnansweredInv
<1> QED BY <1>4, <1>5, <1>6, <1>7, <1>8 DEF DeliveryInv

\* A worker that begins opens the inbox of its message, or has it whole.
LEMMA BeginStepKeeps ==
    ASSUME DeliveryInv, NEW k \in Sockets, Begin(k)
    PROVE  DeliveryInv'
<1> DEFINE C == callOf[Head(queues[k])]
<1>1. PICK c : c = C
  OBVIOUS
<1>2. PICK s \in {"open", "whole"} : s = IF Streamed(c) THEN "open" ELSE "whole"
  OBVIOUS
<1>3. /\ Dispatcher!Start(k) /\ stage' = [stage EXCEPT ![C] = s]
      /\ wire' = IF Streamed(c) THEN wire \cup Reply(Msg("inbox", c, 0)) ELSE wire
      /\ sender' = sender /\ next' = next
      /\ unanswered' = unanswered /\ callOf' = callOf /\ assembled' = assembled
  BY <1>1, <1>2 DEF Begin, senderVars
<1>4. TypeOK /\ D!DispatcherInv /\ ReceiverInv
  BY DEF DeliveryInv
<1>5. ReceiverInv' /\ C \in Calls /\ stage[C] = "queued"
  BY <1>3, <1>4, BeginKeeps
<1> HIDE DEF C
<1>6. c \in Calls /\ stage[c] = "queued" /\ Consistent(c) /\ stage' = [stage EXCEPT ![c] = s]
  BY <1>1, <1>3, <1>5 DEF DeliveryInv
<1>7. D!DispatcherInv' /\ Dispatcher!TypeOK'
  BY <1>3, <1>4, DispatcherStep
<1>8. /\ wire' \subseteq wire \cup {Msg("inbox", c, 0)}
      /\ Msg("inbox", c, 0) \in Messages
  BY <1>3, <1>6 DEF Reply, Msg, Messages, Replies
<1>9. TypeOK'
  BY <1>3, <1>4, <1>6, <1>7, <1>8 DEF TypeOK
<1>10. stage'[c] = s /\ \A d \in Calls \ {c} : stage'[d] = stage[d]
  BY <1>4, <1>6 DEF TypeOK
<1>11. rejected' = rejected
  BY <1>3 DEF Dispatcher!Start
<1>12. UnansweredInv'
  BY <1>3 DEF DeliveryInv, UnansweredInv
<1>13. \A kind, i : Msg(kind, c, i) \in wire' /\ kind # "inbox" => Msg(kind, c, i) \in wire
  BY <1>8 DEF Msg
<1>14. EOF(c) \in Nat /\ next[c] \in Nat /\ assembled[c] \in Seq(Nat) /\ Len(assembled[c]) \in Nat
  BY <1>4, <1>6, CallsAssumption, LenProperties DEF TypeOK, EOF
<1>15. Consistent(c)'
  <2>1. s = "whole" => EOF(c) = 0 /\ ~Streamed(c)
    BY <1>2, <1>14 DEF Streamed, EOF
  <2>2. TransferInv(c)'
    <3>1. s = "whole" => Len(assembled[c]) = EOF(c) /\ next[c] = EOF(c)
      BY <1>6, <1>14, <2>1 DEF Consistent, TransferInv
    <3> QED BY <1>2, <1>3, <1>6, <1>10, <3>1 DEF Consistent, TransferInv, Complete
  <2>3. WireInv(c)'
    <3>1. /\ Msg("request", c, 0) \notin wire'
          /\ Msg("slow", c, 0) \notin wire' \cup unanswered'
          /\ Msg("accepted", c, 0) \in wire' \cup unanswered' => ~Streamed(c)
      BY <1>3, <1>6, <1>13 DEF Consistent, WireInv
    <3>2. \A i \in Nat : Msg("chunk", c, i) \notin wire' /\ Msg("chunkAck", c, i) \notin wire'
      BY <1>6, <1>13 DEF Consistent, WireInv, Complete
    <3> QED BY <1>2, <1>3, <1>10, <3>1, <3>2 DEF WireInv, Complete
  <2>4. AnswerInv(c)'
    BY <1>2, <1>3, <1>6, <1>10 DEF Consistent, AnswerInv, Complete
  <2> QED BY <2>2, <2>3, <2>4 DEF Consistent
<1>16. \A m \in wire' : m \in wire \/ m.call = c
  BY <1>8 DEF Msg
<1> QED BY <1>3, <1>5, <1>6, <1>7, <1>9, <1>10, <1>11, <1>12, <1>15, <1>16, ReceiverKeeps

\* The payload goes to the handler.
LEMMA HandleKeeps ==
    ASSUME DeliveryInv, NEW c \in Calls, Handle(c)
    PROVE  DeliveryInv'
<1>1. /\ stage[c] = "whole" /\ stage' = [stage EXCEPT ![c] = "handling"]
      /\ wire' = wire /\ sender' = sender /\ next' = next
      /\ unanswered' = unanswered /\ callOf' = callOf /\ assembled' = assembled
      /\ UNCHANGED dispatchVars
  BY DEF Handle, senderVars
<1>2. TypeOK /\ ReceiverInv /\ Consistent(c)
  BY DEF DeliveryInv
<1>3. D!DispatcherInv' /\ Dispatcher!TypeOK'
  BY <1>1, DispatcherStep DEF DeliveryInv
<1>4. TypeOK'
  BY <1>1, <1>2, <1>3 DEF TypeOK
<1>5. ReceiverInv'
  <2>1. stage[c] \in Busy /\ "handling" \in Busy \cup {"dropped"}
    BY <1>1 DEF Busy
  <2> QED BY <1>1, <1>2, <2>1, StageMoves DEF dispatchVars
<1>6. stage'[c] = "handling" /\ rejected' = rejected
  BY <1>1, <1>2 DEF TypeOK, dispatchVars
<1>7. Consistent(c)'
  <2>1. TransferInv(c)'
    BY <1>1, <1>2, <1>6 DEF Consistent, TransferInv, Complete
  <2>2. WireInv(c)'
    BY <1>1, <1>2, <1>6 DEF Consistent, WireInv, Complete
  <2>3. AnswerInv(c)'
    BY <1>1, <1>2, <1>6 DEF Consistent, AnswerInv, Complete
  <2> QED BY <2>1, <2>2, <2>3 DEF Consistent
<1>8. \A d \in Calls \ {c} : stage'[d] = stage[d] /\ assembled'[d] = assembled[d]
  BY <1>1, <1>2 DEF TypeOK
<1>9. UnansweredInv'
  BY <1>1 DEF DeliveryInv, UnansweredInv
<1> QED BY <1>1, <1>3, <1>4, <1>5, <1>6, <1>7, <1>8, <1>9, ReceiverKeeps

\* A transfer is broken off; its sender has not reported success.
LEMMA AbandonKeeps ==
    ASSUME DeliveryInv, NEW c \in Calls, AbandonStream(c)
    PROVE  DeliveryInv' /\ sender[c] # "ok"
<1>1. /\ stage[c] = "open" /\ stage' = [stage EXCEPT ![c] = "dropped"]
      /\ wire' = {m \in wire : m.call # c \/ m.kind # "chunk"}
      /\ sender' = sender /\ next' = next
      /\ unanswered' = unanswered /\ callOf' = callOf /\ assembled' = assembled
      /\ UNCHANGED dispatchVars
  BY DEF AbandonStream, senderVars
<1>2. TypeOK /\ ReceiverInv /\ Consistent(c)
  BY DEF DeliveryInv
<1>3. D!DispatcherInv' /\ Dispatcher!TypeOK'
  BY <1>1, DispatcherStep DEF DeliveryInv
<1>4. TypeOK'
  BY <1>1, <1>2, <1>3 DEF TypeOK
<1>5. ReceiverInv'
  <2>1. stage[c] \in Busy /\ "dropped" \in Busy \cup {"dropped"}
    BY <1>1 DEF Busy
  <2> QED BY <1>1, <1>2, <2>1, StageMoves DEF dispatchVars
<1>6. stage'[c] = "dropped" /\ rejected' = rejected
  BY <1>1, <1>2 DEF TypeOK, dispatchVars
<1>7. sender[c] \notin {"ok", "slow"} /\ Streamed(c)
  BY <1>1, <1>2 DEF Consistent, TransferInv, AnswerInv, Complete
<1>8. wire' \subseteq wire /\ \A i : Msg("chunk", c, i) \notin wire'
  BY <1>1 DEF Msg
<1>9. Consistent(c)'
  <2>1. TransferInv(c)'
    BY <1>1, <1>2, <1>6, <1>7 DEF Consistent, TransferInv, Complete
  <2>2. WireInv(c)'
    <3>1. /\ Msg("request", c, 0) \notin wire'
          /\ Msg("accepted", c, 0) \notin wire' \cup unanswered'
          /\ Msg("slow", c, 0) \notin wire' \cup unanswered'
      BY <1>1, <1>2, <1>8 DEF Consistent, WireInv, Complete
    <3>2. ASSUME NEW i \in Nat, Msg("chunkAck", c, i) \in wire'
          PROVE  sender[c] = "streaming" /\ i = next[c] /\ i # EOF(c)
      BY <1>1, <1>2, <1>8, <3>2 DEF Consistent, WireInv, Complete
    <3> QED BY <1>1, <1>6, <1>8, <3>1, <3>2 DEF WireInv
  <2>3. AnswerInv(c)'
    BY <1>1, <1>7 DEF AnswerInv
  <2> QED BY <2>1, <2>2, <2>3 DEF Consistent
<1>10. \A d \in Calls \ {c} : stage'[d] = stage[d] /\ assembled'[d] = assembled[d]
  BY <1>1, <1>2 DEF TypeOK
<1>11. UnansweredInv'
  BY <1>1 DEF DeliveryInv, UnansweredInv
<1> QED BY <1>1, <1>3, <1>4, <1>5, <1>6, <1>7, <1>8, <1>9, <1>10, <1>11, ReceiverKeeps

\* The chunk that arrives is the one after those that have.
LEMMA ReceiveChunkKeeps ==
    ASSUME DeliveryInv, NEW c \in Calls, ReceiveChunk(c)
    PROVE  DeliveryInv'
<1>1. PICK m \in wire :
          /\ m.kind = "chunk" /\ m.call = c /\ stage[c] = "open"
          /\ wire' = (wire \ {m}) \cup Reply(Msg("chunkAck", c, m.index))
          /\ IF m.index = EOF(c)
             THEN stage' = [stage EXCEPT ![c] = "whole"] /\ assembled' = assembled
             ELSE assembled' = [assembled EXCEPT ![c] = Append(@, m.index)] /\ stage' = stage
          /\ UNCHANGED <<dispatchVars, sender, next, unanswered, callOf>>
  BY DEF ReceiveChunk, senderVars
<1>2. TypeOK /\ ReceiverInv /\ Consistent(c)
  BY DEF DeliveryInv
<1>3. PICK i \in Nat : m = Msg("chunk", c, i) /\ m.index = i
  BY <1>1, <1>2 DEF TypeOK, Messages, Msg
<1>4. /\ sender[c] \in {"streaming", "failed"}
      /\ i = next[c] /\ i = Len(assembled[c]) /\ i <= EOF(c)
      /\ assembled[c] \in Seq(Nat) /\ EOF(c) \in Nat
  BY <1>1, <1>2, <1>3, CallsAssumption DEF Consistent, WireInv, TransferInv, TypeOK, EOF
<1>5. D!DispatcherInv' /\ Dispatcher!TypeOK'
  BY <1>1, DispatcherStep DEF DeliveryInv
<1>6. /\ wire' \subseteq (wire \ {m}) \cup {Msg("chunkAck", c, i)}
      /\ Msg("chunkAck", c, i) \in Messages
      /\ Msg("chunkAck", c, i) \in wire' => Msg("chunkAck", c, i) \in wire \/ sender[c] = "streaming"
  BY <1>1, <1>3, <1>4 DEF Reply, Msg, Messages, Replies, Waiting
<1>7. \A j \in Nat : Msg("chunk", c, j) \notin wire'
  <2> TAKE j \in Nat
  <2>1. SUFFICES ASSUME Msg("chunk", c, j) \in wire' PROVE FALSE
    OBVIOUS
  <2>2. Msg("chunk", c, j) \in wire /\ Msg("chunk", c, j) # m
    BY <1>6, <2>1 DEF Msg
  <2>3. j = next[c]
    BY <1>2, <2>2 DEF Consistent, WireInv
  <2> QED BY <1>3, <1>4, <2>2, <2>3
<1>8. \A j \in Nat : Msg("chunkAck", c, j) \notin wire
  BY <1>1, <1>2, <1>3 DEF Consistent, WireInv
<1>9. ASSUME NEW j \in Nat, Msg("chunkAck", c, j) \in wire'
      PROVE  j = i /\ sender[c] = "streaming"
  BY <1>6, <1>8, <1>9 DEF Msg
<1>10. /\ \A kind \in {"request", "accepted", "slow"} :
              Msg(kind, c, 0) \in wire' => Msg(kind, c, 0) \in wire
       /\ Msg("request", c, 0) \notin wire
       /\ Msg("accepted", c, 0) \notin wire \cup unanswered
       /\ Msg("slow", c, 0) \notin wire \cup unanswered
  <2>1. \A kind \in {"request", "accepted", "slow"} :
              Msg(kind, c, 0) \in wire' => Msg(kind, c, 0) \in wire
    BY <1>6 DEF Msg
  <2> QED BY <1>1, <1>2, <2>1 DEF Consistent, WireInv, Complete
<1>11. Streamed(c) /\ sender'[c] = sender[c] /\ next'[c] = next[c] /\ rejected' = rejected
       /\ unanswered' = unanswered
  BY <1>1, <1>2 DEF Consistent, TransferInv, dispatchVars
<1>12. CASE i = EOF(c)
  <2>1. /\ stage' = [stage EXCEPT ![c] = "whole"] /\ assembled' = assembled
        /\ stage'[c] = "whole"
    BY <1>1, <1>2, <1>3, <1>12 DEF TypeOK
  <2>2. TypeOK'
    BY <1>1, <1>2, <1>5, <1>6, <2>1 DEF TypeOK
  <2>3. ReceiverInv'
    <3>1. stage[c] \in Busy /\ "whole" \in Busy \cup {"dropped"}
      BY <1>1 DEF Busy
    <3> QED BY <1>1, <1>2, <2>1, <3>1, StageMoves DEF dispatchVars
  <2>4. Consistent(c)'
    <3>1. TransferInv(c)'
      BY <1>2, <1>4, <1>11, <1>12, <2>1 DEF Consistent, TransferInv, Complete
    <3>2. WireInv(c)'
      BY <1>4, <1>7, <1>9, <1>10, <1>11, <2>1 DEF WireInv, Complete
    <3>3. AnswerInv(c)'
      BY <1>4, <1>11 DEF AnswerInv
    <3> QED BY <3>1, <3>2, <3>3 DEF Consistent
  <2>5. \A d \in Calls \ {c} : stage'[d] = stage[d] /\ assembled'[d] = assembled[d]
    BY <1>2, <2>1 DEF TypeOK
  <2>6. UnansweredInv' /\ \A n \in wire' : n \in wire \/ n.call = c
    BY <1>6, <1>11 DEF DeliveryInv, UnansweredInv, Msg
  <2> QED BY <1>1, <1>5, <1>11, <2>2, <2>3, <2>4, <2>5, <2>6, ReceiverKeeps
<1>13. CASE i # EOF(c)
  <2>1. /\ stage' = stage /\ assembled' = [assembled EXCEPT ![c] = Append(@, i)]
        /\ assembled'[c] = Append(assembled[c], i)
    BY <1>1, <1>2, <1>3, <1>13 DEF TypeOK
  <2>2. /\ Len(assembled'[c]) = i + 1 /\ assembled'[c][i + 1] = i
        /\ \A j \in 1..i : assembled'[c][j] = assembled[c][j]
        /\ assembled'[c] \in Seq(Nat)
    BY <1>4, <2>1, AppendProperties
  <2>3. TypeOK'
    <3>1. assembled' \in [Calls -> Seq(Nat)]
      BY <1>2, <2>1, <2>2 DEF TypeOK
    <3> QED BY <1>1, <1>2, <1>5, <1>6, <2>1, <3>1 DEF TypeOK
  <2>4. ReceiverInv'
    BY <1>1, <1>2, <2>1, ReceiverStays DEF dispatchVars
  <2>5. Consistent(c)'
    <3>1. TransferInv(c)'
      <4>1. ASSUME NEW j \in 1..Len(assembled'[c]) PROVE assembled'[c][j] = j - 1
        <5>1. CASE j \in 1..i
          BY <1>2, <1>4, <2>2, <5>1 DEF Consistent, TransferInv
        <5>2. CASE j = i + 1
          BY <2>2, <5>2
        <5> QED BY <1>3, <2>2, <5>1, <5>2
      <4>2. Len(assembled'[c]) <= EOF(c) /\ stage[c] \notin Complete
        BY <1>1, <1>4, <1>13, <2>2 DEF Complete
      <4> QED BY <1>1, <1>4, <1>11, <2>1, <4>1, <4>2 DEF TransferInv
    <3>2. WireInv(c)'
      BY <1>1, <1>4, <1>7, <1>9, <1>10, <1>11, <1>13, <2>1, <2>2 DEF WireInv
    <3>3. AnswerInv(c)'
      BY <1>4, <1>11 DEF AnswerInv
    <3> QED BY <3>1, <3>2, <3>3 DEF Consistent
  <2>6. \A d \in Calls \ {c} : stage'[d] = stage[d] /\ assembled'[d] = assembled[d]
    BY <1>2, <2>1 DEF TypeOK
  <2>7. UnansweredInv' /\ \A n \in wire' : n \in wire \/ n.call = c
    BY <1>6, <1>11 DEF DeliveryInv, UnansweredInv, Msg
  <2> QED BY <1>1, <1>5, <1>11, <2>3, <2>4, <2>5, <2>6, <2>7, ReceiverKeeps
<1> QED BY <1>12, <1>13

LEMMA FinishStepKeeps ==
    ASSUME DeliveryInv, NEW k \in Sockets, Finish(k)
    PROVE  DeliveryInv'
<1>1. PICK n \in executing[k] :
          /\ stage[callOf[n]] \in {"handling", "dropped"}
          /\ stage' = [stage EXCEPT ![callOf[n]] = IF @ = "handling" THEN "done" ELSE @]
  BY DEF Finish
<1>2. /\ Dispatcher!Return(k) /\ wire' = wire /\ sender' = sender /\ next' = next
      /\ unanswered' = unanswered /\ callOf' = callOf /\ assembled' = assembled
  BY DEF Finish, senderVars
<1>3. TypeOK /\ D!DispatcherInv /\ ReceiverInv
  BY DEF DeliveryInv
<1>4. ReceiverInv' /\ callOf[n] \in Calls
  BY <1>1, <1>2, <1>3, FinishKeeps
<1>5. PICK c \in Calls : c = callOf[n]
  BY <1>4
<1>6. D!DispatcherInv' /\ Dispatcher!TypeOK'
  BY <1>2, <1>3, DispatcherStep
<1>7. /\ stage[c] \in {"handling", "dropped"}
      /\ stage'[c] = IF stage[c] = "handling" THEN "done" ELSE "dropped"
      /\ \A d \in Calls \ {c} : stage'[d] = stage[d]
  BY <1>1, <1>3, <1>5 DEF TypeOK
<1>8. TypeOK'
  BY <1>1, <1>2, <1>3, <1>5, <1>6 DEF TypeOK
<1>9. rejected' = rejected
  BY <1>2 DEF Dispatcher!Return
<1>10. Consistent(c)'
  <2>1. Consistent(c)
    BY DEF DeliveryInv
  <2>2. TransferInv(c)'
    BY <1>2, <1>7, <2>1 DEF Consistent, TransferInv, Complete
  <2>3. WireInv(c)'
    BY <1>2, <1>7, <1>9, <2>1 DEF Consistent, WireInv, Complete
  <2>4. AnswerInv(c)'
    BY <1>2, <1>7, <1>9, <2>1 DEF Consistent, AnswerInv, Complete
  <2> QED BY <2>2, <2>3, <2>4 DEF Consistent
<1>11. UnansweredInv'
  BY <1>2 DEF DeliveryInv, UnansweredInv
<1> QED BY <1>2, <1>4, <1>6, <1>7, <1>8, <1>9, <1>10, <1>11, ReceiverKeeps

\* The pump stops, a worker leaves: no message is touched.
LEMMA IdleKeeps ==
    ASSUME DeliveryInv, StopPump \/ Idle \/ UNCHANGED vars
    PROVE  DeliveryInv'
<1>1. /\ sender' = sender /\ next' = next /\ wire' = wire
      /\ unanswered' = unanswered /\ callOf' = callOf
      /\ stage' = stage /\ assembled' = assembled
  BY DEF StopPump, Idle, vars, senderVars, receiverVars
<1>2. \/ \E k \in Sockets : Dispatcher!Leave(k)
      \/ Dispatcher!StopPump \/ Dispatcher!WaitReturns \/ UNCHANGED dispatchVars
  BY DEF StopPump, Idle, vars, Dispatcher!Stopped, Dispatcher!vars, dispatchVars
<1>3. D!DispatcherInv' /\ Dispatcher!TypeOK'
  BY <1>2, DispatcherStep DEF DeliveryInv
<1>4. UNCHANGED <<queues, executing, received, rejected>>
  BY <1>2 DEF Dispatcher!Leave, Dispatcher!StopPump, Dispatcher!WaitReturns, dispatchVars
<1>5. TypeOK'
  BY <1>1, <1>3 DEF DeliveryInv, TypeOK
<1>6. ReceiverInv'
  BY <1>1, <1>4, ReceiverStays DEF DeliveryInv
<1>7. ASSUME NEW c \in Calls PROVE Consistent(c)'
  <2>1. Consistent(c)
    BY DEF DeliveryInv
  <2> QED BY <1>1, <1>4, <2>1, CallStays
<1>8. UnansweredInv'
  BY <1>1 DEF DeliveryInv, UnansweredInv
<1> QED BY <1>3, <1>5, <1>6, <1>7, <1>8 DEF DeliveryInv

-----------------------------------------------------------------------------
\* Through losses, delays, timeouts and a receiver that stops, the two ends, the
\* network and the workers agree on every call (message.go, all functions).
THEOREM DeliveryIsConsistent == Spec => []DeliveryInv
<1>1. Init => DeliveryInv
  <2> SUFFICES ASSUME Init PROVE DeliveryInv
    OBVIOUS
  <2>1. /\ Dispatcher!Init /\ wire = {} /\ unanswered = {} /\ callOf = <<>>
        /\ sender = [c \in Calls |-> "idle"] /\ next = [c \in Calls |-> 0]
        /\ stage = [c \in Calls |-> "underway"] /\ assembled = [c \in Calls |-> <<>>]
    BY DEF Init
  <2>2. D!DispatcherInv
    <3>1. D!Init
      BY <2>1 DEF D!Init, Dispatcher!Init
    <3> QED BY <3>1, SizesAssumption, D!InitDispatcher
  <2>3. TypeOK
    BY <2>1, <2>2, DispatcherFacts DEF TypeOK
  <2>4. /\ received = 0 /\ \A k \in Sockets : queues[k] = <<>> /\ executing[k] = {}
    BY <2>1 DEF Dispatcher!Init
  <2>5. ReceiverInv
    BY <2>1, <2>4 DEF ReceiverInv, CallInv, QueueInv, PlaceInv, OrderInv
  <2>6. ASSUME NEW c \in Calls PROVE Consistent(c)
    <3>1. EOF(c) \in Nat
      BY CallsAssumption DEF EOF
    <3>2. TransferInv(c)
      BY <2>1, <3>1 DEF TransferInv, Complete
    <3>3. WireInv(c) /\ AnswerInv(c)
      BY <2>1 DEF WireInv, AnswerInv
    <3> QED BY <3>2, <3>3 DEF Consistent
  <2>7. UnansweredInv
    BY <2>1 DEF UnansweredInv
  <2> QED BY <2>2, <2>3, <2>5, <2>6, <2>7 DEF DeliveryInv
<1>2. DeliveryInv /\ [Next]_vars => DeliveryInv'
  <2> SUFFICES ASSUME DeliveryInv, [Next]_vars PROVE DeliveryInv'
    OBVIOUS
  <2>1. ASSUME NEW c \in Calls, SenderStep(c) PROVE DeliveryInv'
    BY <2>1, ReceiveAckKeeps, StartStreamKeeps, ReceiveChunkAckKeeps, GiveUpKeeps DEF SenderStep
  <2>2. ASSUME NEW c \in Calls, TransferStep(c) PROVE DeliveryInv'
    BY <2>2, ReceiveChunkKeeps, AbandonKeeps, HandleKeeps DEF TransferStep
  <2>3. ASSUME PumpStep PROVE DeliveryInv'
    BY <2>3, RespondKeeps, RefuseSlowKeeps, AcceptKeeps DEF PumpStep
  <2> QED BY <2>1, <2>2, <2>3, LoseKeeps, RequestKeeps, BeginStepKeeps, FinishStepKeeps, IdleKeeps
          DEF Next
<1> QED BY <1>1, <1>2, PTL DEF Spec

\* Every message is in one of its stages, at both ends, in the network and in
\* the queues (message.go).
THEOREM DeliveryTypesAreCorrect == Spec => []TypeOK
<1>1. DeliveryInv => TypeOK
  BY DEF DeliveryInv
<1> QED BY <1>1, DeliveryIsConsistent, PTL

\* A handler gets each payload whole and in order, although receiveChunks
\* compares no index (message.go:178).
THEOREM PayloadsAreWhole == Spec => []DeliveredWhole
<1>1. DeliveryInv => DeliveredWhole
  <2> SUFFICES ASSUME DeliveryInv, NEW c \in Calls, stage[c] \in Complete
               PROVE  assembled[c] = [i \in 1..Chunks[c] |-> i - 1]
    BY DEF DeliveredWhole
  <2>1. /\ assembled[c] \in Seq(Nat) /\ Len(assembled[c]) = Chunks[c]
        /\ \A i \in 1..Chunks[c] : assembled[c][i] = i - 1
    BY DEF DeliveryInv, Consistent, TransferInv, TypeOK, EOF
  <2> QED BY <2>1, LenProperties
<1> QED BY <1>1, DeliveryIsConsistent, PTL

\* The messages of a socket reach the handler in the order they arrived in,
\* through transfers that take long and transfers that fail (transport.go:32-33).
THEOREM HandlersRunInOrder == Spec => []HandledInOrder
<1>1. DeliveryInv => HandledInOrder
  <2> SUFFICES ASSUME DeliveryInv, NEW n \in 1..Len(callOf), NEW m \in 1..(n - 1),
                      SocketOf[callOf[m]] = SocketOf[callOf[n]], stage[callOf[n]] \in Complete
               PROVE  stage[callOf[m]] \in {"refused", "done", "dropped"}
    BY DEF HandledInOrder
  <2>1. n \in 1..received /\ OrderInv
    BY DEF DeliveryInv, ReceiverInv, CallInv
  <2>2. stage[callOf[n]] \in Taken
    BY DEF Complete, Taken
  <2> QED BY <2>1, <2>2 DEF OrderInv, Finished
<1> QED BY <1>1, DeliveryIsConsistent, PTL

\* A stream that its sender has given up before the last chunk is never handled
\* (message.go:171-175).
THEOREM AbortedStreamsAreDropped == Spec => []AbortedIsNotHandled
<1>1. DeliveryInv => AbortedIsNotHandled
  <2> SUFFICES ASSUME DeliveryInv, NEW c \in Calls, stage[c] \in Complete
               PROVE  ~(next[c] < EOF(c))
    BY DEF AbortedIsNotHandled
  <2>1. next[c] = EOF(c) /\ next[c] \in Nat
    BY DEF DeliveryInv, Consistent, TransferInv, TypeOK
  <2> QED BY <2>1
<1> QED BY <1>1, DeliveryIsConsistent, PTL

\* What a call returns is true of its message: success of one that will be
\* handled, ErrSlowConsumer of one that nobody will handle (message.go:187-188,
\* 216, 241-246).
THEOREM AnswersAreTrue == Spec => [](OkMeansTaken /\ SlowMeansRefused)
<1>1. DeliveryInv => OkMeansTaken /\ SlowMeansRefused
  BY DEF DeliveryInv, Consistent, AnswerInv, OkMeansTaken, SlowMeansRefused
<1> QED BY <1>1, DeliveryIsConsistent, PTL

-----------------------------------------------------------------------------
\* The fate of a message, by the stage it is in.
FateOf(s) ==
    CASE s = "underway" -> "underway"
      [] s = "refused" -> "refused"
      [] s \in {"queued", "open", "whole"} -> "accepted"
      [] s \in {"handling", "done"} -> "handled"
      [] s = "dropped" -> "abandoned"

\* What a step that moves one message does to the fates of all.
LEMMA FateMoves ==
    ASSUME TypeOK, NEW c \in Calls, NEW s, stage' = [stage EXCEPT ![c] = s]
    PROVE  /\ Fate[c] = FateOf(stage[c])
           /\ Fate' = [Fate EXCEPT ![c] = FateOf(s)]
<1>1. Fate = [d \in Calls |-> FateOf(stage[d])] /\ Fate' = [d \in Calls |-> FateOf(stage'[d])]
  BY DEF Fate, FateOf
<1>2. stage'[c] = s /\ \A d \in Calls : d # c => stage'[d] = stage[d]
  BY DEF TypeOK
<1> HIDE DEF FateOf
<1> QED BY <1>1, <1>2

\* What a step that moves one sender does to the answers of all.
LEMMA AnswerMoves ==
    ASSUME TypeOK, NEW c \in Calls, Waiting(c) \/ sender[c] = "idle",
           NEW s, sender' = [sender EXCEPT ![c] = s]
    PROVE  /\ Answer[c] = "none"
           /\ Answer' = [Answer EXCEPT ![c] = IF s \in {"idle", "requesting", "streaming"}
                                              THEN "none" ELSE s]
BY DEF Answer, Waiting, TypeOK

LEMMA FateStays == ASSUME stage' = stage PROVE Fate' = Fate
BY DEF Fate

LEMMA AnswerStays == ASSUME sender' = sender PROVE Answer' = Answer
BY DEF Answer

\* Each step of the protocol is one that AtMostOnce allows, or none to it.
LEMMA PromiseStep ==
    ASSUME DeliveryInv, [Next]_vars
    PROVE  [Promise!Next]_(Promise!vars)
<1>1. TypeOK /\ \A c \in Calls : Consistent(c)
  BY DEF DeliveryInv
<1> DEFINE Step == \/ Promise!Next
                   \/ Fate' = Fate /\ Answer' = Answer
<1> SUFFICES Step
  BY DEF Promise!vars
<1>2. ASSUME NEW m \in wire, Lose(m) PROVE Step
  BY <1>2, FateStays, AnswerStays DEF Lose, senderVars, receiverVars
<1>3. ASSUME NEW c \in Calls, Request(c) PROVE Step
  <2>1. stage' = stage /\ sender[c] = "idle" /\ sender' = [sender EXCEPT ![c] = "requesting"]
    BY <1>3 DEF Request, receiverVars
  <2>2. Answer[c] = "none" /\ Answer' = [Answer EXCEPT ![c] = "none"]
    BY <1>1, <2>1, AnswerMoves
  <2>3. Answer' = Answer
    BY <2>2 DEF Answer
  <2> QED BY <2>1, <2>3, FateStays
<1>4. ASSUME NEW c \in Calls, ReceiveAck(c) PROVE Step
  <2>1. PICK kind \in {"accepted", "slow"} :
            /\ Msg(kind, c, 0) \in wire /\ sender[c] = "requesting"
            /\ sender' = [sender EXCEPT ![c] = Result(kind)] /\ stage' = stage
    BY <1>4 DEF ReceiveAck, receiverVars
  <2>2. Answer[c] = "none" /\ Fate' = Fate
    BY <1>1, <2>1, AnswerMoves, FateStays DEF Waiting
  <2>3. CASE kind = "accepted"
    <3>1. stage[c] \in Complete \cup {"queued"}
      BY <1>1, <2>1, <2>3 DEF Consistent, WireInv
    <3>2. Fate[c] \in {"accepted", "handled"}
      BY <3>1 DEF Fate, Complete
    <3>3. sender' = [sender EXCEPT ![c] = "ok"]
      BY <2>1, <2>3 DEF Result
    <3>4. Answer' = [Answer EXCEPT ![c] = "ok"]
      BY <1>1, <2>1, <3>3, AnswerMoves DEF Waiting
    <3>5. Promise!Succeed(c)
      BY <2>2, <3>2, <3>4 DEF Promise!Succeed, Promise!Return
    <3> QED BY <3>5 DEF Promise!Next
  <2>4. CASE kind = "slow"
    <3>1. stage[c] = "refused"
      BY <1>1, <2>1, <2>4 DEF Consistent, WireInv
    <3>2. Fate[c] = "refused"
      BY <3>1 DEF Fate
    <3>3. sender' = [sender EXCEPT ![c] = "slow"]
      BY <2>1, <2>4 DEF Result
    <3>4. Answer' = [Answer EXCEPT ![c] = "slow"]
      BY <1>1, <2>1, <3>3, AnswerMoves DEF Waiting
    <3>5. Promise!Rejected(c)
      BY <2>2, <3>2, <3>4 DEF Promise!Rejected, Promise!Return
    <3> QED BY <3>5 DEF Promise!Next
  <2> QED BY <2>3, <2>4
<1>5. ASSUME NEW c \in Calls, StartStream(c) PROVE Step
  <2>1. /\ stage' = stage /\ sender[c] = "requesting"
        /\ sender' = [sender EXCEPT ![c] = "streaming"]
    BY <1>5 DEF StartStream, receiverVars
  <2>2. Answer[c] = "none" /\ Answer' = [Answer EXCEPT ![c] = "none"]
    BY <1>1, <2>1, AnswerMoves DEF Waiting
  <2>3. Answer' = Answer
    BY <2>2 DEF Answer
  <2> QED BY <2>1, <2>3, FateStays
<1>6. ASSUME NEW c \in Calls, ReceiveChunkAck(c) PROVE Step
  <2>1. /\ stage' = stage /\ sender[c] = "streaming" /\ Msg("chunkAck", c, next[c]) \in wire
        /\ \/ next[c] = EOF(c) /\ sender' = [sender EXCEPT ![c] = "ok"]
           \/ sender' = sender
    BY <1>6 DEF ReceiveChunkAck, receiverVars
  <2>2. Fate' = Fate
    BY <2>1, FateStays
  <2>3. CASE next[c] = EOF(c) /\ sender' = [sender EXCEPT ![c] = "ok"]
    <3>1. stage[c] \in Complete
      BY <1>1, <2>1, <2>3 DEF Consistent, WireInv, TypeOK
    <3>2. Fate[c] \in {"accepted", "handled"}
      BY <3>1 DEF Fate, Complete
    <3>3. Answer[c] = "none" /\ Answer' = [Answer EXCEPT ![c] = "ok"]
      BY <1>1, <2>1, <2>3, AnswerMoves DEF Waiting
    <3>4. Promise!Succeed(c)
      BY <2>2, <3>2, <3>3 DEF Promise!Succeed, Promise!Return
    <3> QED BY <3>4 DEF Promise!Next
  <2>4. CASE sender' = sender
    BY <2>2, <2>4, AnswerStays
  <2> QED BY <2>1, <2>3, <2>4
<1>7. ASSUME NEW c \in Calls, GiveUp(c) PROVE Step
  <2>1. stage' = stage /\ Waiting(c) /\ sender' = [sender EXCEPT ![c] = "failed"]
    BY <1>7 DEF GiveUp, receiverVars
  <2>2. Answer[c] = "none" /\ Answer' = [Answer EXCEPT ![c] = "failed"]
    BY <1>1, <2>1, AnswerMoves
  <2>3. Promise!Fail(c)
    BY <2>1, <2>2, FateStays DEF Promise!Fail, Promise!Return
  <2> QED BY <2>3 DEF Promise!Next
<1>8. ASSUME NEW c \in Calls, RefuseSlow(c) PROVE Step
  <2>1. /\ stage' = [stage EXCEPT ![c] = "refused"] /\ sender' = sender /\ NextMsg(c)
    BY <1>8 DEF RefuseSlow, senderVars
  <2>2. stage[c] = "underway"
    BY <2>1, Requested
  <2>3. Fate[c] = "underway" /\ Fate' = [Fate EXCEPT ![c] = "refused"]
    BY <1>1, <2>1, <2>2, FateMoves DEF FateOf
  <2>4. Promise!Refuse(c)
    BY <2>1, <2>3, AnswerStays DEF Promise!Refuse, Promise!Become
  <2> QED BY <2>4 DEF Promise!Next
<1>9. ASSUME NEW c \in Calls, Accept(c) PROVE Step
  <2>1. /\ stage' = [stage EXCEPT ![c] = "queued"] /\ sender' = sender /\ NextMsg(c)
    BY <1>9 DEF Accept, senderVars
  <2>2. stage[c] = "underway"
    BY <2>1, Requested
  <2>3. Fate[c] = "underway" /\ Fate' = [Fate EXCEPT ![c] = "accepted"]
    BY <1>1, <2>1, <2>2, FateMoves DEF FateOf
  <2>4. Promise!Accept(c)
    BY <2>1, <2>3, AnswerStays DEF Promise!Accept, Promise!Become
  <2> QED BY <2>4 DEF Promise!Next
<1>10. ASSUME respondAck PROVE Step
  BY <1>10, FateStays, AnswerStays DEF respondAck, senderVars
<1>11. ASSUME NEW k \in Sockets, Begin(k) PROVE Step
  <2>1. PICK c, s : /\ c = callOf[Head(queues[k])]
                    /\ s = IF Streamed(c) THEN "open" ELSE "whole"
    OBVIOUS
  <2>2. stage' = [stage EXCEPT ![c] = s] /\ sender' = sender
    BY <1>11, <2>1 DEF Begin, senderVars
  <2>3. s \in {"open", "whole"}
    BY <2>1
  <2>4. c \in Calls /\ stage[c] = "queued"
    <3>1. Dispatcher!Start(k) /\ callOf' = callOf
      BY <1>11 DEF Begin
    <3> QED BY <1>1, <2>1, <2>2, <2>3, <3>1, BeginKeeps DEF DeliveryInv
  <2>5. Fate[c] = "accepted" /\ Fate' = [Fate EXCEPT ![c] = "accepted"]
    BY <1>1, <2>2, <2>3, <2>4, FateMoves DEF FateOf
  <2>6. Fate' = Fate
    BY <2>5 DEF Fate
  <2> QED BY <2>2, <2>6, AnswerStays
<1>12. ASSUME NEW c \in Calls, ReceiveChunk(c) PROVE Step
  <2>1. /\ stage[c] = "open" /\ sender' = sender
        /\ stage' = stage \/ stage' = [stage EXCEPT ![c] = "whole"]
    BY <1>12 DEF ReceiveChunk, senderVars
  <2>2. CASE stage' = [stage EXCEPT ![c] = "whole"]
    <3>1. Fate[c] = "accepted" /\ Fate' = [Fate EXCEPT ![c] = "accepted"]
      BY <1>1, <2>1, <2>2, FateMoves DEF FateOf
    <3> QED BY <2>1, <3>1, AnswerStays DEF Fate
  <2> QED BY <2>1, <2>2, FateStays, AnswerStays
<1>13. ASSUME NEW c \in Calls, AbandonStream(c) PROVE Step
  <2>1. /\ stage[c] = "open" /\ sender' = sender
        /\ stage' = [stage EXCEPT ![c] = "dropped"] /\ sender[c] # "ok"
    BY <1>13, AbandonKeeps DEF AbandonStream, senderVars
  <2>2. Fate[c] = "accepted" /\ Fate' = [Fate EXCEPT ![c] = "abandoned"]
    BY <1>1, <2>1, FateMoves DEF FateOf
  <2>3. Answer[c] # "ok"
    BY <2>1 DEF Answer
  <2>4. Promise!Abandon(c)
    BY <2>1, <2>2, <2>3, AnswerStays DEF Promise!Abandon, Promise!Become
  <2> QED BY <2>4 DEF Promise!Next
<1>14. ASSUME NEW c \in Calls, Handle(c) PROVE Step
  <2>1. /\ stage[c] = "whole" /\ sender' = sender
        /\ stage' = [stage EXCEPT ![c] = "handling"]
    BY <1>14 DEF Handle, senderVars
  <2>2. Fate[c] = "accepted" /\ Fate' = [Fate EXCEPT ![c] = "handled"]
    BY <1>1, <2>1, FateMoves DEF FateOf
  <2>3. Promise!Handle(c)
    BY <2>1, <2>2, AnswerStays DEF Promise!Handle, Promise!Become
  <2> QED BY <2>3 DEF Promise!Next
<1>15. ASSUME NEW k \in Sockets, Finish(k) PROVE Step
  <2>1. PICK n \in executing[k] :
            /\ stage[callOf[n]] \in {"handling", "dropped"}
            /\ stage' = [stage EXCEPT ![callOf[n]] = IF @ = "handling" THEN "done" ELSE @]
    BY <1>15 DEF Finish
  <2>2. sender' = sender /\ Dispatcher!Return(k) /\ callOf' = callOf
    BY <1>15 DEF Finish, senderVars
  <2>3. callOf[n] \in Calls
    BY <1>1, <2>1, <2>2, FinishKeeps DEF DeliveryInv
  <2>4. PICK c \in Calls : c = callOf[n]
    BY <2>3
  <2>5. PICK s \in {"done", "dropped"} :
            stage' = [stage EXCEPT ![c] = s] /\ FateOf(stage[c]) = FateOf(s)
    BY <2>1, <2>4 DEF FateOf
  <2>6. Fate' = [Fate EXCEPT ![c] = Fate[c]]
    BY <1>1, <2>5, FateMoves
  <2> QED BY <2>2, <2>6, AnswerStays DEF Fate
<1>16. ASSUME StopPump \/ Idle \/ UNCHANGED vars PROVE Step
  BY <1>16, FateStays, AnswerStays DEF StopPump, Idle, vars, senderVars, receiverVars
<1> HIDE DEF Step
<1> QED BY <1>2, <1>3, <1>4, <1>5, <1>6, <1>7, <1>8, <1>9, <1>10, <1>11, <1>12, <1>13,
           <1>14, <1>15, <1>16 DEF Next, SenderStep, PumpStep, TransferStep

\* What a caller of MessageService or MessageGateway may rely on, for any number
\* of calls: handled at most once, success only of what has been or will be
\* handled, ErrSlowConsumer only of what will not (transport.go:45-54).
THEOREM DeliveryKeepsItsPromise == Spec => KeepsPromise
<1>1. Init => Promise!Init
  <2> SUFFICES ASSUME Init PROVE Promise!Init
    OBVIOUS
  <2>1. stage = [c \in Calls |-> "underway"] /\ sender = [c \in Calls |-> "idle"]
    BY DEF Init
  <2>2. Fate = [c \in Calls |-> "underway"]
    BY <2>1 DEF Fate
  <2>3. Answer = [c \in Calls |-> "none"]
    BY <2>1 DEF Answer
  <2> QED BY <2>2, <2>3 DEF Promise!Init
<1>2. DeliveryInv /\ [Next]_vars => [Promise!Next]_(Promise!vars)
  BY PromiseStep
<1> QED BY <1>1, <1>2, DeliveryIsConsistent, PTL DEF Spec, KeepsPromise, Promise!Spec

-----------------------------------------------------------------------------
\* The queues and workers of the receiver behave as SocketDispatcher says, so
\* that what is proved there (order, no stranded work, bounds) holds of them.
THEOREM ReceiverIsADispatcher == Spec => Dispatcher!Spec
<1>1. Init => Dispatcher!Init
  BY DEF Init
<1>2. [Next]_vars => [Dispatcher!Next]_(Dispatcher!vars)
  <2> SUFFICES ASSUME [Next]_vars
               PROVE  Dispatcher!Next \/ UNCHANGED dispatchVars
    BY DEF Dispatcher!vars, dispatchVars
  <2>1. ASSUME NEW c \in Calls, SenderStep(c) \/ TransferStep(c) \/ Request(c)
        PROVE  UNCHANGED dispatchVars
    BY <2>1 DEF SenderStep, ReceiveAck, StartStream, ReceiveChunkAck, GiveUp, TransferStep,
                ReceiveChunk, AbandonStream, Handle, Request
  <2>2. ASSUME PumpStep PROVE Dispatcher!Next \/ UNCHANGED dispatchVars
    <3>1. \A c \in Calls : SocketOf[c] \in Sockets
      BY CallsAssumption
    <3> QED BY <2>2, <3>1 DEF PumpStep, respondAck, RefuseSlow, Accept, Dispatcher!Next,
                              Dispatcher!dispatch
  <2>3. ASSUME NEW k \in Sockets, Begin(k) \/ Finish(k) PROVE Dispatcher!Next
    BY <2>3 DEF Begin, Finish, Dispatcher!Next
  <2>4. ASSUME StopPump \/ Idle PROVE Dispatcher!Next
    BY <2>4 DEF StopPump, Idle, Dispatcher!Next
  <2>5. ASSUME NEW m \in wire, Lose(m) PROVE UNCHANGED dispatchVars
    BY <2>5 DEF Lose
  <2> QED BY <2>1, <2>2, <2>3, <2>4, <2>5 DEF Next, vars
<1> QED BY <1>1, <1>2, PTL DEF Spec, Dispatcher!Spec

-----------------------------------------------------------------------------
(***************************************************************************)
(* What the receiver has to do, all told.  The invariant speaks of the     *)
(* messages the pump numbered; there are no others.                        *)
(***************************************************************************)
EveryCallIsNumbered ==
    \A c \in Calls : stage[c] # "underway" => \E n \in 1..received : callOf[n] = c

\* The message that gets a number is the one that is not under way any more.
LEMMA ReceivingNumbers ==
    ASSUME DeliveryInv, EveryCallIsNumbered, NEW c \in Calls, NEW s,
           callOf' = Append(callOf, c), stage' = [stage EXCEPT ![c] = s],
           received' = received + 1
    PROVE  EveryCallIsNumbered'
<1>1. callOf \in Seq(Calls) /\ Len(callOf) = received /\ received \in Nat
  BY DEF DeliveryInv, ReceiverInv, CallInv, TypeOK, Dispatcher!TypeOK
<1>2. callOf'[received + 1] = c /\ \A n \in 1..received : callOf'[n] = callOf[n]
  BY <1>1, AppendProperties
<1>3. \A d \in Calls \ {c} : stage'[d] = stage[d]
  BY DEF DeliveryInv, TypeOK
<1> QED BY <1>1, <1>2, <1>3 DEF EveryCallIsNumbered

\* The other steps move messages that have a number.
LEMMA MovesAreNumbered ==
    ASSUME EveryCallIsNumbered, UNCHANGED <<callOf, received>>,
           \A c \in Calls : stage[c] = "underway" => stage'[c] = "underway"
    PROVE  EveryCallIsNumbered'
BY DEF EveryCallIsNumbered

LEMMA NumberedStep ==
    ASSUME DeliveryInv, EveryCallIsNumbered, [Next]_vars
    PROVE  EveryCallIsNumbered'
<1> DEFINE Moves(c) == /\ stage[c] # "underway"
                       /\ \E s : stage' = [stage EXCEPT ![c] = s]
<1>1. stage \in [Calls -> {"underway", "refused", "queued", "open", "whole",
                           "handling", "done", "dropped"}]
  BY DEF DeliveryInv, TypeOK
<1>2. ASSUME UNCHANGED <<callOf, received>>, stage' = stage \/ \E c \in Calls : Moves(c)
      PROVE  EveryCallIsNumbered'
  BY <1>1, <1>2, MovesAreNumbered
<1>3. ASSUME NEW n \in 1..received PROVE callOf[n] \in Calls /\ stage[callOf[n]] # "underway"
  BY Numbered DEF DeliveryInv, ReceiverInv, CallInv
<1>4. ASSUME NEW c \in Calls, RefuseSlow(c) \/ Accept(c) PROVE EveryCallIsNumbered'
  <2>1. received' = received + 1
    BY <1>4 DEF RefuseSlow, Accept, Dispatcher!Overflow, Dispatcher!Enqueue
  <2> QED BY <1>4, <2>1, ReceivingNumbers DEF RefuseSlow, Accept
<1>5. ASSUME NEW k \in Sockets, Begin(k) PROVE EveryCallIsNumbered'
  <2> DEFINE n == Head(queues[k])
  <2>1. queues[k] # <<>> /\ UNCHANGED <<callOf, received>>
    BY <1>5 DEF Begin, Dispatcher!Start
  <2>2. n \in 1..received
    <3>1. queues[k] \in Seq(Nat)
      BY DispatcherFacts DEF DeliveryInv, Dispatcher!TypeOK
    <3>2. Len(queues[k]) \in Nat /\ Len(queues[k]) # 0 /\ n = queues[k][1]
      BY <2>1, <3>1, EmptySeq, LenProperties
    <3>3. 1 \in 1..Len(queues[k])
      BY <3>2
    <3> QED BY <3>2, <3>3 DEF DeliveryInv, ReceiverInv, QueueInv
  <2>3. \E s : stage' = [stage EXCEPT ![callOf[n]] = s]
    BY <1>5 DEF Begin
  <2> QED BY <1>2, <1>3, <2>1, <2>2, <2>3
<1>6. ASSUME NEW k \in Sockets, Finish(k) PROVE EveryCallIsNumbered'
  <2>1. PICK w \in executing[k] : \E s : stage' = [stage EXCEPT ![callOf[w]] = s]
    BY <1>6 DEF Finish
  <2>2. w \in 1..received
    BY DEF DeliveryInv, ReceiverInv, QueueInv
  <2>3. UNCHANGED <<callOf, received>>
    BY <1>6 DEF Finish, Dispatcher!Return
  <2> QED BY <1>2, <1>3, <2>1, <2>2, <2>3
<1>7. ASSUME NEW c \in Calls, TransferStep(c) PROVE EveryCallIsNumbered'
  <2>1. stage[c] # "underway" /\ (stage' = stage \/ \E s : stage' = [stage EXCEPT ![c] = s])
    BY <1>7 DEF TransferStep, ReceiveChunk, AbandonStream, Handle
  <2>2. UNCHANGED <<callOf, received>>
    BY <1>7 DEF TransferStep, ReceiveChunk, AbandonStream, Handle, dispatchVars
  <2> QED BY <1>2, <2>1, <2>2
<1>8. ASSUME \/ \E m \in wire : Lose(m)
             \/ \E c \in Calls : Request(c) \/ SenderStep(c)
             \/ respondAck \/ StopPump \/ Idle \/ UNCHANGED vars
      PROVE  EveryCallIsNumbered'
  <2>1. UNCHANGED <<callOf, received, stage>>
    BY <1>8 DEF Lose, Request, SenderStep, ReceiveAck, StartStream, ReceiveChunkAck, GiveUp,
                respondAck, StopPump, Idle, Dispatcher!StopPump, Dispatcher!Leave,
                Dispatcher!WaitReturns, Dispatcher!Stopped, Dispatcher!vars, dispatchVars,
                receiverVars, vars
  <2> QED BY <1>2, <2>1
<1> QED BY <1>4, <1>5, <1>6, <1>7, <1>8 DEF Next, PumpStep

LEMMA CallsAreNumbered == Spec => []EveryCallIsNumbered
<1>1. Init => EveryCallIsNumbered
  BY DEF Init, EveryCallIsNumbered
<1>2. DeliveryInv /\ EveryCallIsNumbered /\ [Next]_vars => EveryCallIsNumbered'
  BY NumberedStep
<1> QED BY <1>1, <1>2, DeliveryIsConsistent, PTL DEF Spec

\* A long transfer holds up its socket and nothing of its socket overtakes it: no
\* second inbox is opened and no handler is called meanwhile (dispatch.go:48-63).
THEOREM SocketsWorkOneByOne == Spec => []OneAtWorkPerSocket
<1>1. DeliveryInv /\ EveryCallIsNumbered => OneAtWorkPerSocket
  <2> SUFFICES ASSUME DeliveryInv, EveryCallIsNumbered, NEW c \in Calls, NEW d \in Calls,
                      SocketOf[c] = SocketOf[d], stage[c] \in Busy, stage[d] \in Busy
               PROVE  c = d
    BY DEF OneAtWorkPerSocket, Busy
  <2>1. PICK m \in 1..received : callOf[m] = c
    BY DEF EveryCallIsNumbered, Busy
  <2>2. PICK n \in 1..received : callOf[n] = d
    BY DEF EveryCallIsNumbered, Busy
  <2>3. m \in executing[SocketOf[c]] /\ n \in executing[SocketOf[c]]
    BY <2>1, <2>2 DEF DeliveryInv, ReceiverInv, PlaceInv
  <2>4. m = n
    BY <2>3, DispatcherFacts, CallsAssumption DEF DeliveryInv
  <2> QED BY <2>1, <2>2, <2>4
<1> QED BY <1>1, CallsAreNumbered, DeliveryIsConsistent, PTL

\* Stopping leaves no message behind that was accepted: each has been handled, or its
\* transfer has failed (message.go:220).
THEOREM StopLeavesNothing == Spec => []StoppedLeavesNothing
<1>1. DeliveryInv /\ EveryCallIsNumbered => StoppedLeavesNothing
  <2> SUFFICES ASSUME DeliveryInv, EveryCallIsNumbered, pump = "stopped", NEW c \in Calls,
                      stage[c] \in Busy \cup {"queued"}
               PROVE  FALSE
    BY DEF StoppedLeavesNothing, DeliveryInv, TypeOK, Busy
  <2> DEFINE k == SocketOf[c]
  <2>1. PICK n \in 1..received : callOf[n] = c
    BY DEF EveryCallIsNumbered, Busy
  <2>2. k \in Sockets /\ PlaceInv(n)
    BY CallsAssumption DEF DeliveryInv, ReceiverInv
  <2>3. D!NoWorker(k) /\ D!SocketInv(k)
    BY <2>2 DEF DeliveryInv, D!DispatcherInv
  <2>4. executing[k] = {} /\ queues[k] = <<>>
    BY <2>3 DEF D!NoWorker, D!SocketInv, D!OneWorker
  <2>5. Len(queues[k]) = 0
    BY <2>4, EmptySeq
  <2> QED BY <2>1, <2>2, <2>4, <2>5 DEF PlaceInv
<1> QED BY <1>1, CallsAreNumbered, DeliveryIsConsistent, PTL

=============================================================================
