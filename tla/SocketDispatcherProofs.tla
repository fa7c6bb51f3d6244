------------------------- MODULE SocketDispatcherProofs -------------------------
(***************************************************************************)
(* Proofs about SocketDispatcher, for any number of sockets and messages   *)
(* and any queue size.  The invariant is local to a socket: its key is in  *)
(* d.queues exactly while it has a worker, and then it has one.            *)
(***************************************************************************)
EXTENDS SocketDispatcher, SequenceTheorems, FiniteSetTheorems, TLAPS

\* The worker of a socket is at the top of its loop, or its work is running.
OneWorker(k) ==
    \/ workers[k] = 1 /\ executing[k] = {}
    \/ workers[k] = 0 /\ \E w \in Nat : executing[k] = {w}

NoWorker(k) == workers[k] = 0 /\ executing[k] = {}

SocketInv(k) ==
    /\ k \in active => OneWorker(k)
    /\ k \notin active => NoWorker(k) /\ queues[k] = <<>>
    /\ accepted[k] = started[k] \o queues[k]
    /\ Len(queues[k]) <= QueueSize

DispatcherInv ==
    /\ TypeOK
    /\ \A k \in Sockets : SocketInv(k)
    /\ pump = "stopped" => \A k \in Sockets : NoWorker(k)

-----------------------------------------------------------------------------
\* Appending to the second of two sequences appends to both in a row.
LEMMA ConcatAppend ==
    \A s, t \in Seq(Nat), x \in Nat : Append(s \o t, x) = s \o Append(t, x)
<1> TAKE s, t \in Seq(Nat), x \in Nat
<1>1. Append(s \o t, x) = (s \o t) \o <<x>>
  BY ConcatProperties, AppendIsConcat
<1>2. Append(t, x) = t \o <<x>>
  BY AppendIsConcat
<1>3. (s \o t) \o <<x>> = s \o (t \o <<x>>)
  <2>1. <<x>> \in Seq(Nat)
    OBVIOUS
  <2> QED BY <2>1, ConcatAssociative
<1> QED BY <1>1, <1>2, <1>3

\* Moving the head of the second sequence to the end of the first changes
\* nothing to both in a row.
LEMMA ConcatMoveHead ==
    ASSUME NEW S, NEW s \in Seq(S), NEW t \in Seq(S), t # <<>>
    PROVE  s \o t = Append(s, Head(t)) \o Tail(t)
<1>1. Head(t) \in S /\ Tail(t) \in Seq(S) /\ <<Head(t)>> \in Seq(S)
  BY HeadTailProperties
<1>2. t = <<Head(t)>> \o Tail(t)
  <2> DEFINE u == <<Head(t)>> \o Tail(t)
  <2>1. u \in Seq(S) /\ Len(u) = Len(t)
    BY <1>1, ConcatProperties, HeadTailProperties
  <2>2. \A i \in 1..Len(t) : u[i] = t[i]
    BY <1>1, ConcatProperties, HeadTailProperties
  <2> QED BY <2>1, <2>2
<1>3. Append(s, Head(t)) = s \o <<Head(t)>>
  BY <1>1, AppendIsConcat
<1>4. (s \o <<Head(t)>>) \o Tail(t) = s \o (<<Head(t)>> \o Tail(t))
  BY <1>1, ConcatAssociative
<1> QED BY <1>2, <1>3, <1>4

\* A dispatcher nobody has used satisfies the invariant.
LEMMA InitDispatcher == Init => DispatcherInv
<1> SUFFICES ASSUME Init PROVE DispatcherInv
  OBVIOUS
<1>1. TypeOK
  BY DEF Init, TypeOK
<1>2. ASSUME NEW k \in Sockets PROVE SocketInv(k)
  <2>1. <<>> = <<>> \o <<>>
    BY ConcatEmptySeq
  <2> QED BY <2>1, QueueSizeAssumption DEF Init, SocketInv, NoWorker
<1> QED BY <1>1, <1>2 DEF Init, DispatcherInv

\* A message that finds the queue full changes no queue.
LEMMA OverflowKeeps ==
    ASSUME DispatcherInv, NEW k \in Sockets, Overflow(k)
    PROVE  DispatcherInv'
<1>1. TypeOK'
  BY DEF DispatcherInv, Overflow, TypeOK
<1>2. ASSUME NEW j \in Sockets PROVE SocketInv(j)'
  BY DEF DispatcherInv, Overflow, SocketInv, OneWorker, NoWorker
<1>3. pump' # "stopped"
  BY DEF Overflow
<1> QED BY <1>1, <1>2, <1>3 DEF DispatcherInv

\* A message that is queued finds the worker of its socket, or spawns it.
LEMMA EnqueueKeeps ==
    ASSUME DispatcherInv, NEW k \in Sockets, Enqueue(k)
    PROVE  DispatcherInv'
<1> USE DEF DispatcherInv, Enqueue
<1>1. received' \in Nat
  BY DEF TypeOK
<1>2. Append(queues[k], received') \in Seq(Nat) /\ Append(accepted[k], received') \in Seq(Nat)
  BY <1>1, AppendProperties DEF TypeOK
<1>3. TypeOK'
  BY <1>1, <1>2 DEF TypeOK
<1>4. SocketInv(k)'
  <2>1. OneWorker(k)'
    BY DEF TypeOK, SocketInv, OneWorker, NoWorker
  <2>2. accepted'[k] = started'[k] \o queues'[k]
    <3>1. started[k] \in Seq(Nat) /\ queues[k] \in Seq(Nat) /\ accepted[k] = started[k] \o queues[k]
      BY DEF TypeOK, SocketInv
    <3>2. /\ accepted'[k] = Append(accepted[k], received')
          /\ queues'[k] = Append(queues[k], received')
      BY Zenon DEF TypeOK
    <3>3. started'[k] = started[k]
      OBVIOUS
    <3>4. Append(started[k] \o queues[k], received') = started[k] \o Append(queues[k], received')
      BY <1>1, <3>1, ConcatAppend
    <3> QED BY <1>1, <3>1, <3>2, <3>3, <3>4
  <2>3. Len(queues'[k]) <= QueueSize
    <3>1. Len(queues'[k]) = Len(queues[k]) + 1
      BY <1>1, AppendProperties DEF TypeOK
    <3> QED BY <3>1, QueueSizeAssumption, LenProperties DEF TypeOK
  <2>4. k \in active'
    OBVIOUS
  <2> QED BY <2>1, <2>2, <2>3, <2>4 DEF SocketInv
<1>5. ASSUME NEW j \in Sockets, j # k PROVE SocketInv(j)'
  BY <1>5 DEF TypeOK, SocketInv, OneWorker, NoWorker
<1> QED BY <1>3, <1>4, <1>5

\* A worker leaves an empty queue, and takes the key with it.
LEMMA LeaveKeeps ==
    ASSUME DispatcherInv, NEW k \in Sockets, Leave(k)
    PROVE  DispatcherInv'
<1> USE DEF DispatcherInv, Leave
<1>1. TypeOK'
  BY DEF TypeOK
<1>2. SocketInv(k)'
  <2>1. k \in active /\ workers[k] = 1 /\ executing[k] = {}
    BY DEF TypeOK, SocketInv, OneWorker, NoWorker
  <2>2. k \notin active' /\ NoWorker(k)'
    BY <2>1 DEF TypeOK, NoWorker
  <2> QED BY <2>2 DEF SocketInv
<1>3. ASSUME NEW j \in Sockets, j # k PROVE SocketInv(j)'
  BY <1>3 DEF TypeOK, SocketInv, OneWorker, NoWorker
<1>4. pump # "stopped"
  BY DEF NoWorker
<1> QED BY <1>1, <1>2, <1>3, <1>4

\* The worker of a socket starts the work at the head of its queue.
LEMMA StartKeeps ==
    ASSUME DispatcherInv, NEW k \in Sockets, Start(k)
    PROVE  DispatcherInv'
<1> USE DEF DispatcherInv, Start
<1>1. /\ Head(queues[k]) \in Nat /\ Tail(queues[k]) \in Seq(Nat)
      /\ Len(Tail(queues[k])) = Len(queues[k]) - 1
  BY HeadTailProperties DEF TypeOK
<1>2. Append(started[k], Head(queues[k])) \in Seq(Nat)
  BY <1>1, AppendProperties DEF TypeOK
<1>3. TypeOK'
  BY <1>1, <1>2 DEF TypeOK
<1>4. SocketInv(k)'
  <2>1. k \in active /\ workers[k] = 1 /\ executing[k] = {}
    BY DEF TypeOK, SocketInv, OneWorker, NoWorker
  <2>2. workers'[k] = 0 /\ executing'[k] = {Head(queues[k])}
    BY <2>1 DEF TypeOK
  <2>3. OneWorker(k)'
    BY <1>1, <2>2 DEF OneWorker
  <2>4. accepted'[k] = started'[k] \o queues'[k]
    <3>1. started[k] \in Seq(Nat) /\ queues[k] \in Seq(Nat) /\ accepted[k] = started[k] \o queues[k]
      BY DEF TypeOK, SocketInv
    <3>2. /\ accepted'[k] = accepted[k]
          /\ queues'[k] = Tail(queues[k])
          /\ started'[k] = Append(started[k], Head(queues[k]))
      BY DEF TypeOK
    <3>3. started[k] \o queues[k] = Append(started[k], Head(queues[k])) \o Tail(queues[k])
      BY <3>1, ConcatMoveHead
    <3> QED BY <3>1, <3>2, <3>3
  <2>5. Len(queues'[k]) <= QueueSize
    BY <1>1, QueueSizeAssumption, LenProperties DEF TypeOK, SocketInv
  <2> QED BY <2>1, <2>3, <2>4, <2>5 DEF SocketInv
<1>5. ASSUME NEW j \in Sockets, j # k PROVE SocketInv(j)'
  BY <1>5 DEF TypeOK, SocketInv, OneWorker, NoWorker
<1>6. pump # "stopped"
  BY DEF NoWorker
<1> QED BY <1>3, <1>4, <1>5, <1>6

\* Work that returns leaves its worker at the top of the loop.
LEMMA ReturnKeeps ==
    ASSUME DispatcherInv, NEW k \in Sockets, Return(k)
    PROVE  DispatcherInv'
<1> USE DEF DispatcherInv, Return
<1>1. TypeOK'
  BY DEF TypeOK
<1>2. SocketInv(k)'
  <2>1. k \in active /\ workers[k] = 0 /\ \E w \in Nat : executing[k] = {w}
    BY DEF TypeOK, SocketInv, OneWorker, NoWorker
  <2>2. workers'[k] = 1 /\ executing'[k] = {}
    BY <2>1 DEF TypeOK
  <2> QED BY <2>1, <2>2 DEF SocketInv, OneWorker
<1>3. ASSUME NEW j \in Sockets, j # k PROVE SocketInv(j)'
  BY <1>3 DEF TypeOK, SocketInv, OneWorker, NoWorker
<1>4. pump # "stopped"
  BY DEF NoWorker
<1> QED BY <1>1, <1>2, <1>3, <1>4

\* The pump changes nothing of a socket; it stops when no worker is left.
LEMMA PumpKeeps ==
    ASSUME DispatcherInv, StopPump \/ WaitReturns \/ UNCHANGED vars
    PROVE  DispatcherInv'
<1>1. TypeOK'
  BY DEF DispatcherInv, StopPump, WaitReturns, vars, TypeOK
<1>2. ASSUME NEW j \in Sockets PROVE SocketInv(j)'
  BY DEF DispatcherInv, StopPump, WaitReturns, vars, SocketInv, OneWorker, NoWorker
<1>3. ASSUME pump' = "stopped", NEW j \in Sockets PROVE NoWorker(j)'
  BY <1>3 DEF DispatcherInv, StopPump, WaitReturns, vars, NoWorker
<1> QED BY <1>1, <1>2, <1>3 DEF DispatcherInv

\* Through every interleaving of dispatch with workers that come, work and
\* leave, a socket has its key, its worker or its work, and its queue in step
\* (dispatch.go, all methods).
THEOREM DispatcherIsConsistent == Spec => []DispatcherInv
<1>1. Init => DispatcherInv
  BY InitDispatcher
<1>2. DispatcherInv /\ [Next]_vars => DispatcherInv'
  BY OverflowKeeps, EnqueueKeeps, LeaveKeeps, StartKeeps, ReturnKeeps, PumpKeeps
     DEF Next, dispatch, Stopped
<1> QED BY <1>1, <1>2, PTL DEF Spec

-----------------------------------------------------------------------------
\* What the counts of the properties are, in the two states of a socket.
LEMMA WorkerCount ==
    ASSUME NEW k \in Sockets
    PROVE  /\ OneWorker(k) => workers[k] + Cardinality(executing[k]) = 1
           /\ NoWorker(k) => workers[k] + Cardinality(executing[k]) = 0
           /\ OneWorker(k) \/ NoWorker(k) => Cardinality(executing[k]) \in {0, 1}
<1>1. ASSUME workers[k] = 1, executing[k] = {}
      PROVE  workers[k] + Cardinality(executing[k]) = 1 /\ Cardinality(executing[k]) = 0
  BY <1>1, FS_EmptySet
<1>2. ASSUME workers[k] = 0, NEW w, executing[k] = {w}
      PROVE  workers[k] + Cardinality(executing[k]) = 1 /\ Cardinality(executing[k]) = 1
  <2>1. Cardinality({w}) = 1
    BY FS_Singleton, Zenon
  <2> QED BY <1>2, <2>1
<1>3. ASSUME workers[k] = 0, executing[k] = {}
      PROVE  workers[k] + Cardinality(executing[k]) = 0 /\ Cardinality(executing[k]) = 0
  BY <1>3, FS_EmptySet
<1> QED BY <1>1, <1>2, <1>3 DEF OneWorker, NoWorker

\* The messages of a socket are handled one at a time, in the order they were
\* accepted in, whatever workers come and go (README.md:465).
THEOREM DispatchIsOrdered == Spec => []OrderedPerSocket
<1>1. DispatcherInv => OrderedPerSocket
  <2> SUFFICES ASSUME DispatcherInv, NEW k \in Sockets
               PROVE  /\ accepted[k] = started[k] \o queues[k]
                      /\ Cardinality(executing[k]) + workers[k] <= 1
    BY DEF OrderedPerSocket
  <2>1. SocketInv(k)
    BY DEF DispatcherInv
  <2>2. OneWorker(k) \/ NoWorker(k)
    BY <2>1 DEF SocketInv
  <2>3. Cardinality(executing[k]) + workers[k] <= 1
    BY <2>2, WorkerCount DEF OneWorker, NoWorker
  <2> QED BY <2>1, <2>3 DEF SocketInv
<1> QED BY <1>1, DispatcherIsConsistent, PTL

\* Accepted work is never left without a worker (dispatch.go:40-43, 53-57).
THEOREM NoWorkIsStranded == Spec => []QueuedHasWorker
<1>1. DispatcherInv => QueuedHasWorker
  BY WorkerCount DEF DispatcherInv, SocketInv, QueuedHasWorker
<1> QED BY <1>1, DispatcherIsConsistent, PTL

\* When serveMessages returns, everything it accepted has been handled
\* (dispatch.go wait, message.go:220).
THEOREM WaitDrains == Spec => []WaitMeansDrained
<1>1. DispatcherInv => WaitMeansDrained
  <2> SUFFICES ASSUME DispatcherInv, pump = "stopped", NEW k \in Sockets
               PROVE  started[k] = accepted[k] /\ executing[k] = {}
    BY DEF WaitMeansDrained
  <2>1. NoWorker(k) /\ SocketInv(k)
    BY DEF DispatcherInv
  <2>2. k \notin active
    BY <2>1 DEF NoWorker, SocketInv, OneWorker
  <2>3. queues[k] = <<>> /\ accepted[k] = started[k] \o <<>>
    BY <2>1, <2>2 DEF SocketInv
  <2>4. started[k] \o <<>> = started[k]
    BY ConcatEmptySeq DEF DispatcherInv, TypeOK
  <2> QED BY <2>1, <2>3, <2>4 DEF NoWorker
<1> QED BY <1>1, DispatcherIsConsistent, PTL

\* A socket holds at most its queue and the message at work (dispatch.go:33-36).
THEOREM BacklogIsBounded == Spec => []BoundedBacklog
<1>1. DispatcherInv => BoundedBacklog
  <2> SUFFICES ASSUME DispatcherInv, NEW k \in Sockets
               PROVE  Outstanding(k) <= QueueSize + 1
    BY DEF BoundedBacklog
  <2>1. SocketInv(k) /\ queues[k] \in Seq(Nat)
    BY DEF DispatcherInv, TypeOK
  <2>2. Cardinality(executing[k]) \in {0, 1}
    BY <2>1, WorkerCount DEF SocketInv
  <2> QED BY <2>1, <2>2, QueueSizeAssumption, LenProperties DEF SocketInv, Outstanding
<1> QED BY <1>1, DispatcherIsConsistent, PTL

\* The queues and workers of the dispatcher keep their types, and only sockets
\* are ever reported as overflowing (dispatch.go).
THEOREM DispatcherTypesAreCorrect == Spec => []TypeOK
<1>1. DispatcherInv => TypeOK
  BY DEF DispatcherInv
<1> QED BY <1>1, DispatcherIsConsistent, PTL

-----------------------------------------------------------------------------
\* A worker that takes a message finds none at work, and the one that returns was
\* the only one: with that every step is one of SerialQueues, or hidden from it.
LEMMA DispatcherStepRefines ==
    ASSUME DispatcherInv, [Next]_vars
    PROVE  Promise!Next \/ UNCHANGED <<received, queues, executing, rejected, pump>>
<1>1. ASSUME NEW k \in Sockets
      PROVE  /\ queues[k] \in Seq(Nat) /\ Len(queues[k]) \in Nat /\ Len(queues[k]) <= QueueSize
             /\ workers[k] > 0 => executing[k] = {}
             /\ \A w \in executing[k] : executing[k] = {w}
  <2>1. SocketInv(k) /\ queues[k] \in Seq(Nat)
    BY DEF DispatcherInv, TypeOK
  <2>2. OneWorker(k) \/ NoWorker(k)
    BY <2>1 DEF SocketInv
  <2> QED BY <2>1, <2>2, LenProperties DEF SocketInv, OneWorker, NoWorker
<1>2. executing \in [Sockets -> SUBSET Nat]
  BY DEF DispatcherInv, TypeOK
<1>3. ASSUME NEW k \in Sockets, Overflow(k) PROVE Promise!Refuse(k)
  BY <1>1, <1>3, QueueSizeAssumption DEF Overflow, Promise!Refuse, Promise!Arrive
<1>4. ASSUME NEW k \in Sockets, Enqueue(k) PROVE Promise!Accept(k)
  BY <1>4 DEF Enqueue, Promise!Accept, Promise!Arrive
<1>5. ASSUME NEW k \in Sockets, Start(k) PROVE Promise!Call(k)
  BY <1>1, <1>2, <1>5 DEF Start, Promise!Call
<1>6. ASSUME NEW k \in Sockets, Return(k) PROVE Promise!Return(k)
  <2>1. PICK w \in executing[k] : executing' = [executing EXCEPT ![k] = @ \ {w}]
    BY <1>6 DEF Return
  <2>2. executing[k] = {w} /\ executing[k] \ {w} = {}
    BY <1>1
  <2> QED BY <1>6, <2>1, <2>2 DEF Return, Promise!Return
<1>7. CASE WaitReturns
  <2>1. ASSUME NEW k \in Sockets PROVE queues[k] = <<>> /\ executing[k] = {}
    <3>1. SocketInv(k) /\ NoWorker(k)
      BY <1>7 DEF DispatcherInv, WaitReturns, NoWorker
    <3> QED BY <3>1 DEF SocketInv, NoWorker, OneWorker
  <2> QED BY <1>7, <2>1 DEF WaitReturns, Promise!Drained, Promise!Next
<1>8. CASE StopPump
  BY <1>8 DEF StopPump, Promise!Stop, Promise!Next
<1>9. ASSUME (\E k \in Sockets : Leave(k)) \/ Stopped \/ UNCHANGED vars
      PROVE  UNCHANGED <<received, queues, executing, rejected, pump>>
  BY <1>9 DEF Leave, Stopped, vars
<1> QED BY <1>3, <1>4, <1>5, <1>6, <1>7, <1>8, <1>9 DEF Next, dispatch, Promise!Next

\* The dispatcher keeps the contract of the transport, for any number of sockets and
\* messages: a socket's messages are handled one by one in the order they arrived in,
\* none is refused while there is room, and none is left when Serve has returned
\* (transport.go:30-33, dispatch.go:28-70).
THEOREM DispatcherIsSerial == Spec => ImplementsSerialQueues
<1>1. Init => Promise!Init
  BY DEF Init, Promise!Init
<1>2. DispatcherInv /\ [Next]_vars => [Promise!Next]_(Promise!vars)
  BY DispatcherStepRefines DEF Promise!vars
<1> QED BY <1>1, <1>2, DispatcherIsConsistent, PTL
        DEF Spec, ImplementsSerialQueues, Promise!Spec

=============================================================================
