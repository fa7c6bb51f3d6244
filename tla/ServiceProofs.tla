----------------------------- MODULE ServiceProofs -----------------------------
(***************************************************************************)
(* Proofs about Service, for any number of sockets, connections, closure   *)
(* handlers and gateways, and any size of mailboxes, queues and batches.   *)
(***************************************************************************)
EXTENDS Service, SequenceTheorems, TLAPS

\* The map of connections.  A socket recorded as closed has no entry.
MapInv ==
    \A k \in Sockets :
        /\ k \in closedSockets => connections[k] = None
        /\ connections[k] # None =>
               /\ socketOf[connections[k]] = k
               /\ once[connections[k]] \in {"open", "closing"}

\* A connection that is in use, or whose onClosed is still to come, is in the map
\* or certain to be closed.  The case "closing" is what makes it inductive: no
\* newer connection can take its place in the map before its onClosed has run.
ConnectionInv ==
    \A c \in Created :
        once[c] \in {"open", "closing"} => connections[socketOf[c]] = c \/ Taken(c)

\* Until a closure or a heartbeat has closed its connection, the socket is
\* recorded as closed.
TaskInv ==
    \A g \in Callers \ {Listener} : task[g] # None => socketOf[task[g]] \in closedSockets

\* What has ended by when in Listen.
ListenInv ==
    /\ toClose # {} \/ task[Listener] # None => phase = "closing"
    /\ phase \in {"closing", "off"} =>
           /\ \A k \in Sockets : backlog[k] = 0 /\ worker[k] = None /\ connections[k] = None
           /\ ~Heartbeating

SafetyInv == MapInv /\ ConnectionInv /\ TaskInv /\ ListenInv

ServiceInv == TypeOK /\ SafetyInv

-----------------------------------------------------------------------------
\* None is no connection, and connections are numbered from 1.
LEMMA CreatedRange ==
    ASSUME TypeOK
    PROVE  Len(once) \in Nat /\ Created = 1..Len(once) /\ None \notin Created
BY LenProperties DEF TypeOK, Created, None

\* Append adds one entry to a function on 1..n and keeps the others.
LEMMA AppendEntry ==
    ASSUME NEW S, NEW n \in Nat, NEW f \in [1..n -> S], NEW x \in S
    PROVE  /\ Append(f, x) \in [1..(n + 1) -> S]
           /\ Append(f, x)[n + 1] = x
           /\ \A i \in 1..n : Append(f, x)[i] = f[i]
<1>1. f \in Seq(S) /\ Len(f) = n
  BY IsASeq, LenProperties
<1>2. Append(f, x) \in Seq(S) /\ Len(Append(f, x)) = n + 1
  BY <1>1, AppendProperties
<1>3. \A i \in 1..n : Append(f, x)[i] = f[i]
  BY <1>1, AppendProperties
<1>4. Append(f, x)[n + 1] = x
  BY <1>1, AppendProperties
<1> QED BY <1>2, <1>3, <1>4, LenProperties

LEMMA InitIsConsistent == Init => ServiceInv
<1> SUFFICES ASSUME Init PROVE ServiceInv
  OBVIOUS
<1>1. DOMAIN once = {} /\ Len(once) = 0
  BY DEF Init
<1>2. TypeOK
  BY <1>1, MailboxSizeAssumption, QueueSizeAssumption DEF Init, TypeOK, Created, None
<1>3. SafetyInv
  BY <1>1, CallersAssumption
  DEF Init, SafetyInv, MapInv, ConnectionInv, TaskInv, ListenInv, Created, Heartbeating, Callers
<1> QED BY <1>2, <1>3 DEF ServiceInv


-----------------------------------------------------------------------------
(***************************************************************************)
(* Messages.                                                               *)
(***************************************************************************)
\* SafetyInv is not about messages, but for those that keep Listen from its end.
LEMMA MessagesAreSafe ==
    ASSUME SafetyInv,
           UNCHANGED <<phase, connections, closedSockets, socketOf, once, task, toClose,
                       heartbeatVars>>,
           phase \in {"closing", "off"} => UNCHANGED workVars
    PROVE  SafetyInv'
<1>1. MapInv' /\ ConnectionInv' /\ TaskInv'
  BY DEF SafetyInv, MapInv, ConnectionInv, TaskInv, Created, Taken
<1>2. ListenInv'
  BY DEF SafetyInv, ListenInv, Heartbeating, heartbeatVars, workVars
<1> QED BY <1>1, <1>2 DEF SafetyInv

LEMMA EnqueueIsConsistent ==
    ASSUME ServiceInv, NEW k \in Sockets, Enqueue(k)
    PROVE  ServiceInv'
<1>1. backlog' \in [Sockets -> 0..QueueSize]
  <2>1. backlog \in [Sockets -> 0..QueueSize]
    BY DEF ServiceInv, TypeOK
  <2>2. backlog[k] < QueueSize /\ backlog' = [backlog EXCEPT ![k] = @ + 1]
    BY DEF Enqueue
  <2> QED BY <2>1, <2>2, QueueSizeAssumption
<1>2. TypeOK'
  <2>1. UNCHANGED <<phase, mapVars, connVars, worker, task, toClose, heartbeatVars, gone>>
    BY DEF Enqueue
  <2> QED BY <1>1, <2>1 DEF ServiceInv, TypeOK, Created, mapVars, connVars, heartbeatVars
<1>3. SafetyInv'
  BY MessagesAreSafe DEF ServiceInv, Enqueue, mapVars, connVars
<1> QED BY <1>2, <1>3 DEF ServiceInv

\* A worker drops a message, or finds a connection for it.
LEMMA DropAndFindAreConsistent ==
    ASSUME ServiceInv, NEW k \in Sockets, Drop(k) \/ Find(k)
    PROVE  ServiceInv'
<1>1. backlog' \in [Sockets -> 0..QueueSize]
  <2>1. backlog \in [Sockets -> 0..QueueSize]
    BY DEF ServiceInv, TypeOK
  <2> QED BY <2>1, QueueSizeAssumption DEF Drop, Find
<1>2. TypeOK'
  <2>1. UNCHANGED <<phase, mapVars, connVars, task, toClose, heartbeatVars, gone>>
    BY DEF Drop, Find
  <2>2. worker' \in [Sockets -> Created \cup {None}]
    BY DEF ServiceInv, TypeOK, Drop, Find
  <2> QED
    BY <1>1, <2>1, <2>2 DEF ServiceInv, TypeOK, Created, mapVars, connVars, heartbeatVars
<1>3. phase \notin {"closing", "off"}
  BY QueueSizeAssumption DEF ServiceInv, SafetyInv, ListenInv, Drop, Find, TypeOK
<1>4. SafetyInv'
  BY <1>3, MessagesAreSafe DEF ServiceInv, Drop, Find, mapVars, connVars
<1> QED BY <1>2, <1>4 DEF ServiceInv

\* HandleMessage ends.
LEMMA HandleMessageIsConsistent ==
    ASSUME ServiceInv, NEW k \in Sockets, Put(k) \/ GiveUp(k)
    PROVE  ServiceInv'
<1>1. worker[k] \in Created
  BY DEF ServiceInv, Put, GiveUp, TypeOK
<1>2. mailbox' \in [Created -> 0..MailboxSize]
  BY <1>1, MailboxSizeAssumption DEF ServiceInv, Put, GiveUp, TypeOK, connVars
<1>3. worker' \in [Sockets -> Created \cup {None}]
  BY DEF ServiceInv, Put, GiveUp, TypeOK
<1>4. TypeOK'
  BY <1>2, <1>3
  DEF ServiceInv, Put, GiveUp, TypeOK, Created, mapVars, connVars, heartbeatVars
<1>5. phase \notin {"closing", "off"}
  BY DEF ServiceInv, SafetyInv, ListenInv, Put, GiveUp
<1>6. SafetyInv'
  BY <1>5, MessagesAreSafe DEF ServiceInv, Put, GiveUp, mapVars, connVars
<1> QED BY <1>4, <1>6 DEF ServiceInv

LEMMA ReadIsConsistent ==
    ASSUME ServiceInv, NEW c \in Conns, Read(c)
    PROVE  ServiceInv'
<1>1. TypeOK'
  BY MailboxSizeAssumption
  DEF ServiceInv, Read, TypeOK, Created, mapVars, workVars, heartbeatVars
<1>2. SafetyInv'
  BY MessagesAreSafe DEF ServiceInv, Read, mapVars, workVars
<1> QED BY <1>1, <1>2 DEF ServiceInv

\* A new connection takes the free entry of its socket.
LEMMA CreateIsConsistent ==
    ASSUME ServiceInv, NEW k \in Sockets, Create(k)
    PROVE  ServiceInv'
<1> DEFINE n == Len(once)
           c == n + 1
<1>1. n \in Nat /\ Created = 1..n /\ None \notin Created /\ c \notin Created
  BY CreatedRange DEF ServiceInv
<1> HIDE DEF n
<1>2. once \in [1..n -> {"open", "closing", "unmapped", "closed"}]
  BY <1>1 DEF ServiceInv, TypeOK, Created
<1>3. /\ socketOf' \in [1..c -> Sockets]
      /\ socketOf'[c] = k
      /\ \A d \in Created : socketOf'[d] = socketOf[d]
  <2>1. socketOf \in [1..n -> Sockets]
    BY <1>1 DEF ServiceInv, TypeOK
  <2>2. Append(socketOf, k) \in [1..(n + 1) -> Sockets]
    BY <1>1, <2>1, AppendEntry
  <2>3. Append(socketOf, k)[n + 1] = k
    BY <1>1, <2>1, AppendEntry
  <2>4. \A d \in 1..n : Append(socketOf, k)[d] = socketOf[d]
    BY <1>1, <2>1, AppendEntry
  <2> QED BY <1>1, <2>2, <2>3, <2>4 DEF Create
<1>4. /\ once' \in [1..c -> {"open", "closing", "unmapped", "closed"}]
      /\ once'[c] = "open"
      /\ \A d \in Created : once'[d] = once[d]
  <2> DEFINE longer == Append(once, "open")
  <2>1. longer \in [1..(n + 1) -> {"open", "closing", "unmapped", "closed"}]
    BY <1>1, <1>2, AppendEntry
  <2>2. longer[n + 1] = "open"
    BY <1>1, <1>2, AppendEntry
  <2>3. \A d \in 1..n : longer[d] = once[d]
    BY <1>1, <1>2, AppendEntry
  <2>4. once' = longer
    BY DEF Create
  <2> HIDE DEF longer
  <2> QED BY <1>1, <2>1, <2>2, <2>3, <2>4
<1>5. mailbox' \in [1..c -> 0..MailboxSize]
  <2>1. 0 \in 0..MailboxSize
    BY MailboxSizeAssumption
  <2>2. mailbox \in [1..n -> 0..MailboxSize]
    BY <1>1 DEF ServiceInv, TypeOK
  <2> QED BY <1>1, <2>1, <2>2, AppendEntry DEF Create
<1>6. once' \in Seq({"open", "closing", "unmapped", "closed"}) /\ Len(once') = c
  BY <1>1, <1>4, IsASeq, LenProperties
<1>7. Created' = 1..c /\ Created' = Created \cup {c}
  BY <1>1, <1>4 DEF Created
<1>8. /\ connections' = [connections EXCEPT ![k] = c]
      /\ worker' = [worker EXCEPT ![k] = c]
  BY <1>6 DEF Create
<1>9. TypeOK'
  <2>1. backlog' \in [Sockets -> 0..QueueSize]
    BY QueueSizeAssumption DEF ServiceInv, Create, TypeOK
  <2>2. /\ connections' \in [Sockets -> Created' \cup {None}]
        /\ worker' \in [Sockets -> Created' \cup {None}]
    BY <1>7, <1>8 DEF ServiceInv, TypeOK
  <2>3. /\ task' \in [Callers -> Created' \cup {None}]
        /\ toClose' \subseteq Created'
    BY <1>7 DEF ServiceInv, TypeOK, Create
  <2>4. socketOf' \in [Created' -> Sockets] /\ mailbox' \in [Created' -> 0..MailboxSize]
    BY <1>3, <1>5, <1>7
  <2> QED BY <1>6, <2>1, <2>2, <2>3, <2>4 DEF ServiceInv, TypeOK, Create, heartbeatVars
<1>10. MapInv'
  BY <1>1, <1>3, <1>4, <1>8 DEF ServiceInv, SafetyInv, MapInv, Create, TypeOK
<1>11. ConnectionInv'
  <2> SUFFICES ASSUME NEW d \in Created', once'[d] \in {"open", "closing"}
               PROVE  connections'[socketOf'[d]] = d \/ Taken(d)'
    BY DEF ConnectionInv
  <2>1. CASE d = c
    BY <2>1, <1>3, <1>8 DEF ServiceInv, TypeOK
  <2>2. CASE d \in Created
    <3>1. connections[socketOf[d]] = d \/ Taken(d)
      BY <2>2, <1>4 DEF ServiceInv, SafetyInv, ConnectionInv
    <3>2. Taken(d) => Taken(d)'
      BY DEF Taken, Create
    <3>3. connections[socketOf[d]] = d => socketOf[d] # k
      BY <2>2, <1>1 DEF Create
    <3> QED BY <2>2, <3>1, <3>2, <3>3, <1>3, <1>8 DEF ServiceInv, TypeOK
  <2> QED BY <2>1, <2>2, <1>7
<1>12. TaskInv'
  BY <1>3 DEF ServiceInv, SafetyInv, TaskInv, TypeOK, Create
<1>13. ListenInv'
  <2>1. phase \notin {"closing", "off"}
    BY QueueSizeAssumption DEF ServiceInv, SafetyInv, ListenInv, Create, TypeOK
  <2> QED BY <2>1 DEF ServiceInv, SafetyInv, ListenInv, Create
<1> QED BY <1>9, <1>10, <1>11, <1>12, <1>13 DEF ServiceInv, SafetyInv

-----------------------------------------------------------------------------
(***************************************************************************)
(* HandleClose and closeConnection.                                        *)
(***************************************************************************)
\* A connection that goes from in use to closing.
LEMMA BecomesClosing ==
    ASSUME ServiceInv, NEW c \in Created, once[c] = "open",
           once' = [once EXCEPT ![c] = "closing"],
           UNCHANGED <<phase, mapVars, socketOf, mailbox, workVars, task, toClose,
                       heartbeatVars, gone>>
    PROVE  ServiceInv'
<1>1. once' \in [Created -> {"open", "closing", "unmapped", "closed"}] /\ Created' = Created
  BY DEF ServiceInv, TypeOK, Created
<1>2. once' \in Seq({"open", "closing", "unmapped", "closed"})
  BY DEF ServiceInv, TypeOK, Created
<1>3. TypeOK'
  BY <1>1, <1>2 DEF ServiceInv, TypeOK, mapVars, workVars, heartbeatVars
<1>4. SafetyInv'
  BY <1>1 DEF ServiceInv, TypeOK, SafetyInv, MapInv, ConnectionInv, TaskInv, ListenInv, Taken,
     Heartbeating, Created, mapVars, workVars, heartbeatVars
<1> QED BY <1>3, <1>4 DEF ServiceInv

LEMMA FailWriteIsConsistent ==
    ASSUME ServiceInv, NEW c \in Conns, FailWrite(c)
    PROVE  ServiceInv'
BY BecomesClosing DEF FailWrite

LEMMA EnterOnceIsConsistent ==
    ASSUME ServiceInv, NEW g \in Callers, EnterOnce(g)
    PROVE  ServiceInv'
<1>1. task[g] \in Created
  BY DEF ServiceInv, EnterOnce, TypeOK
<1> QED BY <1>1, BecomesClosing DEF EnterOnce

LEMMA CancelContextIsConsistent ==
    ASSUME ServiceInv, NEW c \in Conns, CancelContext(c)
    PROVE  ServiceInv'
<1>1. once' \in [Created -> {"open", "closing", "unmapped", "closed"}] /\ Created' = Created
  BY DEF ServiceInv, CancelContext, TypeOK, Created
<1>2. once' \in Seq({"open", "closing", "unmapped", "closed"})
  BY DEF ServiceInv, CancelContext, TypeOK, Created
<1>3. TypeOK'
  BY <1>1, <1>2 DEF ServiceInv, CancelContext, TypeOK, mapVars, workVars, heartbeatVars
<1>4. SafetyInv'
  BY <1>1 DEF ServiceInv, CancelContext, TypeOK, SafetyInv, MapInv, ConnectionInv, TaskInv,
     ListenInv, Taken, Heartbeating, Created, mapVars, workVars, heartbeatVars
<1> QED BY <1>3, <1>4 DEF ServiceInv

\* onClosed takes out of the map no connection but its own: whoever else had
\* the entry, it is not there any more.
LEMMA OnClosedIsConsistent ==
    ASSUME ServiceInv, NEW c \in Conns, OnClosed(c)
    PROVE  ServiceInv'
<1> DEFINE k == socketOf[c]
<1>1. c \in Created /\ k \in Sockets /\ None \notin Created
  BY CreatedRange DEF ServiceInv, OnClosed, TypeOK
<1>2. /\ once' \in [Created -> {"open", "closing", "unmapped", "closed"}]
      /\ once' \in Seq({"open", "closing", "unmapped", "closed"})
      /\ Created' = Created
  BY DEF ServiceInv, OnClosed, TypeOK, Created
<1>3. connections[k] = c \/ connections[k] = None
  <2>1. connections[k] = c \/ Taken(c)
    BY <1>1 DEF ServiceInv, SafetyInv, ConnectionInv, OnClosed
  <2>2. CASE phase = "closing"
    BY <2>2, <1>1 DEF ServiceInv, SafetyInv, ListenInv
  <2>3. CASE phase # "closing" /\ Taken(c)
    <3>1. PICK g \in Callers \ {Listener} : task[g] = c
      BY <2>3, <1>1 DEF ServiceInv, SafetyInv, ListenInv, Taken
    <3>2. k \in closedSockets
      BY <3>1, <1>1 DEF ServiceInv, SafetyInv, TaskInv
    <3> QED BY <3>2, <1>1 DEF ServiceInv, SafetyInv, MapInv
  <2> QED BY <2>1, <2>2, <2>3
<1>4. connections' = [connections EXCEPT ![k] = None]
  BY DEF OnClosed
<1>5. TypeOK'
  BY <1>2, <1>4 DEF ServiceInv, OnClosed, TypeOK, workVars, heartbeatVars
<1>6. MapInv'
  <2> SUFFICES ASSUME NEW j \in Sockets
               PROVE  /\ j \in closedSockets' => connections'[j] = None
                      /\ connections'[j] # None =>
                             /\ socketOf'[connections'[j]] = j
                             /\ once'[connections'[j]] \in {"open", "closing"}
    BY DEF MapInv
  <2>1. CASE j = k
    BY <2>1, <1>1, <1>4 DEF ServiceInv, TypeOK
  <2>2. CASE j # k
    <3>1. connections'[j] = connections[j]
      BY <2>2, <1>4 DEF ServiceInv, TypeOK
    <3>2. connections[j] # None => connections[j] \in Created /\ connections[j] # c
      BY <2>2 DEF ServiceInv, SafetyInv, MapInv, TypeOK
    <3> QED BY <3>1, <3>2, <1>1 DEF ServiceInv, SafetyInv, MapInv, TypeOK, OnClosed, Created
  <2> QED BY <2>1, <2>2
<1>7. ConnectionInv'
  <2> SUFFICES ASSUME NEW d \in Created, once'[d] \in {"open", "closing"}
               PROVE  connections'[socketOf[d]] = d \/ Taken(d)
    BY <1>2 DEF ConnectionInv, OnClosed, Taken
  <2>1. d # c /\ once[d] \in {"open", "closing"}
    BY <1>1 DEF ServiceInv, TypeOK, OnClosed, Created
  <2>2. connections[socketOf[d]] = d \/ Taken(d)
    BY <2>1 DEF ServiceInv, SafetyInv, ConnectionInv
  <2>3. connections[socketOf[d]] = d => socketOf[d] # k
    BY <2>1, <1>1, <1>3
  <2> QED BY <2>2, <2>3, <1>4 DEF ServiceInv, TypeOK
<1>8. TaskInv'
  BY DEF ServiceInv, SafetyInv, TaskInv, OnClosed
<1>9. ListenInv'
  BY <1>4 DEF ServiceInv, SafetyInv, ListenInv, TypeOK, OnClosed, Heartbeating, workVars,
     heartbeatVars
<1> QED BY <1>5, <1>6, <1>7, <1>8, <1>9 DEF ServiceInv, SafetyInv

\* A caller returns from HandleClose: the connection is closed.
LEMMA LeaveOnceIsConsistent ==
    ASSUME ServiceInv, NEW g \in Callers, LeaveOnce(g)
    PROVE  ServiceInv'
<1>1. task' = [task EXCEPT ![g] = None] /\ task' \in [Callers -> Created \cup {None}]
  BY DEF ServiceInv, LeaveOnce, TypeOK
<1>2. TypeOK'
  BY <1>1 DEF ServiceInv, LeaveOnce, TypeOK, Created, mapVars, connVars, workVars, heartbeatVars
<1>3. MapInv'
  BY DEF ServiceInv, SafetyInv, MapInv, LeaveOnce, mapVars, connVars
<1>4. ConnectionInv'
  <2> SUFFICES ASSUME NEW c \in Created, once[c] \in {"open", "closing"}, Taken(c)
               PROVE  Taken(c)'
    BY DEF ServiceInv, SafetyInv, ConnectionInv, LeaveOnce, Created, mapVars, connVars
  <2>1. task[g] # c
    BY DEF LeaveOnce
  <2> QED BY <2>1, <1>1 DEF Taken, LeaveOnce, ServiceInv, TypeOK
<1>5. TaskInv'
  BY <1>1 DEF ServiceInv, SafetyInv, TaskInv, TypeOK, LeaveOnce, mapVars, connVars
<1>6. ListenInv'
  BY <1>1, CallersAssumption DEF ServiceInv, SafetyInv, ListenInv, TypeOK, LeaveOnce, Heartbeating,
     Callers, mapVars, workVars, heartbeatVars
<1> QED BY <1>2, <1>3, <1>4, <1>5, <1>6 DEF ServiceInv, SafetyInv

\* closeConnection by a closure handler or the heartbeat loop.
LEMMA CloseConnectionIsConsistent ==
    ASSUME ServiceInv,
           NEW g \in Callers \ {Listener}, NEW k \in Sockets, closeConnection(g, k),
           UNCHANGED <<phase, connVars, workVars, toClose, gone>>,
           Serving \/ (g # HeartbeatLoop /\ UNCHANGED heartbeatVars)
    PROVE  MapInv' /\ ConnectionInv' /\ TaskInv' /\ ListenInv'
<1>1. /\ connections' = [connections EXCEPT ![k] = None]
      /\ closedSockets' = closedSockets \cup {k}
      /\ task' = [task EXCEPT ![g] = connections[k]]
      /\ task[g] = None
  BY DEF closeConnection
<1>2. MapInv'
  BY <1>1 DEF ServiceInv, SafetyInv, MapInv, TypeOK, connVars
<1>3. ConnectionInv'
  <2> SUFFICES ASSUME NEW c \in Created, once[c] \in {"open", "closing"}
               PROVE  connections'[socketOf[c]] = c \/ Taken(c)'
    BY DEF ConnectionInv, Created, connVars
  <2>1. connections[socketOf[c]] = c \/ Taken(c)
    BY DEF ServiceInv, SafetyInv, ConnectionInv
  <2>2. CASE Taken(c)
    <3>1. c # None
      BY CreatedRange DEF ServiceInv
    <3> QED BY <2>2, <3>1, <1>1 DEF Taken, ServiceInv, TypeOK
  <2>3. CASE connections[socketOf[c]] = c /\ socketOf[c] = k
    BY <2>3, <1>1 DEF Taken, ServiceInv, TypeOK
  <2>4. CASE connections[socketOf[c]] = c /\ socketOf[c] # k
    BY <2>4, <1>1 DEF ServiceInv, TypeOK
  <2> QED BY <2>1, <2>2, <2>3, <2>4
<1>4. TaskInv'
  BY <1>1 DEF ServiceInv, SafetyInv, TaskInv, MapInv, TypeOK, connVars
<1>5. ListenInv'
  <2>1. CASE Serving
    BY <1>1, <2>1 DEF ServiceInv, SafetyInv, ListenInv, TypeOK, Serving
  <2>2. CASE g # HeartbeatLoop /\ UNCHANGED heartbeatVars
    <3>1. \A h \in Callers \ {g} : task'[h] = task[h]
      BY <1>1 DEF ServiceInv, TypeOK
    <3>2. Heartbeating' = Heartbeating
      BY <2>2, <3>1 DEF Heartbeating, heartbeatVars, Callers
    <3>3. phase \in {"closing", "off"} => \A j \in Sockets : connections'[j] = None
      BY <1>1 DEF ServiceInv, SafetyInv, ListenInv, TypeOK
    <3> QED BY <3>1, <3>2, <3>3 DEF ServiceInv, SafetyInv, ListenInv, Callers, workVars
  <2> QED BY <2>1, <2>2
<1> QED BY <1>2, <1>3, <1>4, <1>5

LEMMA HandleClosureIsConsistent ==
    ASSUME ServiceInv, NEW g \in Handlers, NEW k \in Sockets, HandleClosure(g, k)
    PROVE  ServiceInv'
<1>1. g \in Callers \ {Listener} /\ g # HeartbeatLoop
  BY CallersAssumption DEF Callers
<1>2. TypeOK'
  BY <1>1 DEF ServiceInv, HandleClosure, closeConnection, TypeOK, Created, connVars, workVars,
     heartbeatVars
<1>3. MapInv' /\ ConnectionInv' /\ TaskInv' /\ ListenInv'
  BY <1>1, CloseConnectionIsConsistent DEF HandleClosure
<1> QED BY <1>2, <1>3 DEF ServiceInv, SafetyInv

-----------------------------------------------------------------------------
(***************************************************************************)
(* heartbeatLoop and pruneLoop.                                            *)
(***************************************************************************)
LEMMA CloseDeadIsConsistent ==
    ASSUME ServiceInv, NEW k \in Sockets, CloseDead(k)
    PROVE  ServiceInv'
<1>1. HeartbeatLoop \in Callers \ {Listener}
  BY CallersAssumption DEF Callers
<1>2. Serving
  BY DEF ServiceInv, SafetyInv, ListenInv, Heartbeating, CloseDead, TypeOK, Serving
<1>3. TypeOK'
  BY <1>1 DEF ServiceInv, CloseDead, closeConnection, TypeOK, Created, connVars, workVars
<1>4. MapInv' /\ ConnectionInv' /\ TaskInv' /\ ListenInv'
  BY <1>1, <1>2, CloseConnectionIsConsistent DEF CloseDead
<1> QED BY <1>3, <1>4 DEF ServiceInv, SafetyInv

\* While heartbeats are under way Listen is still serving, and asking changes
\* nothing else.
LEMMA AskingIsSafe ==
    ASSUME ServiceInv, Serving,
           UNCHANGED <<phase, mapVars, connVars, workVars, task, toClose>>
    PROVE  SafetyInv'
<1>1. MapInv' /\ ConnectionInv' /\ TaskInv'
  BY DEF ServiceInv, SafetyInv, MapInv, ConnectionInv, TaskInv, Created, Taken, mapVars, connVars
<1>2. ListenInv'
  BY DEF ServiceInv, SafetyInv, ListenInv, Serving
<1> QED BY <1>1, <1>2 DEF SafetyInv

LEMMA HeartbeatIsConsistent ==
    ASSUME ServiceInv, Snapshot \/ HeartbeatSockets \/ AnswerBatch \/ FailBatch
    PROVE  ServiceInv'
<1>1. Serving
  <2>1. CASE Snapshot
    BY <2>1 DEF Snapshot
  <2>2. CASE HeartbeatSockets
    BY <2>2 DEF HeartbeatSockets, ServiceInv, SafetyInv, ListenInv, Heartbeating, TypeOK, Serving
  <2>3. CASE AnswerBatch
    BY <2>3
    DEF AnswerBatch, Batches, ServiceInv, SafetyInv, ListenInv, Heartbeating, TypeOK, Serving
  <2>4. CASE FailBatch
    BY <2>4 DEF FailBatch, ServiceInv, SafetyInv, ListenInv, Heartbeating, TypeOK, Serving
  <2> QED BY <2>1, <2>2, <2>3, <2>4
<1>2. /\ UNCHANGED <<phase, mapVars, connVars, workVars, task, toClose, gone>>
      /\ asking' \subseteq Sockets /\ request' \subseteq Sockets
      /\ unanswered' \subseteq request' /\ dead' \subseteq Sockets
  <2>1. CASE Snapshot
    BY <2>1 DEF Snapshot, ServiceInv, TypeOK
  <2>2. CASE HeartbeatSockets
    BY <2>2 DEF HeartbeatSockets, ServiceInv, TypeOK
  <2>3. CASE AnswerBatch
    BY <2>3 DEF AnswerBatch, Batches, ServiceInv, TypeOK
  <2>4. CASE FailBatch
    BY <2>4 DEF FailBatch, ServiceInv, TypeOK
  <2> QED BY <2>1, <2>2, <2>3, <2>4
<1>3. TypeOK'
  BY <1>2 DEF ServiceInv, TypeOK, Created, mapVars, connVars, workVars
<1>4. SafetyInv'
  BY <1>1, <1>2, AskingIsSafe
<1> QED BY <1>3, <1>4 DEF ServiceInv

\* The record of a closed socket expires.
LEMMA PruneIsConsistent ==
    ASSUME ServiceInv, NEW k \in Sockets, pruneStaleResources(k)
    PROVE  ServiceInv'
<1>1. TypeOK'
  BY DEF ServiceInv, pruneStaleResources, TypeOK, Created, connVars, workVars, heartbeatVars
<1>2. MapInv'
  BY DEF ServiceInv, SafetyInv, MapInv, pruneStaleResources, connVars
<1>3. ConnectionInv'
  BY DEF ServiceInv, SafetyInv, ConnectionInv, Taken, Created, pruneStaleResources, connVars
<1>4. TaskInv'
  BY DEF ServiceInv, SafetyInv, TaskInv, pruneStaleResources, connVars
<1>5. ListenInv'
  BY DEF ServiceInv, SafetyInv, ListenInv, pruneStaleResources, Heartbeating, workVars,
     heartbeatVars
<1> QED BY <1>1, <1>2, <1>3, <1>4, <1>5 DEF ServiceInv, SafetyInv

LEMMA GatewayForgetsIsConsistent ==
    ASSUME ServiceInv, NEW k \in Sockets, GatewayForgets(k)
    PROVE  ServiceInv'
<1>1. TypeOK'
  BY DEF ServiceInv, GatewayForgets, TypeOK, Created, mapVars, connVars, workVars, heartbeatVars
<1>2. SafetyInv'
  BY MessagesAreSafe DEF ServiceInv, GatewayForgets, mapVars, connVars
<1> QED BY <1>1, <1>2 DEF ServiceInv

-----------------------------------------------------------------------------
(***************************************************************************)
(* Listen.                                                                 *)
(***************************************************************************)
LEMMA ListenIsConsistent ==
    ASSUME ServiceInv, Listen \/ Interrupt
    PROVE  ServiceInv'
<1>1. phase' \in {"listening", "stopping"} /\ toClose = {} /\ task[Listener] = None
  BY DEF ServiceInv, SafetyInv, ListenInv, Listen, Interrupt
<1>2. UNCHANGED <<mapVars, connVars, workVars, task, toClose, heartbeatVars, gone>>
  BY DEF Listen, Interrupt
<1>3. TypeOK'
  BY <1>1, <1>2 DEF ServiceInv, TypeOK, Created, mapVars, connVars, workVars, heartbeatVars
<1>4. MapInv' /\ ConnectionInv' /\ TaskInv'
  BY <1>2 DEF ServiceInv, SafetyInv, MapInv, ConnectionInv, TaskInv, Created, Taken, mapVars,
     connVars
<1>5. ListenInv'
  BY <1>1, <1>2 DEF ListenInv
<1> QED BY <1>3, <1>4, <1>5 DEF ServiceInv, SafetyInv

\* closeAllConnections takes every connection that is in the map.
LEMMA CloseAllIsConsistent ==
    ASSUME ServiceInv, closeAllConnections
    PROVE  ServiceInv'
<1>1. /\ toClose' = {connections[k] : k \in Sockets} \ {None}
      /\ connections' = [k \in Sockets |-> None]
      /\ phase' = "closing" /\ phase = "stopping"
      /\ UNCHANGED <<closedSockets, connVars, workVars, task, heartbeatVars, gone>>
  BY DEF closeAllConnections, TakeAllConnections
<1>2. toClose = {}
  BY <1>1 DEF ServiceInv, SafetyInv, ListenInv
<1>3. TypeOK'
  BY <1>1 DEF ServiceInv, TypeOK, Created, connVars, workVars, heartbeatVars
<1>4. MapInv'
  BY <1>1 DEF MapInv
<1>5. ConnectionInv'
  <2> SUFFICES ASSUME NEW c \in Created, once[c] \in {"open", "closing"}
               PROVE  Taken(c)'
    BY <1>1 DEF ConnectionInv, Created, connVars
  <2>1. connections[socketOf[c]] = c \/ Taken(c)
    BY DEF ServiceInv, SafetyInv, ConnectionInv
  <2>2. socketOf[c] \in Sockets /\ c # None
    BY CreatedRange DEF ServiceInv, TypeOK
  <2> QED BY <2>1, <2>2, <1>1, <1>2 DEF Taken
<1>6. TaskInv'
  BY <1>1 DEF ServiceInv, SafetyInv, TaskInv, connVars
<1>7. ListenInv'
  BY <1>1 DEF ListenInv, closeAllConnections, Heartbeating, workVars, heartbeatVars
<1> QED BY <1>3, <1>4, <1>5, <1>6, <1>7 DEF ServiceInv, SafetyInv

LEMMA CloseNextIsConsistent ==
    ASSUME ServiceInv, NEW c \in Conns, CloseNext(c)
    PROVE  ServiceInv'
<1>1. /\ task' = [task EXCEPT ![Listener] = c]
      /\ Listener \in Callers /\ c \in Created /\ phase = "closing"
  BY DEF ServiceInv, CloseNext, TypeOK, Callers
<1>2. TypeOK'
  BY <1>1 DEF ServiceInv, CloseNext, TypeOK, Created, mapVars, connVars, workVars, heartbeatVars
<1>3. MapInv'
  BY DEF ServiceInv, SafetyInv, MapInv, CloseNext, mapVars, connVars
<1>4. ConnectionInv'
  <2> SUFFICES ASSUME NEW d \in Created, Taken(d)
               PROVE  Taken(d)'
    BY DEF ServiceInv, SafetyInv, ConnectionInv, CloseNext, Created, mapVars, connVars
  <2>1. d # None
    BY CreatedRange DEF ServiceInv
  <2> QED BY <2>1, <1>1 DEF Taken, CloseNext, ServiceInv, TypeOK
<1>5. TaskInv'
  BY <1>1 DEF ServiceInv, SafetyInv, TaskInv, TypeOK, CloseNext, mapVars, connVars
<1>6. ListenInv'
  BY <1>1, CallersAssumption DEF ServiceInv, SafetyInv, ListenInv, TypeOK, CloseNext, Heartbeating,
     Callers, mapVars, workVars, heartbeatVars
<1> QED BY <1>2, <1>3, <1>4, <1>5, <1>6 DEF ServiceInv, SafetyInv

LEMMA ReturnIsConsistent ==
    ASSUME ServiceInv, Return
    PROVE  ServiceInv'
<1>1. TypeOK'
  BY DEF ServiceInv, Return, TypeOK, Created, mapVars, connVars, workVars, heartbeatVars
<1>2. MapInv' /\ ConnectionInv' /\ TaskInv'
  BY DEF ServiceInv, SafetyInv, MapInv, ConnectionInv, TaskInv, Return, Created, Taken, mapVars,
     connVars
<1>3. ListenInv'
  BY DEF ServiceInv, SafetyInv, ListenInv, Return, Heartbeating, mapVars, workVars, heartbeatVars
<1> QED BY <1>1, <1>2, <1>3 DEF ServiceInv, SafetyInv

-----------------------------------------------------------------------------
LEMMA NextIsConsistent == ServiceInv /\ [Next]_vars => ServiceInv'
<1> SUFFICES ASSUME ServiceInv, [Next]_vars PROVE ServiceInv'
  OBVIOUS
<1>1. ASSUME NEW k \in Sockets, WorkerStep(k) PROVE ServiceInv'
  BY <1>1, DropAndFindAreConsistent, CreateIsConsistent, HandleMessageIsConsistent DEF WorkerStep
<1>2. ASSUME NEW k \in Sockets, Enqueue(k) PROVE ServiceInv'
  BY <1>2, EnqueueIsConsistent
<1>3. ASSUME NEW k \in Sockets, NEW g \in Handlers, HandleClosure(g, k) PROVE ServiceInv'
  BY <1>3, HandleClosureIsConsistent
<1>4. ASSUME NEW k \in Sockets, pruneStaleResources(k) \/ GatewayForgets(k) PROVE ServiceInv'
  BY <1>4, PruneIsConsistent, GatewayForgetsIsConsistent
<1>5. ASSUME NEW c \in Conns, Read(c) \/ FailWrite(c) \/ HandleCloseStep(c) PROVE ServiceInv'
  BY <1>5, ReadIsConsistent, FailWriteIsConsistent, OnClosedIsConsistent, CancelContextIsConsistent
  DEF HandleCloseStep
<1>6. ASSUME NEW g \in Callers, CallerStep(g) PROVE ServiceInv'
  BY <1>6, EnterOnceIsConsistent, LeaveOnceIsConsistent DEF CallerStep
<1>7. CASE HeartbeatStep
  BY <1>7, HeartbeatIsConsistent, CloseDeadIsConsistent DEF HeartbeatStep
<1>8. CASE Listen \/ Interrupt
  BY <1>8, ListenIsConsistent
<1>9. CASE StopStep
  BY <1>9, CloseAllIsConsistent, CloseNextIsConsistent, ReturnIsConsistent DEF StopStep
<1>10. CASE UNCHANGED vars
  <2>1. TypeOK'
    BY <1>10 DEF ServiceInv, TypeOK, Created, vars, mapVars, connVars, workVars, heartbeatVars
  <2>2. SafetyInv'
    BY <1>10, MessagesAreSafe DEF ServiceInv, vars, workVars, heartbeatVars
  <2> QED BY <2>1, <2>2 DEF ServiceInv
<1> QED
  BY <1>1, <1>2, <1>3, <1>4, <1>5, <1>6, <1>7, <1>8, <1>9, <1>10 DEF Next

\* Who closes, who is in the map and how far Listen is agree in every reachable
\* state, whatever the order of messages, closures, heartbeats and stops.
THEOREM ServiceIsConsistent == Spec => []ServiceInv
<1>1. Init => ServiceInv
  BY InitIsConsistent
<1>2. ServiceInv /\ [Next]_vars => ServiceInv'
  BY NextIsConsistent
<1> QED BY <1>1, <1>2, PTL DEF Spec

\* Type correctness; no mailbox and no queue outgrows its bound.
THEOREM ServiceTypesAreCorrect == Spec => []TypeOK
<1>1. ServiceInv => TypeOK
  BY DEF ServiceInv
<1> QED BY <1>1, ServiceIsConsistent, PTL

\* No connection in use is out of reach of closures and heartbeats, unless its
\* close is certain, although onClosed deletes by socket (service.go:296-300).
THEOREM NoConnectionIsOrphaned == Spec => []OpenIsMapped
<1>1. ServiceInv => OpenIsMapped
  BY DEF ServiceInv, SafetyInv, ConnectionInv, OpenIsMapped
<1> QED BY <1>1, ServiceIsConsistent, PTL

\* A worker that finds a connection finds one whose context is not canceled
\* (connection.go:78-79).
THEOREM FoundConnectionsAreUsable == Spec => []MappedIsUsable
<1>1. ServiceInv => MappedIsUsable
  BY DEF ServiceInv, SafetyInv, MapInv, MappedIsUsable
<1> QED BY <1>1, ServiceIsConsistent, PTL

\* No message brings a socket back to life that is recorded as closed
\* (service.go:287-290).
THEOREM ClosedSocketsStayClosed == Spec => []ClosedStaysClosed
<1>1. ServiceInv => ClosedStaysClosed
  <2> SUFFICES ASSUME ServiceInv, NEW c \in Created, socketOf[c] \in closedSockets, once[c] = "open"
               PROVE  Taken(c)
    BY DEF ClosedStaysClosed
  <2>1. connections[socketOf[c]] = None /\ c # None
    BY CreatedRange DEF ServiceInv, SafetyInv, MapInv, TypeOK
  <2> QED BY <2>1 DEF ServiceInv, SafetyInv, ConnectionInv
<1> QED BY <1>1, ServiceIsConsistent, PTL

\* Nothing is served after Listen has returned (service.go:134-135).
THEOREM StoppedServiceServesNobody == Spec => []StoppedServesNobody
<1>1. ServiceInv => StoppedServesNobody
  <2> SUFFICES ASSUME ServiceInv, phase = "off"
               PROVE  /\ \A k \in Sockets : connections[k] = None /\ worker[k] = None
                      /\ \A c \in Created : once[c] = "open" => \E g \in Handlers : task[g] = c
    BY DEF StoppedServesNobody
  <2>1. /\ \A k \in Sockets : connections[k] = None /\ worker[k] = None
        /\ toClose = {} /\ task[Listener] = None /\ task[HeartbeatLoop] = None
    BY DEF ServiceInv, SafetyInv, ListenInv, Heartbeating
  <2>2. ASSUME NEW c \in Created, once[c] = "open"
        PROVE  \E g \in Handlers : task[g] = c
    <3>1. c # None /\ socketOf[c] \in Sockets
      BY CreatedRange DEF ServiceInv, TypeOK
    <3>2. Taken(c)
      BY <2>1, <2>2, <3>1 DEF ServiceInv, SafetyInv, ConnectionInv
    <3> QED BY <2>1, <3>1, <3>2 DEF Taken, Callers
  <2> QED BY <2>1, <2>2
<1> QED BY <1>1, ServiceIsConsistent, PTL

-----------------------------------------------------------------------------
(***************************************************************************)
(* One connection at a time.                                               *)
(***************************************************************************)
InUse(c) == once[c] \in {"open", "closing"}

\* Whoever makes a connection for a socket finds no other in use: one that left the
\* map to be closed is held by a closure or a heartbeat, and then the socket is
\* recorded as closed, or by a Listen whose workers have ended.
LEMMA CreateFindsNoOther ==
    ASSUME ServiceInv, NEW k \in Sockets, Create(k), NEW c \in Created, socketOf[c] = k
    PROVE  ~InUse(c)
<1> SUFFICES ASSUME InUse(c) PROVE FALSE
  OBVIOUS
<1>1. c # None
  BY CreatedRange DEF ServiceInv
<1>2. Taken(c)
  BY <1>1 DEF ServiceInv, SafetyInv, ConnectionInv, InUse, Create
<1>3. phase \notin {"closing", "off"}
  BY QueueSizeAssumption DEF ServiceInv, SafetyInv, ListenInv, TypeOK, Create
<1>4. PICK g \in Callers \ {Listener} : task[g] = c
  BY <1>1, <1>2, <1>3 DEF Taken, ServiceInv, SafetyInv, ListenInv
<1>5. k \in closedSockets
  BY <1>1, <1>4 DEF ServiceInv, SafetyInv, TaskInv
<1> QED BY <1>5 DEF Create

\* Every other step makes no connection and reopens none.
LEMMA OthersReopenNothing ==
    ASSUME ServiceInv, [Next]_vars, ~(\E k \in Sockets : Create(k))
    PROVE  /\ socketOf' = socketOf /\ Created' = Created
           /\ \A c \in Created : InUse(c)' => InUse(c)
<1>1. once \in [Created -> {"open", "closing", "unmapped", "closed"}]
  BY DEF ServiceInv, TypeOK, Created
<1>2. \/ UNCHANGED <<once, socketOf>>
      \/ /\ socketOf' = socketOf
         /\ \E c \in Created : \/ once[c] = "open" /\ once' = [once EXCEPT ![c] = "closing"]
                               \/ once' = [once EXCEPT ![c] = "unmapped"]
                               \/ once' = [once EXCEPT ![c] = "closed"]
  <2>1. ASSUME NEW g \in Callers, EnterOnce(g)
        PROVE  task[g] \in Created
    BY <2>1 DEF EnterOnce, ServiceInv, TypeOK
  <2> QED BY <2>1
      DEF Next, WorkerStep, Enqueue, Drop, Find, Put, GiveUp, HandleClosure, pruneStaleResources,
          GatewayForgets, Read, FailWrite, HandleCloseStep, OnClosed, CancelContext, CallerStep,
          EnterOnce, LeaveOnce, HeartbeatStep, Snapshot, HeartbeatSockets, AnswerBatch, FailBatch,
          CloseDead, Listen, Interrupt, StopStep, closeAllConnections, TakeAllConnections,
          CloseNext, Return, connVars, vars
<1> QED BY <1>1, <1>2 DEF InUse, Created

LEMMA OneUsableStep ==
    ASSUME ServiceInv, OneUsablePerSocket, [Next]_vars
    PROVE  OneUsablePerSocket'
<1> SUFFICES ASSUME NEW c \in Created', NEW d \in Created', socketOf'[c] = socketOf'[d],
                    InUse(c)', InUse(d)'
             PROVE  c = d
  BY DEF OneUsablePerSocket, InUse
<1>1. ASSUME NEW k \in Sockets, Create(k) PROVE c = d
  <2> DEFINE n == Len(once)
  <2>1. n \in Nat /\ Created = 1..n
    BY CreatedRange DEF ServiceInv
  <2> HIDE DEF n
  <2>2. /\ once \in [1..n -> {"open", "closing", "unmapped", "closed"}]
        /\ socketOf \in [1..n -> Sockets]
    BY <2>1 DEF ServiceInv, TypeOK, Created
  <2>3. once' = Append(once, "open") /\ socketOf' = Append(socketOf, k)
    BY <1>1 DEF Create
  <2>4. /\ once' \in [1..(n + 1) -> {"open", "closing", "unmapped", "closed"}]
        /\ \A i \in 1..n : once'[i] = once[i]
    <3> DEFINE longer == Append(once, "open")
    <3>1. longer \in [1..(n + 1) -> {"open", "closing", "unmapped", "closed"}]
      BY <2>1, <2>2, AppendEntry
    <3>2. \A i \in 1..n : longer[i] = once[i]
      BY <2>1, <2>2, AppendEntry
    <3>3. once' = longer
      BY <2>3
    <3> HIDE DEF longer
    <3> QED BY <3>1, <3>2, <3>3
  <2>5. socketOf'[n + 1] = k /\ \A i \in 1..n : socketOf'[i] = socketOf[i]
    BY <2>1, <2>2, <2>3, AppendEntry
  <2>6. Created' = Created \cup {n + 1}
    BY <2>1, <2>4 DEF Created
  <2>7. ASSUME NEW e \in Created, InUse(e)' PROVE InUse(e) /\ socketOf[e] # k
    BY <1>1, <2>1, <2>4, <2>7, CreateFindsNoOther DEF InUse
  <2> QED BY <2>1, <2>5, <2>6, <2>7 DEF OneUsablePerSocket, InUse
<1>2. CASE ~(\E k \in Sockets : Create(k))
  BY <1>2, OthersReopenNothing DEF OneUsablePerSocket, InUse
<1> QED BY <1>1, <1>2

\* A client's messages reach one handler of the application at a time, whatever
\* closures, heartbeats, failed writes and restarts of Listen come between them
\* (service.go:283-306).
THEOREM OneConnectionAtATime == Spec => []OneUsablePerSocket
<1>1. Init => OneUsablePerSocket
  BY DEF Init, OneUsablePerSocket, Created
<1>2. ServiceInv /\ OneUsablePerSocket /\ [Next]_vars => OneUsablePerSocket'
  BY OneUsableStep
<1> QED BY <1>1, <1>2, ServiceIsConsistent, PTL DEF Spec

\* A connection that closes takes no other out of the map (service.go:296-300).
THEOREM ClosersEvictOnlyThemselves == Spec => EvictsOnlyItself
<1>1. ServiceInv /\ OneUsablePerSocket =>
        \A c \in Created : OnClosed(c) => connections[socketOf[c]] \in {None, c}
  <2> SUFFICES ASSUME ServiceInv, OneUsablePerSocket, NEW c \in Created, OnClosed(c),
                      connections[socketOf[c]] # None
               PROVE  connections[socketOf[c]] = c
    OBVIOUS
  <2> DEFINE d == connections[socketOf[c]]
  <2>1. d \in Created /\ socketOf[d] = socketOf[c] /\ once[d] \in {"open", "closing"}
    BY DEF ServiceInv, SafetyInv, MapInv, TypeOK
  <2> QED BY <2>1 DEF OneUsablePerSocket, OnClosed
<1> QED BY <1>1, OneConnectionAtATime, ServiceIsConsistent, PTL DEF Spec, EvictsOnlyItself

=============================================================================
