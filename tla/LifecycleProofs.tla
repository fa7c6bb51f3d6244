---------------------------- MODULE LifecycleProofs ----------------------------
(***************************************************************************)
(* Proofs about Lifecycle, for any number of runs, closers and waiters.    *)
(* The safety invariants the runs check are made inductive by saying what  *)
(* the program leaves implicit: end takes what its own begin stored, a     *)
(* done channel is closed exactly when its run is over, nobody knows of a  *)
(* run before it begins, and a ready channel stays in l.ready until the    *)
(* run that uses it ends.                                                  *)
(***************************************************************************)
EXTENDS Lifecycle, FiniteSetTheorems, TLAPS

\* A run that has ended took its own cancel and done.
EndTakesOwn ==
    \A r \in Runs : run[r] \in {"ending", "over"} => taken[r] = r

\* A done channel is closed when its run is over, and not before.
DoneMeansOver ==
    \A r \in Runs : r \in doneClosed <=> run[r] = "over"

\* A call of close that has returned found no run, or one that is over.
ReturnedAfterDone ==
    \A c \in Closers : closer[c] = "returned" => saw[c] \in doneClosed \cup {NoRun}

\* A run that has not begun is unknown to every call of close.
UnknownBeforeBegin ==
    \A r \in Runs : run[r] \in {"new", "refused"} =>
        r \notin canceled /\ \A c \in Closers : saw[c] # r

\* Who holds the lifecycle and who may cancel it.
HolderInv ==
    /\ TypeOK
    /\ OneRunAtATime
    /\ EndTakesOwn
    /\ DoneMeansOver
    /\ ReturnedAfterDone
    /\ UnknownBeforeBegin
    /\ NoStrayCancel

\* A run that serves has closed the channel in l.ready.
ServingIsReady ==
    \A r \in Runs : run[r] = "serving" => ready \in readyClosed

\* The channel a waiter was given is in l.ready until a run ends.
AskedIsCurrent ==
    \A w \in Waiters : \A asked \in waiter[w] :
        /\ asked[2] <= Ended
        /\ asked[2] = Ended => asked[1] = ready

\* What the ready channels tell.
ReadinessInv ==
    /\ ReadyIsCurrent
    /\ ServingIsReady
    /\ AskedIsCurrent

LifecycleInv == HolderInv /\ ReadinessInv

-----------------------------------------------------------------------------
\* The helper of begin, markReady and readyChan leaves a channel in l.ready:
\* the one there is, or one nobody has closed.
LEMMA MakeReadyProperties ==
    ASSUME TypeOK, MakeReadyIfNil
    PROVE  /\ made' \in Nat
           /\ 1..made \subseteq 1..made'
           /\ ready' \in 1..made'
           /\ ready # 0 => ready' = ready
           /\ ready = 0 => ready' \notin readyClosed
BY DEF TypeOK, MakeReadyIfNil

\* There are finitely many runs, so those that have ended can be counted.
LEMMA EndedIsNat == Ended \in Nat
<1>1. {r \in Runs : run[r] \in {"ending", "over"}} \subseteq Runs
  OBVIOUS
<1> QED BY <1>1, RunsAssumption, FS_Subset, FS_CardinalityType DEF Ended

\* A lifecycle nobody has used satisfies the invariant.
LEMMA InitHolder == Init => HolderInv
BY NoRunAssumption
   DEF Init, HolderInv, TypeOK, OneRunAtATime, Live, EndTakesOwn, DoneMeansOver,
       ReturnedAfterDone, UnknownBeforeBegin, NoStrayCancel

\* Every step keeps the types.
LEMMA TypeStep ==
    ASSUME HolderInv, [Next]_vars
    PROVE  TypeOK'
<1> USE DEF HolderInv
<1>1. CASE UNCHANGED vars
  BY <1>1 DEF TypeOK, vars
<1>2. ASSUME NEW r \in Runs, Refuse(r) PROVE TypeOK'
  BY <1>2 DEF TypeOK, Refuse, lockVars, callVars
<1>3. ASSUME NEW r \in Runs, Begin(r) PROVE TypeOK'
  <2>1. MakeReadyIfNil
    BY <1>3 DEF Begin
  <2>2. made' \in Nat /\ ready' \in 0..made' /\ 1..made \subseteq 1..made'
    BY <2>1, MakeReadyProperties
  <2>3. readyClosed' \subseteq 1..made'
    BY <1>3, <2>2 DEF TypeOK, Begin
  <2>4. waiter' \in [Waiters -> SUBSET ((1..made') \X Nat)]
    BY <1>3, <2>2 DEF TypeOK, Begin, callVars
  <2> QED BY <1>3, <2>2, <2>3, <2>4 DEF TypeOK, Begin, callVars
<1>4. ASSUME NEW r \in Runs, MarkReady(r) PROVE TypeOK'
  <2>1. MakeReadyIfNil
    BY <1>4 DEF MarkReady
  <2>2. made' \in Nat /\ ready' \in 0..made' /\ 1..made \subseteq 1..made'
    BY <2>1, MakeReadyProperties
  <2>3. readyClosed' \subseteq 1..made'
    BY <1>4, <2>1, <2>2, MakeReadyProperties DEF TypeOK, MarkReady
  <2>4. waiter' \in [Waiters -> SUBSET ((1..made') \X Nat)]
    BY <1>4, <2>2 DEF TypeOK, MarkReady, callVars
  <2> QED BY <1>4, <2>2, <2>3, <2>4 DEF TypeOK, MarkReady, callVars
<1>5. ASSUME NEW r \in Runs, Interrupt(r) PROVE TypeOK'
  BY <1>5 DEF TypeOK, Interrupt, lockVars, callVars
<1>6. ASSUME NEW r \in Runs, End(r) PROVE TypeOK'
  BY <1>6 DEF TypeOK, End, callVars
<1>7. ASSUME NEW r \in Runs, EndSignal(r) PROVE TypeOK'
  BY <1>7 DEF TypeOK, EndSignal, lockVars, callVars
<1>8. ASSUME NEW c \in Closers, CloseLook(c) PROVE TypeOK'
  BY <1>8 DEF TypeOK, CloseLook, lockVars
<1>9. ASSUME NEW c \in Closers, CloseCancel(c) PROVE TypeOK'
  BY <1>9 DEF TypeOK, CloseCancel, lockVars
<1>10. ASSUME NEW c \in Closers, CloseReturn(c) PROVE TypeOK'
  BY <1>10 DEF TypeOK, CloseReturn, lockVars
<1>11. ASSUME NEW w \in Waiters, AskReady(w) PROVE TypeOK'
  <2>1. MakeReadyIfNil
    BY <1>11 DEF AskReady
  <2>2. made' \in Nat /\ ready' \in 0..made' /\ 1..made \subseteq 1..made'
    BY <2>1, MakeReadyProperties
  <2>3. readyClosed' \subseteq 1..made'
    BY <1>11, <2>2 DEF TypeOK, AskReady
  <2>4. <<ready', Ended>> \in (1..made') \X Nat
    BY <2>1, EndedIsNat, MakeReadyProperties
  <2>5. waiter' \in [Waiters -> SUBSET ((1..made') \X Nat)]
    BY <1>11, <2>2, <2>4 DEF TypeOK, AskReady
  <2> QED BY <1>11, <2>2, <2>3, <2>5 DEF TypeOK, AskReady
<1> QED
  BY <1>1, <1>2, <1>3, <1>4, <1>5, <1>6, <1>7, <1>8, <1>9, <1>10, <1>11 DEF Next, RunStep

\* Every step keeps one run at a time, done channels honest and cancellations
\* aimed at the run that was found.
LEMMA HolderStep ==
    ASSUME HolderInv, [Next]_vars
    PROVE  HolderInv'
<1> DEFINE Rest == /\ OneRunAtATime /\ EndTakesOwn /\ DoneMeansOver
                   /\ ReturnedAfterDone /\ UnknownBeforeBegin /\ NoStrayCancel
<1> USE NoRunAssumption DEF HolderInv
<1>1. ASSUME UNCHANGED vars PROVE Rest'
  BY <1>1 DEF vars, OneRunAtATime, Live, EndTakesOwn, DoneMeansOver,
              ReturnedAfterDone, UnknownBeforeBegin, NoStrayCancel
<1>2. ASSUME NEW r \in Runs, Refuse(r) PROVE Rest'
  BY <1>2 DEF Refuse, TypeOK, lockVars, callVars, OneRunAtATime, Live, EndTakesOwn,
    DoneMeansOver, ReturnedAfterDone, UnknownBeforeBegin, NoStrayCancel
<1>3. ASSUME NEW r \in Runs, Begin(r) PROVE Rest'
  <2> USE <1>3 DEF Begin, TypeOK, callVars, MakeReadyIfNil
  <2>1. OneRunAtATime'
    BY DEF OneRunAtATime, Live
  <2>2. EndTakesOwn'
    BY DEF EndTakesOwn, OneRunAtATime, Live
  <2>3. DoneMeansOver'
    BY DEF DoneMeansOver, EndTakesOwn
  <2>4. ReturnedAfterDone'
    BY DEF ReturnedAfterDone
  <2>5. UnknownBeforeBegin'
    BY DEF UnknownBeforeBegin, OneRunAtATime, EndTakesOwn, Live
  <2>6. NoStrayCancel'
    BY DEF NoStrayCancel, UnknownBeforeBegin, OneRunAtATime, Live, EndTakesOwn, DoneMeansOver
  <2> QED BY <2>1, <2>2, <2>3, <2>4, <2>5, <2>6
<1>4. ASSUME NEW r \in Runs, MarkReady(r) PROVE Rest'
  BY <1>4 DEF MarkReady, TypeOK, callVars, MakeReadyIfNil, OneRunAtATime, Live, EndTakesOwn,
    DoneMeansOver, ReturnedAfterDone, UnknownBeforeBegin, NoStrayCancel
<1>5. ASSUME NEW r \in Runs, Interrupt(r) PROVE Rest'
  <2> USE <1>5 DEF Interrupt, TypeOK, lockVars, callVars
  <2>1. OneRunAtATime'
    BY DEF OneRunAtATime, Live
  <2>2. EndTakesOwn'
    BY DEF EndTakesOwn, OneRunAtATime, Live
  <2>3. DoneMeansOver'
    BY DEF DoneMeansOver, EndTakesOwn
  <2>4. ReturnedAfterDone'
    BY DEF ReturnedAfterDone
  <2>5. UnknownBeforeBegin'
    BY DEF UnknownBeforeBegin, OneRunAtATime, EndTakesOwn, Live
  <2>6. NoStrayCancel'
    BY DEF NoStrayCancel, UnknownBeforeBegin, OneRunAtATime, Live, EndTakesOwn, DoneMeansOver
  <2> QED BY <2>1, <2>2, <2>3, <2>4, <2>5, <2>6
<1>6. ASSUME NEW r \in Runs, End(r) PROVE Rest'
  <2> USE <1>6 DEF End, TypeOK, callVars
  <2>1. OneRunAtATime'
    BY DEF OneRunAtATime, Live
  <2>2. EndTakesOwn'
    BY DEF EndTakesOwn, OneRunAtATime, Live
  <2>3. DoneMeansOver'
    BY DEF DoneMeansOver, EndTakesOwn
  <2>4. ReturnedAfterDone'
    BY DEF ReturnedAfterDone
  <2>5. UnknownBeforeBegin'
    BY DEF UnknownBeforeBegin, OneRunAtATime, EndTakesOwn, Live
  <2>6. NoStrayCancel'
    BY DEF NoStrayCancel, UnknownBeforeBegin, OneRunAtATime, Live, EndTakesOwn, DoneMeansOver
  <2> QED BY <2>1, <2>2, <2>3, <2>4, <2>5, <2>6
<1>7. ASSUME NEW r \in Runs, EndSignal(r) PROVE Rest'
  <2> USE <1>7 DEF EndSignal, TypeOK, lockVars, callVars
  <2>1. OneRunAtATime'
    BY DEF OneRunAtATime, Live
  <2>2. EndTakesOwn'
    BY DEF EndTakesOwn, OneRunAtATime, Live
  <2>3. DoneMeansOver'
    BY DEF DoneMeansOver, EndTakesOwn
  <2>4. ReturnedAfterDone'
    BY DEF ReturnedAfterDone
  <2>5. UnknownBeforeBegin'
    BY DEF UnknownBeforeBegin, OneRunAtATime, EndTakesOwn, Live
  <2>6. NoStrayCancel'
    BY DEF NoStrayCancel, UnknownBeforeBegin, OneRunAtATime, Live, EndTakesOwn, DoneMeansOver
  <2> QED BY <2>1, <2>2, <2>3, <2>4, <2>5, <2>6
<1>8. ASSUME NEW c \in Closers, CloseLook(c) PROVE Rest'
  <2> USE <1>8 DEF CloseLook, TypeOK, lockVars
  <2>1. OneRunAtATime'
    BY DEF OneRunAtATime, Live
  <2>2. EndTakesOwn'
    BY DEF EndTakesOwn, OneRunAtATime, Live
  <2>3. DoneMeansOver'
    BY DEF DoneMeansOver, EndTakesOwn
  <2>4. ReturnedAfterDone'
    BY DEF ReturnedAfterDone
  <2>5. UnknownBeforeBegin'
    BY DEF UnknownBeforeBegin, OneRunAtATime, EndTakesOwn, Live
  <2>6. NoStrayCancel'
    BY DEF NoStrayCancel, UnknownBeforeBegin, OneRunAtATime, Live, EndTakesOwn, DoneMeansOver
  <2> QED BY <2>1, <2>2, <2>3, <2>4, <2>5, <2>6
<1>9. ASSUME NEW c \in Closers, CloseCancel(c) PROVE Rest'
  <2> USE <1>9 DEF CloseCancel, TypeOK, lockVars
  <2>1. OneRunAtATime'
    BY DEF OneRunAtATime, Live
  <2>2. EndTakesOwn'
    BY DEF EndTakesOwn, OneRunAtATime, Live
  <2>3. DoneMeansOver'
    BY DEF DoneMeansOver, EndTakesOwn
  <2>4. ReturnedAfterDone'
    BY DEF ReturnedAfterDone
  <2>5. UnknownBeforeBegin'
    BY DEF UnknownBeforeBegin, OneRunAtATime, EndTakesOwn, Live
  <2>6. NoStrayCancel'
    BY DEF NoStrayCancel, UnknownBeforeBegin, OneRunAtATime, Live, EndTakesOwn, DoneMeansOver
  <2> QED BY <2>1, <2>2, <2>3, <2>4, <2>5, <2>6
<1>10. ASSUME NEW c \in Closers, CloseReturn(c) PROVE Rest'
  BY <1>10 DEF CloseReturn, TypeOK, lockVars, OneRunAtATime, Live, EndTakesOwn,
    DoneMeansOver, ReturnedAfterDone, UnknownBeforeBegin, NoStrayCancel
<1>11. ASSUME NEW w \in Waiters, AskReady(w) PROVE Rest'
  BY <1>11 DEF AskReady, TypeOK, MakeReadyIfNil, OneRunAtATime, Live, EndTakesOwn,
    DoneMeansOver, ReturnedAfterDone, UnknownBeforeBegin, NoStrayCancel
<1> QED
  BY TypeStep, <1>1, <1>2, <1>3, <1>4, <1>5, <1>6, <1>7, <1>8, <1>9, <1>10, <1>11 DEF Next, RunStep

\* A channel handed out since the last run ended is one, not nil.
LEMMA AskedIsOpen ==
    ASSUME TypeOK, AskedIsCurrent, NEW w \in Waiters, NEW asked \in waiter[w],
           asked[2] = Ended
    PROVE  ready # 0 /\ asked[1] = ready
BY DEF TypeOK, AskedIsCurrent

\* What end and the others do to the number of runs that have ended.
LEMMA EndedSame ==
    ASSUME \A r \in Runs : run'[r] \in {"ending", "over"} <=> run[r] \in {"ending", "over"}
    PROVE  Ended' = Ended
<1>1. {r \in Runs : run'[r] \in {"ending", "over"}} = {r \in Runs : run[r] \in {"ending", "over"}}
  OBVIOUS
<1> QED BY <1>1 DEF Ended

\* end raises the count, so nobody who asked before counts as current.
LEMMA EndedGrows ==
    ASSUME TypeOK, NEW r \in Runs, End(r)
    PROVE  Ended' = Ended + 1
<1> DEFINE Over == {s \in Runs : run[s] \in {"ending", "over"}}
<1>1. Over' = Over \cup {r}
  BY DEF End, TypeOK
<1>2. r \notin Over
  BY DEF End
<1>3. IsFiniteSet(Over)
  <2>1. Over \subseteq Runs
    OBVIOUS
  <2> QED BY <2>1, RunsAssumption, FS_Subset
<1>4. Cardinality(Over \cup {r}) = Cardinality(Over) + 1
  BY <1>2, <1>3, FS_AddElement
<1> QED BY <1>1, <1>4 DEF Ended

\* Every step keeps what the ready channels tell.
LEMMA ReadinessStep ==
    ASSUME LifecycleInv, [Next]_vars
    PROVE  ReadinessInv'
<1> USE DEF LifecycleInv, ReadinessInv, HolderInv
<1> DEFINE Quiet == /\ ready' = ready /\ readyClosed' = readyClosed /\ waiter' = waiter
                    /\ \A r \in Runs : /\ run'[r] = "serving" <=> run[r] = "serving"
                                       /\ run'[r] \in {"ending", "over"}
                                            <=> run[r] \in {"ending", "over"}
<1>1. ASSUME Quiet, \A r \in Runs : run[r] \in {"serving", "finishing"} =>
                                   run'[r] \in {"serving", "finishing"}
      PROVE  ReadinessInv'
  <2>1. Ended' = Ended
    BY <1>1, EndedSame
  <2> QED BY <1>1, <2>1 DEF ReadyIsCurrent, ServingIsReady, AskedIsCurrent
<1>2. CASE UNCHANGED vars
  BY <1>1, <1>2 DEF vars
<1>3. ASSUME NEW r \in Runs, Refuse(r) PROVE ReadinessInv'
  BY <1>1, <1>3 DEF Refuse, TypeOK, lockVars, callVars
<1>4. ASSUME NEW r \in Runs, Begin(r) PROVE ReadinessInv'
  <2>1. Ended' = Ended
    BY <1>4, EndedSame DEF Begin, TypeOK
  <2>2. MakeReadyIfNil
    BY <1>4 DEF Begin
  <2>3. ReadyIsCurrent'
    BY <1>4, <2>2, MakeReadyProperties DEF ReadyIsCurrent, Begin, TypeOK
  <2>4. ServingIsReady'
    BY <1>4, NoRunAssumption DEF ServingIsReady, Begin, TypeOK, OneRunAtATime, Live
  <2>5. AskedIsCurrent'
    BY <1>4, <2>1, <2>2, AskedIsOpen, MakeReadyProperties DEF AskedIsCurrent, Begin, callVars
  <2> QED BY <2>3, <2>4, <2>5
<1>5. ASSUME NEW r \in Runs, MarkReady(r) PROVE ReadinessInv'
  <2>1. Ended' = Ended
    BY <1>5, EndedSame DEF MarkReady, TypeOK
  <2>2. MakeReadyIfNil
    BY <1>5 DEF MarkReady
  <2>3. ReadyIsCurrent' /\ ServingIsReady'
    BY <1>5 DEF ReadyIsCurrent, ServingIsReady, MarkReady, TypeOK
  <2>4. AskedIsCurrent'
    BY <1>5, <2>1, <2>2, AskedIsOpen, MakeReadyProperties DEF AskedIsCurrent, MarkReady, callVars
  <2> QED BY <2>3, <2>4
<1>6. ASSUME NEW r \in Runs, Interrupt(r) PROVE ReadinessInv'
  <2>1. Ended' = Ended
    BY <1>6, EndedSame DEF Interrupt, TypeOK
  <2> QED BY <1>6, <2>1 DEF ReadyIsCurrent, ServingIsReady, AskedIsCurrent, Interrupt,
                            TypeOK, lockVars, callVars
<1>7. ASSUME NEW r \in Runs, End(r) PROVE ReadinessInv'
  <2>1. Ended' = Ended + 1 /\ Ended \in Nat
    BY <1>7, EndedGrows, EndedIsNat
  <2>2. ReadyIsCurrent'
    BY <1>7 DEF ReadyIsCurrent, End, TypeOK
  <2>3. ServingIsReady'
    BY <1>7 DEF ServingIsReady, End, TypeOK, OneRunAtATime, Live
  <2>4. AskedIsCurrent'
    BY <1>7, <2>1 DEF AskedIsCurrent, End, TypeOK, callVars
  <2> QED BY <2>2, <2>3, <2>4
<1>8. ASSUME NEW r \in Runs, EndSignal(r) PROVE ReadinessInv'
  BY <1>1, <1>8 DEF EndSignal, TypeOK, lockVars, callVars
<1>9. ASSUME NEW c \in Closers, CloseLook(c) \/ CloseCancel(c) \/ CloseReturn(c)
      PROVE  ReadinessInv'
  BY <1>1, <1>9 DEF CloseLook, CloseCancel, CloseReturn, lockVars
<1>10. ASSUME NEW w \in Waiters, AskReady(w) PROVE ReadinessInv'
  <2>1. Ended' = Ended /\ Ended \in Nat
    BY <1>10, EndedSame, EndedIsNat DEF AskReady
  <2>2. MakeReadyIfNil
    BY <1>10 DEF AskReady
  <2>3. ReadyIsCurrent'
    BY <1>10, <2>2, MakeReadyProperties DEF ReadyIsCurrent, AskReady, TypeOK
  <2>4. ServingIsReady'
    BY <1>10, <2>2, MakeReadyProperties DEF ServingIsReady, AskReady, TypeOK
  <2>5. AskedIsCurrent'
    BY <1>10, <2>1, <2>2, AskedIsOpen, MakeReadyProperties DEF AskedIsCurrent, AskReady, TypeOK
  <2> QED BY <2>3, <2>4, <2>5
<1> QED
  BY <1>2, <1>3, <1>4, <1>5, <1>6, <1>7, <1>8, <1>9, <1>10 DEF Next, RunStep

\* A lifecycle nobody has used tells no waiter anything.
LEMMA InitReadiness == Init => ReadinessInv
BY DEF Init, ReadinessInv, ReadyIsCurrent, ServingIsReady, AskedIsCurrent

\* Every step of the lifecycle keeps its inductive invariant.
LEMMA LifecycleStep == LifecycleInv /\ [Next]_vars => LifecycleInv'
BY HolderStep, ReadinessStep DEF LifecycleInv

\* Through every interleaving of begin, interrupt, end, close and readyChan the
\* fields of the lifecycle, its channels and what its callers know agree
\* (lifecycle.go, all methods).
THEOREM LifecycleIsConsistent == Spec => []LifecycleInv
<1>1. Init => LifecycleInv
  BY InitHolder, InitReadiness DEF LifecycleInv
<1>2. LifecycleInv /\ [Next]_vars => LifecycleInv'
  BY LifecycleStep
<1> QED BY <1>1, <1>2, PTL DEF Spec

-----------------------------------------------------------------------------
\* Connect and Listen never overlap with themselves, however many calls race:
\* the run that begin let in is the only one until its end (lifecycle.go:20-33).
THEOREM RunsOneAtATime == Spec => []OneRunAtATime
<1>1. LifecycleInv => OneRunAtATime
  BY DEF LifecycleInv, HolderInv
<1> QED BY <1>1, LifecycleIsConsistent, PTL

\* Close returns only when the run it found is over, clean-up included, even if
\* other runs have begun since (lifecycle.go:88-101).
THEOREM CloseWaitsForTheEnd == Spec => []CloseMeansOver
<1>1. LifecycleInv => CloseMeansOver
  BY NoRunAssumption DEF LifecycleInv, HolderInv, TypeOK, ReturnedAfterDone, DoneMeansOver,
                         CloseMeansOver
<1> QED BY <1>1, LifecycleIsConsistent, PTL

\* Close cancels no run but the one it found and still waits for
\* (lifecycle.go:88-101).
THEOREM CloseCancelsOnlyItsRun == Spec => []NoStrayCancel
<1>1. LifecycleInv => NoStrayCancel
  BY DEF LifecycleInv, HolderInv
<1> QED BY <1>1, LifecycleIsConsistent, PTL

\* A channel from Ready is closed once the next run serves (lifecycle.go:36-58).
THEOREM ReadyTellsTheTruth == Spec => []ServingWakesWaiters
<1>1. LifecycleInv => ServingWakesWaiters
  BY DEF LifecycleInv, ReadinessInv, AskedIsCurrent, ServingIsReady, ServingWakesWaiters
<1> QED BY <1>1, LifecycleIsConsistent, PTL

\* A run does not inherit the readiness of an earlier one (lifecycle.go:78).
THEOREM ReadinessIsNotInherited == Spec => []ReadyIsCurrent
<1>1. LifecycleInv => ReadyIsCurrent
  BY DEF LifecycleInv, ReadinessInv
<1> QED BY <1>1, LifecycleIsConsistent, PTL

\* end closes the done channel of its own run and finds it open: it never
\* panics (lifecycle.go:83-85).
THEOREM DoneIsClosedOnce == Spec => DoneClosedOnce
<1>1. LifecycleInv /\ [Next]_vars =>
        [\A r \in Runs : EndSignal(r) => taken[r] = r /\ r \notin doneClosed]_vars
  BY DEF LifecycleInv, HolderInv, EndTakesOwn, DoneMeansOver, EndSignal
<1> QED BY <1>1, LifecycleIsConsistent, PTL DEF Spec, DoneClosedOnce

\* The fields of the lifecycle and its channels keep their types: a nil cancel
\* is never called and no channel is closed that was not made (lifecycle.go).
THEOREM LifecycleTypesAreCorrect == Spec => []TypeOK
<1>1. LifecycleInv => TypeOK
  BY DEF LifecycleInv, HolderInv
<1> QED BY <1>1, LifecycleIsConsistent, PTL

-----------------------------------------------------------------------------
\* A call of close cancels the run it found before it waits.
CanceledBeforeWait ==
    \A c \in Closers : closer[c] \in {"waiting", "returned"} => saw[c] \in canceled \cup {NoRun}

LEMMA CanceledBeforeWaitStep ==
    ASSUME TypeOK, CanceledBeforeWait, [Next]_vars
    PROVE  CanceledBeforeWait'
<1>1. canceled \subseteq canceled'
  BY DEF Next, RunStep, Refuse, Begin, MarkReady, Interrupt, End, EndSignal, CloseLook,
         CloseCancel, CloseReturn, AskReady, lockVars, callVars, vars
<1>2. CASE UNCHANGED <<closer, saw>>
  BY <1>1, <1>2 DEF CanceledBeforeWait
<1>3. ASSUME NEW c \in Closers, CloseLook(c) \/ CloseCancel(c) \/ CloseReturn(c)
      PROVE  CanceledBeforeWait'
  <2> SUFFICES ASSUME NEW d \in Closers, closer'[d] \in {"waiting", "returned"}
               PROVE  saw'[d] \in canceled' \cup {NoRun}
    BY DEF CanceledBeforeWait
  <2>1. CASE CloseLook(c)
    BY <1>1, <2>1 DEF CloseLook, TypeOK, CanceledBeforeWait
  <2>2. CASE CloseCancel(c)
    BY <1>1, <2>2 DEF CloseCancel, TypeOK, CanceledBeforeWait
  <2>3. CASE CloseReturn(c)
    BY <1>1, <2>3 DEF CloseReturn, TypeOK, CanceledBeforeWait
  <2> QED BY <1>3, <2>1, <2>2, <2>3
<1> QED BY <1>2, <1>3
        DEF Next, RunStep, Refuse, Begin, MarkReady, Interrupt, End, EndSignal, AskReady,
            lockVars, callVars, vars

\* No call of Close waits in vain: as long as it waits there is a run that knows it
\* is to stop, and whose end will close the channel.  That the run gets there is
\* CloseReturns, which needs fairness (lifecycle.go:71-101).
THEOREM NobodyClosesInVain == Spec => []CloseWaitsForGood
<1>1. Init => CanceledBeforeWait
  BY DEF Init, CanceledBeforeWait
<1>2. LifecycleInv /\ CanceledBeforeWait /\ [Next]_vars => CanceledBeforeWait'
  BY CanceledBeforeWaitStep DEF LifecycleInv, HolderInv
<1>3. LifecycleInv /\ CanceledBeforeWait => CloseWaitsForGood
  BY DEF LifecycleInv, HolderInv, TypeOK, CanceledBeforeWait, DoneMeansOver, EndTakesOwn,
         UnknownBeforeBegin, CloseWaitsForGood
<1> QED BY <1>1, <1>2, <1>3, LifecycleIsConsistent, PTL DEF Spec

=============================================================================
