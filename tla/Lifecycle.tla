------------------------------- MODULE Lifecycle -------------------------------
(***************************************************************************)
(* lifecycle.go: the run-once-at-a-time lifecycle that Gateway.Connect and *)
(* Service.Listen share.  A run is one call of Connect or Listen; closers  *)
(* are callers of Close, waiters are callers of Ready.  What a run does    *)
(* while it is connected is left to Gateway and Service.                   *)
(*                                                                         *)
(* The cancel function and the done channel of a run are named by the run  *)
(* that made them, the ready channels by the order they are made in.       *)
(***************************************************************************)
EXTENDS Naturals, FiniteSets

CONSTANTS Runs, Closers, Waiters, NoRun

ASSUME NoRunAssumption == NoRun \notin Runs
ASSUME RunsAssumption == IsFiniteSet(Runs)

VARIABLES
    cancel,       \* the run whose cancel function is in l.cancel, or NoRun
    done,         \* the run whose channel is in l.done, or NoRun
    ready,        \* the channel in l.ready, 0 for nil
    made,         \* how many ready channels have been made
    canceled,     \* runs whose context is canceled
    doneClosed,   \* runs whose done channel is closed
    readyClosed,  \* the ready channels that are closed
    run,          \* progress of each run
    taken,        \* the run whose cancel and done end() took under the lock
    closer,       \* progress of each caller of Close
    saw,          \* the run whose cancel and done that call took
    waiter        \* the ready channels each caller of Ready was given, each
                  \* with the number of runs that had ended by then

vars == <<cancel, done, ready, made, canceled, doneClosed, readyClosed,
          run, taken, closer, saw, waiter>>

lockVars == <<cancel, done, ready, made>>
callVars == <<closer, saw, waiter>>

TypeOK ==
    /\ cancel \in Runs \cup {NoRun}
    /\ done \in Runs \cup {NoRun}
    /\ made \in Nat
    /\ ready \in 0..made
    /\ canceled \subseteq Runs
    /\ doneClosed \subseteq Runs
    /\ readyClosed \subseteq 1..made
    /\ run \in [Runs -> {"new", "refused", "starting", "serving", "finishing",
                         "ending", "over"}]
    /\ taken \in [Runs -> Runs \cup {NoRun}]
    /\ closer \in [Closers -> {"idle", "looked", "waiting", "returned"}]
    /\ saw \in [Closers -> Runs \cup {NoRun}]
    /\ waiter \in [Waiters -> SUBSET ((1..made) \X Nat)]

Init ==
    /\ cancel = NoRun /\ done = NoRun /\ ready = 0 /\ made = 0
    /\ canceled = {} /\ doneClosed = {} /\ readyClosed = {}
    /\ run = [r \in Runs |-> "new"]
    /\ taken = [r \in Runs |-> NoRun]
    /\ closer = [c \in Closers |-> "idle"]
    /\ saw = [c \in Closers |-> NoRun]
    /\ waiter = [w \in Waiters |-> {}]

-----------------------------------------------------------------------------
\* Runs that no longer hold the lifecycle.
Ended == Cardinality({r \in Runs : run[r] \in {"ending", "over"}})

\* if l.ready == nil { l.ready = make(chan struct{}) }
MakeReadyIfNil ==
    /\ made' = IF ready = 0 THEN made + 1 ELSE made
    /\ ready' = IF ready = 0 THEN made' ELSE ready

\* begin, when another run holds the lifecycle.
Refuse(r) ==
    /\ run[r] = "new"
    /\ cancel # NoRun
    /\ run' = [run EXCEPT ![r] = "refused"]
    /\ UNCHANGED <<lockVars, canceled, doneClosed, readyClosed, taken, callVars>>

\* Mutant of Begin: a run in progress does not refuse the next.
BeginAnyway(r) ==
    /\ run[r] = "new"
    /\ cancel' = r
    /\ done' = r
    /\ MakeReadyIfNil
    /\ run' = [run EXCEPT ![r] = "starting"]
    /\ UNCHANGED <<canceled, doneClosed, readyClosed, taken, callVars>>

\* Mutant of Begin: the ready channel is always made anew.
BeginRemakingReady(r) ==
    /\ run[r] = "new"
    /\ cancel = NoRun
    /\ cancel' = r
    /\ done' = r
    /\ made' = made + 1
    /\ ready' = made'
    /\ run' = [run EXCEPT ![r] = "starting"]
    /\ UNCHANGED <<canceled, doneClosed, readyClosed, taken, callVars>>

Begin(r) ==
    /\ run[r] = "new"
    /\ cancel = NoRun
    /\ cancel' = r
    /\ done' = r
    /\ MakeReadyIfNil
    /\ run' = [run EXCEPT ![r] = "starting"]
    /\ UNCHANGED <<canceled, doneClosed, readyClosed, taken, callVars>>

\* The streams are subscribed and the announcement is out.
MarkReady(r) ==
    /\ run[r] = "starting"
    /\ MakeReadyIfNil
    /\ readyClosed' = readyClosed \cup {ready'}
    /\ run' = [run EXCEPT ![r] = "serving"]
    /\ UNCHANGED <<cancel, done, canceled, doneClosed, taken, callVars>>

\* Mutant of Interrupt: done is closed before the clean-up of the run.
InterruptSignals(r) ==
    /\ run[r] \in {"starting", "serving"}
    /\ canceled' = canceled \cup ({cancel} \ {NoRun})
    /\ doneClosed' = doneClosed \cup {r}
    /\ run' = [run EXCEPT ![r] = "finishing"]
    /\ UNCHANGED <<lockVars, readyClosed, taken, callVars>>

\* The run stops: its context is canceled, or it failed.  finish interrupts
\* whatever run is in l.cancel.
Interrupt(r) ==
    /\ run[r] \in {"starting", "serving"}
    /\ canceled' = canceled \cup ({cancel} \ {NoRun})
    /\ run' = [run EXCEPT ![r] = "finishing"]
    /\ UNCHANGED <<lockVars, doneClosed, readyClosed, taken, callVars>>

\* Mutant of End: l.ready stays.
EndKeepingReady(r) ==
    /\ run[r] = "finishing"
    /\ taken' = [taken EXCEPT ![r] = done]
    /\ cancel' = NoRun
    /\ done' = NoRun
    /\ run' = [run EXCEPT ![r] = "ending"]
    /\ UNCHANGED <<ready, made, canceled, doneClosed, readyClosed, callVars>>

\* end, up to the unlock.
End(r) ==
    /\ run[r] = "finishing"
    /\ taken' = [taken EXCEPT ![r] = done]
    /\ cancel' = NoRun
    /\ done' = NoRun
    /\ ready' = 0
    /\ run' = [run EXCEPT ![r] = "ending"]
    /\ UNCHANGED <<made, canceled, doneClosed, readyClosed, callVars>>

\* Mutant of EndSignal: nobody is told.
EndInSilence(r) ==
    /\ run[r] = "ending"
    /\ canceled' = canceled \cup ({taken[r]} \ {NoRun})
    /\ run' = [run EXCEPT ![r] = "over"]
    /\ UNCHANGED <<lockVars, doneClosed, readyClosed, taken, callVars>>

\* end, after the unlock: cancel() and close(done) of what it took.
EndSignal(r) ==
    /\ run[r] = "ending"
    /\ canceled' = canceled \cup ({taken[r]} \ {NoRun})
    /\ doneClosed' = doneClosed \cup ({taken[r]} \ {NoRun})
    /\ run' = [run EXCEPT ![r] = "over"]
    /\ UNCHANGED <<lockVars, readyClosed, taken, callVars>>

\* close, up to the unlock; a caller may call it again.
CloseLook(c) ==
    /\ closer[c] \in {"idle", "returned"}
    /\ saw' = [saw EXCEPT ![c] = done]
    /\ closer' = [closer EXCEPT ![c] = "looked"]
    /\ UNCHANGED <<lockVars, canceled, doneClosed, readyClosed, run, taken, waiter>>

\* Mutant of CloseCancel: l.cancel is read again, after the unlock.
CloseCancelAnew(c) ==
    /\ closer[c] = "looked"
    /\ canceled' = canceled \cup ({cancel} \ {NoRun})
    /\ closer' = [closer EXCEPT ![c] = "waiting"]
    /\ UNCHANGED <<lockVars, doneClosed, readyClosed, run, taken, saw, waiter>>

CloseCancel(c) ==
    /\ closer[c] = "looked"
    /\ canceled' = canceled \cup ({saw[c]} \ {NoRun})
    /\ closer' = [closer EXCEPT ![c] = "waiting"]
    /\ UNCHANGED <<lockVars, doneClosed, readyClosed, run, taken, saw, waiter>>

CloseReturn(c) ==
    /\ closer[c] = "waiting"
    /\ saw[c] \in doneClosed \cup {NoRun}
    /\ closer' = [closer EXCEPT ![c] = "returned"]
    /\ UNCHANGED <<lockVars, canceled, doneClosed, readyClosed, run, taken, saw, waiter>>

\* readyChan.
AskReady(w) ==
    /\ MakeReadyIfNil
    /\ waiter' = [waiter EXCEPT ![w] = @ \cup {<<ready', Ended>>}]
    /\ UNCHANGED <<cancel, done, canceled, doneClosed, readyClosed,
                   run, taken, closer, saw>>

RunStep(r) == Interrupt(r) \/ End(r) \/ EndSignal(r)

Next ==
    \/ \E r \in Runs : Refuse(r) \/ Begin(r) \/ MarkReady(r) \/ RunStep(r)
    \/ \E c \in Closers : CloseLook(c) \/ CloseCancel(c) \/ CloseReturn(c)
    \/ \E w \in Waiters : AskReady(w)

Spec == Init /\ [][Next]_vars

\* A run whose context is canceled stops; a call of close proceeds.
Fairness ==
    /\ \A r \in Runs : /\ WF_vars(r \in canceled /\ Interrupt(r))
                       /\ WF_vars(End(r) \/ EndSignal(r))
    /\ \A c \in Closers : WF_vars(CloseCancel(c) \/ CloseReturn(c))

FairSpec == Spec /\ Fairness

-----------------------------------------------------------------------------
Live(r) == run[r] \in {"starting", "serving", "finishing"}

\* Connect and Listen never overlap with themselves, and begin refuses
\* exactly while a run has not ended (lifecycle.go:20-33, 71-79).
OneRunAtATime ==
    /\ \A r, s \in Runs : Live(r) /\ Live(s) => r = s
    /\ \A r \in Runs : Live(r) <=> cancel = r
    /\ done = cancel

\* When Close returns, the run it interrupted is over, clean-up included, and
\* no longer stands in the way of the next one (lifecycle.go:88-101).
CloseMeansOver ==
    \A c \in Closers :
        closer[c] = "returned" /\ saw[c] # NoRun => run[saw[c]] = "over"

\* A call of close interrupts the run it found and no later one, even when
\* that run ends and another begins before it gets to cancel: a run whose
\* context is canceled while it serves was found by a call that still waits
\* (lifecycle.go:90-101).
NoStrayCancel ==
    \A r \in canceled :
        run[r] \in {"starting", "serving"} =>
            \E c \in Closers : saw[c] = r /\ closer[c] = "waiting"

\* The channel that Ready returns now is closed only if the run in progress
\* subscribed its streams: no run inherits the readiness of an earlier one
\* (lifecycle.go:78).
ReadyIsCurrent ==
    ready \in readyClosed => \E r \in Runs : run[r] \in {"serving", "finishing"}

\* A run that serves wakes everyone who has asked since the run before it ended, also
\* before it began itself (lifecycle.go:29-31, 49-58).  A run that ends before
\* markReady leaves its waiters behind: end drops their channel without closing it.
ServingWakesWaiters ==
    (\E r \in Runs : run[r] = "serving") =>
        \A w \in Waiters : \A asked \in waiter[w] :
            asked[2] = Ended => asked[1] \in readyClosed

\* A done channel is closed once, by the run that made it: closing it again
\* would panic (lifecycle.go:83-85).
DoneClosedOnce ==
    [][\A r \in Runs : EndSignal(r) => taken[r] = r /\ r \notin doneClosed]_vars

\* Close waits for nobody who does not know of it: the run it waits for was told
\* to stop and has yet to close the channel it waits on, even if the call came
\* between the unlock of end and its close(done) (lifecycle.go:71-101).
CloseWaitsForGood ==
    \A c \in Closers :
        LET r == saw[c]
        IN  closer[c] = "waiting" /\ r # NoRun /\ r \notin doneClosed =>
                /\ r \in canceled
                /\ run[r] \in {"starting", "serving", "finishing", "ending"}
                /\ run[r] = "ending" => taken[r] = r

\* Close returns, whatever runs begin and end and whoever else calls it
\* meanwhile (lifecycle.go:88-101).
CloseReturns ==
    \A c \in Closers : closer[c] = "looked" ~> closer[c] = "returned"

=============================================================================
