CONSTANTS
    Runs = {r1, r2, r3}
    Closers = {c1, c2}
    Waiters = {w1}
    NoRun = NoRun
SPECIFICATION FairSpec
INVARIANTS OneRunAtATime CloseMeansOver NoStrayCancel ReadyIsCurrent ServingWakesWaiters
PROPERTY CloseReturns
