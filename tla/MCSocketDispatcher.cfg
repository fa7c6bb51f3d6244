CONSTANTS
    Sockets = {k1, k2}
    QueueSize = 2
    MaxWork = 6
    Stuck = {k1}
SPECIFICATION FairSpec
INVARIANTS OrderedPerSocket QueuedHasWorker WaitMeansDrained
PROPERTIES ImplementsSerialQueues OthersProgress WaitEnds
