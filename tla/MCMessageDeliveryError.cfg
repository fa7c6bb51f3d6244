CONSTANTS
    k1 = k1
    large = large
    Calls = {small1, large}
    SocketOf <- MCSocketOf
    Chunks <- MCChunks
    Sockets = {k1}
    QueueSize = 1
    MaxWork = 3
SPECIFICATION Spec
INVARIANT ErrorMeansUndelivered
