CONSTANTS
    chat = chat
    chat1 = chat1
    chat2 = chat2
    p1 = p1
    Services = {chat}
    Instances = {chat1}
    Sockets = {k1}
    Paths = {p1}
    NameOf <- MCNameOf
    RoutesOf <- MCRoutesOf
    FalseErrors = TRUE
    NoInstance = NoInstance
    FreshFor = 0
    PruneAfter = 0
    Goroutines = {g1, g2}
    Workers = {w1}
    Pruner = Pruner
SYMMETRY Symmetry
SPECIFICATION Spec
INVARIANTS StoppedTracksNothing UndeliveredCloses HeartbeatIsSound
PROPERTIES OnlyRacesStrand
