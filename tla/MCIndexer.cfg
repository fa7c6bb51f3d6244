CONSTANTS
    chat = chat
    docs = docs
    chat1 = chat1
    chat2 = chat2
    docs1 = docs1
    Services = {chat, docs}
    Instances = {chat1, chat2, docs1}
    Sockets = {k1, k2, k3}
    Paths = {p1}
    NameOf <- MCNameOf
    NoInstance = NoInstance
    FreshFor = 0
    PruneAfter = 1
SYMMETRY Symmetry
SPECIFICATION IndexSpec
INVARIANT IndexInv
PROPERTY ImplementsLeastConnections
