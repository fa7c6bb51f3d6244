CONSTANTS
    Sockets = {k1, k2}
    MaxConnections = 2
    MailboxSize = 1
    QueueSize = 1
    Handlers = {h1}
    GatewayOf <- MCGatewayOf
    BatchSize = 1
    HeartbeatLoop = HeartbeatLoop
    Listener = Listener
SPECIFICATION FairSpec
INVARIANTS OpenIsMapped MappedIsUsable ClosedStaysClosed StoppedServesNobody
PROPERTIES ListenReturns GoneConnectionsClose
