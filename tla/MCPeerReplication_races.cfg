SPECIFICATION Spec
CONSTANTS
    Leader = l
    Peers = {p}
    LeaderTerm = 3
    LeaderLog <- LongLog
    PeerLogs <- Divergent
    Window = 2
    BatchMax = 1
    MaxHandlers = 2
    MaxCalls = 2
    MaxProposals = 0
    MaxLost = 1
    MaxHeartbeatLost = 1
    MaxFailures = 4
    MaxSnapshots = 1
    Reachable = {}
\* Once everything is replicated there is nothing left to do.
CHECK_DEADLOCK FALSE
INVARIANTS
    AcksAreReal
    LogMatching
    TypeOK
    ReplicationInv
