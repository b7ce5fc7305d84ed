SPECIFICATION FairSpec
CONSTANTS
    Leader = l
    Peers = {p, q}
    LeaderTerm = 3
    LeaderLog <- ShortLog
    PeerLogs <- ShorterOrDiverged
    Window = 1
    BatchMax = 4
    MaxHandlers = 1
    MaxCalls = 2
    MaxProposals = 1
    MaxLost = 1
    MaxHeartbeatLost = 0
    MaxFailures = 4
    MaxSnapshots = 0
    Reachable = {p, q}
\* Once everything is replicated there is nothing left to do.
CHECK_DEADLOCK FALSE
INVARIANTS
    CommittedOnQuorum
PROPERTY CatchUp
