SPECIFICATION FairSpec
CONSTANTS
    Local = Local
    Installers = {h1, h2}
    Missing = Missing
    Torn = Torn
    SnapshotThreshold = 1
    MaxIndex = 3
    MaxRestarts = 1
INVARIANTS
    SnapshotIntact
    WalReplayable
    NothingLost
    DedupCoversApplied
PROPERTIES
    CommittedIsApplied
\* The entries of the instance run out.
CHECK_DEADLOCK FALSE
CONSTRAINT Undisturbed
