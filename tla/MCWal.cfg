SPECIFICATION Spec
CONSTANTS
    Term = {1, 2}
    SegmentSize = 2
    CrashPoints = {"none", "append", "before"}
    PowerFails = FALSE
    MaxIndex = 5
    MaxCrashes = 2
PROPERTIES
    ImplementsDurableLog
\* A log at its last index with its snapshot there has nothing left to do.
CHECK_DEADLOCK FALSE
