SPECIFICATION Spec
CONSTANTS
    Server = {a, b, c}
    Nil = Nil
    Candidates = {a, b}
    MaxTerm = 2
    MaxRestarts = 1
    MaxLost = 0
    MaxRounds = 1
    UpToDateChoices = {TRUE}
SYMMETRY NodeSymmetry
\* Bounded terms: the system stops when they are used up.
CHECK_DEADLOCK FALSE
INVARIANTS
    VoteIsFinal
    LeaderBackedByMajority
    ElectionSafety
    ElectionInv
PROPERTY TermNeverRegresses
