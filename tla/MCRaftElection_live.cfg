SPECIFICATION FairSpec
CONSTANTS
    Server = {a, b, c}
    Nil = Nil
    Candidates = {a, b}
    MaxTerm = 1
    MaxRestarts = 0
    MaxLost = 6
    MaxRounds = 0
    UpToDateChoices = {TRUE}
\* Bounded terms: the system stops when they are used up.
CHECK_DEADLOCK FALSE
PROPERTY ElectionEnds
PROPERTY LoneCandidateWins
