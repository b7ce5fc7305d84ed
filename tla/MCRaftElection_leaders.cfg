SPECIFICATION Spec
CONSTANTS
    Server = {a, b, c}
    Nil = Nil
    Candidates = {a, b}
    MaxTerm = 2
    MaxRestarts = 0
    MaxLost = 0
    MaxRounds = 1
    UpToDateChoices = {TRUE}
SYMMETRY NodeSymmetry
CHECK_DEADLOCK FALSE
INVARIANT OneLeaderPerTerm
