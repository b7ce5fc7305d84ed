SPECIFICATION Spec
CONSTANTS
    Node = {1, 2, 3, 4}
    Self = 1
    Rank <- Descending
    MaxPasses = 3
    MaxTerms = 1
    MaxReceived = 2
INVARIANTS EveryoneServed OneFollowerPerMentor
PROPERTY AssignmentTakesEffect
