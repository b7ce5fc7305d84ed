SPECIFICATION FairSpec
CONSTANTS
    r1 = r1
    r2 = r2
    r3 = r3
    c1 = c1
    c2 = c2
    Noop = Noop
    Request = {r1, r2, r3}
    Call = {c1, c2}
    Workloads <- ClientWorkloads
    WindowSize = 2
    Outcomes = {TRUE, FALSE}
    MaxLog = 3
    MaxStepDowns = 1
INVARIANTS AnswersAreReal NoLostWakeup AtMostOnce
PROPERTY WritesComplete
CHECK_DEADLOCK FALSE
