\* Three nodes that may change their leader once, and a client with one call.
SPECIFICATION Spec
CONSTANTS
  Nodes = {n1, n2, n3}
  None = None
  Absent = Absent
  Wrong = Wrong
  Refused = Refused
  Word = 4096
  FirstLeader = n1
  Files <- MCFiles
  StartFiles <- MCStartFiles
  Budgets <- MCBudgets
  MaxTerm = 2
  MaxOpen = 1
  MaxHops = 3
  MaxCalls = 1
SYMMETRY Others
CHECK_DEADLOCK FALSE
INVARIANTS
  ConfigUsable
  LeaseExclusive
  ReadsFresh
  SettledSucceeds
