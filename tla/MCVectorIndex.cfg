SPECIFICATION IndexSpec
CONSTANTS
  None = None
  CellsPerBucket = 4
  Connectivity = 2
  ExpansionAdd = 4
  ExpansionSearch = 4
  FreeKey = 99
  Keys = {0, 1, 3, 4}
  Payloads <- MCPayloads
  InitialCapacity = 2
  BufferAlign = 2
  DeletePercent = 50
  IsolatePercent = 25
  WordBits = 8
  MaxWrites = 4
  MaxChecks = 1
  MaxSaves = 1
CHECK_DEADLOCK FALSE
INVARIANTS GraphWellFormed LookupAgrees ContentMatches SnapshotRoundTrip SearchSound
