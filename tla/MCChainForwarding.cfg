SPECIFICATION Spec
CONSTANTS
  Leader = l
  Mentors = {m1}
  Follower = f
  None = None
  Starts <- MCStarts
  Slots = {1, 2}
  Window = 1
  Batch = 1
  MaxLen = 2
  MaxDirect = 1
  MaxFaults = 1
INVARIANTS InFlightExact FollowerAgrees CommittedOnQuorum FollowerCommits
PROPERTY ChainDelivers
