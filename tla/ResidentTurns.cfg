SPECIFICATION FairSpec
CONSTANTS
  ResidentCount = 2
  Cadence = 1
  Intervals = {1, 2}
  Horizon = 2
  MaxCalls = 2
  DirectWake = {1, 2}
  MaxInterruptions = 2
INVARIANTS WokenIsDue ServedInTurn
PROPERTIES SettledTurnsStand NobodyStarves
