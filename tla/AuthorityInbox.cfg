SPECIFICATION Spec
CONSTANTS
  p1 = p1
  p2 = p2
  a1 = a1
  a2 = a2
  Partition = {p1, p2}
  Agent = {a1, a2}
  NoPartition = NoPartition
  Home <- MCHome
  Movers = {a1}
  Depositors = {a2}
  TravelTicks = 1
  MaxTicks = 2
  MaxSettlements = 2
  MaxCrashes = 1
  MaxTimeouts = 1
INVARIANTS TypeOK DeliveredOnce InboxBringsEverything OnlyOwnersAct BarrierOpens
PROPERTY ClockMovesBetweenTicks
\* The batch ends.
CHECK_DEADLOCK FALSE
