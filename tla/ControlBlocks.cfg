SPECIFICATION ScenarioSpec
CONSTANTS
  r1 = r1
  r2 = r2
  i1 = i1
  k1 = k1
  k2 = k2
  Rcbs = {r1, r2}
  Clients = {k1, k2}
  Items = {i1}
  DataSet <- TwoBlocks
  Requests <- AnyUse
  MaxConns = 3
  Window = 2
  Capacity = 2
  ChannelSize = 2
  MaxReportLag = 1
  MaxWrites = 2
INVARIANTS
  ReservationTypeOK
  ExclusiveUnlessReleased
  LiveReservationsHaveOwners
PROPERTIES
  HeldBlockIsNotTaken
  OrphanedBlockIsFreed
  BlocksEntryIsSent
CHECK_DEADLOCK FALSE
