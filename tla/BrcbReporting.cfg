SPECIFICATION ScenarioSpec
CONSTANTS
  r1 = r1
  r2 = r2
  i1 = i1
  k1 = k1
  Rcbs = {r1}
  Clients = {k1}
  Items = {i1}
  DataSet <- OneBlock
  Requests <- AllUse
  MaxConns = 2
  Capacity = 2
  ChannelSize = 2
  MaxReportLag = 1
  MaxWrites = 3
INVARIANTS
  TypeOK
  EntryIdsAreConsecutive
  LossIsSignalled
  NoLostWakeup
CHECK_DEADLOCK FALSE
