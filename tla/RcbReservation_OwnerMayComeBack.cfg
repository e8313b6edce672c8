SPECIFICATION ReservationSpec
CONSTANTS
  r1 = r1
  k1 = k1
  k2 = k2
  Rcbs = {r1}
  Clients = {k1, k2}
  MaxConns = 3
  Window = 2
  Requests <- EnableAndKeep
INVARIANT OwnerMayComeBack
CHECK_DEADLOCK FALSE
