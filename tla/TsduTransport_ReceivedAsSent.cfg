SPECIFICATION LinkSpec
CONSTANTS
  none = none
  small = small
  full = full
  large = large
  huge = huge
  k1 = k1
  k2 = k2
  Tasks = {k1, k2}
  Tsdus = {small}
  Length <- OctetsOf
  MaxTpdu = 5
  MaxTsduLen = 5
  SelectLoop = TRUE
  MaxSends = 2
INVARIANT ReceivedAsSent
CHECK_DEADLOCK FALSE
