SPECIFICATION NetworkSpec
CONSTANTS
  p1 = p1
  p2 = p2
  b1 = b1
  v1 = v1
  v2 = v2
  Publishers = {p1, p2}
  Blocks = {b1}
  BlockOf <- SameBlock
  Simulated = {p2}
  Unverified = {p2}
  Values = {v1, v2}
  TMin = 1
  TMax = 2
  Counters = 3
  InboxSize = 1
  EventCapacity = 1
  WireSize = 2
  MaxFaults = 1
  MaxRestarts = 1
  MaxStates <- ThreeAndNone
  MaxFrames = 3
  mu = mu
  tester = tester
  stranger = stranger
  SvPublishers = {mu, tester, stranger}
  SvSimulated = {tester}
  SvUnverified = {stranger}
  SvWrap = 5
  Packed = 2
  SvWireSize = 1
  SvEventCapacity = 1
  MaxSamples <- SamplesOf
  MaxSvFaults = 2
  MaxSvRestarts <- RestartsOf
  KeySets <- SomeKeys
  Lags <- BehindOrAhead
  Apdus = {20, 120}
  Horizon = 5
  MaxSigned = 1
  none = none
  small = small
  full = full
  large = large
  huge = huge
  k1 = k1
  k2 = k2
  Tasks = {k1, k2}
  Tsdus = {none, full, small, large, huge}
  Length <- OctetsOf
  MaxTpdu = 5
  MaxTsduLen = 5
  SelectLoop = FALSE
  MaxSends = 3
INVARIANTS
  NetworkTypeOK
  EventsTellTruth
  NoFalseAlarm
  SampleLossIsTold
  RotationLosesNothing
  ReceivedEndsInOrder
PROPERTIES
  SimulatedAndRealDoNotMix
  RestingCatchesUp
  SilentIsNoticed
  TaskImplementsDelivery
  EverythingArrivesAtTask
CHECK_DEADLOCK FALSE
