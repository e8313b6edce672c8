SPECIFICATION ServicesSpec
CONSTANTS
  Peers = {1, 2}
  Setups <- AllSetups
  Clock = 5
  Asked <- Requests
  MaxConnections = 1
  IdlePeriods = 2
  i1 = i1
  i2 = i2
  i3 = i3
  Writers = {w1, w2}
  Items = {i1, i2, i3}
  Values = {0, 1}
  Members <- LeafAndObject
  IntgPd = 1
  ChannelSize = 2
  MaxReportLag = 1
  MaxWrites = 3
  o1 = o1
  o2 = o2
  Objects = {o1, o2}
  ItemOf <- EndingAlike
  CtlModel <- ModelOf
  Sites <- TwoSites
  MaxCalls = 3
  FileNames = {f1, f2}
  Blocks = 2
  MaxTransfers = 2
  MaxRemovals = 1
  Editors = {c1, c2}
  Settings = {s1, s2}
  NumOfSGs = 2
  SettingValues = {0, 1}
  IdSpace = 4
  FirstId = 2
  ReportSlots = 1
  MaxRequests = 3
  MaxReports = 3
  Ieds = {real, sim}
  Simulated = {sim}
  Commands = {"write", "operate", "select"}
  Flows = {1}
  Haste = FALSE
  MaxBegun = 3
  MaxTicks = 1
  Binds = {b1, b2}
  SclFiles = {scl1, scl2}
  Slots = {goose}
  Calls = {1, 2}
  MaxCalled = 5
  MaxNesting = 2
  MaxTypeNesting = 4
  Ied <- TheIed
  NameOrder <- Segments
  Unindexed <- SegmentsWithout
  PageSize = 25
  Written <- StoredValues
  Questions <- SomeQuestions
  AnswersTo <- SomeAnswers
  Identity <- Vendor
  Unasked <- SomeUnasked
  MaxDialogue = 3
INVARIANTS
  ServicesTypeOK
  AssociatedIsAdmitted
  DataUnderAgreedContext
  LastReportIsCurrent
  ResultsAreTrue
  OperatedAsOftenAsSelected
  TransfersAreExact
  UndisturbedEdit
  OwnAnswer
  ReportsAreKept
  PatientUseIsSafe
  TasksAreHeld
  LiveIedsServeTheirOwn
  BothSidesMeanTheSame
  NamesAndListsAreWhole
CHECK_DEADLOCK FALSE
