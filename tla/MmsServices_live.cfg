SPECIFICATION ServicesFairSpec
CONSTANTS
  Peers = {1, 2}
  Setups <- TwoSetups
  Clock = 5
  Asked <- FewRequests
  MaxConnections = 1
  IdlePeriods = 2
  i1 = i1
  i2 = i2
  i3 = i3
  Writers = {w1, w2}
  Items = {i1, i2}
  Values = {0, 1}
  Members <- LeafOfObject
  IntgPd = 1
  ChannelSize = 1
  MaxReportLag = 1
  MaxWrites = 3
  o1 = o1
  o2 = o2
  Objects = {o1, o2}
  ItemOf <- EndingAlike
  CtlModel <- ModelOf
  Sites <- TwoSites
  MaxCalls = 2
  FileNames = {f1}
  Blocks = 2
  MaxTransfers = 2
  MaxRemovals = 1
  Editors = {c1}
  Settings = {s1}
  NumOfSGs = 1
  SettingValues = {0}
  IdSpace = 4
  FirstId = 2
  ReportSlots = 1
  MaxRequests = 2
  MaxReports = 2
  Ieds = {real, sim}
  Simulated = {sim}
  Commands = {"activate", "confirm", "report", "enable", "edit"}
  Flows = {1}
  Haste = FALSE
  MaxBegun = 2
  MaxTicks = 0
  Binds = {b1, b2}
  SclFiles = {scl1, scl2}
  Slots = {goose}
  Calls = {1, 2}
  MaxCalled = 1
  MaxNesting = 2
  MaxTypeNesting = 4
  Ied <- TheIed
  NameOrder <- Segments
  Unindexed <- SegmentsWithout
  PageSize = 25
  Written <- StoredValues
  Questions <- NoQuestions
  AnswersTo <- SomeAnswers
  Identity <- Vendor
  Unasked <- NoQuestions
  MaxDialogue = 0
PROPERTIES
  AcceptLoopGoesOn
  IntegrityRepairs
  CallsEnd
CHECK_DEADLOCK FALSE
