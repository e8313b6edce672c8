SPECIFICATION DialogueSpec
CONSTANTS
  MaxNesting = 2
  MaxTypeNesting = 4
  Ied <- TheIed
  NameOrder <- Segments
  Unindexed <- SegmentsWithout
  PageSize = 25
  Written <- StoredValues
  Questions <- NoQuestions
  AnswersTo <- SomeAnswers
  Identity <- Vendor
  Unasked <- AskedForReferences
  MaxDialogue = 1
INVARIANT ReportsReadAsWritten
CHECK_DEADLOCK FALSE
