CONSTANTS
  NoKey = "none"
  IntMax = 3
  LongMax = 13
  Defaults <- DefaultsAre
  CountKey = "recommend_count"
  ArgLists <- ArgListsAre
  Files <- FilesAre
  MaxWorkers = 2
  MaxCalls = 2
  Answers = {1, 2}
  Latency = {0, 1, 2}
SPECIFICATION Spec
INVARIANTS
  TypeOK
  OptionsAsTyped
  ExpectedAsWritten
  ReportAccounts
  SuccessesWereAnswered
  ZeroMeansAllGood
  LatenciesAreRight
PROPERTY
  MainEnds
CHECK_DEADLOCK FALSE
