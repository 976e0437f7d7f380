SPECIFICATION LinkFairSpec
CONSTANTS
  Active = TRUE
  Target = FALSE
  BufSize = 24
  FopenResult = {TRUE}
  Bytes <- MCBytes
  Messages = {"CLIENT_REQ_REPORT", "CLIENT_REQ_HISTORY", "CLIENT_REQ_LOG"}
  Signals = {}
  Mortal = FALSE
  Display <- RecordedDisplay
  DisplayCounts = {1, 2}
  PayloadCounts = {1, 2}
  ReportRecords <- MCReport
  HistoryRecords <- MCHistory
  LogRecords <- MCLog
  PanelLetters = {72, 76, 82}
  Lag = 2
  Requests_Max = 2
  Presses_Max = 1
INVARIANTS EngineFollowsMaster NoFault LogRequestsFit CompletionIsTrue
PROPERTIES DumpIsWhole LogModeResumes AnswersInSlot RequestServedInStep ClientToldInStep DumpsEndInStep
