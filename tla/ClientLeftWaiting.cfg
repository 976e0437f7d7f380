SPECIFICATION LinkFairSpec
CONSTANTS
  Active = TRUE
  Target = FALSE
  BufSize = 24
  FopenResult = {TRUE}
  Bytes <- MCBytes
  Messages = {"CLIENT_REQ_REPORT"}
  Signals = {}
  Mortal = FALSE
  Display <- RecordedDisplay
  DisplayCounts = {1, 2}
  PayloadCounts = {1}
  ReportRecords <- MCReport
  HistoryRecords <- MCHistory
  LogRecords <- MCLog
  PanelLetters = {}
  Lag = 1
  Requests_Max = 1
  Presses_Max = 0
PROPERTY ClientToldInTheEnd
