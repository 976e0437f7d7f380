SPECIFICATION LinkFairSpec
CONSTANTS
  Active = TRUE
  Target = FALSE
  BufSize = 24
  FopenResult = {TRUE}
  Bytes <- MCBytes
  Messages = {}
  Signals = {}
  Mortal = FALSE
  Display <- RecordedDisplay
  DisplayCounts = {1, 2}
  PayloadCounts = {1}
  ReportRecords <- MCReport
  HistoryRecords <- MCHistory
  LogRecords <- MCLog
  PanelLetters = {}
  Lag = 1
  Requests_Max = 0
  Presses_Max = 0
PROPERTY SnapshotTaken
