SPECIFICATION Spec
CONSTANTS
  Lives_Max = 1
  Datagrams <- MCDatagrams
  Files <- MCFiles
  Reads_Max = 0
INVARIANT AnnouncedRuns
CHECK_DEADLOCK FALSE
