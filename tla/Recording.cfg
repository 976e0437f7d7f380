SPECIFICATION Spec
CONSTANTS
  Lives_Max = 3
  Datagrams <- MCDatagrams
  Files <- MCFiles
  Reads_Max = 2
INVARIANTS TypeOK BlockIsFit NothingReordered RoundTrip
PROPERTIES WholeDatagrams SixLinesFit
CHECK_DEADLOCK FALSE
