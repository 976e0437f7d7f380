SPECIFICATION MCSpec
CONSTANTS
  Active = TRUE
  Target = FALSE
  BufSize = 6
  FopenResult = {TRUE}
  Bytes <- MCBytes
  Messages = {"CLIENT_REQ_REPORT", "CLIENT_REQ_HISTORY"}
  Signals = {}
  Mortal = FALSE
  Tokens <- DumpTokens
INVARIANTS TypeOK LookBackIsHarmless NoNullStream
PROPERTIES SessionEndsOnMark
