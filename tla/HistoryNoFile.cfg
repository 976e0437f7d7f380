SPECIFICATION MCSpec
CONSTANTS
  Active = TRUE
  Target = FALSE
  BufSize = 6
  FopenResult = {TRUE, FALSE}
  Bytes <- MCBytes
  Messages = {"CLIENT_REQ_HISTORY"}
  Signals = {}
  Mortal = FALSE
  Tokens <- DumpTokens
PROPERTIES HistoryCloseHasFile
