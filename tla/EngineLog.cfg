SPECIFICATION MCSpec
CONSTANTS
  Active = TRUE
  Target = FALSE
  BufSize = 5
  FopenResult = {TRUE}
  Bytes <- MCBytes
  Messages = {"CLIENT_REQ_LOG"}
  Signals = {}
  Mortal = FALSE
  Tokens <- LogTokens
INVARIANTS LogBitFollowsLogMode DebtIsBacked OffRequestFits LogRecordIsFresh
