SPECIFICATION MCSpec
CONSTANTS
  Active = TRUE
  Target = TRUE
  BufSize = 6
  FopenResult = {TRUE, FALSE}
  Bytes <- MCBytes
  Messages = {"CLIENT_INIT", "CLIENT_REQ_LOG", "CLIENT_REQ_HISTORY", "CLIENT_REQ_EXIT"}
  Signals = {"SIGUSR1", "SIGUSR2"}
  Mortal = TRUE
  Tokens <- ControlTokens
INVARIANTS FilesFollowSessions
PROPERTIES KeepsPromise
