SPECIFICATION MCSpec
CONSTANTS
  Active = FALSE
  Target = FALSE
  BufSize = 6
  FopenResult = {TRUE}
  Bytes <- MCBytes
  Messages = {}
  Signals = {}
  Mortal = FALSE
  Tokens <- PassiveTokens
INVARIANTS FilesFollowSessions LookBackIsHarmless
PROPERTIES KeepsPromise
