CONSTANTS
  TTL = 0
  MaxEntries = 1000
  NoId = NoId
  Chats = {c1}
  Styles <- AllStyles
  Casts <- PlainCasts
  Exposed <- Sturdy
  Outputs <- MCOutputs
  Plain <- Prose
  MaxTurns = 4
  MaxFaults = 0
  MaxBranches = 1
  KeptUsers = 2
  MaxIds = 6
  MaxTime = 0
  MaxConversations = 1000
  Racy = FALSE
SPECIFICATION Spec
INVARIANT NothingElse
CHECK_DEADLOCK FALSE
