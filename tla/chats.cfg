CONSTANTS
  TTL = 0
  MaxEntries = 1000
  NoId = NoId
  Chats = {c1, c2}
  Styles <- AllStyles
  Casts <- AllCasts
  Exposed <- Sturdy
  Outputs <- MCOutputs
  Plain <- Prose
  MaxTurns = 3
  MaxFaults = 1
  MaxBranches = 1
  KeptUsers = 1
  MaxIds = 6
  MaxTime = 1
  MaxConversations = 1000
  Racy = FALSE
SYMMETRY Symmetry
SPECIFICATION Spec
INVARIANTS  StaysPut OneAttempt LightPromptKnown ToolChoiceHonoured
CHECK_DEADLOCK FALSE
