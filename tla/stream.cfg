SPECIFICATION FairSpec
CONSTANTS
  MaxRetries = 3
  FinishIdle = TRUE
  FirstActivity = TRUE
  ProgressIdle = TRUE
  Pieces = {"a", "b"}
  Texts <- CandidateTexts
  Cids = {c1, c2}
  NoCid = NoCid
  MaxReads = 2
INVARIANTS SentOnce AnswerComposes ForeignConversationFlagged MismatchRestartable
PROPERTIES ReaderEnds SilenceEnds CancelEnds
CHECK_DEADLOCK FALSE
