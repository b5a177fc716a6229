SPECIFICATION Spec
CONSTANTS
  Ids = {f1, f2}
  Tasks = {t1, t2}
  MaxFile = 2
  MaxTotal = 3
  Uploads <- FourUploads
  Operations = {"upload", "delete", "read", "fail", "expire", "crash"}
  NoTask = NoTask
  NoId = NoId
INVARIANT OnlyExpiredGo
CHECK_DEADLOCK FALSE
