SPECIFICATION FairSpec
CONSTANTS
  Ids = {f1, f2}
  Tasks = {t1, t2}
  MaxFile = 2
  MaxTotal = 3
  Uploads <- FourUploads
  Operations = {"upload", "delete", "read", "fail", "expire", "crash"}
  NoTask = NoTask
  NoId = NoId
INVARIANTS WithinLimit Readable Durable
PROPERTIES CleanedUp UploadsEnd
CHECK_DEADLOCK FALSE
