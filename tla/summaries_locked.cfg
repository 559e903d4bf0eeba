SPECIFICATION FairSpec
CONSTANTS
  s1 = s1
  w1 = w1
  w2 = w2
  none = none
  Sessions = {s1}
  AnySession = s1
  IdleGap = 1
  ScoreThreshold = 5
  MeaningfulCount = 3
  Timer = 3
  MinInterval = 2
  Milestones = TRUE
  MinMeaningful = 2
  MaxEvents = 3
  BatchIds = {1, 2}
  Workers = {w1, w2}
  Manual = {}
  Replies = {"ok", "failed", "refused", "unavailable"}
  MaxAttempts = 2
  MaxAborts = 2
  NoOne = none
INVARIANT WorkerTypeOK
INVARIANT CopiesFresh
INVARIANT OneDraftPerBatch
INVARIANT SummarizedIsDrafted
PROPERTY ImplementsLedger
PROPERTY ResolvedUnlessOrphaned
