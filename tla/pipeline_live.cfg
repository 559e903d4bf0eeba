SPECIFICATION LiveSpec
CONSTANTS
  s1 = s1
  h1 = h1
  w1 = w1
  none = none
  IdleGap = 1
  ScoreThreshold = 11
  MeaningfulCount = 9
  Timer = 1
  MinInterval = 0
  Milestones = TRUE
  MinMeaningful = 1
  MaxEvents = 9
  BatchIds = {1, 2}
  Durations = {0}
  QuietAfter = 1
  MaxTime = 3
  MaxCommands = 3
  Overlap = FALSE
  Faults = {"forget"}
  MaxFaults = 1
  Kinds = {"tick"}
  Closers = {w1}
  AnySession = s1
  Sessions = {s1}
  Hooks = {h1}
  Commands <- JustEdit
  Workers = {w1}
  Manual = {}
  Replies = {"ok", "failed"}
  MaxAttempts = 2
  MaxAborts = 1
  NoOne = none
  Retention = 1
INVARIANT DraftsHaveNoHole
PROPERTY AllSettled
PROPERTY NoticeRight
