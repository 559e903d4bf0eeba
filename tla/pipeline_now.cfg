SPECIFICATION NowSpec
CONSTANTS
  s1 = s1
  h1 = h1
  h2 = h2
  e1 = e1
  w1 = w1
  m1 = m1
  none = none
  IdleGap = 1
  ScoreThreshold = 11
  MeaningfulCount = 9
  Timer = 9
  MinInterval = 0
  Milestones = TRUE
  MinMeaningful = 2
  MaxEvents = 9
  BatchIds = {1, 2}
  Durations = {0}
  QuietAfter = 0
  MaxTime = 2
  MaxCommands = 2
  Overlap = TRUE
  Faults = {}
  MaxFaults = 2
  Kinds = {"tick", "now", "end"}
  Closers = {w1, m1, e1}
  AnySession = s1
  Sessions = {s1}
  Hooks = {h1, h2}
  Commands <- JustCommit
  Workers = {w1}
  Manual = {m1}
  Replies = {"ok"}
  MaxAttempts = 2
  MaxAborts = 0
  NoOne = none
  Retention = 0
PROPERTY AllSettled
