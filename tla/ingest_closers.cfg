SPECIFICATION Spec
CONSTANTS
  s1 = s1
  h1 = h1
  c1 = c1
  IdleGap = 1
  ScoreThreshold = 6
  MeaningfulCount = 3
  Timer = 2
  MinInterval = 2
  Milestones = TRUE
  MinMeaningful = 2
  MaxEvents = 2
  BatchIds = {1, 2, 3}
  Durations = {0}
  QuietAfter = 2
  MaxTime = 3
  MaxCommands = 3
  Overlap = FALSE
  Faults = {"kill", "forget"}
  MaxFaults = 1
  Kinds = {"end", "now", "tick"}
  Closers = {c1}
  AnySession = s1
  Sessions = {s1}
  Hooks = {h1}
  Commands <- EditLook
INVARIANT IngestTypeOK
INVARIANT OpenCountersExact
INVARIANT PendingHoldsWork
INVARIANT SizeBound
INVARIANT OneOpenBatch
CHECK_DEADLOCK FALSE
