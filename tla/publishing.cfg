SPECIFICATION FairSpec
CONSTANTS
  d1 = d1
  d2 = d2
  s1 = s1
  c1 = c1
  t1 = t1
  Drafts = {d1, d2}
  MaxDocs = 2
  Screens = {s1}
  Clis = {c1}
  Ticks = {t1}
  Keys = {"a", "d", "p", "e", "r", "m"}
  MaxOps = 2
  MaxEdits = 1
  MaxFaults = 2
INVARIANT PublishingTypeOK
INVARIANT SectionOnce
INVARIANT PublishedIsOut
PROPERTY QueuedIsSettled
CHECK_DEADLOCK FALSE
