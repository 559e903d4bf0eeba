SPECIFICATION Spec
CONSTANTS
  d1 = d1
  d2 = d2
  c1 = c1
  t1 = t1
  Drafts = {d1, d2}
  MaxDocs = 2
  Screens = {}
  Clis = {c1}
  Ticks = {t1}
  Keys = {"a", "d", "p", "e", "r", "m"}
  MaxOps = 3
  MaxEdits = 1
  MaxFaults = 0
PROPERTY NoSectionLost
CHECK_DEADLOCK FALSE
