SPECIFICATION Spec
CONSTANTS
  d1 = d1
  d2 = d2
  t1 = t1
  t2 = t2
  p1 = p1
  p2 = p2
  Docs = {d1, d2}
  Texts = {t1, t2}
  Title <- OneTitle
  Slug <- FileNames
  Publishers = {p1, p2}
  Restricted = {d1}
  MaxPublishes = 3
  MaxFaults = 1
  MaxReaders = 1
  MaxPages = 3
  Apart = TRUE
  SearchFails = FALSE
  MovesApart = TRUE
INVARIANT PagesTypeOK
INVARIANT OnePagePerDocument
INVARIANT RoundTrips
INVARIANT ExposedByFailures
PROPERTY OnlyOwnPages
PROPERTY OnlyOwnFiles
PROPERTY ImplementsPageStore
SYMMETRY Symmetry
CHECK_DEADLOCK FALSE
