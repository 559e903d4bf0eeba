SPECIFICATION MCSpec
CONSTANTS
  m1 = m1
  m2 = m2
  Machines = {m1, m2}
  Editors = {m2}
  Codes = {"c1", "c2"}
  CodeLife = 1
  Limit = 2
  Window = 2
  Rate = 1
  Burst = 1
  MaxEnrols = 5
  Enrolments = 2
  MaxRequests = 3
  MaxRevokes = 1
  MaxEdits = 1
  MaxFaults = 1
  MaxTime = 3
INVARIANT RelayTypeOK
INVARIANT OneClientPerCode
INVARIANT RateKept
INVARIANT AttemptsKept
INVARIANT SameError
PROPERTY GrantedIsEnrolled
CHECK_DEADLOCK FALSE
