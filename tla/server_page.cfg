SPECIFICATION MCSpec
CONSTANTS
  Users = {"root"}
  Kinds = {"os"}
  Pushers = {"push"}
  Modes = {"manager", "inline"}
  MaxPasswords = 2
  MaxFailures = 1
  MaxPolicies = 1
  Timer = {"timer"}
  Commands = {"snapshot"}
  States = {1, 2, 3}
  Far = 2
  Near = 1
  Full = 3
  MaxChanges = 2
  MaxSnapshots = 3
  RunsWithPasswords = 1
  RunsOverlapping = 2
CONSTRAINT FewOverlap
INVARIANT ServerPageTypeOK
INVARIANT ManagerReferencesLead
INVARIANT HistoryHasEveryChange
PROPERTY PageCatchesUp
CHECK_DEADLOCK FALSE
