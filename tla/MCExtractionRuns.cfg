SPECIFICATION Spec
CONSTANTS
  Keys = {k1, k2}
  Processes = {p1, p2}
  BaseIds = {b1, b2}
  DeadAfter = 2
  MaxStarts = 3
SYMMETRY Interchangeable
INVARIANTS SingleExecutor StartBudget ResultMatchesRows
PROPERTIES SettledIsFinal CitedCandidatesSurvive
CHECK_DEADLOCK FALSE
