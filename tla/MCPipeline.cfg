SPECIFICATION Spec
CONSTANTS
  j1 = j1
  j2 = j2
  Jobs = {j1, j2}
  Created <- InOrder
  Workers = {}
  Backlogs = {p1}
  Finishers = {f1}
  MaxAttempts = 1
  LeaseTime = 1
  ClaimLimit = 2
  DelayCap = 0
  MaxExponent = 1
  TaskDelay = 0
  BaseIds = {b1}
  DeadAfter = 2
  MaxStarts = 2
  Forceable = {{j1, j2}}
PROPERTIES ImplementsComponents BacklogAcknowledgesItsInput
CHECK_DEADLOCK FALSE
