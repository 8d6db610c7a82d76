SPECIFICATION FairSpec
CONSTANTS
  j1 = j1
  j2 = j2
  Jobs = {j1, j2}
  Created <- InOrder
  Workers = {w1, w2}
  Backlogs = {}
  Finishers = {}
  MaxAttempts = 2
  LeaseTime = 1
  ClaimLimit = 2
  DelayCap = 1
  MaxExponent = 1
  TaskDelay = 1
  BaseIds = {b1}
  DeadAfter = 2
  MaxStarts = 2
  Forceable = {}
INVARIANTS CompletedMeansExtracted
PROPERTIES EveryJobSettles
CHECK_DEADLOCK FALSE
