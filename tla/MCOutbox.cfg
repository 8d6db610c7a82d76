SPECIFICATION Spec
CONSTANTS
  j1 = j1
  j2 = j2
  t1 = t1
  t2 = t2
  Jobs = {j1, j2}
  Tasks = {t1, t2}
  Workers = {w1, w2}
  TaskOf <- SplitTaskOf
  Created <- SplitCreated
  MaxAttempts = 4
  LeaseTime = 2
  MaxDelay = 1
  DelayCap = 5
  MaxExponent = 3
  ClaimLimit = 2
SYMMETRY SameWorkers
INVARIANTS LeaseMatchesStatus RetryBudget
PROPERTIES BackoffKeepsPace RunningLeaseNotReissued ImplementsLifecycle
