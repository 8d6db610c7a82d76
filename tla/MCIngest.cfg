SPECIFICATION Spec
CONSTANTS
  s1 = s1
  t1 = t1
  t2 = t2
  pr1 = pr1
  a1 = a1
  r1 = r1
  r2 = r2
  x1 = x1
  None = None
  Envelopes <- SomeEnvelopes
  Replayers = {jsonl}
  Importers = {codex}
  BatchSize = 2
  MaxErrors = 1
  MaxLines = 3
INVARIANTS AcknowledgedIsStored SessionsFollowEvents ReportIsTrue
