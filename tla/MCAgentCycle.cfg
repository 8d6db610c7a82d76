SPECIFICATION Spec
CONSTANTS
  Prompts = {prompt}
  Tools = {tool}
  Stops = {stop}
  Started = started
  None = None
  Hooks = {h1, h2}
  Agents = {a1}
  Window = 3
  MaxAttempts = 2
  DeadAfter = 1
SYMMETRY SameHooks
INVARIANTS EvidenceIsNumbered CompletedIsLearned NotesKeepTheirEvidence
PROPERTIES CompletedStays
