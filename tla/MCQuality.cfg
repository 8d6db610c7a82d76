SPECIFICATION PartSpec
CONSTANTS
  None = None
  Acknowledgements = {"nothing"}
  CodingTexts = {"remark", "request"}
  Requests = {"request"}
  FailureTexts = {"failed"}
  SuccessStatuses = {"passed"}
  CodePaths = {"a.py", "b.py"}
  CodeSymbols = {"X.f"}
  IndexSymbols = {"codememory"}
  EventOf <- FewEvents
  Contents <- FewContents
  Ids = {"c"}
  Procs = {p1, p2}
  Operations = {"extract", "replay", "dry_run", "consolidate"}
  Runs = {"replay"}
  MaxAge = 0
  MaxTime = 1
  BatchSize = 1
  Extractor = Extractor
  WideStory <- ManyEvents
  WideContents <- ManyContents
  Raws = {Raw}
  CanonicalRaws = {}
  Checkouts <- SomeRoots
  Scopes <- NamedAndCopied
  Types = {"explicit", "inferred"}
  Confidences = {50}
  MaxEvents = 2
  MaxWrites = 4
SYMMETRY Symmetric
CHECK_DEADLOCK FALSE
INVARIANTS QuarantineMakesNoCard GateAcceptsBacked
PROPERTIES EvaluatedWhenSucceeded OwnersStay
