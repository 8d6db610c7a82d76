SPECIFICATION PartSpec
CONSTANTS
  None = None
  Short <- SomeShort
  Stem <- SomeStem
  Placeholders = {"*.py"}
  Bindings <- SomeBindings
  Selections <- SomeSelections
  Evidence <- SomeEvidence
  ProjectJ = ProjectJ
  ProjectX = ProjectX
  Trees <- SomeTrees
  Names <- SomeNames
  Procs = {p1, p2}
  Runs = {r1, r2}
  MaxAge = 0
  MaxTime = 0
  BatchSize = 1
  TrailSize = 1
SYMMETRY Symmetric
PROPERTY NotDemoted
