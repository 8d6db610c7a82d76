SPECIFICATION Spec
CONSTANTS
  Candidates <- SomeCandidates
  Consolidators = {p1, p2}
  Operators = {o1}
  MaxLog = 2
  None = None
SYMMETRY Alike
INVARIANTS OneOpenVersion LogIsChain ObservationDecidedOnce IndexFollowsCards
PROPERTIES ContentChangeUnsettles RetiredCardsStay
