SPECIFICATION PartSpec
CONSTANTS
  Shipped = 3
  Older = 1
  Commits = {11, 12}
  Programs = {p1, p2, p3}
  Killable = {p1, p2}
  Tables <- TableOrder
  Restricting <- RestrictKeys
  Cascading <- CascadeKeys
  Transactions <- Writers
  KeptTables <- RowsThatStay
  AllCalls <- EveryCall
  Callers = {"hook", "api"}
  Impatient = {"hook"}
  MaxOverlapping = 3
  MaxAlone = 5
  NoTurn = NoTurn
  Talk <- TalkOfFive
  PageSizes = {1, 2}
  EventsPerBatch = 2
  WholeTitles = {1, 2}
  PagedTitles = {1}
  MaxWhole = 2
  MaxPaged = 3
  WholeImporters = {"i1", "i2"}
  PagedImporters = {"i1"}
  SomeCards <- TwelveCards
  CardsThatChange = {1, 11, 12}
  Sought <- BothWords
CHECK_DEADLOCK FALSE
INVARIANTS OrderServes RowFollowsEvents ThreadIsTold RoutesAreBest
PROPERTIES FilesAreWhole OutcomesCount
