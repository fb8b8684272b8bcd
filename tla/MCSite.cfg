SPECIFICATION AroundFairSpec
CONSTANTS
  Parts = {"site", "news"}
  None = None
  Absent = Absent
  Broken = Broken
  main = main
  hall = hall
  art = art
  card = card
  enrol = enrol
  PageIds <- MCPageIds
  Sites <- MCSites
  DefaultSite <- MCDefaultSite
  MaxWrites = 3
  MaxDepth = 3
  MaxItems = 3
  MaxImport = 1
  MaxClock = 3
  MaxArticles = 2
CHECK_DEADLOCK FALSE
INVARIANTS NobodyDropped TextOnTextScreen Chronological LossesExplained
PROPERTIES ContentArrives 
