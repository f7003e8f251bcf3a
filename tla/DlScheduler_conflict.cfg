SPECIFICATION FairSpec
CONSTANTS
  BudgetRbs = 3
  SpsRegionRbs = 2
  OverbookPercent = 150
  Ue = {1, 2, 3}
  SpsUe = {1, 2, 3}
  SpsClassRbs = 2
  Beam = {1}
  Cqi = {1}
  NomaMinCqiGap = 1
  NomaMaxFar = 0
  PrachRbs = 1
  SpsPeriod = 2
  Stagger = TRUE
  ReleaseAfter = 2
  Moves = {"add", "remove"}
INVARIANTS SlotsExclusive
PROPERTY ConflictsEnd
