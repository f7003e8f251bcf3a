SPECIFICATION Spec
CONSTANTS
  BudgetRbs = 3
  SpsRegionRbs = 2
  OverbookPercent = 100
  Ue = {1, 2, 3}
  SpsUe = {1, 2}
  SpsClassRbs = 1
  Beam = {1, 2}
  Cqi = {1, 2}
  NomaMinCqiGap = 1
  NomaMaxFar = 1
  PrachRbs = 2
  SpsPeriod = 2
  Stagger = FALSE
  ReleaseAfter = 2
  Moves = {"handover"}
INVARIANTS AdmittedIsSum PrachKept GrantedOnce
