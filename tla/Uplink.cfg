SPECIFICATION Spec
CONSTANTS
  Emergency = {}
  Voice = {1}
  Normal = {2}
  BudgetRbs = 2
  SpsRegionRbs = 1
  OverbookPercent = 100
  SpsClassRbs = 1
  SpsPeriod = 1
  ReleaseAfter = 1
  BytesPerRb = 1
  SrGrantRbs = 1
  PowerRbs = 2
  MaxBytes = 2
  Downlink = {2}
  MaxUp = 2
  MaxDown = 1
  MaxCalls = 1
INVARIANTS GrantsAreSound PictureSettles
