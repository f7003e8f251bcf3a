SPECIFICATION LinkSpec
CONSTANTS
  Rnti = {1, 2}
  Above = {3}
  Below = {}
  MaxCut = 2
  MaxBoost = 0
  LoopDelay = TRUE
  PhyReports = TRUE
  Slots = 2
  MaxUnsettled = 2
  MaxLost = 1
INVARIANT LedgerIsSound
