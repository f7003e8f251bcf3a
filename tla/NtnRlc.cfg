SPECIFICATION FairSpec
CONSTANTS
  SnMod = 4
  MaxSdu = 3
  MaxStatus = 2
  Modes = {"UM", "AM"}
  PhyLoss = {TRUE, FALSE}
  AmDrop = TRUE
INVARIANTS InOrderExactlyOnce
PROPERTIES ImplementsDelivery EventualDelivery
CHECK_DEADLOCK FALSE
