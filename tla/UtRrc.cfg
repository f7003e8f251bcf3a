SPECIFICATION RrcFairSpec
CONSTANTS
  Ue = {u1}
  Ground = {1}
  Beam = {2, 3}
  MaxLevel = 2
  Hysteresis = 1
INVARIANTS WatchesAreSound
PROPERTIES ImplementsReporting A3ReportsRepeat
