SPECIFICATION AdaptFairSpec
CONSTANTS
  Ue = {1}
  Paths = {"loop", "system"}
  Schemes = {"a", "b", "c", "d"}
  MaxCqi = 2
  DefaultCqi = 1
  MaxPredictDelta = 1
  MaxDrift = 1
  MaxStray = 1
  StepDown = 2
  DeltaMax = 1
  MaxRisk = 2
  ThInit = 2
  ThHigh = 2
  Tighten = 1
  EwmaFull = 4
  EwmaWeight = 2
  EwmaRef = 1
  MaxRetxN = 1
  SafeBackOff = 0
  AggrBias = 1
  FixedN = 1
  Margin = 1
  MaxFlight = 2
  MaxFades = 1
PROPERTIES EachBlockSteersOnce LoopSettles GateHeals
