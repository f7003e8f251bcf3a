SPECIFICATION HandoverSpec
CONSTANTS
  Ue = {u1, u2}
  Ground = {1}
  Beam = {2, 3}
  GroundCapacity = 2
  MaxHandovers = 5
  EmergencyUe = {u1}
  VoiceUe = {}
  HighCapacityUe = {u2}
  DlBeamBudgetRbs = 25
  DlReservedRbs = 6
  DataAdmitRbCap = 4
  EmergencyUserCap = 2
  RawRequiredRbs = {1, 12}
  RemainingRbs = {4, 10, 25}
INVARIANTS RecordsAgree CountsCover BalancingEnds
