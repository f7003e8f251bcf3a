SPECIFICATION FairSpec
CONSTANTS
  Ue = {1, 2}
  Beam = {1, 2}
  Unassigned = {}
  Sinr = {20}
  Granted = {20}
  Injected = {20}
  NoSinr = NoSinr
  Gateway = Gateway
  Satellite = Satellite
  MaxQueue = 1
  MaxDown = 1
  MaxUp = 1
INVARIANTS NothingIsRelayedTwice AcksAreEarned
PROPERTY QueuesAreServed
