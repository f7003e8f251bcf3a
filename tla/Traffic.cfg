SPECIFICATION TrafficFairSpec
CONSTANTS
  Models = {1, 2, 3}
  FtpRetries = 1
  MaxFiles = 3
  FrameInterval = 2
  SilenceInterval = 5
  Talk = {1, 3, 4}
  Gap = {1, 2}
  FullBufferInterval = 3
  Node = {"ue", "host"}
  MaxApps = 5
  MaxInstalls = 2
  MaxWindows = 2
  SocketRetries = 0
  MaxReports = 1
  Ue = {1, 2}
  Qfi = {1, 5, 9}
  Size = {1}
  Process = {0}
  WindowSize = 2
  MaxTime = 4
  LayerTime = 2
  AccountTime = 3
  MaxEvents = 3
  Tcp = {"FTP"}
  Voip = {"VOIP_RTP"}
  Udp = {}
  Payload = {1}
  RtpHeader = 1
  IpHeader = 2
  Second = 2
  RateUnit = 6
INVARIANTS FilesFollow LegsAgree InstallationsAreWhole MeasuredOnce RatesAreReal
PROPERTY TrafficGoesOn
CHECK_DEADLOCK FALSE
