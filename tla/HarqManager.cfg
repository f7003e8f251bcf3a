SPECIFICATION FairSpec
CONSTANTS
  Rnti = {1}
  MaxProcesses = 2
  Counts = {0, 3}
  MaxRetx = 2
  MaxTx = 2
  FeedbackLate = FALSE
INVARIANTS EachReportedOnce EveryNackActedOn CacheIsLive AckedCopyWasDecoded
PROPERTY EventuallyResolved
