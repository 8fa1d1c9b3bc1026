CONSTANTS
  p1 = p1
  p2 = p2
  Package = {p1, p2}
  Query = {q1}
  DownloadType = {"ISSUED"}
  Answer <- MCAnswer
  Faults = {"publish", "redeliver"}
  Sources = {"admin", "manual"}
  MaxPackages = 1
  MaxCfdiQty = 1
  MaxWait = 2
  MaxManualPerDay = 3
  MaxTime = 3
SPECIFICATION Spec
PROPERTY LivesAsPromised
INVARIANT OnlyFinishedIsDownloaded
INVARIANT StoredBeforeProcessed
INVARIANT ProcessedIsLoaded
INVARIANT VerifyWithinLimit
