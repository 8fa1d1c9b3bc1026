CONSTANTS
  p1 = p1
  p2 = p2
  Package = {p1, p2}
  Query = {q1}
  DownloadType = {"ISSUED"}
  Answer <- MCFewAnswers
  Faults = {"package"}
  Sources = {"autosync", "cron"}
  MaxPackages = 2
  MaxCfdiQty = 1
  MaxWait = 4
  MaxManualPerDay = 3
  MaxTime = 5
SPECIFICATION FairSpec
PROPERTY TemporaryIsLeft
PROPERTY ForwardOnly
CHECK_DEADLOCK FALSE
