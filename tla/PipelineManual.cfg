CONSTANTS
  p1 = p1
  p2 = p2
  Package = {p1, p2}
  Query = {q1}
  DownloadType = {"ISSUED"}
  Answer <- MCFewAnswers
  Faults = {}
  Sources = {"autosync", "cron"}
  MaxPackages = 2
  MaxCfdiQty = 1
  MaxWait = 2
  MaxManualPerDay = 3
  MaxTime = 2
SPECIFICATION Spec
INVARIANT AutomaticNeverBlocks
