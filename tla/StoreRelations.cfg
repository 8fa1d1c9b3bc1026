CONSTANTS
  c1 = c1
  c2 = c2
  NoCfdi = NoCfdi
  Contents <- MCContents
  Day <- MCDay
  Cfdi = {c1}
  Received = {}
  Worker = {w1}
  BatchSize = 1
  Faults = {}
SPECIFICATION FairSpec
PROPERTY RelationsFollowCancellation
