CONSTANTS
  c1 = c1
  c2 = c2
  NoCfdi = NoCfdi
  Contents <- MCContents
  Day <- MCDay
  Cfdi = {c1}
  Received = {}
  Worker = {w1, w2}
  BatchSize = 1
  Faults = {"db", "redeliver"}
SPECIFICATION Spec
SYMMETRY MCReplicas
INVARIANT RelatedMatchesCfdi
PROPERTY OnlyLearns
