CONSTANTS
  Cfdi = {c1, c2, c3}
  Horizon = 3
  Start = 0
  End = 3
  maxCFDIPerChunk = 2
  DayLength = 2
SPECIFICATION Spec
PROPERTY XmlsRequested
