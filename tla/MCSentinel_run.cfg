SPECIFICATION Spec
CONSTANTS
  Order <- MCOrder
  Kind <- MCKind
  Every <- MCEvery
  Period = 2
  SustainedCount = 3
  ReadySamples = 1
  Window = 2
  AlertCap = 1
PROPERTIES
  SustainedMeansConsecutive
  ReportedOnce
  LastingIsReported
  StopReturns
