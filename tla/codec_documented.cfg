\* The e lines and the data rates that comments of the repository name as valid.
SPECIFICATION Spec
CONSTANTS
  OddLengths = {9, 33}
  CodeSeqs <- SomeCodeSeqs
  ByteCounts = {0, 255}
  DecimalCounts = {0, 96, 128, 256}
  NominalRates <- SomeNominal
  DataRates <- SomeData
  SamplePoints = {0, 1, 749, 750, 875, 1000, 1001}
INVARIANT UnderstoodAsDocumented
CHECK_DEADLOCK FALSE
