\* Every frame, from every implementation to every other, whole or cut, and every report.
SPECIFICATION Spec
CONSTANTS
  OddLengths = {9, 33}
  CodeSeqs <- SomeCodeSeqs
  ByteCounts = {0, 255}
  DecimalCounts = {0, 96, 128, 256}
  NominalRates <- SomeNominal
  DataRates <- SomeData
  SamplePoints = {0, 1, 749, 750, 875, 1000, 1001}
INVARIANTS RoundTrip NothingInvented ReportTold CommandMeansSetting
CHECK_DEADLOCK FALSE
