SPECIFICATION Spec
CONSTANTS
  Unit = 8
  MassEntropy <- MCMassEntropy
  MassEntropyUpper <- MCMassEntropyUpper
  TotalEntropy <- MCTotalEntropy
  Horizon = 4
  FinestBands = 4
  Bands = 2
  CategoryInterval <- MCCategoryInterval
  StaticInterval <- MCStaticInterval
  BernoulliInterval <- MCBernoulliInterval
  Laws <- MCLaws
  Ledgers <- MCLedgers
  Streams = 2
  Every = 2
  Marks = {2, 3}
  MinimumMatured = 1
  MinimumResolved = 1
  Guard = 0
INVARIANT FailuresWithinStreams
CHECK_DEADLOCK FALSE
