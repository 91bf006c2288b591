SPECIFICATION KernelSpec
CONSTANTS
  Unit = 8
  MassEntropy <- MCMassEntropy
  MassEntropyUpper <- MCMassEntropyUpper
  Gap = 2
  NodeCap = 5
  Guard = 1
  StallMinimum = 4
  StallWindow = 3
  StallFloor = 1
  Problems <- MCProblems
  Whole = 16
  Populations <- MCPopulations
  Excess <- MCExcess
  Quotient <- MCQuotient
  RootAtol = 1
  IdentityInformation = 40
  Roundings <- MCRoundings
  ComparisonGuard = 3
  IdentityMass = 4
  FloorOffset = 5
  SharpnessOffset = 14
  BoundaryMargin = 2
  HarmOffset = 1
  Tightening = 2
  RelativeGain = 20
  Experiments <- MCExperiments
INVARIANTS UpperIsProven VerdictIsTrue RootsAreSharp NeverRaises
  SolverAgreesWithOracle VerdictsAgree TimingOnlyTightens ForeignErrorNeedsHigherFloor
  DiagnosticContainsTruth
CHECK_DEADLOCK FALSE
