SPECIFICATION Spec
CONSTANTS
  r1 = r1
  r2 = r2
  None = None
  Requests <- MCRequests
  InitialBank = 10
  TargetBank = 16
  MaxLoss = 2
  FractionNum = 1
  FractionDen = 2
  MinOdds = 120
  MaxOdds = 300
  Odds = {150, 310}
  MaxSteps = 3
  StopOnFirstLoss = FALSE
  MaxVersion = 11
SYMMETRY RequestSymmetry
INVARIANTS
  WithinLimits
  LadderHolds
PROPERTIES
  LadderSpec
  SettledOnce
  LossNeverRaisesStake
CHECK_DEADLOCK FALSE
