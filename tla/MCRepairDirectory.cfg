SPECIFICATION MCSpec
CONSTANTS
  dexA = dexA
  dexB = dexB
  NoRecords = NoRecords
  rec = rec
  all = all
  NoFile = NoFile
  N = 3
  Bases = {1, 2}
  Inputs <- MCInputs
  Repairable <- MCRepairable
  FixInputs <- MCFixInputs
  Fixable <- MCFixable
  Covered <- MCCovered
  MaxRuns = 2
  MaxErrors = 1
INVARIANTS TypeOK OutputsWhole SuccessMeansRepaired FinalWhole SuccessMeansFixed
PROPERTY FailureKeepsOutput
CHECK_DEADLOCK FALSE
