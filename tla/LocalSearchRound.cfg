SPECIFICATION Spec
CONSTANTS
  Neighbours = {n1, n2}
  Probe = n1
  Instances = {1, 2}
  InstanceLists <- MCInstanceLists
  Costs = {1, 3}
  Penalty = 3
  Pruning = TRUE
  Multiplier = 2
  Unit = 2
  FutureTelling = TRUE
  MaxBatch = 5
  MayStop = FALSE
  MayFail = FALSE
INVARIANTS RoundIsDecided CappedCannotWin
