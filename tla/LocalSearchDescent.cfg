SPECIFICATION FairSpec
CONSTANTS
  Neighbours = {n1, n2}
  Probe = n1
  Instances = {1}
  InstanceLists <- MCInstanceLists
  Costs = {1, 2}
  Penalty = 2
  Pruning = TRUE
  Multiplier = 3
  Unit = 2
  FutureTelling = FALSE
  MaxBatch = 6
  MayStop = TRUE
  MayFail = TRUE
INVARIANTS TallyIsTrue NothingLost
PROPERTIES StepsImprove CallsReturn StopEndsCall
