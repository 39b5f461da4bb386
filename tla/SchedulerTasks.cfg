SPECIFICATION FairSpec
CONSTANTS
  Workers = {w1, w2}
  Neighbours = {n1}
  Instances = {1, 2}
  InstanceLists <- MCInstanceLists
  MayInterrupt = FALSE
  MaxBatch = 1
INVARIANTS TypeOK ReportedOnce DispatchedFirst
PROPERTIES StartedOnce UnwantedDies DropQuiesces WantedCompletes
