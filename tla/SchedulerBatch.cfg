SPECIFICATION Spec
CONSTANTS
  Workers = {w1, w2}
  Neighbours = {n1}
  Instances = {1}
  InstanceLists <- MCInstanceLists
  MayInterrupt = TRUE
  MaxBatch = 2
INVARIANTS IInv KillsOnlyUnwanted LiveIsSupervised
PROPERTY ImplementsService
