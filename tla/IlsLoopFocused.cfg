SPECIFICATION FairSpec
CONSTANTS
  Configs = {a, b, c}
  NTotal = 2
  Costs = {1, 3}
  Approach = "focused"
  InitialFidelity = 0
  FidelityStep = 1
  Probes = 1
  Pruning = TRUE
  Unit = 2
  Multiplier = 3
  FutureTelling = TRUE
  Tolerance = 2
  RestartFailures = 2
  MayRestart = TRUE
  MayStop = TRUE
INVARIANTS FidelityConsistent RestartsAreDue
PROPERTIES KeptAreMeasured RoundsKeepBand FullFidelity
