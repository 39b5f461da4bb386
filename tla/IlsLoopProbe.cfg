SPECIFICATION Spec
CONSTANTS
  Configs = {a, b}
  NTotal = 2
  Costs = {1, 2, 3}
  Approach = "focused"
  InitialFidelity = 2
  FidelityStep = 1
  Probes = 1
  Pruning = TRUE
  Unit = 2
  Multiplier = 3
  FutureTelling = TRUE
  Tolerance = 0
  RestartFailures = 2
  MayRestart = FALSE
  MayStop = FALSE
PROPERTY ProbesRanToCompletion
