SPECIFICATION FairSpec
CONSTANTS
  Instances = {1, 2, 3}
  Virtual = 2
  Real = 2
  Checkpoint = 2
  Cutoff = 2
  References = {1, 2}
  Tolerance = 50
  MayBeCached = TRUE
  MayFailEarly = TRUE
  MaxClock = 4
INVARIANTS IInv ReadyIsSound ScoreIsExact
PROPERTY OverdueIsNoticed
CHECK_DEADLOCK FALSE
