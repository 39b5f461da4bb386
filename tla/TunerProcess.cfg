SPECIFICATION FairSpec
CONSTANTS
  Setups <- SetupsValue
  Epsilon = 8
  MaxPhases = 3
  MaxCores = 2
\* The process ends.
CHECK_DEADLOCK FALSE
INVARIANTS ScheduleClimbs PhasesShareBudget OrphansSlippedThrough
PROPERTIES StaleSolversEnd
