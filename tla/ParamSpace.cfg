SPECIFICATION FairSpec
CONSTANTS
  Names <- MCNames
  Values <- MCValues
  ParamLines <- MCParamLines
  ConditionLines <- MCConditionLines
  ForbiddenLines <- MCForbiddenLines
  MaxLines = 5
CHECK_DEADLOCK FALSE
INVARIANTS ActiveIsLargest SearchIsLegal KeysTellApart MovesAreReversible
PROPERTIES CallsReturn
