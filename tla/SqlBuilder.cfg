SPECIFICATION BuilderSpec
CONSTANTS
  MaxColumns = 2
  MaxArgs = 3
  MaxConditions = 2
  MaxBuilders = 2
INVARIANTS
  BuilderTypeOK
  ArgumentsInPlace
  ConditionsJoined
CHECK_DEADLOCK FALSE
