CONSTANTS
  Files <- MCFiles
  Worlds <- MCWorlds
SPECIFICATION MCSpec
INVARIANTS LinkedAsWritten EvaluatedOnceInOrder
CHECK_DEADLOCK FALSE
