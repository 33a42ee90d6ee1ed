CONSTANTS
  Slots = {"y"}
  Consts = {"c"}
  Statements <- MCStatements
SPECIFICATION Spec
INVARIANTS OperandsExact EvaluatesAsWritten
CHECK_DEADLOCK FALSE
