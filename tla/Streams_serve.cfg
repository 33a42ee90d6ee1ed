CONSTANTS
  MaxOps = 6
SPECIFICATION Spec
INVARIANTS ReadsAndWritesServed
PROPERTIES EndIsFinal
CHECK_DEADLOCK FALSE
