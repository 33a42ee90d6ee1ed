CONSTANTS
  Families = {"finally", "nested", "calls", "recursion"}
  Progs <- MCProgs
  Compile <- MCCompile
  Tapes <- MCTapes
  Vals <- MCVals
  Labels = {"L"}
  NoLabel = NoLabel
  NoVal = NoVal
  Undef = Undef
  Env = Env
  MaxCallDepth = 4
SPECIFICATION FairSpec
INVARIANTS TypeOK ErrorInFlight StacksMatchCode ShowsItsMeaning
PROPERTIES TransfersKept Terminates
