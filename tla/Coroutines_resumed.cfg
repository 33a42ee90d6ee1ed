CONSTANTS
  Families = {"generators", "delegates", "async"}
  Progs <- MCProgs
  Compile <- MCCompile
  Entry <- MCEntry
  IsAsync <- MCIsAsync
  DoneOf <- MCDoneOf
  Tapes <- MCTapes
  Vals <- MCVals
  Labels = {"L"}
  NoLabel = NoLabel
  NoVal = NoVal
  Undef = "undefined"
  Env = Env
  MaxCallDepth = 20
  NCo = 3
  NPromises = 5
  Modes <- MCModes
  Generic = "generic"
  PromiseVal = "promise"
  HostVals = {"h"}
SPECIFICATION CoFairSpec
INVARIANTS ResumedAsLeft ParkedSound
PROPERTIES OthersUntouched SettledWakes
