CONSTANTS
  e1 = e1
  t1 = t1
  s1 = s1
  s2 = s2
  s3 = s3
  Emitters = {e1}
  Targets = {t1, s1, s2, s3}
  Signals = {s1, s2, s3}
  Controlled = {s1}
  Types = {"abort", "data"}
  AbortType = "abort"
  Callbacks = {"f", "g"}
  Reasons = {"mine"}
  TimeoutError = "TimeoutError"
  NoReason = "undefined"
  Composites <- MCComposites
  MaxOps = 5
  Worlds = {"emitter", "target", "signals"}
  Reentrant = FALSE
SPECIFICATION Spec
INVARIANTS ListenersKept
PROPERTIES CallsEveryone SignalsLawful
CHECK_DEADLOCK FALSE
