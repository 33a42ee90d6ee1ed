CONSTANTS
  NCells = 5
  MaxStack = 3
  MaxDepth = 2
  GcTrigger = 2
  MaxOps = 5
  Scripts = {{"leaf", "load", "loadw", "gc"},
             {"obj", "load", "loadw", "get"},
             {"obj", "loadw", "wanchor"},
             {"leaf", "block", "func", "loadw", "gc"},
             {"leaf", "block", "loadw", "return", "gc"},
             {"global", "leaf", "obj", "func", "gc"},
             {"leaf", "obj", "map", "load", "gc"},
             {"leaf", "obj", "WeakRef", "register", "gc"}}
  Beyond = {}
SPECIFICATION Spec
INVARIANTS MemorySound ReachableKept Reclaimed
PROPERTIES SnapshotsStable
CHECK_DEADLOCK FALSE
