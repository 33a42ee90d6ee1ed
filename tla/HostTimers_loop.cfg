CONSTANTS
  TableSize = 2
  PollLimit = 4
  IntMax = 2
  Delays = {0, 2}
  MaxTimers = 3
  MaxSince = 2
  MaxSpins = 1
  MaxAwaits = 1
SPECIFICATION FairSpec
INVARIANTS TableSound
PROPERTIES CalledLawfully ArmedRuns
