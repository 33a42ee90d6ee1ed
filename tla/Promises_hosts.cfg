CONSTANTS
  MaxPromises = 3
  MaxOps = 5
  Val = {u}
  u = u
  NoVal = NoVal
  Thenable = Thenable
  Array = Array
  AggregateError = AggregateError
  QueuedScripts = {{"new", "construct", "settled", "resolve", "reject", "then"},
                   {"adopting", "construct", "resolve", "reject", "then"},
                   {"adopting", "resolve", "then", "all"},
                   {"new", "settled", "resolve", "then", "race"}}
  InlineScripts = {{"new", "settled", "construct", "executorThrow", "resolve", "reject", "then", "any"},
                   {"new", "settled", "resolve", "reject", "then", "all"},
                   {"adopting", "resolve", "then", "race"}}
  Results = {"value", "PENDING", "FULFILLED", "thenable"}
SPECIFICATION FairSpec
INVARIANTS PointersSound NothingLost FollowsItsSource AggregatesSound
PROPERTIES KeepsPromises ReactionsRun
