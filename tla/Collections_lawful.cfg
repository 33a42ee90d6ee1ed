SPECIFICATION Spec
CONSTANTS
    Absent = Absent
    NoCall = NoCall
    Raise = Raise
    NoValue = NoValue
    Inner <- MCInner
    TextRank <- MCTextRank
    Kinds = {"array", "map", "set", "hash"}
    ClassOf <- MCClassOf
    Hash <- MCHash
    InitialCapacity = 2
    PoolMax = 1
    StartArrays <- MCStartArrays
    ArrayCalls <- MCArrayCalls
    TableCalls <- MCTableCalls
    ArrayLoops <- MCArrayLoops
    CallbackCalls <- MCCallbackCalls
    TableCallbackCalls <- MCTableCallbackCalls
    MayCall <- MCMayCall
    Returns <- MCReturns
    HashKeys = {"a", "b", "c", "d"}
    HashValues = {1, 2}
    MaxSize = 3
    SortRoom = 1
INVARIANTS
    ArraysMeanWhatTheySay
    TablesMeanWhatTheySay
