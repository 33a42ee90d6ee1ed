SPECIFICATION Spec
CONSTANTS
    o1 = o1
    o2 = o2
    o3 = o3
    proxy1 = proxy1
    proxy2 = proxy2
    Obj = {o1, o2, o3}
    Proxies = {proxy1, proxy2}
    TargetOf <- MCTargetOf
    Keys = {"k"}
    Scalars = {"v1"}
    Funcs = {"f"}
    Accessors = {"rw"}
    Sites = {"site"}
    None = None
    Undef = Undef
INVARIANTS CachedIsFresh ReadsLeaveNoTrace ProxiesAreTransparent
CHECK_DEADLOCK FALSE
