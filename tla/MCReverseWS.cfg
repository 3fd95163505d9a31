SPECIFICATION Spec
CONSTANTS
    Conns = {c1, c2, c3}
    Pushers = {p1, p2}
    Requests = {r1}
    Configs <- AllConfigs
    Nobody = Nobody
    NoConn = NoConn
    c1 = c1
    c2 = c2
    c3 = c3
    p1 = p1
    p2 = p2
    r1 = r1
SYMMETRY Symmetric
INVARIANT TypeOK
INVARIANT LockOwner
INVARIANT OverlapNeedsStaleLock
INVARIANT ApiExclusive
INVARIANT LiveUniversalIsRead
INVARIANT ApiNeverTimesOut
INVARIANT NeverDropped
PROPERTY PtrMovesForward
