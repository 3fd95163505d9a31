SPECIFICATION HeartbeatSpec
CONSTANTS
    Conns = {c1, c2}
    Pushers = {p1}
    Requests = {r1}
    Configs <- Reconnecting
    Nobody = Nobody
    NoConn = NoConn
    c1 = c1
    c2 = c2
    p1 = p1
    r1 = r1
INVARIANT NoOrphan
PROPERTY LostConnReplaced
PROPERTY ApiReturns
