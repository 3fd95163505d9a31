SPECIFICATION PushFairSpec
CONSTANTS
    Conns = {c1, c2, c3}
    Pushers = {p1, p2}
    Requests = {}
    Configs <- EventOnly
    Nobody = Nobody
    NoConn = NoConn
    c1 = c1
    c2 = c2
    c3 = c3
    p1 = p1
    p2 = p2
PROPERTY PushCompletes
