SPECIFICATION FairSpec
CONSTANTS
    Users = {u1, u2}
    Callers = {c1}
    Configs <- SomeConfigs
    MaxLost = 1
    MaxChildren = 1
    Tries = 5
    u1 = u1
    u2 = u2
    c1 = c1
INVARIANT WrongNeedsStray
INVARIANT NotGivenUpEarly
PROPERTY LoginEnds
PROPERTY RestartReturns
CHECK_DEADLOCK FALSE
