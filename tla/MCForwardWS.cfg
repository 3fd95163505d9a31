SPECIFICATION Spec
CONSTANTS
    Conns = {c1, c2, c3}
    Mixes <- SomeMixes
    c1 = c1
    c2 = c2
    c3 = c3
INVARIANT RegistryExact
INVARIANT ServesInOrder
INVARIANT LeakIsClosed
PROPERTY ImplementsHub
PROPERTY RequestAnswered
\* A dropped connection that a race puts back stops every later push for ever.
CHECK_DEADLOCK FALSE
