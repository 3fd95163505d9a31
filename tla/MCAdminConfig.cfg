SPECIFICATION Spec
SYMMETRY AnyOrder
CONSTANTS
    Requests = {r1, r2}
    Sections <- TwoSections
    Optional <- Pointers
    Asked <- AllKinds
    Start = Start
    Hand = Hand
    Zero = Zero
    Empty = Empty
    Torn = Torn
    Nil = Nil
    MaxFiles = 3
    MaxHands = 1
    r1 = r1
    r2 = r2
INVARIANT AloneExact
INVARIANT RefusedStaysOut
INVARIANT FreshAfterEdit
INVARIANT AlonePanic
PROPERTY GoneForGood
CHECK_DEADLOCK FALSE
