\* One settler, and the orders of both pools must come to their end.
SPECIFICATION FairSpec
CONSTANTS
    s1 = s1
    Settler <- OneSettler
    p1 = p1
    p2 = p2
    Pool <- TwoPools
    NoPool = NoPool
    Amount = {1, 2}
    Duration = 1
    MaxSwaps = 1
    MaxSlot = 3
    MaxFlight = 5
PROPERTIES
    OrderFinalized
    ClosedUnlessExpired
    KeepsPromiseInTheEnd
