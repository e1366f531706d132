\* Two transactions of one settler's clients under way over two pools.
SPECIFICATION Spec
CONSTANTS
    s1 = s1
    Settler <- OneSettler
    p1 = p1
    p2 = p2
    Pool <- TwoPools
    NoPool = NoPool
    Amount = {1, 2}
    Duration = 1
    MaxSwaps = 2
    MaxSlot = 3
    MaxFlight = 2
SYMMETRY PoolSymmetry
INVARIANTS
    TypeOK
    ProofBindsOrder
    OnlyDeadlineRefuses
    OInv
PROPERTIES
    KeepsPromise
