\* Liquidity in SOL, the tokens named in either order.
SPECIFICATION Spec
CONSTANTS
    Mint <- MCMint
    WSOL <- MCWSOL
    SOL_MINT <- MCSOL_MINT
    User = {u1}
    Amount = {1, 2}
    Deposit = 1
    PoolFee = 1
    PoolSets <- MCPoolSets
    Wealth = 2
    MaxCalls = 2
    MaxHeld = 4
INVARIANTS
    WrapsWhatIsGiven
CHECK_DEADLOCK FALSE
