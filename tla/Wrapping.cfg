\* Two transactions of one wallet, landing in any order.
SPECIFICATION Spec
CONSTANTS
    Mint <- MCMint
    WSOL <- MCWSOL
    SOL_MINT <- MCSOL_MINT
    User = {u1}
    Amount = {1, 2}
    Deposit = 1
    PoolFee = 1
    PoolSets <- MCPoolSets
    Wealth = 2
    MaxCalls = 2
    MaxHeld = 4
INVARIANTS
    AmountsFollowTokens
    SwapSpendsNativeSol
    FundedSwapLands
    FundedLiquidityLands
    RemovalUnwraps
    NothingStranded
CHECK_DEADLOCK FALSE
