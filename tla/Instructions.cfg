\* Two wallets, two pools that share wrapped SOL, labels at their limits.
SPECIFICATION Spec
CONSTANTS
    TOKEN_A = TOKEN_A
    TOKEN_B = TOKEN_B
    TOKEN = TOKEN_A
    TOKEN_2022 = TOKEN_B
    NoProgram = NoProgram
    User = {u1, u2}
    Mint <- MCMint
    WSOL <- MCWSOL
    SOL_MINT <- MCSOL_MINT
    Pool <- MCPool
    ProgramOf <- MCProgramOf
    FeeMint = {}
    Base = 2
    WordBytes = 2
    Limbs = 2
    P = 13
    Ri = 9
    Q = 11
    Poseidon <- MCPoseidon
    Given <- MCGiven
    Prefix <- MCPrefix
    Comma <- MCComma
    Amount = {1, 2}
    Secret <- MCSecret
    Yield = {1, 2}
    Proofs <- MCProofs
INVARIANTS
    LabelSurvives
    ProgramReadsParams
    CommitmentSurvives
    ProgramVerifiesTheProof
    CloserReachesTheOrder
    OnlyCallerSigns
    NamesTheRealAccounts
    AmountsMeetTheirMints
