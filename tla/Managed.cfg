CONSTANTS
  TOKEN = TOKEN
  TOKEN_2022 = TOKEN_2022
  NoProgram = NoProgram
  User = {u1}
  Mint <- MCMint
  WSOL <- MCWSOL
  SOL_MINT <- MCSOL_MINT
  Pool <- MCPool
  ProgramOf <- MCProgramOf
  FeeMint <- MCFeeMint
  Api <- ManagedApi
  MaxVersion = 2
  MaxConfig = 2
SPECIFICATION Spec
INVARIANTS TxForRequestedPool ReadsSinceCall CacheCoherent
PROPERTIES PoolNeverRollsBack
