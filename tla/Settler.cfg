CONSTANTS
  TOKEN = TOKEN
  TOKEN_2022 = TOKEN_2022
  NoProgram = NoProgram
  User = {u1, u2}
  Mint <- MCMint
  WSOL <- MCWSOL
  SOL_MINT <- MCSOL_MINT
  Pool <- MCOnePool
  ProgramOf <- MCProgramOf
  FeeMint <- MCFeeMint
  Api <- SettlerApi
  MaxVersion = 3
  MaxConfig = 1
SPECIFICATION FairSpec
INVARIANTS TypeOK FinalizeForCachedPool
PROPERTIES CallReturns
