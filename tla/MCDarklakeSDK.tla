---------------------------- MODULE MCDarklakeSDK ----------------------------
(***************************************************************************)
(* Instances of DarklakeSDK for TLC.  Three mints make two pools that      *)
(* share wrapped SOL; one mint belongs to token-2022 and charges a fee.    *)
(***************************************************************************)
EXTENDS DarklakeSDK

MCMint == {2, 3, 5}
MCWSOL == 3
MCSOL_MINT == 1
MCPool == {<<2, 3>>, <<3, 5>>}
MCOnePool == {<<2, 3>>}
MCProgramOf == [m \in MCMint |-> IF m = 5 THEN TOKEN_2022 ELSE TOKEN]
MCFeeMint == {5}

\* What a client that lets the SDK load its pools calls.
ManagedApi == {"quote", "swap_tx", "initialize_pool_tx"}

\* The manual protocol, next to managed methods that move the cache: every way
\* a call can go but those of ManagedApi.
ManualApi ==
    {"load_pool", "update_accounts", "swap_ix", "finalize_ix", "initialize_pool_ix",
     "add_liquidity_tx", "finalize_tx", "get_order"}

\* A client that settles orders, its own or those of others.
SettlerApi == {"remove_liquidity_tx", "finalize_tx", "get_order"}

\* The methods the claims of the documentation are about, one claim at a time.
FinalizeApi == {"swap_tx", "finalize_tx"}
GetOrderApi == {"get_order"}
LoadApi == {"load_pool"}
QuoteApi == {"quote"}
=============================================================================
