----------------------------- MODULE DarklakeAmm -----------------------------
(***************************************************************************)
(* The DarklakeAmm value an SDK instance caches, and what its methods      *)
(* compute from it.                                                        *)
(*                                                                         *)
(* The content of an account is abstracted to the version of the account   *)
(* it was read from: version n + 1 is what the account holds after the     *)
(* n-th transaction that wrote it, and 0 stands for the zeroes a field     *)
(* holds before anything was read into it.                                 *)
(***************************************************************************)
EXTENDS Addresses

CONSTANTS TOKEN, TOKEN_2022,   \* spl_token::ID and spl_token_2022::ID
          NoProgram,           \* Pubkey::default() where a program is expected
          ProgramOf,           \* the token program that owns each mint
          FeeMint              \* the mints with a TransferFeeConfig extension

Program == {TOKEN, TOKEN_2022}

ASSUME ProgramAssumption ==
    /\ TOKEN # TOKEN_2022
    /\ NoProgram \notin Program
    /\ ProgramOf \in [Mint -> Program]
    /\ FeeMint \subseteq {m \in Mint : ProgramOf[m] = TOKEN_2022}

\* The programs that own the two mints of a pool.
ProgramsOf(pool) == <<ProgramOf[pool[1]], ProgramOf[pool[2]]>>

\* The cached value.  A pool account stores the mints its address is derived
\* from, so key also stands for pool.token_mint_x and pool.token_mint_y.
Amm == [key                : PoolKey,
        pool               : Nat,
        amm_config         : Nat,
        reserve_x_balance  : Nat,
        reserve_y_balance  : Nat,
        token_owners       : (Program \X Program) \cup {<<NoProgram, NoProgram>>},
        transfer_fees      : BOOLEAN \X BOOLEAN]

\* What DarklakeSDK::new puts in the cache.
NewAmm == [key               |-> DefaultPool,
           pool              |-> 0,
           amm_config        |-> 0,
           reserve_x_balance |-> 0,
           reserve_y_balance |-> 0,
           token_owners      |-> <<NoProgram, NoProgram>>,
           transfer_fees     |-> <<FALSE, FALSE>>]

\* load_pool: a new value that knows its key and pool, everything else zero.
FromPool(key, version) == [NewAmm EXCEPT !.key = key, !.pool = version]

\* The accounts update_accounts fetches, in order, by the part they play.
AccountsToUpdate ==
    <<"pool", "mint_x", "mint_y", "reserve_x", "reserve_y", "amm_config">>

Role == {"pool", "mint_x", "mint_y", "reserve_x", "reserve_y", "amm_config"}

\* get_transfer_fee_config looks for the extension in data it takes to be a
\* mint of token-2022; data of any other layout does not unpack and gives None.
GetTransferFeeConfig(data, owner) ==
    /\ owner = TOKEN_2022
    /\ data.layout = "mint"
    /\ data.mint \in FeeMint

\* The token account that holds the pool's reserve of a mint.
ReserveData(mint) == [layout |-> "account", mint |-> mint]

\* The update of an account map has four fallible steps: (1) the pool account
\* is read, (2) the config is read, (3) and (4) the balances of the reserves are
\* read.  The token programs are the owners of the reserves, assigned last.
UpdateStages == 4

\* Mutations of UpdatedOwners: assigned with the config; the wrong way round.
UpdatedOwnersEarly(a, n) == IF n >= 2 THEN ProgramsOf(a.key) ELSE a.token_owners

UpdatedOwnersSwapped(a, n) ==
    IF n >= UpdateStages THEN ProgramsOf(<<a.key[2], a.key[1]>>) ELSE a.token_owners

UpdatedOwners(a, n) == IF n >= UpdateStages THEN ProgramsOf(a.key) ELSE a.token_owners

UpdatedFees(a, n) ==
    IF n >= UpdateStages
    THEN <<GetTransferFeeConfig(ReserveData(a.key[1]), ProgramOf[a.key[1]]),
           GetTransferFeeConfig(ReserveData(a.key[2]), ProgramOf[a.key[2]])>>
    ELSE a.transfer_fees

\* update after its first n steps: all four make a success; with fewer it
\* returned an error, and what it had assigned by then stays assigned.
Update(a, accounts, n) ==
    [key               |-> a.key,
     pool              |-> IF n >= 1 THEN accounts["pool"] ELSE a.pool,
     amm_config        |-> IF n >= 2 THEN accounts["amm_config"] ELSE a.amm_config,
     reserve_x_balance |-> IF n >= 3 THEN accounts["reserve_x"] ELSE a.reserve_x_balance,
     reserve_y_balance |-> IF n >= 4 THEN accounts["reserve_y"] ELSE a.reserve_y_balance,
     token_owners      |-> UpdatedOwners(a, n),
     transfer_fees     |-> UpdatedFees(a, n)]

(***************************************************************************)
(* What a call hands back: an instruction, or a quote, made from the cache *)
(* as it is.  The user's token accounts are addresses derived from the     *)
(* owner of the accounts, the mints and the token programs, so naming      *)
(* those three names the accounts.  `basis` records what the numbers in    *)
(* the result were computed from.                                          *)
(***************************************************************************)
Output == [mints          : Nat \X Nat,
           pool           : PoolKey,
           programs       : (Program \X Program) \cup {<<NoProgram, NoProgram>>},
           order          : PoolKey \X User,
           caller         : User,
           is_swap_x_to_y : BOOLEAN,
           transfer_fees  : BOOLEAN \X BOOLEAN,
           basis          : [pool : Nat, amm_config : Nat, reserve_x : Nat, reserve_y : Nat]]

\* The cache a makes a quote or an instruction of `owner`'s order or tokens,
\* signed by `caller`, for a swap from `source`.
MakeOutput(a, source, owner, caller) ==
    [mints          |-> a.key,
     pool           |-> a.key,
     programs       |-> a.token_owners,
     order          |-> OrderAddress(a.key, owner),
     caller         |-> caller,
     is_swap_x_to_y |-> source = a.key[1],
     transfer_fees  |-> a.transfer_fees,
     basis          |-> [pool       |-> a.pool,
                         amm_config |-> a.amm_config,
                         reserve_x  |-> a.reserve_x_balance,
                         reserve_y  |-> a.reserve_y_balance]]

\* The source mint of what swaps nothing.
NoSource == 0

\* quote: a mint that is not x is taken for y.
GetQuote(a, input_mint, user) == MakeOutput(a, input_mint, user, user)

\* get_swap_and_account_metas: the destination mint is ignored.
GetSwap(a, source_mint, user) == MakeOutput(a, source_mint, user, user)

\* Mutation of GetFinalize: the one who settles is taken for the trader.
GetFinalizeOfSigner(a, settle_signer, order_owner) ==
    MakeOutput(a, NoSource, settle_signer, settle_signer)

\* get_settle_, get_cancel_ and get_slash_and_account_metas name the order and
\* the token accounts of its owner; the signer only signs.
GetFinalize(a, settle_signer, order_owner) ==
    MakeOutput(a, NoSource, order_owner, settle_signer)

\* get_add_ and get_remove_liquidity_and_account_metas.
GetLiquidity(a, user) == MakeOutput(a, NoSource, user, user)

\* get_initialize_pool_and_account_metas takes everything from its parameters,
\* nothing from a cache, and derives the pool of the mints as they come.
GetInitializePool(x, y, program_x, program_y, user) ==
    [MakeOutput(NewAmm, NoSource, user, user) EXCEPT
        !.mints    = <<x, y>>,
        !.pool     = <<x, y>>,
        !.order    = OrderAddress(<<x, y>>, user),
        !.programs = <<program_x, program_y>>]
=============================================================================
