---------------------------- MODULE Transactions ----------------------------
(***************************************************************************)
(* The instruction lists of the `_tx` functions, and what they do to the   *)
(* wallet that signs them.  A pool trades wrapped SOL only, so a call that *)
(* names SOL_MINT has to wrap lamports before the pool's instruction, or   *)
(* to unwrap them after it.  Transactions are built at one time and land   *)
(* at another, in any order, each of them whole or not at all.             *)
(* Assumed of the Darklake program, from the accounts of the lists and the *)
(* accounts it keeps: a swap takes the deposit of the AMM config from the  *)
(* wrapped SOL of the trader, who has at most one order in a pool; making  *)
(* a pool costs lamports, and no pool is made twice.                       *)
(***************************************************************************)
EXTENDS Addresses, Sequences

CONSTANTS Amount,    \* the amounts of a call
          Deposit,   \* wsol_trade_deposit of the AMM config
          PoolFee,   \* create_pool_fee of the AMM config
          PoolSets,  \* the pools there are to begin with, one set or another
          Wealth,    \* what the wallet begins with, of everything
          MaxCalls,  \* bound: transactions built
          MaxHeld    \* bound: what a wallet can hold of anything

ASSUME TransactionAssumption ==
    /\ Amount \subseteq Nat \ {0}
    /\ Deposit \in Nat
    /\ PoolFee \in Nat
    /\ PoolSets \subseteq SUBSET PoolKey
    /\ Wealth \in Nat
    /\ MaxCalls \in Nat
    /\ MaxHeld \in Nat

VARIABLES
    wallet,  \* external: the signer's accounts and orders, and the pools there are
    sent,    \* the calls whose transactions neither landed nor failed
    calls,   \* how many transactions were built
    last     \* history: the last transaction executed

vars == <<wallet, sent, calls, last>>

-----------------------------------------------------------------------------
(***************************************************************************)
(* Instructions.  limit is an amount per mint: exact, at most or at least. *)
(***************************************************************************)
Nothing == [m \in Mint |-> 0]

Ins(op, limit) == [op |-> op, pool |-> DefaultPool, limit |-> limit]

\* An instruction of the Darklake program, for the pool k.
PoolIns(op, k, limit) == [op |-> op, pool |-> k, limit |-> limit]

Of(m, n) == [Nothing EXCEPT ![m] = n]

\* One unit stands for the mint; the rent of an account is left out.
CreateAta(m) == Ins("create_ata", Of(m, 1))

\* A mutation of Wrap.
WrapWithoutSync(n) == <<CreateAta(WSOL), Ins("transfer_sol", Of(WSOL, n))>>

Wrap(n) == <<CreateAta(WSOL), Ins("transfer_sol", Of(WSOL, n)), Ins("sync_native", Nothing)>>

CloseWsol == <<Ins("sync_native", Nothing), Ins("close_wsol", Nothing)>>

-----------------------------------------------------------------------------
(***************************************************************************)
(* The calls.  x and y, and their amounts, are in the order of the caller; *)
(* of a swap, x goes in and y comes out, and b is not an amount of tokens. *)
(***************************************************************************)
Call == [method : {"swap_tx", "add_liquidity_tx", "remove_liquidity_tx", "initialize_pool_tx"},
         x : Token, y : Token, a : Amount, b : Amount]

PoolOf(c) == GetPoolAddress(PostSol(c.x), PostSol(c.y))

\* A mutation of SortedAmounts: the amounts stay in the caller's order.
UnsortedAmounts(c) == <<c.a, c.b>>

\* The amounts trade places when the mints do.
SortedAmounts(c) == IF PoolOf(c)[1] # PostSol(c.x) THEN <<c.b, c.a>> ELSE <<c.a, c.b>>

Limit(c) == [Nothing EXCEPT ![PoolOf(c)[1]] = SortedAmounts(c)[1],
                            ![PoolOf(c)[2]] = SortedAmounts(c)[2]]

\* A mutation of WrapLiquidity: the other amount.
WrapOther(c) ==
    IF c.x = SOL_MINT THEN Wrap(SortedAmounts(c)[2])
    ELSE IF c.y = SOL_MINT THEN Wrap(SortedAmounts(c)[1])
    ELSE <<>>

\* Which token is SOL was decided before the amounts traded places.
WrapLiquidity(c) ==
    IF c.x = SOL_MINT THEN Wrap(SortedAmounts(c)[1])
    ELSE IF c.y = SOL_MINT THEN Wrap(SortedAmounts(c)[2])
    ELSE <<>>

Swap(c) == PoolIns("swap", PoolOf(c), Of(PostSol(c.x), c.a))

\* A mutation of SwapTx: the swap is pushed before the wrapping.
SwapTxThenWrap(c) == <<Swap(c)>> \o (IF c.x = SOL_MINT THEN Wrap(c.a) ELSE <<>>)

\* What is wrapped is the amount, and not the deposit.
SwapTx(c) == (IF c.x = SOL_MINT THEN Wrap(c.a) ELSE <<>>) \o <<Swap(c)>>

AddLiquidityTx(c) == WrapLiquidity(c) \o <<PoolIns("add_liquidity", PoolOf(c), Limit(c))>>

\* A mutation of RemoveLiquidityTx: the second token is not looked at.
RemoveLiquidityTxFirst(c) ==
    <<CreateAta(PoolOf(c)[1]), CreateAta(PoolOf(c)[2]),
      PoolIns("remove_liquidity", PoolOf(c), Limit(c))>>
    \o (IF c.x = SOL_MINT THEN CloseWsol ELSE <<>>)

RemoveLiquidityTx(c) ==
    <<CreateAta(PoolOf(c)[1]), CreateAta(PoolOf(c)[2]),
      PoolIns("remove_liquidity", PoolOf(c), Limit(c))>>
    \o (IF SOL_MINT \in {c.x, c.y} THEN CloseWsol ELSE <<>>)

InitializePoolTx(c) == WrapLiquidity(c) \o <<PoolIns("initialize_pool", PoolOf(c), Limit(c))>>

Instructions(c) ==
    CASE c.method = "swap_tx" -> SwapTx(c)
      [] c.method = "add_liquidity_tx" -> AddLiquidityTx(c)
      [] c.method = "remove_liquidity_tx" -> RemoveLiquidityTx(c)
      [] c.method = "initialize_pool_tx" -> InitializePoolTx(c)

-----------------------------------------------------------------------------
(***************************************************************************)
(* External: what the system, token and Darklake programs do to a wallet.  *)
(* moved is how much of each mint the pool takes, or gives.                *)
(***************************************************************************)
\* orders: the pools in which the signer has an open order; pools: those there are.
Wallet == [sol : Nat, unsynced : Nat, held : [Mint -> Nat], atas : SUBSET Mint,
           orders : SUBSET PoolKey, pools : SUBSET PoolKey, status : {"ok", "failed"}]

Mints(limit) == {m \in Mint : limit[m] > 0}

Failed(w) == [w EXCEPT !.status = "failed"]

\* The wallet when an instruction may run, the failed transaction when not.
When(w, condition, after) == IF condition THEN after ELSE Failed(w)

Pay(w, amounts) ==
    When(w, \A m \in Mints(amounts) : m \in w.atas /\ amounts[m] <= w.held[m],
         [w EXCEPT !.held = [m \in Mint |-> w.held[m] - amounts[m]]])

Receive(w, amounts) ==
    When(w, Mints(amounts) \subseteq w.atas,
         [w EXCEPT !.held = [m \in Mint |-> w.held[m] + amounts[m]]])

Execute(w, ins, moved) ==
    IF w.status = "failed" THEN w
    ELSE CASE ins.op = "create_ata" -> [w EXCEPT !.atas = @ \cup Mints(ins.limit)]
           [] ins.op = "transfer_sol" ->
                  When(w, ins.limit[WSOL] <= w.sol,
                       [w EXCEPT !.sol = @ - ins.limit[WSOL], !.unsynced = @ + ins.limit[WSOL]])
           [] ins.op = "sync_native" ->
                  When(w, WSOL \in w.atas, [w EXCEPT !.held[WSOL] = @ + w.unsynced, !.unsynced = 0])
           [] ins.op = "close_wsol" ->
                  When(w, WSOL \in w.atas,
                       [w EXCEPT !.sol = @ + w.held[WSOL] + w.unsynced, !.unsynced = 0,
                                 !.held[WSOL] = 0, !.atas = @ \ {WSOL}])
           [] ins.op = "swap" ->
                  When(w, ins.pool \notin w.orders,
                       Pay([w EXCEPT !.orders = @ \cup {ins.pool}],
                           [ins.limit EXCEPT ![WSOL] = @ + Deposit]))
           [] ins.op = "initialize_pool" ->
                  When(w, ins.pool \notin w.pools /\ PoolFee <= w.sol,
                       Pay([w EXCEPT !.pools = @ \cup {ins.pool}, !.sol = @ - PoolFee], ins.limit))
           [] ins.op = "add_liquidity" ->
                  When(w, \A m \in Mint : moved[m] <= ins.limit[m], Pay(w, moved))
           [] ins.op = "remove_liquidity" ->
                  When(w, \A m \in Mint : moved[m] >= ins.limit[m], Receive(w, moved))

\* The i-th instruction of a list, if it has so many.
Step(w, list, i, moved) == IF i \in DOMAIN list THEN Execute(w, list[i], moved) ELSE w

\* The instructions of a call, one after the other; the longest list has five.
Run(w, c, moved) ==
    LET list == Instructions(c) IN
    Step(Step(Step(Step(Step(w, list, 1, moved), list, 2, moved), list, 3, moved),
              list, 4, moved), list, 5, moved)

\* What the pool of a call may take or give, where it has a choice.
Moved(c) ==
    IF c.method \in {"swap_tx", "initialize_pool_tx"}
    THEN {Nothing}
    ELSE {moved \in [Mint -> Amount \cup {0}] :
             \A m \in Mint : moved[m] > 0 <=> m \in {PoolOf(c)[1], PoolOf(c)[2]}}

-----------------------------------------------------------------------------
NoCall == CHOOSE c \in Call : TRUE

Init ==
    /\ \E atas \in {Mint, Mint \ {WSOL}}, pools \in PoolSets :
           wallet = [sol |-> Wealth, unsynced |-> 0, status |-> "ok", atas |-> atas,
                     orders |-> {}, pools |-> pools,
                     held |-> [m \in Mint |-> IF m \in atas THEN Wealth ELSE 0]]
    /\ sent = {}
    /\ calls = 0
    /\ last = [call |-> NoCall, moved |-> Nothing, before |-> wallet, after |-> wallet]

\* No pool has the same mint twice; a pool that is not there cannot be loaded.
Build(c) ==
    /\ calls < MaxCalls
    /\ PostSol(c.x) # PostSol(c.y)
    /\ c.method # "initialize_pool_tx" => PoolOf(c) \in wallet.pools
    /\ calls' = calls + 1
    /\ sent' = sent \cup {c}
    /\ UNCHANGED <<wallet, last>>

\* A transaction that fails leaves nothing behind.
Land(c) ==
    /\ sent' = sent \ {c}
    /\ \E moved \in Moved(c) :
           LET after == Run(wallet, c, moved) IN
               /\ wallet' = IF after.status = "ok" THEN after ELSE wallet
               /\ last' = [call |-> c, moved |-> moved, before |-> wallet, after |-> after]
    /\ \A m \in Mint : wallet'.held[m] <= MaxHeld
    /\ UNCHANGED calls

\* Dropped, expired, or refused by the program for reasons that are not in the
\* wallet: a halted pool, slippage, a ratio that moved.
Lose(c) ==
    /\ sent' = sent \ {c}
    /\ UNCHANGED <<wallet, calls, last>>

\* The signer unwraps by itself, or is paid out with unwrap_wsol.
Unwrap ==
    /\ WSOL \in wallet.atas
    /\ wallet' = Execute(wallet, CloseWsol[2], Nothing)
    /\ UNCHANGED <<sent, calls, last>>

\* The signer's order in pool k is settled or cancelled, which pays one of the two
\* tokens, and the deposit with it or not; or it is slashed, which pays nothing.
CloseOrder(k) ==
    /\ k \in wallet.orders
    /\ \E m \in {k[1], k[2]}, n \in Amount \cup {0}, deposit \in {0, Deposit} :
           /\ n = 0 => deposit = 0
           /\ LET paid == [Of(m, n) EXCEPT ![WSOL] = @ + deposit] IN
                  wallet' = Receive([wallet EXCEPT !.orders = @ \ {k},
                                                   !.atas = @ \cup Mints(paid)], paid)
    /\ \A m \in Mint : wallet'.held[m] <= MaxHeld
    /\ UNCHANGED <<sent, calls, last>>

Next ==
    \/ \E c \in Call : Build(c)
    \/ \E c \in sent : Land(c) \/ Lose(c)
    \/ Unwrap
    \/ \E k \in wallet.orders : CloseOrder(k)

Spec == Init /\ [][Next]_vars

-----------------------------------------------------------------------------
(***************************************************************************)
(* Properties.                                                             *)
(***************************************************************************)
\* What the caller gave for a token, in whatever order it named the two.
Given(c, m) == IF m = PostSol(c.x) THEN c.a ELSE c.b

Landed == last.before # last.after /\ last.after.status = "ok"

Names(c, t) == t \in {c.x, c.y}

\* The pool takes of every token at most, or gives of it at least, what the
\* caller said for that very token, named in either order (sdk.rs:419-425).
AmountsFollowTokens ==
    Landed =>
        LET c == last.call
            m == last.moved
        IN  /\ c.method = "add_liquidity_tx" => \A t \in Mints(m) : m[t] <= Given(c, t)
            /\ c.method = "remove_liquidity_tx" => \A t \in Mints(m) : m[t] >= Given(c, t)

\* A swap of native SOL takes its amount from the lamports of the signer and, of
\* the wrapped SOL it held, which may be meant for another transaction, the deposit
\* and no more (sdk.rs:254-262, account_metas.rs:38, 41).
SwapSpendsNativeSol ==
    Landed /\ last.call.method = "swap_tx" /\ last.call.x = SOL_MINT =>
        /\ last.after.sol = last.before.sol - last.call.a
        /\ last.after.held = [last.before.held EXCEPT ![WSOL] = @ - Deposit]

\* A swap of native SOL that the signer has lands, once it also holds the deposit
\* in wrapped SOL and has no order in the pool, whatever other transactions did to
\* its wrapped SOL account since it was built (sdk.rs:254-262, utils.rs:41-73).
FundedSwapLands ==
    LET c == last.call IN
        /\ c.method = "swap_tx"
        /\ c.x = SOL_MINT
        /\ c.a <= last.before.sol
        /\ Deposit <= last.before.held[WSOL]
        /\ PoolOf(c) \notin last.before.orders
        => last.after.status = "ok"

\* Liquidity in native SOL that the signer has can be added when the two tokens
\* are named in the order of the pool; and a pool that is not there can be made
\* with it, if the fee for that is left (sdk.rs:437-455, 638-649).
FundedLiquidityLands ==
    LET c == last.call IN
        /\ c.method \in {"add_liquidity_tx", "initialize_pool_tx"}
        /\ PoolOf(c) = <<PostSol(c.x), PostSol(c.y)>>
        /\ Names(c, SOL_MINT)
        /\ Given(c, WSOL) <= last.before.sol
        /\ c.method = "initialize_pool_tx" =>
               /\ PoolOf(c) \notin last.before.pools
               /\ Given(c, WSOL) + PoolFee <= last.before.sol
        /\ \A m \in {c.x, c.y} \ {SOL_MINT} : Given(c, m) <= last.before.held[m]
        /\ \A m \in Mints(last.moved) : last.moved[m] <= Given(c, m)
        => last.after.status = "ok"

\* Liquidity taken out of a pool in native SOL leaves no wrapped SOL behind: not
\* what the pool gave, and not what the signer held (sdk.rs:560-566).
RemovalUnwraps ==
    Landed /\ last.call.method = "remove_liquidity_tx" /\ Names(last.call, SOL_MINT) =>
        /\ WSOL \notin last.after.atas
        /\ last.after.sol = last.before.sol + last.before.held[WSOL] + last.moved[WSOL]

\* No transaction strands lamports on the wrapped SOL account.
NothingStranded == wallet.unsynced = 0

\* Documented: SOL provided as input is wrapped, with the amount given for it
\* in whatever order the tokens are named (README.md:77, sdk.rs:419).
WrapsWhatIsGiven ==
    \A c \in sent :
        c.method \in {"add_liquidity_tx", "initialize_pool_tx"} /\ Names(c, SOL_MINT) =>
            \E i \in DOMAIN Instructions(c) :
                Instructions(c)[i] = Ins("transfer_sol", Of(WSOL, Given(c, WSOL)))
=============================================================================
