----------------------------- MODULE DarklakeSDK -----------------------------
(***************************************************************************)
(* One DarklakeSDK instance, its cached pool, and the chain it reads.      *)
(*                                                                         *)
(* The methods that change the cache take &mut self, so an instance runs   *)
(* one call at a time; but every call is a chain of awaits, and between    *)
(* two of them the chain moves, the RPC node fails, or the caller drops    *)
(* the future.  An action is what runs from one await to the next.         *)
(***************************************************************************)
EXTENDS DarklakeAmm, Sequences

CONSTANTS Pool,         \* the pools that exist or may be created, by key
          Api,          \* the methods this client calls
          MaxVersion,   \* bound: writes to one pool
          MaxConfig     \* bound: writes to the AMM config

QuoteAndTx == {"quote", "swap_tx", "add_liquidity_tx", "remove_liquidity_tx"}

CachedIx == {"swap_ix", "add_liquidity_ix", "remove_liquidity_ix", "finalize_ix"}

Method == QuoteAndTx \cup CachedIx \cup
          {"initialize_pool_tx", "initialize_pool_ix", "finalize_tx",
           "load_pool", "update_accounts", "get_order"}

\* finalize_tx asks for the order account this many times before it gives up.
MaxAttempts == 5

ASSUME SDKAssumption ==
    /\ Pool \subseteq {k \in Mint \X Mint : k[1] < k[2]}
    /\ Pool # {}
    /\ User # {}
    /\ Api \subseteq Method
    /\ MaxVersion \in Nat \ {0}
    /\ MaxConfig \in Nat \ {0}

VARIABLES
    version,   \* external: version[k] is the number of writes to pool k, 0 if it does not exist
    config,    \* external: the version of the AMM config account
    orders,    \* external: the order accounts that exist
    amm,       \* self.darklake_amm
    pc,        \* where the call in progress is suspended; "idle" between calls
    call,      \* the parameters of the call in progress, or of the last one
    accounts,  \* account_map of update_accounts: the versions fetched so far
    fetches,   \* how many accounts of the list were fetched
    attempts,  \* finalize_tx: the attempt at the order account
    result,    \* what the last call returned
    since,     \* history: the chain when the call began
    updated    \* history: update_accounts succeeded since the pool was loaded

chainVars == <<version, config, orders>>
vars == <<chainVars, amm, pc, call, accounts, fetches, attempts, result, since, updated>>

-----------------------------------------------------------------------------
Call == [method : Method, x : Mint, y : Mint, user : User, order : Pool \X User]

\* Where a call can be suspended: each is an await of an RPC answer or of the
\* prover, except "update" and "return", which run without waiting.
Await == {"load", "accounts", "epoch", "mints", "order", "read_order", "slot",
          "prove", "transaction"}

Status == {"none", "ok", "rpc_error", "pool_not_found", "unreadable",
           "order_unavailable", "order_not_found", "not_initialized"}

NoOutput == MakeOutput(NewAmm, NoSource, CHOOSE u \in User : TRUE, CHOOSE u \in User : TRUE)

NothingFetched == [r \in Role |-> 0]

TypeOK ==
    /\ version \in [Pool -> 0..MaxVersion]
    /\ config \in 1..MaxConfig
    /\ orders \subseteq Pool \X User
    /\ amm \in Amm
    /\ pc \in Await \cup {"idle", "update", "return"}
    /\ call \in Call
    /\ accounts \in [Role -> Nat]
    /\ fetches \in 0..Len(AccountsToUpdate)
    /\ attempts \in 1..MaxAttempts
    /\ result \in [status : Status, output : Output]
    /\ since \in [version : [Pool -> 0..MaxVersion], config : 1..MaxConfig]
    /\ updated \in BOOLEAN

Init ==
    /\ version \in [Pool -> {0, 1}]
    /\ config = 1
    /\ orders = {}
    /\ amm = NewAmm
    /\ pc = "idle"
    /\ call = CHOOSE c \in Call : TRUE
    /\ accounts = NothingFetched
    /\ fetches = 0
    /\ attempts = 1
    /\ result = [status |-> "none", output |-> NoOutput]
    /\ since = [version |-> version, config |-> config]
    /\ updated = FALSE

-----------------------------------------------------------------------------
(***************************************************************************)
(* External: the Darklake program, written to by everybody.                *)
(***************************************************************************)
ChainWrite(k) ==
    /\ version[k] < MaxVersion
    /\ version' = [version EXCEPT ![k] = @ + 1]
    /\ UNCHANGED <<config, amm, pc, call, accounts, fetches, attempts, result, since, updated>>

\* A pool is created, or its liquidity changes.
ChainChangePool(k) ==
    /\ ChainWrite(k)
    /\ UNCHANGED orders

\* A swap opens the order of a trader who has none in the pool.
ChainSwap(k, u) ==
    /\ version[k] > 0
    /\ OrderAddress(k, u) \notin orders
    /\ ChainWrite(k)
    /\ orders' = orders \cup {OrderAddress(k, u)}

\* Somebody settles, cancels or slashes an order.
ChainFinalize(k, u) ==
    /\ OrderAddress(k, u) \in orders
    /\ ChainWrite(k)
    /\ orders' = orders \ {OrderAddress(k, u)}

ChainSetConfig ==
    /\ config < MaxConfig
    /\ config' = config + 1
    /\ UNCHANGED <<version, orders, amm, pc, call, accounts, fetches, attempts, result, since, updated>>

-----------------------------------------------------------------------------
(***************************************************************************)
(* A call begins: its parameters are normalised and it runs to its first   *)
(* await (or to "return" when it has none).                                *)
(***************************************************************************)
Invoke(method, x, y, user, order, at) ==
    /\ pc = "idle"
    /\ method \in Api
    /\ call' = [method |-> method, x |-> x, y |-> y, user |-> user, order |-> order]
    /\ pc' = at
    /\ result' = [status |-> "none", output |-> NoOutput]
    /\ since' = [version |-> version, config |-> config]
    /\ UNCHANGED <<chainVars, amm, accounts, fetches, attempts, updated>>

\* The order parameter of the methods that take none.
AnyOrder == CHOOSE o \in Pool \X User : TRUE

\* The user parameter of the methods that take none.
AnyUser == CHOOSE u \in User : TRUE

\* Mutations of FirstAwait: any cached pool will do; a cached pool needs no update.
FirstAwaitAnyPool(x, y) == IF amm.key = DefaultPool THEN "load" ELSE "accounts"

FirstAwaitNoUpdate(x, y) == IF amm.key # GetPoolAddress(x, y) THEN "load" ELSE "transaction"

\* The cache is loaded only if it holds another pool than the tokens' own.
FirstAwait(x, y) == IF amm.key # GetPoolAddress(x, y) THEN "load" ELSE "accounts"

\* quote, swap_tx, add_liquidity_tx, remove_liquidity_tx.
InvokeForPool(method, token_x, token_y, user) ==
    LET x == PostSol(token_x)
        y == PostSol(token_y)
    IN  /\ method \in QuoteAndTx
        /\ Invoke(method, x, y, user, AnyOrder, FirstAwait(x, y))

InvokeInitializePool(token_x, token_y, user) ==
    Invoke("initialize_pool_tx", PostSol(token_x), PostSol(token_y), user, AnyOrder, "mints")

\* settle_signer is the trader of the order unless the caller names another.
InvokeFinalize(order, settle_signer) ==
    Invoke("finalize_tx", WSOL, WSOL, settle_signer, order, "order")

InvokeLoadPool(x, y) ==
    Invoke("load_pool", x, y, AnyUser, AnyOrder, "load")

InvokeUpdateAccounts ==
    Invoke("update_accounts", WSOL, WSOL, AnyUser, AnyOrder, "accounts")

InvokeGetOrder(user) ==
    Invoke("get_order", WSOL, WSOL, user, AnyOrder, "return")

\* The `_ix` methods read no account.  finalize_ix awaits the prover unless the
\* slot its caller passes is past the deadline.
InvokeIx(method, source, destination, user, order) ==
    /\ method \in CachedIx \cup {"initialize_pool_ix"}
    /\ \E at \in {"return"} \cup (IF method = "finalize_ix" THEN {"prove"} ELSE {}) :
           Invoke(method, source, destination, user, order, at)

-----------------------------------------------------------------------------
\* The call is over: its locals are gone.
Return(status, output) ==
    /\ pc' = "idle"
    /\ result' = [status |-> status, output |-> output]
    /\ accounts' = NothingFetched
    /\ fetches' = 0
    /\ attempts' = 1
    /\ UNCHANGED <<chainVars, call, since>>

\* The call goes on to its next await; the locals it is done with are gone.
GoOn(at) ==
    /\ pc' = at
    /\ accounts' = NothingFetched
    /\ fetches' = 0
    /\ attempts' = 1
    /\ UNCHANGED <<chainVars, call, since, result>>

\* load_pool, when the pool account arrives.
LoadPool ==
    /\ pc = "load"
    /\ LET k == GetPoolAddress(call.x, call.y)
       IN  /\ k \in Pool
           /\ version[k] > 0
           /\ amm' = FromPool(k, version[k])
           /\ updated' = FALSE
           /\ IF call.method = "load_pool"
              THEN Return("ok", [NoOutput EXCEPT !.pool = k, !.mints = <<call.x, call.y>>])
              ELSE GoOn("accounts")

\* load_pool reports every failure of the read as a missing pool.
LoadPoolFails ==
    /\ pc = "load"
    /\ Return("pool_not_found", NoOutput)
    /\ UNCHANGED <<amm, updated>>

\* The version of the account that plays a part for the cached pool.  The key
\* of an empty cache is the system program's, which exists.  The answer is the
\* newest one: that a node never answers with an older slot than before is
\* assumed of the node, as no request sets min_context_slot.
OnChain(role) ==
    IF amm.key \notin Pool THEN 1
    ELSE CASE role = "amm_config" -> config
           [] role \in {"mint_x", "mint_y"} -> 1
           [] OTHER -> version[amm.key]

\* Mutation of FetchAccount: the pool account is what it was when the call began,
\* before load_pool read it.
FetchAccountEarly ==
    /\ pc = "accounts"
    /\ fetches' = fetches + 1
    /\ LET role == AccountsToUpdate[fetches']
       IN  accounts' = [accounts EXCEPT ![role] =
               IF role = "pool" /\ amm.key \in Pool THEN since.version[amm.key] ELSE OnChain(role)]
    /\ pc' = IF fetches' = Len(AccountsToUpdate) THEN "update" ELSE "accounts"
    /\ UNCHANGED <<chainVars, amm, call, attempts, result, since, updated>>

\* update_accounts: the next account of the list arrives.
FetchAccount ==
    /\ pc = "accounts"
    /\ fetches' = fetches + 1
    /\ accounts' = [accounts EXCEPT ![AccountsToUpdate[fetches']] = OnChain(AccountsToUpdate[fetches'])]
    /\ pc' = IF fetches' = Len(AccountsToUpdate) THEN "update" ELSE "accounts"
    /\ UNCHANGED <<chainVars, amm, call, attempts, result, since, updated>>

\* Where a call goes once update_accounts has returned Ok to it.
AfterUpdate ==
    CASE call.method = "quote"       -> "epoch"
      [] call.method = "finalize_tx" -> "slot"
      [] OTHER                       -> "transaction"

\* update_accounts: every account is there and reads as what it should be.
UpdateAccounts ==
    /\ pc = "update"
    /\ amm.key # DefaultPool
    /\ amm' = Update(amm, accounts, UpdateStages)
    /\ updated' = TRUE
    /\ IF call.method = "update_accounts"
       THEN Return("ok", NoOutput)
       ELSE GoOn(AfterUpdate)

\* An account does not read as what it should be: what comes before it was
\* assigned.  The data of the system program is never a pool.
UpdateAccountsFails(n) ==
    /\ pc = "update"
    /\ n < UpdateStages
    /\ amm.key = DefaultPool => n = 0
    /\ amm' = Update(amm, accounts, n)
    /\ updated' = FALSE
    /\ Return("unreadable", NoOutput)

\* initialize_pool_tx: the accounts of both mints arrive, with their owners, one
\* after the other; nothing is written in between, so they are one step.
FetchMints ==
    /\ pc = "mints"
    /\ GoOn("transaction")
    /\ UNCHANGED <<amm, updated>>

\* Mutation of FetchOrder: the cache is taken as it is.
FetchOrderNoUpdate ==
    /\ pc = "order"
    /\ call.order \in orders
    /\ GoOn("slot")
    /\ UNCHANGED <<amm, updated>>

\* finalize_tx: the order account arrives, at whatever attempt.
FetchOrder ==
    /\ pc = "order"
    /\ call.order \in orders
    /\ GoOn("accounts")
    /\ UNCHANGED <<amm, updated>>

\* finalize_tx: an account arrives that does not read as an order; parse_order_data
\* ends the call before it touches the cache, however many attempts are left.
ParseOrderFails ==
    /\ pc = "order"
    /\ Return("unreadable", NoOutput)
    /\ UNCHANGED <<amm, updated>>

\* Mutations of RetryOrder: attempts without end; one attempt too many.
RetryOrderForever ==
    /\ pc = "order"
    /\ attempts' = IF attempts < MaxAttempts THEN attempts + 1 ELSE 1
    /\ UNCHANGED <<chainVars, amm, pc, call, accounts, fetches, result, since, updated>>

RetryOrderOnceMore ==
    /\ pc = "order"
    /\ attempts <= MaxAttempts
    /\ attempts' = attempts + 1
    /\ UNCHANGED <<chainVars, amm, pc, call, accounts, fetches, result, since, updated>>

\* finalize_tx: the attempt failed, and after five seconds there is another.
RetryOrder ==
    /\ pc = "order"
    /\ attempts < MaxAttempts
    /\ attempts' = attempts + 1
    /\ UNCHANGED <<chainVars, amm, pc, call, accounts, fetches, result, since, updated>>

GiveUpOrder ==
    /\ pc = "order"
    /\ attempts = MaxAttempts
    /\ Return("order_unavailable", NoOutput)
    /\ UNCHANGED <<amm, updated>>

\* finalize_tx: the slot arrives.  Past the deadline the order is slashed, which
\* needs no proof; which of the three it is makes no difference here.
FetchSlot ==
    /\ pc = "slot"
    /\ \E expired \in BOOLEAN : GoOn(IF expired THEN "transaction" ELSE "prove")
    /\ UNCHANGED <<amm, updated>>

Prove ==
    /\ pc = "prove"
    /\ GoOn(IF call.method = "finalize_tx" THEN "transaction" ELSE "return")
    /\ UNCHANGED <<amm, updated>>

-----------------------------------------------------------------------------
\* What the call makes from the cache: the trader of a finalized order comes
\* from the order account, everywhere else the user is the one who calls.
CallOutput ==
    CASE call.method = "quote"                           -> GetQuote(amm, call.x, call.user)
      [] call.method \in {"swap_tx", "swap_ix"}          -> GetSwap(amm, call.x, call.user)
      [] call.method \in {"finalize_tx", "finalize_ix"}  -> GetFinalize(amm, call.user, call.order[2])
      [] OTHER                                           -> GetLiquidity(amm, call.user)

\* initialize_pool_tx sorts the mints; initialize_pool_ix takes them as given.
InitializePoolOutput ==
    LET k == IF call.method = "initialize_pool_tx"
             THEN GetPoolAddress(call.x, call.y)
             ELSE <<call.x, call.y>>
    IN  GetInitializePool(k[1], k[2], ProgramOf[k[1]], ProgramOf[k[2]], call.user)

\* quote: the epoch arrives and the quote is computed.
ReturnQuote ==
    /\ pc = "epoch"
    /\ Return("ok", CallOutput)
    /\ UNCHANGED <<amm, updated>>

\* The lookup table and the blockhash arrive and the transaction is compiled.
ReturnTransaction ==
    /\ pc = "transaction"
    /\ Return("ok", IF call.method = "initialize_pool_tx" THEN InitializePoolOutput ELSE CallOutput)
    /\ UNCHANGED <<amm, updated>>

\* The instruction is built from the cache as it is.
ReturnInstruction ==
    /\ pc = "return"
    /\ call.method # "get_order"
    /\ Return("ok", IF call.method = "initialize_pool_ix" THEN InitializePoolOutput ELSE CallOutput)
    /\ UNCHANGED <<amm, updated>>

\* get_order derives the order's key from the cached pool, so it needs one.
GetOrderPubkey ==
    /\ pc = "return"
    /\ call.method = "get_order"
    /\ IF amm.key = DefaultPool THEN Return("not_initialized", NoOutput) ELSE GoOn("read_order")
    /\ UNCHANGED <<amm, updated>>

ReturnOrder ==
    /\ pc = "read_order"
    /\ IF OrderAddress(amm.key, call.user) \in orders
       THEN Return("ok", [NoOutput EXCEPT !.pool = amm.key, !.order = OrderAddress(amm.key, call.user)])
       ELSE Return("order_not_found", NoOutput)
    /\ UNCHANGED <<amm, updated>>

\* An RPC request or the prover fails, or the quote or the compilation does.
Fail ==
    /\ pc \in Await \ {"load", "order"}
    /\ Return("rpc_error", NoOutput)
    /\ UNCHANGED <<amm, updated>>

\* The caller drops the future, as a timeout or a select! does.
Drop ==
    /\ pc \in Await
    /\ Return("none", NoOutput)
    /\ UNCHANGED <<amm, updated>>

-----------------------------------------------------------------------------
Chain ==
    \/ \E k \in Pool : ChainChangePool(k)
    \/ \E k \in Pool, u \in User : ChainSwap(k, u)
    \/ \E k \in Pool, u \in User : ChainFinalize(k, u)
    \/ ChainSetConfig

Client ==
    \/ \E m \in QuoteAndTx, tx \in Token, ty \in Token, u \in User : InvokeForPool(m, tx, ty, u)
    \/ \E tx \in Token, ty \in Token, u \in User : InvokeInitializePool(tx, ty, u)
    \/ \E o \in Pool \X User, u \in User : InvokeFinalize(o, u)
    \/ \E x \in Mint, y \in Mint : InvokeLoadPool(x, y)
    \/ InvokeUpdateAccounts
    \/ \E u \in User : InvokeGetOrder(u)
    \/ \E m \in CachedIx \cup {"initialize_pool_ix"}, x \in Mint, y \in Mint, u \in User, o \in Pool \X User :
           InvokeIx(m, x, y, u, o)

\* A call in progress takes its next step, with whatever answer it gets.
Progress ==
    \/ LoadPool
    \/ LoadPoolFails
    \/ FetchAccount
    \/ UpdateAccounts
    \/ \E n \in 0..UpdateStages : UpdateAccountsFails(n)
    \/ FetchMints
    \/ FetchOrder
    \/ RetryOrder
    \/ ParseOrderFails
    \/ GiveUpOrder
    \/ FetchSlot
    \/ Prove
    \/ ReturnQuote
    \/ ReturnTransaction
    \/ ReturnInstruction
    \/ GetOrderPubkey
    \/ ReturnOrder
    \/ Fail

Next == Chain \/ Client \/ Progress \/ Drop

Spec == Init /\ [][Next]_vars

\* The RPC client times out and the prover ends, so every await does; callers
\* and the chain owe nothing.
FairSpec == Spec /\ WF_vars(Progress)
-----------------------------------------------------------------------------
(***************************************************************************)
(* Properties.                                                             *)
(***************************************************************************)
Succeeded(methods) == result.status = "ok" /\ call.method \in methods

\* Whatever was cached, dropped or half updated before, a quote or transaction
\* made for two tokens names the pool of these tokens, its mints' own token
\* programs, the order of the calling user, and the direction asked for
\* (the reload checks of sdk.rs:173, 224, 427, 520 and update_accounts).
TxForRequestedPool ==
    Succeeded(QuoteAndTx \cup {"initialize_pool_tx"}) =>
        LET k == GetPoolAddress(call.x, call.y)
        IN  /\ result.output.pool = k
            /\ result.output.mints = k
            /\ result.output.programs = ProgramsOf(k)
            /\ result.output.order = OrderAddress(k, call.user)
            /\ call.method \in {"quote", "swap_tx"} => (result.output.is_swap_x_to_y <=> call.x < call.y)

\* The numbers in a quote or transaction are no older than the call: each of
\* the accounts was read between its beginning and its end, in the order of
\* the list.  (They need not belong to one moment: the chain may move between
\* two of the reads, sdk.rs:732-741.)
ReadsSinceCall ==
    Succeeded(QuoteAndTx \cup {"finalize_tx"}) =>
        LET b == result.output.basis
            k == result.output.pool
        IN  /\ k \in Pool
            /\ since.version[k] <= b.pool
            /\ b.pool <= b.reserve_x
            /\ b.reserve_x <= b.reserve_y
            /\ b.reserve_y <= version[k]
            /\ b.amm_config \in since.config..config

\* The cache is always empty or the image of one existing pool, never ahead of
\* the chain.  It was read in the order pool, config, reserve of x, reserve of
\* y, and it knows token programs only with both balances: what was cached of
\* another pool never survives a load (darklake_amm.rs:120-145), and an update
\* that fails halfway never leaves programs without balances (170-204).
CacheCoherent ==
    IF amm.key = DefaultPool
    THEN amm = NewAmm
    ELSE /\ amm.key \in Pool
         /\ amm.pool \in 1..version[amm.key]
         /\ amm.amm_config \in 0..config
         /\ amm.reserve_x_balance \in 0..version[amm.key]
         /\ amm.reserve_y_balance \in 0..version[amm.key]
         /\ amm.reserve_x_balance > 0 => amm.amm_config > 0
         /\ amm.reserve_y_balance > 0 => amm.reserve_x_balance > 0
         /\ \/ amm.token_owners = NewAmm.token_owners /\ amm.reserve_y_balance = 0
            \/ amm.token_owners = ProgramsOf(amm.key) /\ amm.reserve_y_balance > 0

\* As long as the cache stays on one pool, the pool data in it never goes back
\* in time, whatever is dropped, fails halfway or is loaded again, if the answers
\* of the RPC node do not.
PoolNeverRollsBack ==
    [][amm'.key = amm.key => amm'.pool >= amm.pool]_amm

\* When the order passed to finalize_tx belongs to the cached pool, the
\* transaction is about that very order: its address, its trader's accounts and
\* the pool's token programs; the settler only signs (sdk.rs:327-357).
FinalizeForCachedPool ==
    /\ Succeeded({"finalize_tx"})
    /\ call.order[1] = result.output.pool
    => /\ result.output.order = call.order
       /\ result.output.caller = call.user
       /\ result.output.programs = ProgramsOf(call.order[1])

\* The protocol of sdk.rs:682-685: once update_accounts has succeeded on the
\* loaded pool, and nothing failed since, an `_ix` method names the pool's
\* mints and token programs and has read its config and both reserves.
ManualProtocol ==
    Succeeded(CachedIx) /\ updated =>
        /\ result.output.pool \in Pool
        /\ result.output.programs = ProgramsOf(result.output.pool)
        /\ result.output.basis.amm_config > 0
        /\ result.output.basis.reserve_x >= result.output.basis.pool
        /\ result.output.basis.reserve_y >= result.output.basis.reserve_x

\* Every call ends, an order account that never appears included.
CallReturns == pc # "idle" ~> pc = "idle"

(***************************************************************************)
(* The inductive invariant the safety properties follow from: what holds   *)
(* in the middle of a call.                                                *)
(***************************************************************************)
\* Which methods can be suspended where.
MethodsAt(place) ==
    CASE place = "load"                    -> QuoteAndTx \cup {"load_pool"}
      [] place \in {"accounts", "update"}  -> QuoteAndTx \cup {"finalize_tx", "update_accounts"}
      [] place = "epoch"                   -> {"quote"}
      [] place = "mints"                   -> {"initialize_pool_tx"}
      [] place \in {"order", "slot"}       -> {"finalize_tx"}
      [] place = "prove"                   -> {"finalize_tx", "finalize_ix"}
      [] place = "transaction"             -> (QuoteAndTx \ {"quote"}) \cup {"finalize_tx", "initialize_pool_tx"}
      [] place = "return"                  -> CachedIx \cup {"initialize_pool_ix", "get_order"}
      [] place = "read_order"              -> {"get_order"}
      [] OTHER                             -> Method

CallAtItsPlace ==
    /\ call.method \in MethodsAt(pc)
    /\ pc # "idle" => result.status = "none"
    /\ CASE pc = "accounts" -> fetches < Len(AccountsToUpdate)
         [] pc = "update"   -> fetches = Len(AccountsToUpdate)
         [] OTHER           -> fetches = 0

\* Past its load, a call for two tokens works on their pool; past the first
\* read, get_order works on a pool.
CallOnItsPool ==
    /\ call.method \in QuoteAndTx /\ pc \notin {"idle", "load"} =>
           amm.key = GetPoolAddress(call.x, call.y)
    /\ pc = "read_order" => amm.key # DefaultPool

ChainMovesForward ==
    /\ \A k \in Pool : since.version[k] <= version[k]
    /\ since.config <= config

\* The accounts fetched so far are no older than the call and than the cache.
FetchedSinceCall ==
    pc \in {"accounts", "update"} /\ amm.key \in Pool =>
        /\ fetches >= 1 => /\ since.version[amm.key] <= accounts["pool"]
                           /\ accounts["pool"] \in amm.pool..version[amm.key]
        /\ fetches >= 4 => accounts["reserve_x"] \in accounts["pool"]..version[amm.key]
        /\ fetches >= 5 => accounts["reserve_y"] \in accounts["reserve_x"]..version[amm.key]
        /\ fetches >= 6 => accounts["amm_config"] \in since.config..config

\* Past its update, a managed call holds a cache read since it began.
UpdatedSinceCall ==
    call.method \in QuoteAndTx \cup {"finalize_tx"} /\ pc \in {"epoch", "slot", "prove", "transaction"} =>
        /\ amm.key \in Pool
        /\ since.version[amm.key] <= amm.pool
        /\ amm.pool <= amm.reserve_x_balance
        /\ amm.reserve_x_balance <= amm.reserve_y_balance
        /\ since.config <= amm.amm_config

\* What `updated` stands for.
UpdatedCache ==
    updated => /\ amm.key \in Pool
               /\ amm.pool <= amm.reserve_x_balance
               /\ amm.reserve_x_balance <= amm.reserve_y_balance

IInv ==
    /\ TypeOK
    /\ CacheCoherent
    /\ CallAtItsPlace
    /\ CallOnItsPool
    /\ ChainMovesForward
    /\ FetchedSinceCall
    /\ UpdatedSinceCall
    /\ UpdatedCache
    /\ TxForRequestedPool
    /\ ReadsSinceCall
    /\ FinalizeForCachedPool
    /\ ManualProtocol

(***************************************************************************)
(* What the documentation says, where the code does otherwise.             *)
(***************************************************************************)
\* finalize_tx finalizes the order whose key it is given (sdk.rs:282).
FinalizeTargetsOrder ==
    Succeeded({"finalize_tx"}) => result.output.order = call.order

\* get_order needs neither load_pool nor update_accounts (sdk.rs:749-750).
GetOrderStandalone ==
    call.method = "get_order" => result.status # "not_initialized"

\* load_pool returns the sorted mints (sdk.rs:694, 718).
LoadPoolReturnsSortedMints ==
    Succeeded({"load_pool"}) => result.output.mints[1] < result.output.mints[2]

\* A quote takes the transfer fees of both mints into account (README).
QuoteKnowsTransferFees ==
    Succeeded({"quote"}) =>
        \A i \in 1..2 : result.output.transfer_fees[i] <=> result.output.mints[i] \in FeeMint
=============================================================================
