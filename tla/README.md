# A verification project for the Darklake on-chain SDK

TLA+ models of `darklake-sdk-on-chain`, checked with TLC; their safety is proved
with TLAPS, their liveness is not. The SDK is a client of the Darklake program on
Solana: it reads accounts over RPC, keeps a cache of one pool, and builds
instructions and transactions that its caller signs and sends. Paths below are relative to the
repository root; the crate's source is `src/`, which the tables of
`PROJECT.json` list as `src/src/` because the repository sits in a directory of
that name.

## 1. The system

| Part | Where | State it keeps | Operations |
|---|---|---|---|
| Client `DarklakeSDK` | `src/sdk.rs` | the cached pool, circuit paths, label, referral code | `quote`, `swap_tx`, `finalize_tx`, `add_liquidity_tx`, `remove_liquidity_tx`, `initialize_pool_tx`, `load_pool`, `update_accounts`, `get_order`, five `_ix` methods |
| Cache and builders `DarklakeAmm` | `src/darklake_amm.rs`, `src/amm.rs` | pool, config, reserve balances, token programs, transfer fee configs | `load_pool`, `get_accounts_to_update`, `update`, `quote`, one builder per instruction |
| Addresses and token normalisation | `src/darklake_amm.rs`, `src/sdk.rs`, `src/constants.rs` | none | SOL to wrapped SOL, sorted pool address, order address |
| Orders | `swap_tx`, `finalize_tx`, `finalize_ix`; `src/proof/utils.rs` | on the chain; the client only passes it through | commit, settle, cancel, slash |
| SOL wrapping and transaction assembly | `src/utils.rs`, `src/sdk.rs` | none (the signer's token accounts are on the chain) | wrap, close, the instruction lists |
| Proofs | `src/proof/` | none | commitment, proof, byte encodings |
| Instructions | `src/account_metas.rs`, `src/amm.rs`, the builders of `src/darklake_amm.rs` | none | seven account lists, the data of seven instructions |
| Helpers | `src/utils.rs` | none | salt, fixed strings, transfer fee, lookup table |

**How they interact.** Every SDK method is an `async fn` on one `DarklakeSDK`.
The `_tx` methods and `quote` normalise their tokens, load the pool when the
cache holds another one, read six accounts one await at a time, update the
cache and build from it. The `_ix` methods build from the cache as it is: their
caller has to call `load_pool` and `update_accounts`. `finalize_tx` waits for an
order account, reads the slot, decides between slash, settle and cancel, and
proves. Everything else is shared through the chain: pools, reserves, configs
and orders that other programs' users change at any time.

**What is hard.**

- *Concurrency.* `&mut self` keeps two methods of one instance apart, but the
  chain moves between any two awaits, several instances settle the same order,
  and transactions land long after they were built, in any order, or never.
- *Failure.* Any request may fail. `update` assigns field by field between
  fallible reads, so an error leaves a mixture in the cache. A caller may drop
  the future of a method at any await; the cache stays as it was at that point.
- *Time.* An order has a deadline in slots. The order is read at the client's
  commitment level, the slot at `processed`, and a proof takes a while.
- *Identity.* Pools are keyed by sorted mints while callers name them in any
  order, SOL is a pseudo mint, and the address of an order does not tell one
  order of a trader from the next.

**What makes each part correct.** The client: a result is about the pool that
was asked for and made of accounts read during the call; every call returns. The
cache: at any time the image of one pool or empty, never older than it was.
Orders: each is closed by the outcome it deserves, by a transaction made for it,
and in the end. Wrapping: a call in SOL uses the signer's lamports and amounts
stay with their tokens.

## 2. The modules

```
Addresses ──> DarklakeAmm ──> DarklakeSDK ──> MCDarklakeSDK      (TLC)
    │                              └────────> DarklakeSDKProofs  (TLAPS)
    │             └──> Instructions ────────> MCInstructions     (TLC)
    │   Codec ──────────────┘      └────────> InstructionsProofs (TLAPS)
    │     └──> CodecProofs (TLAPS) ──┐                 │
    │                                └────────> DataProofs       (TLAPS)
    └───────> Transactions ─────────────────> MCTransactions     (TLC)
                               └────────────> TransactionsProofs (TLAPS)
OrderPromise <── implemented by ── OrderFlow ──> MCOrderFlow     (TLC)
                                       └───────> OrderFlowProofs (TLAPS)
```

### Addresses

A mint is the number its bytes spell, so that the pair of a pool can be sorted;
an address derived from seeds is the tuple of the seeds (no collisions). SOL is
a number outside `Mint`.

### DarklakeAmm

The cache as a record, and pure operators on it. A balance or a config is
abstracted to the *version* of the account it was read from: version `n` of a
pool is its state after the `n`-th change, 0 is "never read". What a version
cannot tell (amounts, fees) the properties do not ask about. Kept are the
order in which `update` assigns and the fallible reads between the assignments:
`Update(amm, accounts, n)` is the cache after the first `n` of the stages of
`update`, so a failure is an update that stops early. The transfer fee config
is read as the code reads it, from the reserve's token account, where there is
none. The builders (`GetQuote`, `GetSwap`, `GetFinalize`, `GetLiquidity`,
`GetInitializePool`) return an `Output`: which pool, mints, token programs,
order and wallets the result names, and from which versions it was computed
(`basis`).

### DarklakeSDK

One instance. `pc` is the await at which the method in progress is suspended;
an action runs from one await to the next, as the executor does. `amm` is
`self.darklake_amm`; `call` the parameters; `accounts` and `fetches` the map
that `update_accounts` fills; `attempts` the retries of `finalize_tx`. The
chain (`version`, `config`, `orders`) is external and changes between any two
steps. An answer of the RPC node is the chain at that moment (`OnChain`). That a
node never answers with an older state than before is an assumption: the requests
(`src/sdk.rs:733`) set no `min_context_slot`, and `PoolNeverRollsBack` rests on
it. The two requests of `initialize_pool_tx` for the owners of the mints are one
step, since nothing is written between them. A request that fails is `Fail`, `LoadPoolFails`, `RetryOrder` or
`GiveUpOrder`, order data that cannot be read is `ParseOrderFails`,
an update that fails at stage `n` is `UpdateAccountsFails(n)`, a
dropped future is `Drop`. Two history variables serve the properties: `since`,
the chain when the call began, and `updated`.

| Code | Actions |
|---|---|
| `quote`, `swap_tx`, `add_liquidity_tx`, `remove_liquidity_tx` | `InvokeForPool`, `LoadPool`, `FetchAccount`, `UpdateAccounts`, `ReturnQuote`, `ReturnTransaction` |
| `initialize_pool_tx` | `InvokeInitializePool`, `FetchMints`, `ReturnTransaction` |
| `finalize_tx` | `InvokeFinalize`, `FetchOrder`, `ParseOrderFails`, `RetryOrder`, `GiveUpOrder`, the update, `FetchSlot`, `Prove`, `ReturnTransaction` |
| `load_pool`, `update_accounts` | `InvokeLoadPool`, `InvokeUpdateAccounts`, ... |
| `get_order` | `InvokeGetOrder`, `GetOrderPubkey`, `ReturnOrder` |
| `swap_ix`, `finalize_ix`, liquidity and pool `_ix` | `InvokeIx`, `Prove`, `ReturnInstruction` |

### OrderPromise and OrderFlow

`OrderPromise` is what a trader is promised: in each pool one order at a time,
closed by a settle when it pays the minimum, by a cancel when it does not, by a
slash when it expired. `OrderFlow` is how it comes about: `swap_tx` commits to a
minimum and a salt (`CallSwap`); any settler calls `finalize_tx` for the order of
any pool, on a client that has this or another pool cached, and reads the order
as the client's commitment level shows it (`CallFinalize`, or `FindNoOrder`
after the attempts of `DarklakeSDK`), reads the slot and slashes (`SlashOrder`)
or starts to prove, with any minimum and any salt that was handed out
(`StartProof`), and has a transaction (`FinishProof`) or none (`FailProof`,
`FailRequest`). The transaction names the order account of the cached pool, as
the builders do, whichever order it was made for, and lands or is lost at any
later time. How a client comes to its cache, and `update_accounts` inside
`finalize_tx`, which has no bearing on the decision, are in `DarklakeSDK`: here
`cached` is any pool. A minimum and a salt are looked at for the first time when
the proof starts, so they are chosen there.

External there, from how the code uses it: the program opens an order at a free
address, one per trader and pool, closes it by a settle or cancel whose public
inputs are the order's commitment and output up to the deadline, and by a slash
after it (the same comparisons the builders make before they build); the
circuits have a witness for the right secret and the right side of the
comparison. That the circuits draw the line where the builders do, at equality of
minimum and output too, is an assumption (`Provable`), since they are not in
`src/`. `id`, `min_out` of an order and the part of `last` that says whose
transaction it was are history, which no action of the code reads.

Several orders may pass one deadline in one slot, so `Expire` takes a set of
pools. The mapping to `OrderPromise` takes the trader's own minimum (history), never
the commitment, so the step from "commitment" to "what the trader asked for" is
part of what is checked.

### Transactions

The instruction lists of `swap_tx`, `add_liquidity_tx`, `remove_liquidity_tx`
and `initialize_pool_tx`, executed against the signer's wallet: lamports,
lamports sent to the wrapped SOL account and not yet synced, token balances,
which associated accounts exist and in which pools the signer has an open order;
and which pools there are. A transaction runs whole or not at all,
some time after it was built; between the two, other transactions or the signer
may have closed the wrapped SOL account. Orders are closed (`CloseOrder`), which pays
the signer. `Execute` is one instruction, `Run` the
list of a call (at most five), and a wallet whose `status` is "failed" stands for
a transaction that is rolled back.

External there, from the accounts the lists name and those the program keeps:
a swap takes `wsol_trade_deposit` of the AMM config
(`src/darklake_amm.rs:52`, recorded in the order at 78) out of the trader's
wrapped SOL account into the pool's, the two that every swap may write
(`src/account_metas.rs:38, 41`), besides its amount, and opens the one order of
the trader in the pool, so that it is refused while there is one; a new pool costs
`create_pool_fee` (`src/darklake_amm.rs:49`) in lamports and is refused when the
pool exists. `swap_tx` wraps the amount and not the deposit. Who gets the deposit
when an order ends depends on the outcome and the program: `CloseOrder` pays one
token of the pool, and gives the deposit back or does not.

Left out: compute budget, lookup table, blockhash, rent and transaction fees; LP
tokens, which are no token of a call; what the program may refuse for reasons
that are not in the wallet (a halted config, slippage, a ratio beyond the
tolerance), which is `Lose`.

### Codec

The conversions of `src/proof/` and of strings, as functions on numbers and byte
sequences: little-endian words, big-endian buffers, the four words of a hash in
Montgomery form and out of it (`BytesToBigint`), the points of a proof in the
order the verifier takes their coordinates. `Power` and the sum in `FromLe` are
recursive functions, and `U64ArrayToU8ArrayLe` says of each byte of its output
which byte of which word it is, as the slices of the code do. A buffer through a hexadecimal
string is its digits in order. The base of a byte, the bytes of a word, the words
of a field element, both primes and the Poseidon hash are constants; the
assumption says what the code's constants satisfy (in particular that `Ri` is the
inverse of `R`). A u64 is a number below its bound, and nothing computes with one
beyond it.

### Instructions

The same builders as in `DarklakeAmm`, which has what a result is about, seen
from the other side: what the instruction consists of. `client` is what `new()`
made of its label and referral code, `amm` the cache of `DarklakeAmm`, `last` the
instruction built and, as history, what it was built for; `order` is the
program's. Each builder yields its parameters, its data, put together field by
field as the code does, and its accounts in the order of `account_metas.rs`
with their flags. `SwapTx`, `LiquidityTx`, `InitializePoolTx`, `SlashTx` and
`ProveTx` are the calls, reduced to what reaches the builder: their awaits and
failures are in `DarklakeSDK`, their other instructions in `Transactions`, their
deadlines in `OrderFlow`. `LoadPool` leaves another pool in the cache between a
swap and its end.

External: the program decodes the data by the parameters that `amm.rs` declares
(`Kinds`, `Decode`), takes accounts by their place (`Place`), opens an order with
the commitment it read and closes the one it is pointed at; the circuits have a
witness when the hash of the secret is the commitment (`Witness`).

## 3. What TLC checks

| Run | What it shows |
|---|---|
| `managed` | Quotes, swaps and pool creations over two pools that share wrapped SOL, tokens named in any order: `TxForRequestedPool`, `ReadsSinceCall`, `CacheCoherent`, `PoolNeverRollsBack`. |
| `manual` | `_ix` methods between `load_pool` and `update_accounts`, next to managed methods that move the cache: `ManualProtocol`, and `IInv`, the invariant of the proofs, in every reachable state. |
| `settler` | Two wallets finalize orders of either with the five attempts; under fairness every call ends, that of an absent order included: `TypeOK`, `FinalizeForCachedPool`, `CallReturns`. |
| `orders` | Transactions for the orders of two pools, built from caches of either: `ProofBindsOrder`, `OnlyDeadlineRefuses`, the invariant of the proofs `OInv`, and the step-by-step refinement `KeepsPromise`. |
| `orders_end` | Two pools and any pool cached; under fairness, `OrderFinalized` and the promise with its fairness, `KeepsPromiseInTheEnd`, where time passes; `ClosedUnlessExpired`, where settlers know the secrets. |
| `wrapping` | Two transactions of one wallet, built and landing in any order between orders that open and close: `AmountsFollowTokens`, `SwapSpendsNativeSol`, `FundedSwapLands`, `FundedLiquidityLands`, `RemovalUnwraps`, `NothingStranded`. |
| `instructions` | Every kind of instruction for two wallets and two pools: `LabelSurvives`, `ProgramReadsParams`, `CommitmentSurvives`, `ProgramVerifiesTheProof`, `CloserReachesTheOrder`, `OnlyCallerSigns`, `NamesTheRealAccounts`, `AmountsMeetTheirMints`. |
| `finalize_stale`, `get_order_fresh`, `load_pool_unsorted`, `quote_fees`, `wrap_unsorted` | Counterexamples to what the documentation says, see section 6. |

**Bounds.** Three mints, with wrapped SOL in the middle of their order, make
two pools that share it: a call can meet the cache of the other pool, SOL sorts
first in one pool and second in the other, and one mint belongs to the second
token program with a fee. Two versions per pool let the chain move once after a
pool exists, between any two reads; `managed` adds a second config. `settler`
has a third version, so that an order can be opened and closed, one of the pools
and two users: who signs and who trades is its question,
and `manual` asks the same of two pools within `IInv`. `MaxAttempts`
is the code's 5. In `orders`, two amounts give all three ways min and output can
compare, a duration of 1 has slots before, at and after a deadline, three slots
let two orders follow one another, and two transactions in flight let an old one
meet a new order; with two pools the transaction for one order can meet the order
of the other. One settler is enough there: what a call remembers is its own, calls
meet through what is in flight and on the chain, and the proofs leave the
number open. `orders_end` has one swap and room for every transaction it can give
rise to, since a full `MaxFlight` would stop settlers that nothing stops; orders
that follow one another at one address are the question of `orders`. In
`wrapping`, the wallet's wealth lies between the amounts, so that transactions
succeed and fail; the wrapped SOL account exists in some initial states and not in
others, and so do the pools. Deposit and pool fee are one unit: enough to be the
difference between a transaction that lands and one that fails. Two calls are
enough for a second swap to meet the order of the first, and a second pool that is
made to meet the first. In `instructions`, a byte is a bit, a u64 two
and a field element four of them, so that two words in the wrong order, a word
turned round and a leading zero all show; 13 is the prime of the scalars, so that
Montgomery form is not the number itself, and 11 that of the coordinates. The
strings have the code's lengths, at their limits and one past them, and one
label ends in a zero byte, which no reader can tell from the padding behind it:
`LabelSurvives` compares strings without the zeros at their end. Three secrets
differ in the minimum alone or in the salt alone, and one of their minima is
above every output, so that orders are settled and cancelled. One
instruction is in the making at a time: what several in flight do to each other
is the question of `orders` and `wrapping`. Runs with smaller `Api` sets exist because
methods interact only through the cache: each run has the methods whose
interplay its properties are about. Deadlock checking is off in `wrapping` and
`wrap_unsorted` only, where the system stops when the bound on calls is reached.

**Fairness.** `DarklakeSDK!FairSpec` is weak fairness of a call's own progress:
the RPC client has a timeout and the prover ends, so each await does. Nothing is
assumed of callers or the chain. `OrderFlow!FairSpec` states the assumptions
under which orders end, which lie outside the SDK: commitment levels
catch up, a transaction lands or expires (weak fairness); settlers keep trying,
also with the pool of the order loaded (`AtHome`; the code does not see to that,
section 6, `finalize_stale`), and neither their requests nor acceptable transactions fail forever (strong
fairness: each may fail any number of times in between). Two more are hypotheses of
the properties that need them. `TimePasses` (weak fairness of `Tick`) is that of
`OrderFinalized` and of the fair part of `KeepsPromiseInTheEnd`, where nobody need
know a secret and the slash is what is left. `SecretsAreKnown` (settlers give the right
minimum and salt, again and again) is that of `ClosedUnlessExpired`, where time may
stand still and no order is closed by waiting for its deadline. Without its
hypothesis neither `OrderFinalized` nor `ClosedUnlessExpired` holds.

Every property of a passing run has a mutant, a change to a mapped definition
as a slip in the code would make it, which TLC finds to violate the property.
The mutated operators stand next to the originals, marked as mutations.

## 4. What is proved

`DarklakeSDKProofs` proves the safety of `DarklakeSDK` for all constants that
satisfy the assumptions in `Addresses`, `DarklakeAmm` and `DarklakeSDK`: any
sets of mints, pools and users, any `Api`, any bounds.

- `Invariance`: `Spec => []IInv`. From it, `TypeCorrect`, `CacheIsCoherent`,
  `RequestedPool`, `ReadDuringCall`, `FinalizesCachedOrder`,
  `ManualProtocolSuffices`.
- `NeverRollsBack`: the action property `PoolNeverRollsBack`.

The safety properties speak of finished calls and are not inductive: they do not
say what a suspended call knows. `IInv` adds that: which methods can be suspended
where (`CallAtItsPlace`), that after its load a call for two tokens works on
their pool (`CallOnItsPool`), that what was fetched so far was fetched since the
call began, each account no older than the one before it and than the cached
pool (`FetchedSinceCall`), and that after its update a managed call holds a cache
read since it began (`UpdatedSinceCall`). The argument goes action by action.
Steps of the chain only raise versions (`ChainInv`); an invocation starts from
`CacheCoherent` alone, which is why an earlier call may fail or be dropped
anywhere (`FailureInv`); the update turns the facts about fetched accounts into
facts about the cache (`UpdateAccountsInv`, with `UpdateAccountsFailsInv` for
every prefix of the assignments); a return turns those into the properties of
the result (`CallOutputInv`).

`OrderFlowProofs` proves the safety of `OrderFlow` for any sets of settlers and
pools, any caches, amounts and bounds, from `OrderAssumption` (amounts are
natural numbers, at least one) and the model's injective `Commitment` and fresh
`NewSalt`.

- `OrdersInvariance`: `Spec => []OInv`; from it `OrdersTypeCorrect`,
  `ProofsBindOrders`, `DeadlineAloneRefuses`.
- `PromiseKept`: `Spec => KeepsPromise`, the refinement of `OrderPromise`.

`ProofBindsOrder` speaks of the moment a transaction lands; what makes it true
was settled when the order was read. `OInv` says it at every moment in between:
all the copies of orders, on the chain, as confirmed and in the jobs of settlers
(`Known`), agree, because both the id and the salt tell orders apart
(`OrdersAgree`), whatever pool they are in; the salt of a swap that has not landed is in no order and no
other transaction (`SwapsAreFresh`); a transaction made for an order carries its
commitment and output and is of the kind the order deserves
(`ClosesWhatItWasMadeFor`). Most steps neither add a known order nor send a
transaction and are done by one lemma (`Carry`); sending (`SendInv`), `CallSwap`
and `LandSwap` are done conjunct by conjunct. For the refinement, `LandSwap` is
`Swap` and `LandFinalize` is `Finalize` of the pool the transaction names, the
`Tick` past a deadline is `Expire` of every pool with that deadline (`SlotMore`),
and every other step is a stutter. So a transaction built from a stale cache is
either refused or, when it is a slash, one the order it meets deserves as well.

`TransactionsProofs` proves the safety of `Transactions` for any mints, amounts,
wealth, deposit, pool fee, pools and bounds that satisfy `TransactionAssumption`.
What the theorems say about swaps and new pools rests on the rules assumed of the
program in section 2: `FundedSwapsLand` asks for the lamports of the amount, the
deposit in wrapped SOL and a pool without an open order of the signer, and says
that nothing else in the wallet, whatever became of it, can make the swap fail.

- `AlwaysSound`: `Spec => []Inv`; from it and from what a list of instructions
  does to a wallet, `AmountsAreBounded`, `SwapsSpendNativeSol`,
  `FundedSwapsLand`, `FundedLiquidityIsAdded`, `RemovalsUnwrap` and
  `NothingIsStranded`.

The properties relate the wallet before a transaction to the wallet after it.
`Inv` says that the wallet is sound (in its type, nothing unsynced), that every
transaction sent was built for two different mints, and that what `last` records
is a `Run` of its call from a sound wallet. The argument then leaves the state
machine: lemmas on one instruction (`Execute`) and on wrapping, closing, paying
and receiving are put together to one lemma per method on `Run`, and each theorem
reads its property off the lemma of the method it is about.

`InstructionsProofs` proves what `Instructions` says about account lists, for any
mints, pools, token programs and wallets, from the assumptions of `Addresses`,
`DarklakeAmm` and `Instructions` (wrapped SOL belongs to the first token program,
pools are sorted pairs).

- `AlwaysSound`: `Spec => []Sound`; from it `AlwaysOnlyCallerSigns`,
  `AlwaysCloserReachesTheOrder` and `AlwaysNamesTheRealAccounts`.

An instruction is built at one time and what it has to agree with, the order, was
made at another, by another wallet from another cache. `Sound` says of each what
it is: the cache a loaded pool, `last` one of the lists of some pool
(`Opens`, `Swaps`, `Finalizes`), the order what a swap on some pool wrote. A list
is taken apart by `Join`: of two lists put together it gives the length, the
places, the signers and the keys written; the lemmas on the seven lists
(`SwapLists`, `SettleCloses`, `LiquidityShape`, ...) apply it from part to part.
Two addresses of different families differ by their first seed, and an order is
found by its pool because equal pool addresses have equal keys.

`CodecProofs` proves `Codec`, for any base, any widths and any two moduli that
`CodecAssumption` admits: that `P` and `Q` are prime is not needed, only that
`R` has an inverse modulo `P`. The hash may be any function into the field.

- `CommitmentIsRead`: the buffer a swap sends as its commitment holds the hash of
  its minimum and salt, and is the buffer the circuits are given for it.

It rests on positional notation. `FromLe(ToLe(n, width))` is `n` modulo the
power of the width (`FromLeOfToLe`), by induction on the width, splitting off the
upper digit. The bytes of the words of a number are its bytes (`BytesOfLimbs`): the
place of byte `i` is byte `k` of word `j` (`PlaceOfByte`), and a digit of a low or
high end is a digit of the number. A number survives Montgomery form
because a factor may be reduced before it is multiplied by (`ModuloOfProduct`,
`MontgomeryIsRead`). The library's induction theorems take an operator as
their parameter, which no prover here can instantiate. `Induction` is about a
set instead and follows from `<` being well-founded on the naturals (`WFMin`); the
same lemma gives that the recursive functions exist (`PowersExist`, `SumsExist`),
without which nothing follows from their definitions.

`DataProofs` proves the rest of what `Instructions` says, for any pools, tokens,
amounts, secrets, proofs, strings and widths, from the assumptions of `Codec`,
`Instructions` and the modules below.

- `AlwaysCarried`: `Spec => []Carried`; from it `AlwaysLabelSurvives`,
  `AlwaysProgramReadsParams`, `AlwaysCommitmentSurvives`,
  `AlwaysProgramVerifiesTheProof` and, with `Sound`, `AlwaysAmountsMeetTheirMints`.
- `ConvertedProofIsRead`: what the verifier finds in a converted proof.

What is promised of an order or of an instruction is about bytes that were made
earlier, from parameters that are gone. `Carried` says what the bytes stand for:
the client is one `new()` made (`ClientMade`), an order commits to the secret
of its swap (`OrderCommits`), an instruction is read as its parameters and these
hold the commitment, the proof or the amounts it was built for (`DataCarried`).
The properties alone are not inductive: `CommitmentSurvives` speaks of an order that
is open and says nothing of the swap that will open it, so it would not survive
`LandSwap`. The amounts need both invariants, `Carried` for the limits and `Sound`
for the account of the pool and the key of the two tokens.

That data is read as its parameters is shown without looking at the parser's state
again and again. `Encodes(kind, e, value)` says that the bytes `e`, whatever follows
them, are read as `value` and leave what follows; there is one lemma for each kind
(`EncodesWord`, `EncodesBool`, `EncodesBuffer`, `EncodesOption`). `Encoded` says the same of the first fields of a list, `EncodedFirst` and
`EncodedNext` put one field behind another, and `EncodedAll` concludes that
`Decode` returns their values and no rest. What is left before each field is a
recursive function, whose existence is one more induction (`RestsExist`). Then each builder is a matter of naming its fields (`SwapReadsBack`, ...,
`SettleReadsBack`). The points of a proof are parts of fixed width
(`PartOfMore`, `G1IsRead`, `G2IsRead`). For strings, what the padding adds is zeros,
so the longest part that does not end in a zero is the same before and after
(`UnpaddedAlike`).

## 5. What is only model-checked, and what is not modelled

Liveness (`CallReturns`, `OrderFinalized`, `ClosedUnlessExpired`, `KeepsPromiseInTheEnd`) stays with
TLC: fairness and ENABLED are out of the prover's reach. Every other property of a
passing run is stated by a theorem of section 4. The properties of the runs that
expect a violation are refuted, so there is nothing to prove of them.

The invariants of the proofs of `DarklakeSDK` and `OrderFlow` (`IInv`, `OInv`) are
also checked by their runs. Those of `Transactions` (`Inv`) and `Instructions`
(`Sound`, `Carried`) are defined next to their proofs, in modules that TLC
does not load.

Not modelled:

- The quote formula (`dex_math`, another crate) and the amounts it yields. The
  code around it subtracts transfer fees from the amounts; `DarklakeAmm` is
  private to the crate and `update`, the only place that sets the fee
  configurations, never finds one (section 6, `quote_fees`), so the subtractions
  have nothing to subtract and no behaviour to check.
- The values of instruction discriminators (a name stands for them), compute
  budget, blockhash and rent.
- The lookup table, RPC and circuit files beyond "succeeds or fails".
- The Darklake program and the circuits beyond what is described under
  `OrderFlow`, `Transactions` and `Instructions`; the hash, the curve and the
  prover.

Two calls on one instance at once cannot happen (`&mut self`).

## 6. Where the code and its documentation differ

- **`finalize_stale`.** `finalize_tx` reads the order it is given but builds from
  whichever pool is cached, without loading the pool of the order (whose mints
  the order account names). After a call for another pool the transaction names
  another order account. `FinalizeForCachedPool` is what does hold.
- **`get_order_fresh`.** `get_order` is documented to work right after `new()`;
  it needs the cached pool for the order's address and fails without one.
- **`load_pool_unsorted`.** `load_pool` is documented to return sorted mints; it
  returns them as given.
- **`quote_fees`.** `update` looks for the transfer fee in the reserve's token
  account instead of the mint; the failure is swallowed and quotes know no fee.
- **`wrap_unsorted`.** `add_liquidity_tx` and `initialize_pool_tx` swap the
  amounts when the tokens are named in the other order than the pool's, then
  wrap by the caller's order: the amount meant for the other token.

One more, without a run: a label is documented to have up to 10 characters
(`src/README.md:50`) and the error of `new()` says so, while `new()` counts bytes
(`src/sdk.rs:72`). A label of ten characters beyond ASCII is refused;
`LabelSurvives` speaks of bytes.

## 7. Plan

Done: the client with its cache, orders with their refinement, wrapping,
instructions with their account lists and data, codecs and labels; each is
model-checked, and every safety property of a passing run is proved.

Left: one theorem that joins two modules. `OrderFlow` takes it as given that
`Commitment` tells secrets apart and reaches the order as it was handed
out, which is `AlwaysCommitmentSurvives` of `Instructions` when the hash has no
collisions; `DarklakeSDK` takes it as given that what a builder's `Output` names is
what the instruction holds, which is `AlwaysNamesTheRealAccounts`. Either could be
stated as a refinement. The formula of a quote stays out while it lies in another
crate.
