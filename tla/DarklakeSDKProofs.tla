-------------------------- MODULE DarklakeSDKProofs --------------------------
(***************************************************************************)
(* Proofs about DarklakeSDK, for any mints, users, pools, programs and     *)
(* bounds.  IInv is inductive; the safety properties are conjuncts of it   *)
(* or follow from it.                                                      *)
(***************************************************************************)
EXTENDS DarklakeSDK, TLAPS

(***************************************************************************)
(* Lemmas about the operators.                                             *)
(***************************************************************************)
\* The order in which a caller names the two mints does not matter
\* (sdk.rs:1042-1052).
LEMMA GetPoolAddressSymmetric ==
    ASSUME NEW x \in Mint, NEW y \in Mint
    PROVE  GetPoolAddress(x, y) = GetPoolAddress(y, x)
  BY AddressAssumption DEF GetPoolAddress

LEMMA PostSolType ==
    ASSUME NEW t \in Token
    PROVE  PostSol(t) \in Mint
  BY AddressAssumption DEF PostSol, Token

\* The key of an empty cache is no pool's.
LEMMA PoolKeys ==
    /\ Pool \subseteq Mint \X Mint
    /\ DefaultPool \notin Pool
    /\ Pool \subseteq PoolKey
    /\ \A k \in Pool : k[1] \in Mint /\ k[2] \in Mint /\ k[1] < k[2] /\ k = <<k[1], k[2]>>
  BY AddressAssumption, SDKAssumption DEF DefaultPool, PoolKey

LEMMA ProgramsOfType ==
    ASSUME NEW k \in Pool
    PROVE  /\ ProgramsOf(k) \in Program \X Program
           /\ ProgramsOf(k) # NewAmm.token_owners
  <1>1. k[1] \in Mint /\ k[2] \in Mint
    BY PoolKeys
  <1>2. ProgramOf[k[1]] \in Program /\ ProgramOf[k[2]] \in Program
    BY <1>1, ProgramAssumption
  <1> QED
    BY <1>2, ProgramAssumption DEF ProgramsOf, NewAmm

LEMMA NewAmmType == NewAmm \in Amm
  BY DEF NewAmm, Amm, PoolKey

LEMMA FromPoolType ==
    ASSUME NEW k \in Pool, NEW v \in Nat
    PROVE  FromPool(k, v) \in Amm
  BY PoolKeys DEF FromPool, NewAmm, Amm

LEMMA UpdateType ==
    ASSUME NEW a \in Amm, a.key \in Pool,
           NEW fetched \in [Role -> Nat], NEW n \in 0..UpdateStages
    PROVE  Update(a, fetched, n) \in Amm
  <1>1. UpdatedOwners(a, n) \in (Program \X Program) \cup {<<NoProgram, NoProgram>>}
    BY ProgramsOfType DEF UpdatedOwners, Amm
  <1>2. UpdatedFees(a, n) \in BOOLEAN \X BOOLEAN
    BY DEF UpdatedFees, GetTransferFeeConfig, Amm
  <1>3. /\ fetched["pool"] \in Nat
        /\ fetched["amm_config"] \in Nat
        /\ fetched["reserve_x"] \in Nat
        /\ fetched["reserve_y"] \in Nat
    BY DEF Role
  <1> QED
    BY <1>1, <1>2, <1>3 DEF Update, Amm, UpdateStages

\* An update that fails on the pool account leaves an empty cache empty.
LEMMA UpdateNothing ==
    ASSUME NEW fetched
    PROVE  Update(NewAmm, fetched, 0) = NewAmm
  <1>1. UpdatedOwners(NewAmm, 0) = NewAmm.token_owners
    BY DEF UpdatedOwners, UpdateStages
  <1>2. UpdatedFees(NewAmm, 0) = NewAmm.transfer_fees
    BY DEF UpdatedFees, UpdateStages
  <1> DEFINE same == [key               |-> NewAmm.key,
                      pool              |-> NewAmm.pool,
                      amm_config        |-> NewAmm.amm_config,
                      reserve_x_balance |-> NewAmm.reserve_x_balance,
                      reserve_y_balance |-> NewAmm.reserve_y_balance,
                      token_owners      |-> NewAmm.token_owners,
                      transfer_fees     |-> NewAmm.transfer_fees]
  <1>3. Update(NewAmm, fetched, 0) = same
    BY <1>1, <1>2 DEF Update
  <1>4. NewAmm = same
    BY DEF NewAmm
  <1> QED
    BY <1>3, <1>4

LEMMA MakeOutputType ==
    ASSUME NEW a \in Amm, NEW source, NEW owner \in User, NEW caller \in User
    PROVE  MakeOutput(a, source, owner, caller) \in Output
  <1>1. a.key \in PoolKey
    BY DEF Amm
  <1>2. PoolKey \subseteq Nat \X Nat
    <2>1. \A m \in Mint : m \in Nat
      BY AddressAssumption
    <2>2. \A k \in Mint \X Mint : k \in Nat \X Nat
      BY <2>1
    <2>3. DefaultPool \in Nat \X Nat
      BY DEF DefaultPool
    <2> QED
      BY <2>2, <2>3 DEF PoolKey
  <1> QED
    BY <1>1, <1>2 DEF MakeOutput, Output, OrderAddress, Amm

\* What a call makes of the cache names the cache's pool, and the programs and
\* the numbers in it.
LEMMA CallOutputOfCache ==
    ASSUME TypeOK
    PROVE  /\ CallOutput \in Output
           /\ CallOutput.pool = amm.key
           /\ CallOutput.programs = amm.token_owners
           /\ CallOutput.basis = [pool |-> amm.pool, amm_config |-> amm.amm_config,
                                  reserve_x |-> amm.reserve_x_balance,
                                  reserve_y |-> amm.reserve_y_balance]
  <1>1. amm \in Amm /\ call.user \in User /\ call.order[2] \in User
    BY DEF TypeOK, Call
  <1>2. PICK source \in {call.x, NoSource}, owner \in User, caller \in User :
            CallOutput = MakeOutput(amm, source, owner, caller)
    BY <1>1 DEF CallOutput, GetQuote, GetSwap, GetFinalize, GetLiquidity
  <1>3. CallOutput \in Output
    BY <1>1, <1>2, MakeOutputType
  <1> QED
    BY <1>2, <1>3 DEF MakeOutput

LEMMA NoOutputType == NoOutput \in Output
  BY NewAmmType, MakeOutputType, SDKAssumption DEF NoOutput

\* What update_accounts fetches, and in which order.
LEMMA AccountsToUpdateOrder ==
    /\ Len(AccountsToUpdate) = 6
    /\ AccountsToUpdate[1] = "pool"
    /\ AccountsToUpdate[2] = "mint_x"
    /\ AccountsToUpdate[3] = "mint_y"
    /\ AccountsToUpdate[4] = "reserve_x"
    /\ AccountsToUpdate[5] = "reserve_y"
    /\ AccountsToUpdate[6] = "amm_config"
  BY DEF AccountsToUpdate

LEMMA NothingFetchedType == NothingFetched \in [Role -> Nat]
  BY DEF NothingFetched

(***************************************************************************)
(* The invariant is inductive.                                             *)
(***************************************************************************)
LEMMA InitInv == Init => IInv
  <1> SUFFICES ASSUME Init
               PROVE  IInv
    OBVIOUS
  <1>1. call \in Call
    <2>1. PICK k \in Pool, u \in User : TRUE
      BY SDKAssumption
    <2>2. [method |-> "quote", x |-> WSOL, y |-> WSOL, user |-> u, order |-> <<k, u>>] \in Call
      BY AddressAssumption DEF Call, Method, QuoteAndTx
    <2> QED
      BY <2>2 DEF Init
  <1>2. TypeOK
    <2>1. version \in [Pool -> 0..MaxVersion] /\ config \in 1..MaxConfig
      BY SDKAssumption DEF Init
    <2>2. since \in [version : [Pool -> 0..MaxVersion], config : 1..MaxConfig]
      BY <2>1 DEF Init
    <2>3. result \in [status : Status, output : Output]
      BY NoOutputType DEF Init, Status
    <2>4. accounts \in [Role -> Nat] /\ fetches \in 0..Len(AccountsToUpdate)
      BY NothingFetchedType, AccountsToUpdateOrder DEF Init
    <2>5. attempts \in 1..MaxAttempts
      BY DEF Init, MaxAttempts
    <2>6. amm \in Amm /\ orders \subseteq Pool \X User /\ updated \in BOOLEAN
      BY NewAmmType DEF Init
    <2>7. pc \in Await \cup {"idle", "update", "return"}
      BY DEF Init
    <2> QED
      BY <1>1, <2>1, <2>2, <2>3, <2>4, <2>5, <2>6, <2>7 DEF TypeOK
  <1>3. CacheCoherent
    BY DEF Init, CacheCoherent, NewAmm
  <1>4. CallAtItsPlace
    BY <1>2 DEF Init, CallAtItsPlace, MethodsAt, TypeOK, Call
  <1>5. ChainMovesForward
    BY SDKAssumption DEF Init, ChainMovesForward
  <1>6. /\ CallOnItsPool
        /\ FetchedSinceCall
        /\ UpdatedSinceCall
        /\ UpdatedCache
    BY DEF Init, CallOnItsPool, FetchedSinceCall, UpdatedSinceCall, UpdatedCache
  <1>7. /\ TxForRequestedPool
        /\ ReadsSinceCall
        /\ FinalizeForCachedPool
        /\ ManualProtocol
    BY DEF Init, TxForRequestedPool, ReadsSinceCall, FinalizeForCachedPool,
           ManualProtocol, Succeeded
  <1> QED
    BY <1>2, <1>3, <1>4, <1>5, <1>6, <1>7 DEF IInv

\* Whatever others write, what the instance knows stays true of the past.
LEMMA ChainStep ==
    ASSUME IInv,
           version' \in [Pool -> 0..MaxVersion],
           \A k \in Pool : version[k] <= version'[k],
           config' \in 1..MaxConfig,
           config <= config',
           orders' \subseteq Pool \X User,
           UNCHANGED <<amm, pc, call, accounts, fetches, attempts, result, since, updated>>
    PROVE  IInv'
  <1> USE SDKAssumption DEF IInv
  <1>0. /\ version \in [Pool -> Nat]
        /\ version' \in [Pool -> Nat]
        /\ since.version \in [Pool -> Nat]
        /\ config \in Nat /\ config' \in Nat /\ since.config \in Nat
    BY DEF TypeOK
  <1>1. TypeOK'
    BY DEF TypeOK
  <1>2. CacheCoherent'
    BY <1>0 DEF CacheCoherent
  <1>3. CallAtItsPlace' /\ CallOnItsPool' /\ UpdatedSinceCall' /\ UpdatedCache'
    BY DEF CallAtItsPlace, CallOnItsPool, UpdatedSinceCall, UpdatedCache
  <1>4. ChainMovesForward'
    BY <1>0 DEF ChainMovesForward
  <1>5. FetchedSinceCall'
    <2> SUFFICES ASSUME pc \in {"accounts", "update"}, amm.key \in Pool
                 PROVE  FetchedSinceCall'
      BY DEF FetchedSinceCall
    <2>1. /\ accounts["pool"] \in Nat /\ accounts["reserve_x"] \in Nat
          /\ accounts["reserve_y"] \in Nat /\ accounts["amm_config"] \in Nat
          /\ amm.pool \in Nat
          /\ fetches \in Nat
      BY AccountsToUpdateOrder DEF TypeOK, Amm, Role
    <2>2. version[amm.key] \in Nat /\ version'[amm.key] \in Nat /\ version[amm.key] <= version'[amm.key]
      BY <1>0
    <2> QED
      BY <1>0, <2>1, <2>2 DEF FetchedSinceCall
  <1>6. TxForRequestedPool' /\ FinalizeForCachedPool' /\ ManualProtocol'
    BY DEF TxForRequestedPool, FinalizeForCachedPool, ManualProtocol, Succeeded
  <1>7. ReadsSinceCall'
    <2> DEFINE b == result.output.basis
               k == result.output.pool
    <2> SUFFICES ASSUME Succeeded(QuoteAndTx \cup {"finalize_tx"})
                 PROVE  ReadsSinceCall'
      BY DEF ReadsSinceCall, Succeeded
    <2>1. b \in [pool : Nat, amm_config : Nat, reserve_x : Nat, reserve_y : Nat]
      BY DEF TypeOK, Output
    <2>2. /\ k \in Pool
          /\ since.version[k] <= b.pool /\ b.pool <= b.reserve_x
          /\ b.reserve_x <= b.reserve_y /\ b.reserve_y <= version[k]
          /\ b.amm_config \in since.config..config
      BY DEF ReadsSinceCall
    <2> HIDE DEF b, k
    <2>3. b.reserve_y <= version'[k] /\ b.amm_config \in since.config..config'
      BY <1>0, <2>1, <2>2
    <2> QED
      BY <2>2, <2>3 DEF ReadsSinceCall, b, k
  <1> QED
    BY <1>1, <1>2, <1>3, <1>4, <1>5, <1>6, <1>7

LEMMA ChainInv ==
    ASSUME IInv, Chain
    PROVE  IInv'
  <1>0. TypeOK
    BY DEF IInv
  <1>1. ASSUME NEW k \in Pool, ChainWrite(k), orders' \subseteq Pool \X User
        PROVE  IInv'
    <2>1. version' = [version EXCEPT ![k] = version[k] + 1] /\ version[k] < MaxVersion
      BY <1>1 DEF ChainWrite
    <2>2. version' \in [Pool -> 0..MaxVersion] /\ \A j \in Pool : version[j] <= version'[j]
      BY <2>1, <1>0, SDKAssumption DEF TypeOK
    <2>3. config' = config /\ config \in 1..MaxConfig
      BY <1>1, <1>0 DEF ChainWrite, TypeOK
    <2>4. UNCHANGED <<amm, pc, call, accounts, fetches, attempts, result, since, updated>>
      BY <1>1 DEF ChainWrite
    <2> QED
      BY <1>1, <2>2, <2>3, <2>4, ChainStep
  <1>2. ASSUME ChainSetConfig
        PROVE  IInv'
    <2>1. version' \in [Pool -> 0..MaxVersion] /\ \A j \in Pool : version[j] <= version'[j]
      BY <1>2, <1>0, SDKAssumption DEF ChainSetConfig, TypeOK
    <2>2. config' \in 1..MaxConfig /\ config <= config' /\ orders' \subseteq Pool \X User
      BY <1>2, <1>0, SDKAssumption DEF ChainSetConfig, TypeOK
    <2>3. UNCHANGED <<amm, pc, call, accounts, fetches, attempts, result, since, updated>>
      BY <1>2 DEF ChainSetConfig
    <2> QED
      BY <2>1, <2>2, <2>3, ChainStep
  <1>3. ASSUME NEW k \in Pool, ChainChangePool(k)
        PROVE  IInv'
    BY <1>0, <1>1, <1>3 DEF ChainChangePool, TypeOK
  <1>4. ASSUME NEW k \in Pool, NEW u \in User, ChainSwap(k, u)
        PROVE  IInv'
    BY <1>0, <1>1, <1>4 DEF ChainSwap, TypeOK, OrderAddress
  <1>5. ASSUME NEW k \in Pool, NEW u \in User, ChainFinalize(k, u)
        PROVE  IInv'
    BY <1>0, <1>1, <1>5 DEF ChainFinalize, TypeOK
  <1> QED
    BY <1>2, <1>3, <1>4, <1>5 DEF Chain

\* A call begins on whatever the last one left in the cache.
LEMMA InvokeInv ==
    ASSUME IInv,
           NEW method \in Method, NEW x \in Mint, NEW y \in Mint, NEW user \in User,
           NEW order \in Pool \X User, NEW at \in (Await \cup {"return"}) \ {"read_order"},
           Invoke(method, x, y, user, order, at),
           method \in MethodsAt(at),
           method \in QuoteAndTx \cup {"finalize_tx"} => at \in {"load", "accounts", "order"},
           method \in QuoteAndTx /\ at # "load" => amm.key = GetPoolAddress(x, y)
    PROVE  IInv'
  <1> USE DEF IInv, Invoke
  <1>1. TypeOK'
    BY NoOutputType DEF TypeOK, Call, chainVars, Status
  <1>2. CacheCoherent' /\ UpdatedCache'
    BY DEF CacheCoherent, UpdatedCache, chainVars
  <1>3. fetches = 0
    BY DEF CallAtItsPlace
  <1>4. CallAtItsPlace'
    BY <1>3, AccountsToUpdateOrder DEF CallAtItsPlace, Await, chainVars
  <1>5. CallOnItsPool'
    BY DEF CallOnItsPool, chainVars
  <1>6. ChainMovesForward'
    BY DEF ChainMovesForward, TypeOK, chainVars
  <1>7. FetchedSinceCall'
    BY <1>3 DEF FetchedSinceCall, chainVars
  <1>8. UpdatedSinceCall'
    BY DEF UpdatedSinceCall, chainVars
  <1>9. TxForRequestedPool' /\ ReadsSinceCall' /\ FinalizeForCachedPool' /\ ManualProtocol'
    BY DEF TxForRequestedPool, ReadsSinceCall, FinalizeForCachedPool, ManualProtocol, Succeeded
  <1> QED
    BY <1>1, <1>2, <1>4, <1>5, <1>6, <1>7, <1>8, <1>9

\* A call ends, well or badly.
LEMMA ReturnInv ==
    ASSUME IInv,
           NEW status \in Status, NEW output \in Output,
           Return(status, output),
           TypeOK',
           CacheCoherent', UpdatedCache',
           TxForRequestedPool', ReadsSinceCall', FinalizeForCachedPool', ManualProtocol'
    PROVE  IInv'
  <1> USE DEF IInv, Return
  <1>1. CallAtItsPlace'
    BY DEF CallAtItsPlace, MethodsAt, TypeOK, Call
  <1>2. CallOnItsPool' /\ FetchedSinceCall' /\ UpdatedSinceCall'
    BY DEF CallOnItsPool, FetchedSinceCall, UpdatedSinceCall
  <1>3. ChainMovesForward'
    BY DEF ChainMovesForward, chainVars
  <1> QED
    BY <1>1, <1>2, <1>3

LEMMA ReturnType ==
    ASSUME TypeOK,
           NEW status \in Status, NEW output \in Output,
           Return(status, output), amm' \in Amm, updated' \in BOOLEAN
    PROVE  TypeOK'
  BY NothingFetchedType, AccountsToUpdateOrder DEF TypeOK, Return, chainVars, MaxAttempts

\* A call that fails, or is dropped, promises nothing; its cache is coherent.
LEMMA FailureInv ==
    ASSUME IInv,
           NEW status \in Status \ {"ok"},
           Return(status, NoOutput),
           amm' \in Amm, updated' \in BOOLEAN, CacheCoherent', UpdatedCache'
    PROVE  IInv'
  <1>1. TypeOK'
    BY NoOutputType, ReturnType DEF IInv
  <1>2. result'.status # "ok"
    BY DEF Return
  <1>3. TxForRequestedPool' /\ ReadsSinceCall' /\ FinalizeForCachedPool' /\ ManualProtocol'
    BY <1>2 DEF TxForRequestedPool, ReadsSinceCall, FinalizeForCachedPool, ManualProtocol, Succeeded
  <1> QED
    BY <1>1, <1>3, NoOutputType, ReturnInv

LEMMA FailureKeepsCache ==
    ASSUME IInv,
           NEW status \in Status \ {"ok"},
           Return(status, NoOutput), UNCHANGED <<amm, updated>>
    PROVE  IInv'
  <1>1. CacheCoherent' /\ UpdatedCache'
    BY DEF IInv, CacheCoherent, UpdatedCache, Return, chainVars
  <1>2. amm' \in Amm /\ updated' \in BOOLEAN
    BY DEF IInv, TypeOK
  <1> QED
    BY <1>1, <1>2, FailureInv

\* A call that goes on with the cache it has.
LEMMA GoOnInv ==
    ASSUME IInv,
           NEW at \in Await \cup {"return"},
           pc \notin {"idle", "load"},
           GoOn(at), UNCHANGED <<amm, updated>>,
           call.method \in MethodsAt(at),
           at = "read_order" => amm.key # DefaultPool,
           call.method \in QuoteAndTx \cup {"finalize_tx"} /\ at \in {"epoch", "slot", "prove", "transaction"}
               => pc \in {"epoch", "slot", "prove", "transaction"}
    PROVE  IInv'
  <1> USE DEF IInv, GoOn
  <1>1. TypeOK'
    BY NothingFetchedType, AccountsToUpdateOrder DEF TypeOK, chainVars, MaxAttempts
  <1>2. CacheCoherent' /\ UpdatedCache' /\ ChainMovesForward'
    BY DEF CacheCoherent, UpdatedCache, ChainMovesForward, chainVars
  <1>3. CallAtItsPlace'
    BY AccountsToUpdateOrder DEF CallAtItsPlace, Await
  <1>4. CallOnItsPool'
    BY DEF CallOnItsPool
  <1>5. FetchedSinceCall'
    BY DEF FetchedSinceCall
  <1>6. UpdatedSinceCall'
    BY DEF UpdatedSinceCall, chainVars
  <1>7. result.status = "none"
    BY DEF CallAtItsPlace
  <1>8. TxForRequestedPool' /\ ReadsSinceCall' /\ FinalizeForCachedPool' /\ ManualProtocol'
    BY <1>7 DEF TxForRequestedPool, ReadsSinceCall, FinalizeForCachedPool, ManualProtocol, Succeeded
  <1> QED
    BY <1>1, <1>2, <1>3, <1>4, <1>5, <1>6, <1>8

LEMMA ClientInv ==
    ASSUME IInv, Client
    PROVE  IInv'
  <1> USE DEF QuoteAndTx, CachedIx, Method, Await, MethodsAt
  <1>0. AnyUser \in User /\ AnyOrder \in Pool \X User /\ WSOL \in Mint
    <2>1. PICK k \in Pool, u \in User : TRUE
      BY SDKAssumption
    <2>2. <<k, u>> \in Pool \X User
      OBVIOUS
    <2>3. AnyUser \in User
      BY <2>1, Zenon DEF AnyUser
    <2>4. AnyOrder \in Pool \X User
      BY <2>2, Zenon DEF AnyOrder
    <2> QED
      BY <2>3, <2>4, AddressAssumption
  <1>1. ASSUME NEW m \in QuoteAndTx, NEW tx \in Token, NEW ty \in Token, NEW u \in User,
               InvokeForPool(m, tx, ty, u)
        PROVE  IInv'
    <2>1. PostSol(tx) \in Mint /\ PostSol(ty) \in Mint
      BY PostSolType
    <2> DEFINE at == FirstAwait(PostSol(tx), PostSol(ty))
    <2>2. /\ at \in {"load", "accounts"}
          /\ at # "load" => amm.key = GetPoolAddress(PostSol(tx), PostSol(ty))
      BY DEF FirstAwait
    <2>3. Invoke(m, PostSol(tx), PostSol(ty), u, AnyOrder, at)
      BY <1>1 DEF InvokeForPool
    <2> HIDE DEF at
    <2> QED
      BY <1>0, <2>1, <2>2, <2>3, InvokeInv
  <1>2. ASSUME NEW tx \in Token, NEW ty \in Token, NEW u \in User, InvokeInitializePool(tx, ty, u)
        PROVE  IInv'
    <2>1. PostSol(tx) \in Mint /\ PostSol(ty) \in Mint
      BY PostSolType
    <2>2. Invoke("initialize_pool_tx", PostSol(tx), PostSol(ty), u, AnyOrder, "mints")
      BY <1>2 DEF InvokeInitializePool
    <2> QED
      BY <1>0, <2>1, <2>2, InvokeInv
  <1>3. ASSUME NEW o \in Pool \X User, NEW u \in User, InvokeFinalize(o, u)
        PROVE  IInv'
    BY <1>0, <1>3, InvokeInv DEF InvokeFinalize
  <1>4. ASSUME NEW x \in Mint, NEW y \in Mint, InvokeLoadPool(x, y)
        PROVE  IInv'
    BY <1>0, <1>4, InvokeInv DEF InvokeLoadPool
  <1>5. ASSUME InvokeUpdateAccounts
        PROVE  IInv'
    BY <1>0, <1>5, InvokeInv DEF InvokeUpdateAccounts
  <1>6. ASSUME NEW u \in User, InvokeGetOrder(u)
        PROVE  IInv'
    BY <1>0, <1>6, InvokeInv DEF InvokeGetOrder
  <1>7. ASSUME NEW m \in CachedIx \cup {"initialize_pool_ix"}, NEW x \in Mint, NEW y \in Mint,
               NEW u \in User, NEW o \in Pool \X User, InvokeIx(m, x, y, u, o)
        PROVE  IInv'
    <2>1. PICK at \in {"return"} \cup (IF m = "finalize_ix" THEN {"prove"} ELSE {}) :
              Invoke(m, x, y, u, o, at)
      BY <1>7 DEF InvokeIx
    <2> QED
      BY <2>1, InvokeInv
  <1> QED
    BY <1>1, <1>2, <1>3, <1>4, <1>5, <1>6, <1>7 DEF Client

\* What a call makes of the cache is what the cache promises.
LEMMA CallOutputInv ==
    ASSUME IInv,
           pc \in {"epoch", "transaction", "return"},
           call.method \notin {"initialize_pool_tx", "initialize_pool_ix"},
           Return("ok", CallOutput), UNCHANGED <<amm, updated>>
    PROVE  IInv'
  <1> USE DEF IInv
  <1>0. call.method \in MethodsAt(pc)
    BY DEF CallAtItsPlace
  <1>1. CallOutput \in Output
    BY CallOutputOfCache
  <1>2. TypeOK'
    BY <1>1, ReturnType DEF TypeOK, Status
  <1>3. CacheCoherent' /\ UpdatedCache'
    BY DEF CacheCoherent, UpdatedCache, Return, chainVars
  <1>4. /\ result' = [status |-> "ok", output |-> CallOutput]
        /\ UNCHANGED <<call, since, version, config>>
    BY DEF Return, chainVars
  <1>5. call.method \in QuoteAndTx \cup {"finalize_tx"} => pc \in {"epoch", "transaction"}
    BY <1>0 DEF MethodsAt, QuoteAndTx, CachedIx
  <1>6. call.method \in QuoteAndTx \cup {"finalize_tx"} =>
            amm.key \in Pool /\ amm.token_owners = ProgramsOf(amm.key)
    <2>1. ASSUME call.method \in QuoteAndTx \cup {"finalize_tx"}
          PROVE  amm.key \in Pool /\ amm.reserve_y_balance > 0
      BY <2>1, <1>5, PoolKeys DEF UpdatedSinceCall, CacheCoherent, TypeOK, Amm
    <2> QED
      BY <2>1, PoolKeys DEF CacheCoherent
  <1>7. TxForRequestedPool'
    <2> SUFFICES ASSUME call.method \in QuoteAndTx
                 PROVE  TxForRequestedPool'
      BY <1>4 DEF TxForRequestedPool, Succeeded
    <2>1. PICK source : /\ CallOutput = MakeOutput(amm, source, call.user, call.user)
                        /\ call.method \in {"quote", "swap_tx"} => source = call.x
      BY DEF CallOutput, QuoteAndTx, GetQuote, GetSwap, GetLiquidity
    <2>2. amm.key = GetPoolAddress(call.x, call.y)
      BY <1>5 DEF CallOnItsPool
    <2>3. call.x = amm.key[1] <=> call.x < call.y
      BY <1>6, <2>2, PoolKeys, AddressAssumption DEF GetPoolAddress, TypeOK, Call
    <2>4. /\ CallOutput.pool = amm.key /\ CallOutput.mints = amm.key
          /\ CallOutput.programs = amm.token_owners
          /\ CallOutput.order = OrderAddress(amm.key, call.user)
          /\ call.method \in {"quote", "swap_tx"} => (CallOutput.is_swap_x_to_y <=> call.x = amm.key[1])
      BY <2>1 DEF MakeOutput
    <2> QED
      BY <1>4, <1>6, <2>2, <2>3, <2>4 DEF TxForRequestedPool
  <1>8. ReadsSinceCall'
    <2> SUFFICES ASSUME call.method \in QuoteAndTx \cup {"finalize_tx"}
                 PROVE  ReadsSinceCall'
      BY <1>4 DEF ReadsSinceCall, Succeeded
    <2>1. amm.amm_config \in since.config..config /\ amm.reserve_y_balance <= version[amm.key]
      BY <1>5, <1>6, PoolKeys DEF UpdatedSinceCall, CacheCoherent, TypeOK, Amm
    <2> QED
      BY <1>4, <1>5, <2>1, CallOutputOfCache DEF ReadsSinceCall, UpdatedSinceCall
  <1>9. FinalizeForCachedPool'
    <2> SUFFICES ASSUME call.method = "finalize_tx"
                 PROVE  FinalizeForCachedPool'
      BY <1>4 DEF FinalizeForCachedPool, Succeeded
    <2>1. CallOutput = MakeOutput(amm, NoSource, call.order[2], call.user)
      BY DEF CallOutput, GetFinalize
    <2>2. call.order = <<call.order[1], call.order[2]>>
      BY DEF TypeOK, Call
    <2> QED
      BY <1>4, <1>6, <2>1, <2>2 DEF FinalizeForCachedPool, MakeOutput, OrderAddress
  <1>10. ManualProtocol'
    <2> SUFFICES ASSUME updated
                 PROVE  ManualProtocol'
      BY <1>4 DEF ManualProtocol
    <2>1. /\ amm.key \in Pool
          /\ amm.pool <= amm.reserve_x_balance /\ amm.reserve_x_balance <= amm.reserve_y_balance
      BY DEF UpdatedCache
    <2>2. amm.reserve_x_balance > 0 /\ amm.reserve_y_balance > 0
      BY <2>1, PoolKeys DEF CacheCoherent, TypeOK, Amm
    <2> QED
      BY <1>4, <2>1, <2>2, PoolKeys, CallOutputOfCache DEF ManualProtocol, CacheCoherent
  <1> QED
    BY <1>1, <1>2, <1>3, <1>7, <1>8, <1>9, <1>10, ReturnInv DEF Status

\* A result that is neither a quote, a transaction nor an instruction.
LEMMA OtherOutputInv ==
    ASSUME IInv,
           NEW output \in Output, Return("ok", output),
           call.method \in {"load_pool", "update_accounts", "get_order"},
           amm' \in Amm, updated' \in BOOLEAN, CacheCoherent', UpdatedCache'
    PROVE  IInv'
  <1>1. TypeOK'
    BY ReturnType DEF IInv, Status
  <1>2. call' = call
    BY DEF Return
  <1>3. TxForRequestedPool' /\ ReadsSinceCall' /\ FinalizeForCachedPool' /\ ManualProtocol'
    BY <1>2 DEF TxForRequestedPool, ReadsSinceCall, FinalizeForCachedPool, ManualProtocol,
                Succeeded, QuoteAndTx, CachedIx
  <1> QED
    BY <1>1, <1>3, ReturnInv DEF Status

\* What initialize_pool_tx returns is about the pool of its two tokens.
LEMMA InitializePoolOutputInv ==
    ASSUME IInv,
           call.method \in {"initialize_pool_tx", "initialize_pool_ix"},
           Return("ok", InitializePoolOutput), UNCHANGED <<amm, updated>>
    PROVE  IInv'
  <1> USE DEF IInv
  <1> DEFINE k == IF call.method = "initialize_pool_tx"
                  THEN GetPoolAddress(call.x, call.y)
                  ELSE <<call.x, call.y>>
             out == GetInitializePool(k[1], k[2], ProgramOf[k[1]], ProgramOf[k[2]], call.user)
  <1>1. k \in Mint \X Mint /\ k = <<k[1], k[2]>> /\ k[1] \in Mint /\ k[2] \in Mint
    BY DEF GetPoolAddress, TypeOK, Call
  <1>2. out = [MakeOutput(NewAmm, NoSource, call.user, call.user) EXCEPT
                  !.mints = k, !.pool = k, !.order = <<k, call.user>>, !.programs = ProgramsOf(k)]
    BY <1>1 DEF GetInitializePool, OrderAddress, ProgramsOf
  <1>3. k \in PoolKey /\ k \in Nat \X Nat /\ ProgramsOf(k) \in Program \X Program
    BY <1>1, AddressAssumption, ProgramAssumption DEF PoolKey, ProgramsOf
  <1>4. MakeOutput(NewAmm, NoSource, call.user, call.user) \in Output /\ call.user \in User
    BY NewAmmType, MakeOutputType DEF TypeOK, Call
  <1> HIDE DEF k, out
  <1>5. /\ out \in Output
        /\ out.pool = k /\ out.mints = k /\ out.programs = ProgramsOf(k)
        /\ out.order = <<k, call.user>>
    BY <1>2, <1>3, <1>4 DEF Output
  <1>6. InitializePoolOutput = out
    BY DEF InitializePoolOutput, out, k
  <1>7. TypeOK'
    BY <1>5, <1>6, ReturnType DEF TypeOK, Status
  <1>8. /\ result' = [status |-> "ok", output |-> out]
        /\ UNCHANGED <<call, since, version, config>>
    BY <1>6 DEF Return, chainVars
  <1>9. CacheCoherent' /\ UpdatedCache'
    BY DEF CacheCoherent, UpdatedCache, Return, chainVars
  <1>10. TxForRequestedPool'
    BY <1>5, <1>8 DEF TxForRequestedPool, Succeeded, OrderAddress, QuoteAndTx, k
  <1>11. ReadsSinceCall' /\ FinalizeForCachedPool' /\ ManualProtocol'
    BY <1>8 DEF ReadsSinceCall, FinalizeForCachedPool, ManualProtocol, Succeeded,
                QuoteAndTx, CachedIx
  <1> QED
    BY <1>5, <1>6, <1>7, <1>9, <1>10, <1>11, ReturnInv DEF Status

\* load_pool replaces the cache by the pool as it is on the chain.
LEMMA LoadPoolInv ==
    ASSUME IInv, LoadPool
    PROVE  IInv'
  <1> USE DEF IInv
  <1> DEFINE k == GetPoolAddress(call.x, call.y)
  <1>1. /\ pc = "load"
        /\ k \in Pool /\ version[k] > 0
        /\ amm' = FromPool(k, version[k])
        /\ updated' = FALSE
    BY DEF LoadPool
  <1> HIDE DEF k
  <1>2. version[k] \in Nat /\ version[k] \in 1..version[k]
    BY <1>1 DEF TypeOK
  <1>3. amm' \in Amm /\ updated' \in BOOLEAN
    BY <1>1, <1>2, FromPoolType
  <1>4. UNCHANGED chainVars /\ UNCHANGED <<call, since>>
    BY DEF LoadPool, Return, GoOn
  <1>5. /\ amm'.key = k
        /\ amm'.pool = version[k]
        /\ amm'.amm_config = 0 /\ amm'.reserve_x_balance = 0 /\ amm'.reserve_y_balance = 0
        /\ amm'.token_owners = NewAmm.token_owners
    BY <1>1 DEF FromPool, NewAmm
  <1>6. CacheCoherent'
    <2>1. version' = version /\ config' = config /\ 0 \in 0..config /\ 0 \in 0..version[k]
      BY <1>2, <1>4 DEF chainVars, TypeOK
    <2>2. amm'.key # DefaultPool
      BY <1>1, <1>5, PoolKeys
    <2> QED
      BY <1>1, <1>2, <1>5, <2>1, <2>2 DEF CacheCoherent
  <1>7. UpdatedCache'
    BY <1>1 DEF UpdatedCache
  <1>8. CASE call.method = "load_pool"
    <2> DEFINE out == [NoOutput EXCEPT !.pool = k, !.mints = <<call.x, call.y>>]
    <2>1. Return("ok", out)
      BY <1>8 DEF LoadPool, k
    <2>2. <<call.x, call.y>> \in Nat \X Nat /\ k \in PoolKey
      BY <1>1, PoolKeys, AddressAssumption DEF TypeOK, Call
    <2>3. out \in Output
      BY <2>2, NoOutputType DEF Output
    <2> QED
      BY <1>3, <1>6, <1>7, <1>8, <2>1, <2>3, OtherOutputInv
  <1>9. CASE call.method # "load_pool"
    <2>1. GoOn("accounts")
      BY <1>9 DEF LoadPool
    <2>2. call.method \in QuoteAndTx
      BY <1>1, <1>9 DEF CallAtItsPlace, MethodsAt
    <2>3. TypeOK'
      BY <1>3, <2>1, NothingFetchedType, AccountsToUpdateOrder DEF TypeOK, GoOn, chainVars, MaxAttempts, Await
    <2>4. CallAtItsPlace'
      BY <1>1, <2>1, <2>2, AccountsToUpdateOrder DEF CallAtItsPlace, MethodsAt, GoOn
    <2>5. CallOnItsPool'
      BY <1>5, <2>1 DEF CallOnItsPool, GoOn, k
    <2>6. ChainMovesForward' /\ FetchedSinceCall' /\ UpdatedSinceCall'
      BY <1>4, <2>1 DEF ChainMovesForward, FetchedSinceCall, UpdatedSinceCall, GoOn, chainVars
    <2>7. result.status = "none" /\ result' = result
      BY <1>1, <2>1 DEF CallAtItsPlace, GoOn
    <2>8. TxForRequestedPool' /\ ReadsSinceCall' /\ FinalizeForCachedPool' /\ ManualProtocol'
      BY <2>7 DEF TxForRequestedPool, ReadsSinceCall, FinalizeForCachedPool, ManualProtocol, Succeeded
    <2> QED
      BY <1>6, <1>7, <2>3, <2>4, <2>5, <2>6, <2>8
  <1> QED
    BY <1>8, <1>9

\* The next account arrives: no older than the call, than the cache, or than
\* the accounts of the pool that came before it.
LEMMA FetchAccountInv ==
    ASSUME IInv, FetchAccount
    PROVE  IInv'
  <1> USE DEF IInv
  <1> DEFINE role == AccountsToUpdate[fetches + 1]
  <1>1. /\ pc = "accounts"
        /\ fetches' = fetches + 1
        /\ accounts' = [accounts EXCEPT ![role] = OnChain(role)]
        /\ pc' = IF fetches' = 6 THEN "update" ELSE "accounts"
        /\ UNCHANGED <<chainVars, amm, call, attempts, result, since, updated>>
    BY AccountsToUpdateOrder DEF FetchAccount
  <1>2. fetches \in 0..5
    BY <1>1, AccountsToUpdateOrder DEF CallAtItsPlace, TypeOK
  <1>3. /\ fetches = 0 => role = "pool"
        /\ fetches = 1 => role = "mint_x"
        /\ fetches = 2 => role = "mint_y"
        /\ fetches = 3 => role = "reserve_x"
        /\ fetches = 4 => role = "reserve_y"
        /\ fetches = 5 => role = "amm_config"
    BY AccountsToUpdateOrder
  <1>4. role \in Role
    BY <1>2, <1>3 DEF Role
  <1> HIDE DEF role
  <1>5. OnChain(role) \in Nat
    BY <1>4 DEF OnChain, TypeOK, Role
  <1>6. TypeOK'
    BY <1>1, <1>2, <1>4, <1>5, AccountsToUpdateOrder DEF TypeOK, chainVars, Await
  <1>7. CacheCoherent' /\ UpdatedCache' /\ ChainMovesForward'
    BY <1>1 DEF CacheCoherent, UpdatedCache, ChainMovesForward, chainVars
  <1>8. CallAtItsPlace'
    BY <1>1, <1>2, AccountsToUpdateOrder DEF CallAtItsPlace, MethodsAt
  <1>9. CallOnItsPool' /\ UpdatedSinceCall'
    BY <1>1 DEF CallOnItsPool, UpdatedSinceCall
  <1>10. FetchedSinceCall'
    <2> SUFFICES ASSUME amm.key \in Pool
                 PROVE  FetchedSinceCall'
      BY <1>1 DEF FetchedSinceCall
    <2>1. /\ UNCHANGED <<version, config, amm, since>>
          /\ amm.pool \in 1..version[amm.key]
          /\ since.version[amm.key] <= version[amm.key]
          /\ since.config <= config
          /\ version[amm.key] \in Nat /\ config \in Nat /\ since.config \in Nat
          /\ since.version[amm.key] \in Nat
      BY <1>1, PoolKeys DEF CacheCoherent, ChainMovesForward, TypeOK, chainVars
    <2>2. /\ fetches >= 1 => /\ since.version[amm.key] <= accounts["pool"]
                             /\ accounts["pool"] \in amm.pool..version[amm.key]
          /\ fetches >= 4 => accounts["reserve_x"] \in accounts["pool"]..version[amm.key]
          /\ fetches >= 5 => accounts["reserve_y"] \in accounts["reserve_x"]..version[amm.key]
      BY <1>1 DEF FetchedSinceCall
    <2>3. /\ role \in {"pool", "reserve_x", "reserve_y"} => OnChain(role) = version[amm.key]
          /\ role = "amm_config" => OnChain(role) = config
      BY DEF OnChain
    <2>4. \A r \in Role : accounts'[r] = IF r = role THEN OnChain(role) ELSE accounts[r]
      BY <1>1, <1>4 DEF TypeOK
    <2>5. /\ accounts'["pool"] = IF role = "pool" THEN OnChain(role) ELSE accounts["pool"]
          /\ accounts'["reserve_x"] = IF role = "reserve_x" THEN OnChain(role) ELSE accounts["reserve_x"]
          /\ accounts'["reserve_y"] = IF role = "reserve_y" THEN OnChain(role) ELSE accounts["reserve_y"]
          /\ accounts'["amm_config"] = IF role = "amm_config" THEN OnChain(role) ELSE accounts["amm_config"]
      BY <2>4 DEF Role
    <2>6. fetches \in {0, 1, 2, 3, 4, 5}
      BY <1>2
    <2>7. /\ fetches' >= 1 => /\ since.version[amm.key] <= accounts'["pool"]
                              /\ accounts'["pool"] \in amm.pool..version[amm.key]
          /\ fetches' >= 4 => accounts'["reserve_x"] \in accounts'["pool"]..version[amm.key]
          /\ fetches' >= 5 => accounts'["reserve_y"] \in accounts'["reserve_x"]..version[amm.key]
          /\ fetches' >= 6 => accounts'["amm_config"] \in since.config..config
      BY <1>1, <1>3, <2>1, <2>2, <2>3, <2>5, <2>6
    <2> QED
      BY <2>1, <2>7 DEF FetchedSinceCall
  <1>11. TxForRequestedPool' /\ ReadsSinceCall' /\ FinalizeForCachedPool' /\ ManualProtocol'
    BY <1>1 DEF CallAtItsPlace, TxForRequestedPool, ReadsSinceCall, FinalizeForCachedPool,
                ManualProtocol, Succeeded
  <1> QED
    BY <1>6, <1>7, <1>8, <1>9, <1>10, <1>11

\* update stores what was fetched, all of it.
LEMMA UpdateAccountsInv ==
    ASSUME IInv, UpdateAccounts
    PROVE  IInv'
  <1> USE DEF IInv
  <1>1. /\ pc = "update"
        /\ amm.key # DefaultPool
        /\ amm' = Update(amm, accounts, UpdateStages)
        /\ updated' = TRUE
        /\ UNCHANGED <<chainVars, call, since>>
    BY DEF UpdateAccounts, Return, GoOn
  <1>2. amm.key \in Pool /\ fetches = 6 /\ result.status = "none"
    BY <1>1, AccountsToUpdateOrder DEF CacheCoherent, CallAtItsPlace
  <1>3. amm' \in Amm
    BY <1>1, <1>2, UpdateType DEF TypeOK, UpdateStages
  <1>4. /\ amm'.key = amm.key
        /\ amm'.pool = accounts["pool"]
        /\ amm'.amm_config = accounts["amm_config"]
        /\ amm'.reserve_x_balance = accounts["reserve_x"]
        /\ amm'.reserve_y_balance = accounts["reserve_y"]
        /\ amm'.token_owners = ProgramsOf(amm.key)
    BY <1>1 DEF Update, UpdateStages, UpdatedOwners
  <1>5. /\ amm.pool \in 1..version[amm.key]
        /\ version[amm.key] \in Nat /\ config \in Nat /\ since.config \in Nat \ {0}
        /\ since.version[amm.key] \in Nat
    BY <1>1, <1>2 DEF CacheCoherent, TypeOK
  <1>6. /\ accounts["pool"] \in 1..version[amm.key]
        /\ since.version[amm.key] <= accounts["pool"]
        /\ accounts["reserve_x"] \in accounts["pool"]..version[amm.key]
        /\ accounts["reserve_y"] \in accounts["reserve_x"]..version[amm.key]
        /\ accounts["amm_config"] \in since.config..config
    BY <1>1, <1>2, <1>5 DEF FetchedSinceCall
  <1>7. CacheCoherent'
    BY <1>1, <1>2, <1>4, <1>5, <1>6 DEF CacheCoherent, chainVars
  <1>8. UpdatedCache'
    BY <1>2, <1>4, <1>5, <1>6 DEF UpdatedCache
  <1>9. CASE call.method = "update_accounts"
    <2>1. Return("ok", NoOutput)
      BY <1>9 DEF UpdateAccounts
    <2> QED
      BY <1>1, <1>3, <1>7, <1>8, <1>9, <2>1, NoOutputType, OtherOutputInv
  <1>10. CASE call.method # "update_accounts"
    <2>1. GoOn(AfterUpdate)
      BY <1>10 DEF UpdateAccounts
    <2>2. call.method \in QuoteAndTx \cup {"finalize_tx"}
      BY <1>1, <1>10 DEF CallAtItsPlace, MethodsAt
    <2>3. /\ AfterUpdate \in {"epoch", "slot", "transaction"}
          /\ call.method \in MethodsAt(AfterUpdate)
      BY <2>2 DEF AfterUpdate, MethodsAt, QuoteAndTx
    <2>4. TypeOK'
      BY <1>1, <1>3, <2>1, <2>3, NothingFetchedType, AccountsToUpdateOrder
      DEF TypeOK, GoOn, chainVars, MaxAttempts, Await
    <2>5. CallAtItsPlace'
      BY <1>1, <1>2, <2>1, <2>3 DEF CallAtItsPlace, GoOn
    <2>6. CallOnItsPool'
      BY <1>1, <1>4, <2>1, <2>3 DEF CallOnItsPool, GoOn
    <2>7. ChainMovesForward' /\ FetchedSinceCall'
      BY <1>1, <2>1, <2>3 DEF ChainMovesForward, FetchedSinceCall, GoOn, chainVars
    <2>8. UpdatedSinceCall'
      BY <1>1, <1>2, <1>4, <1>5, <1>6 DEF UpdatedSinceCall
    <2>9. TxForRequestedPool' /\ ReadsSinceCall' /\ FinalizeForCachedPool' /\ ManualProtocol'
      BY <1>2, <2>1 DEF TxForRequestedPool, ReadsSinceCall, FinalizeForCachedPool, ManualProtocol,
                        Succeeded, GoOn
    <2> QED
      BY <1>7, <1>8, <2>4, <2>5, <2>6, <2>7, <2>8, <2>9
  <1> QED
    BY <1>9, <1>10

\* An update that fails halfway still leaves a coherent cache.
LEMMA UpdateAccountsFailsInv ==
    ASSUME IInv, NEW n \in 0..UpdateStages, UpdateAccountsFails(n)
    PROVE  IInv'
  <1> USE DEF IInv
  <1>1. /\ pc = "update" /\ n \in 0..3
        /\ amm.key = DefaultPool => n = 0
        /\ amm' = Update(amm, accounts, n)
        /\ updated' = FALSE
        /\ UNCHANGED <<chainVars, call, since>>
        /\ Return("unreadable", NoOutput)
    BY DEF UpdateAccountsFails, Return, UpdateStages
  <1>2. UpdatedCache'
    BY <1>1 DEF UpdatedCache
  <1>3. CASE amm.key = DefaultPool
    <2>1. amm' = NewAmm
      BY <1>1, <1>3, UpdateNothing DEF CacheCoherent
    <2>2. CacheCoherent'
      BY <2>1 DEF CacheCoherent, NewAmm
    <2> QED
      BY <1>1, <1>2, <2>1, <2>2, NewAmmType, FailureInv DEF Status
  <1>4. CASE amm.key # DefaultPool
    <2>1. amm.key \in Pool /\ fetches = 6
      BY <1>1, <1>4, AccountsToUpdateOrder DEF CacheCoherent, CallAtItsPlace
    <2>2. amm' \in Amm
      BY <1>1, <2>1, UpdateType DEF TypeOK
    <2>3. /\ amm'.key = amm.key
          /\ amm'.pool = IF n >= 1 THEN accounts["pool"] ELSE amm.pool
          /\ amm'.amm_config = IF n >= 2 THEN accounts["amm_config"] ELSE amm.amm_config
          /\ amm'.reserve_x_balance = IF n >= 3 THEN accounts["reserve_x"] ELSE amm.reserve_x_balance
          /\ amm'.reserve_y_balance = amm.reserve_y_balance
          /\ amm'.token_owners = amm.token_owners
      BY <1>1 DEF Update, UpdateStages, UpdatedOwners
    <2>4. /\ amm.pool \in 1..version[amm.key]
          /\ version[amm.key] \in Nat /\ config \in Nat /\ since.config \in Nat \ {0}
      BY <1>4, <2>1 DEF CacheCoherent, TypeOK
    <2>5. /\ accounts["pool"] \in 1..version[amm.key]
          /\ accounts["reserve_x"] \in 1..version[amm.key]
          /\ accounts["amm_config"] \in 1..config
      BY <1>1, <2>1, <2>4 DEF FetchedSinceCall
    <2>6. CacheCoherent'
      BY <1>1, <1>4, <2>1, <2>3, <2>4, <2>5 DEF CacheCoherent, chainVars
    <2> QED
      BY <1>1, <1>2, <2>2, <2>6, FailureInv DEF Status
  <1> QED
    BY <1>3, <1>4

LEMMA RetryOrderInv ==
    ASSUME IInv, RetryOrder
    PROVE  IInv'
  <1> USE DEF IInv, RetryOrder
  <1>1. TypeOK'
    BY DEF TypeOK, MaxAttempts, chainVars
  <1>2. CacheCoherent' /\ CallAtItsPlace' /\ CallOnItsPool' /\ ChainMovesForward'
    BY DEF CacheCoherent, CallAtItsPlace, CallOnItsPool, ChainMovesForward, chainVars
  <1>3. FetchedSinceCall' /\ UpdatedSinceCall' /\ UpdatedCache'
    BY DEF FetchedSinceCall, UpdatedSinceCall, UpdatedCache, chainVars
  <1>4. TxForRequestedPool' /\ ReadsSinceCall' /\ FinalizeForCachedPool' /\ ManualProtocol'
    BY DEF TxForRequestedPool, ReadsSinceCall, FinalizeForCachedPool, ManualProtocol,
           Succeeded, chainVars
  <1> QED
    BY <1>1, <1>2, <1>3, <1>4

LEMMA ProgressInv ==
    ASSUME IInv, Progress
    PROVE  IInv'
  <1> USE DEF IInv
  <1>0. call.method \in MethodsAt(pc)
    BY DEF CallAtItsPlace
  <1>1. CASE LoadPool
    BY <1>1, LoadPoolInv
  <1>2. CASE LoadPoolFails
    BY <1>2, FailureKeepsCache DEF LoadPoolFails, Status
  <1>3. CASE FetchAccount
    BY <1>3, FetchAccountInv
  <1>4. CASE UpdateAccounts
    BY <1>4, UpdateAccountsInv
  <1>5. CASE \E n \in 0..UpdateStages : UpdateAccountsFails(n)
    BY <1>5, UpdateAccountsFailsInv
  <1>6. CASE FetchMints
    <2>1. pc = "mints" /\ GoOn("transaction") /\ UNCHANGED <<amm, updated>>
      BY <1>6 DEF FetchMints
    <2>2. call.method = "initialize_pool_tx"
      BY <1>0, <2>1 DEF MethodsAt
    <2> QED
      BY <2>1, <2>2, GoOnInv DEF Await, MethodsAt, QuoteAndTx
  <1>7. CASE FetchOrder
    <2>1. pc = "order" /\ GoOn("accounts") /\ UNCHANGED <<amm, updated>>
      BY <1>7 DEF FetchOrder
    <2>2. call.method = "finalize_tx"
      BY <1>0, <2>1 DEF MethodsAt
    <2> QED
      BY <2>1, <2>2, GoOnInv DEF Await, MethodsAt
  <1>8. CASE RetryOrder
    BY <1>8, RetryOrderInv
  <1>9. CASE ParseOrderFails \/ GiveUpOrder
    BY <1>9, FailureKeepsCache DEF ParseOrderFails, GiveUpOrder, Status
  <1>10. CASE FetchSlot
    <2>1. PICK at \in {"transaction", "prove"} :
              pc = "slot" /\ GoOn(at) /\ UNCHANGED <<amm, updated>>
      BY <1>10 DEF FetchSlot
    <2>2. call.method = "finalize_tx"
      BY <1>0, <2>1 DEF MethodsAt
    <2> QED
      BY <2>1, <2>2, GoOnInv DEF Await, MethodsAt
  <1>11. CASE Prove
    <2>1. pc = "prove" /\ UNCHANGED <<amm, updated>>
      BY <1>11 DEF Prove
    <2>2. call.method \in {"finalize_tx", "finalize_ix"}
      BY <1>0, <2>1 DEF MethodsAt
    <2>3. CASE call.method = "finalize_tx"
      <3>1. GoOn("transaction")
        BY <1>11, <2>3 DEF Prove
      <3> QED
        BY <2>1, <2>3, <3>1, GoOnInv DEF Await, MethodsAt
    <2>4. CASE call.method = "finalize_ix"
      <3>1. GoOn("return")
        BY <1>11, <2>4 DEF Prove
      <3> QED
        BY <2>1, <2>4, <3>1, GoOnInv DEF MethodsAt, CachedIx, QuoteAndTx
    <2> QED
      BY <2>2, <2>3, <2>4
  <1>12. CASE ReturnQuote
    <2>1. pc = "epoch" /\ Return("ok", CallOutput) /\ UNCHANGED <<amm, updated>>
      BY <1>12 DEF ReturnQuote
    <2>2. call.method = "quote"
      BY <1>0, <2>1 DEF MethodsAt
    <2> QED
      BY <2>1, <2>2, CallOutputInv
  <1>13. CASE ReturnTransaction
    <2>1. /\ pc = "transaction" /\ UNCHANGED <<amm, updated>>
          /\ Return("ok", IF call.method = "initialize_pool_tx" THEN InitializePoolOutput ELSE CallOutput)
      BY <1>13 DEF ReturnTransaction
    <2>2. call.method # "initialize_pool_ix"
      BY <1>0, <2>1 DEF MethodsAt, QuoteAndTx
    <2> QED
      BY <2>1, <2>2, CallOutputInv, InitializePoolOutputInv
  <1>14. CASE ReturnInstruction
    <2>1. /\ pc = "return" /\ UNCHANGED <<amm, updated>>
          /\ Return("ok", IF call.method = "initialize_pool_ix" THEN InitializePoolOutput ELSE CallOutput)
      BY <1>14 DEF ReturnInstruction
    <2>2. call.method # "initialize_pool_tx"
      BY <1>0, <2>1 DEF MethodsAt, CachedIx
    <2> QED
      BY <2>1, <2>2, CallOutputInv, InitializePoolOutputInv
  <1>15. CASE GetOrderPubkey
    <2>1. pc = "return" /\ call.method = "get_order" /\ UNCHANGED <<amm, updated>>
      BY <1>15 DEF GetOrderPubkey
    <2>2. CASE amm.key = DefaultPool
      BY <1>15, <2>1, <2>2, FailureKeepsCache DEF GetOrderPubkey, Status
    <2>3. CASE amm.key # DefaultPool
      <3>1. GoOn("read_order")
        BY <1>15, <2>3 DEF GetOrderPubkey
      <3> QED
        BY <2>1, <2>3, <3>1, GoOnInv DEF Await, MethodsAt
    <2> QED
      BY <2>2, <2>3
  <1>16. CASE ReturnOrder
    <2>1. pc = "read_order" /\ UNCHANGED <<amm, updated>>
      BY <1>16 DEF ReturnOrder
    <2>2. call.method = "get_order"
      BY <1>0, <2>1 DEF MethodsAt
    <2> DEFINE out == [NoOutput EXCEPT !.pool = amm.key, !.order = OrderAddress(amm.key, call.user)]
    <2>3. Return("ok", out) \/ Return("order_not_found", NoOutput)
      BY <1>16 DEF ReturnOrder
    <2>4. out \in Output
      BY NoOutputType DEF Output, OrderAddress, TypeOK, Amm, Call
    <2>5. CacheCoherent' /\ UpdatedCache' /\ amm' \in Amm /\ updated' \in BOOLEAN
      BY <1>16, <2>1 DEF ReturnOrder, Return, CacheCoherent, UpdatedCache, TypeOK, chainVars
    <2> QED
      BY <2>1, <2>2, <2>3, <2>4, <2>5, OtherOutputInv, FailureKeepsCache DEF Status
  <1>17. CASE Fail
    BY <1>17, FailureKeepsCache DEF Fail, Status
  <1> QED
    BY <1>1, <1>2, <1>3, <1>4, <1>5, <1>6, <1>7, <1>8, <1>9, <1>10, <1>11, <1>12, <1>13,
       <1>14, <1>15, <1>16, <1>17 DEF Progress

LEMMA NextInv ==
    ASSUME IInv, [Next]_vars
    PROVE  IInv'
  <1>1. CASE Chain
    BY <1>1, ChainInv
  <1>2. CASE Client
    BY <1>2, ClientInv
  <1>3. CASE Progress
    BY <1>3, ProgressInv
  <1>4. CASE Drop
    BY <1>4, FailureKeepsCache DEF Drop, Status
  <1>5. CASE UNCHANGED vars
    BY <1>5 DEF vars, chainVars, IInv, TypeOK, CacheCoherent, CallAtItsPlace, CallOnItsPool,
                ChainMovesForward, FetchedSinceCall, UpdatedSinceCall, UpdatedCache,
                TxForRequestedPool, ReadsSinceCall, FinalizeForCachedPool, ManualProtocol, Succeeded
  <1> QED
    BY <1>1, <1>2, <1>3, <1>4, <1>5 DEF Next

(***************************************************************************)
(* The theorems.                                                           *)
(***************************************************************************)
\* Every behaviour of an instance keeps the inductive invariant.
THEOREM Invariance == Spec => []IInv
  BY InitInv, NextInv, PTL DEF Spec

\* Every variable stays in its type.
THEOREM TypeCorrect == Spec => []TypeOK
  BY Invariance, PTL DEF IInv

\* The cache is always empty or the image of one existing pool, whatever call
\* failed or was dropped in whatever state (darklake_amm.rs:120-204).
THEOREM CacheIsCoherent == Spec => []CacheCoherent
  BY Invariance, PTL DEF IInv

\* Quotes and transactions are about the pool of the tokens they were asked
\* for (sdk.rs:173, 224, 427, 520).
THEOREM RequestedPool == Spec => []TxForRequestedPool
  BY Invariance, PTL DEF IInv

\* Quotes and transactions are computed from accounts read during the call
\* (sdk.rs:732-741).
THEOREM ReadDuringCall == Spec => []ReadsSinceCall
  BY Invariance, PTL DEF IInv

\* An order of the cached pool is finalized as itself (sdk.rs:327-357).
THEOREM FinalizesCachedOrder == Spec => []FinalizeForCachedPool
  BY Invariance, PTL DEF IInv

\* Who follows the manual protocol gets complete instructions (sdk.rs:682-685).
THEOREM ManualProtocolSuffices == Spec => []ManualProtocol
  BY Invariance, PTL DEF IInv

LEMMA StepNeverRollsBack ==
    ASSUME IInv, [Next]_vars, amm'.key = amm.key
    PROVE  amm'.pool >= amm.pool
  <1> USE DEF IInv
  <1>0. amm.pool \in Nat
    BY DEF TypeOK, Amm
  <1>1. CASE UNCHANGED amm
    BY <1>0, <1>1
  <1>2. CASE LoadPool
    <2>1. PICK k \in Pool : amm' = FromPool(k, version[k])
      BY <1>2 DEF LoadPool
    <2>2. amm'.key = k /\ amm'.pool = version[k]
      BY <2>1 DEF FromPool, NewAmm
    <2>3. amm.pool \in 1..version[k] /\ version[k] \in Nat
      BY <2>2, PoolKeys DEF CacheCoherent, TypeOK
    <2> QED
      BY <1>0, <2>2, <2>3
  <1>3. ASSUME NEW n \in 0..UpdateStages, pc = "update", amm' = Update(amm, accounts, n),
               amm.key = DefaultPool => n = 0
        PROVE  amm'.pool >= amm.pool
    <2>1. amm'.pool = IF n >= 1 THEN accounts["pool"] ELSE amm.pool
      BY <1>3 DEF Update
    <2>2. CASE n = 0
      BY <1>0, <2>1, <2>2
    <2>3. CASE n # 0
      <3>1. amm.key \in Pool /\ fetches = 6
        BY <1>3, <2>3, AccountsToUpdateOrder DEF CacheCoherent, CallAtItsPlace
      <3>2. accounts["pool"] >= amm.pool
        BY <1>0, <1>3, <3>1 DEF FetchedSinceCall, TypeOK
      <3> QED
        BY <1>3, <2>1, <2>3, <3>2 DEF UpdateStages
    <2> QED
      BY <2>2, <2>3
  <1>4. CASE UpdateAccounts
    <2>1. UpdateStages \in 0..UpdateStages
      BY DEF UpdateStages
    <2> QED
      BY <1>3, <1>4, <2>1 DEF UpdateAccounts
  <1>5. CASE \E n \in 0..UpdateStages : UpdateAccountsFails(n)
    BY <1>3, <1>5 DEF UpdateAccountsFails
  <1>6. CASE Chain \/ Client \/ Drop \/ UNCHANGED vars
    BY <1>1, <1>6
    DEF Chain, ChainChangePool, ChainSwap, ChainFinalize, ChainSetConfig, ChainWrite, Client,
        InvokeForPool, InvokeInitializePool, InvokeFinalize, InvokeLoadPool, InvokeUpdateAccounts,
        InvokeGetOrder, InvokeIx, Invoke, Drop, vars
  <1>7. CASE \/ LoadPoolFails \/ FetchAccount \/ FetchMints \/ FetchOrder \/ RetryOrder
             \/ ParseOrderFails \/ GiveUpOrder \/ FetchSlot \/ Prove \/ ReturnQuote \/ ReturnTransaction
             \/ ReturnInstruction \/ GetOrderPubkey \/ ReturnOrder \/ Fail
    BY <1>1, <1>7
    DEF LoadPoolFails, FetchAccount, FetchMints, FetchOrder, RetryOrder, ParseOrderFails,
        GiveUpOrder, FetchSlot, Prove, ReturnQuote, ReturnTransaction, ReturnInstruction, GetOrderPubkey, ReturnOrder, Fail
  <1> QED
    BY <1>2, <1>4, <1>5, <1>6, <1>7 DEF Next, Progress

\* The pool data of a cached pool never goes back in time.
THEOREM NeverRollsBack == Spec => PoolNeverRollsBack
  <1>1. IInv /\ [Next]_vars => [amm'.key = amm.key => amm'.pool >= amm.pool]_amm
    BY StepNeverRollsBack
  <1> QED
    BY <1>1, Invariance, PTL DEF Spec, PoolNeverRollsBack

=============================================================================
