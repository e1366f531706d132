------------------------- MODULE TransactionsProofs -------------------------
(***************************************************************************)
(* The invariants of Transactions, for any mints, amounts and wallets and  *)
(* any number of calls.                                                    *)
(***************************************************************************)
EXTENDS Transactions, TLAPS

-----------------------------------------------------------------------------
(***************************************************************************)
(* Single instructions.                                                    *)
(***************************************************************************)
\* A limit on one mint names that mint only.
LEMMA OneMint ==
    ASSUME NEW m \in Mint, NEW n \in Nat \ {0}
    PROVE  /\ Of(m, n) \in [Mint -> Nat]
           /\ Of(m, n)[m] = n
           /\ Mints(Of(m, n)) = {m}
BY DEF Of, Nothing, Mints

LEMMA NativeMint == WSOL \in Mint /\ Mint \subseteq Nat /\ SOL_MINT \notin Mint
BY AddressAssumption DEF AddressAssumption

\* A failed transaction stays failed.
LEMMA ExecuteFailed ==
    ASSUME NEW w, w.status = "failed", NEW ins, NEW moved
    PROVE  Execute(w, ins, moved) = w
BY DEF Execute

\* The pool's instructions.
LEMMA SwapExecute ==
    ASSUME NEW u, u.status = "ok", NEW k, NEW limit, NEW moved,
           NEW v, v = Execute(u, PoolIns("swap", k, limit), moved)
    PROVE  /\ k \notin u.orders =>
                  v = Pay([u EXCEPT !.orders = @ \cup {k}], [limit EXCEPT ![WSOL] = @ + Deposit])
           /\ k \in u.orders => v = Failed(u)
<1>1. v = When(u, k \notin u.orders,
               Pay([u EXCEPT !.orders = @ \cup {k}], [limit EXCEPT ![WSOL] = @ + Deposit]))
  BY DEF Execute, PoolIns
<1> QED
  BY <1>1 DEF When

LEMMA InitializeExecute ==
    ASSUME NEW u, u.status = "ok", NEW k, NEW limit, NEW moved,
           NEW v, v = Execute(u, PoolIns("initialize_pool", k, limit), moved)
    PROVE  /\ k \notin u.pools /\ PoolFee <= u.sol =>
                  v = Pay([u EXCEPT !.pools = @ \cup {k}, !.sol = @ - PoolFee], limit)
           /\ ~(k \notin u.pools /\ PoolFee <= u.sol) => v = Failed(u)
<1>1. v = When(u, k \notin u.pools /\ PoolFee <= u.sol,
               Pay([u EXCEPT !.pools = @ \cup {k}, !.sol = @ - PoolFee], limit))
  BY DEF Execute, PoolIns
<1> QED
  BY <1>1 DEF When

LEMMA AddExecute ==
    ASSUME NEW u, u.status = "ok", NEW k, NEW limit, NEW moved,
           NEW v, v = Execute(u, PoolIns("add_liquidity", k, limit), moved)
    PROVE  /\ (\A m \in Mint : moved[m] <= limit[m]) => v = Pay(u, moved)
           /\ ~(\A m \in Mint : moved[m] <= limit[m]) => v = Failed(u)
<1>1. v = When(u, \A m \in Mint : moved[m] <= limit[m], Pay(u, moved))
  BY DEF Execute, PoolIns
<1> QED
  BY <1>1 DEF When

LEMMA RemoveExecute ==
    ASSUME NEW u, u.status = "ok", NEW k, NEW limit, NEW moved,
           NEW v, v = Execute(u, PoolIns("remove_liquidity", k, limit), moved)
    PROVE  /\ (\A m \in Mint : moved[m] >= limit[m]) => v = Receive(u, moved)
           /\ ~(\A m \in Mint : moved[m] >= limit[m]) => v = Failed(u)
<1>1. v = When(u, \A m \in Mint : moved[m] >= limit[m], Receive(u, moved))
  BY DEF Execute, PoolIns
<1> QED
  BY <1>1 DEF When

\* The types of the parts.
LEMMA WalletParts ==
    ASSUME NEW w \in Wallet
    PROVE  /\ w.sol \in Nat
           /\ w.unsynced \in Nat
           /\ w.held \in [Mint -> Nat]
           /\ w.atas \subseteq Mint
           /\ w.orders \subseteq PoolKey
           /\ w.pools \subseteq PoolKey
BY DEF Wallet

LEMMA FailedWallet ==
    ASSUME NEW w \in Wallet
    PROVE  Failed(w) \in Wallet /\ Failed(w).status = "failed"
BY DEF Failed, Wallet

LEMMA ExecuteCreate ==
    ASSUME NEW w \in Wallet, w.status = "ok", NEW m \in Mint, NEW moved,
           NEW v, v = Execute(w, CreateAta(m), moved)
    PROVE  /\ v \in Wallet
           /\ v.status = "ok"
           /\ v.sol = w.sol
           /\ v.unsynced = w.unsynced
           /\ v.held = w.held
           /\ v.atas = w.atas \cup {m}
           /\ v.orders = w.orders /\ v.pools = w.pools
<1>1. Mints(Of(m, 1)) = {m}
  BY OneMint
<1>2. v = [w EXCEPT !.atas = w.atas \cup {m}]
  BY <1>1 DEF Execute, CreateAta, Ins
<1> QED
  BY <1>2 DEF Wallet

LEMMA ExecuteTransfer ==
    ASSUME NEW w \in Wallet, w.status = "ok", NEW n \in Nat \ {0}, NEW moved,
           NEW v, v = Execute(w, Ins("transfer_sol", Of(WSOL, n)), moved)
    PROVE  /\ v \in Wallet
           /\ v.status = "ok" <=> n <= w.sol
           /\ v.status = "ok" =>
                  /\ v.sol = w.sol - n
                  /\ v.unsynced = w.unsynced + n
                  /\ v.held = w.held
                  /\ v.atas = w.atas
                  /\ v.orders = w.orders /\ v.pools = w.pools
<1>1. Of(WSOL, n)[WSOL] = n
  BY OneMint, NativeMint
<1>2. v = When(w, n <= w.sol, [w EXCEPT !.sol = @ - n, !.unsynced = @ + n])
  BY <1>1 DEF Execute, Ins
<1>3. CASE n <= w.sol
  <2>1. v = [w EXCEPT !.sol = w.sol - n, !.unsynced = w.unsynced + n]
    BY <1>2, <1>3 DEF When
  <2>2. /\ v.sol = w.sol - n
        /\ v.unsynced = w.unsynced + n
        /\ v.held = w.held
        /\ v.atas = w.atas
        /\ v.orders = w.orders /\ v.pools = w.pools
        /\ v.status = w.status
    BY <2>1 DEF Wallet
  <2>3. w.sol - n \in Nat /\ w.unsynced + n \in Nat
    BY <1>3, WalletParts
  <2>4. v \in Wallet
    BY <2>1, <2>3 DEF Wallet
  <2> QED
    BY <2>2, <2>4, <1>3
<1>4. CASE ~(n <= w.sol)
  BY <1>2, <1>4, FailedWallet DEF When
<1> QED
  BY <1>3, <1>4

LEMMA ExecuteSync ==
    ASSUME NEW w \in Wallet, w.status = "ok", WSOL \in w.atas, NEW moved,
           NEW v, v = Execute(w, Ins("sync_native", Nothing), moved)
    PROVE  /\ v \in Wallet
           /\ v.status = "ok"
           /\ v.sol = w.sol
           /\ v.unsynced = 0
           /\ v.held = [w.held EXCEPT ![WSOL] = @ + w.unsynced]
           /\ v.atas = w.atas
           /\ v.orders = w.orders /\ v.pools = w.pools
<1> DEFINE synced == [w.held EXCEPT ![WSOL] = @ + w.unsynced]
<1>1. v = [w EXCEPT !.held = synced, !.unsynced = 0]
  BY DEF Execute, Ins, When
<1>2. synced \in [Mint -> Nat]
  BY NativeMint DEF Wallet
<1> HIDE DEF synced
<1>3. v \in Wallet
  <2>1. \A u \in Wallet : [u EXCEPT !.unsynced = 0] \in Wallet
    BY DEF Wallet
  <2>2. [w EXCEPT !.held = synced] \in Wallet
    BY <1>2 DEF Wallet
  <2> QED
    BY <2>1, <2>2, <1>1
<1>4. /\ v.status = w.status
      /\ v.sol = w.sol
      /\ v.unsynced = 0
      /\ v.held = synced
      /\ v.atas = w.atas
      /\ v.orders = w.orders /\ v.pools = w.pools
  BY <1>1 DEF Wallet
<1> QED
  BY <1>3, <1>4 DEF synced

LEMMA ExecuteClose ==
    ASSUME NEW w \in Wallet, w.status = "ok", WSOL \in w.atas, NEW moved,
           NEW v, v = Execute(w, Ins("close_wsol", Nothing), moved)
    PROVE  /\ v \in Wallet
           /\ v.status = "ok"
           /\ v.sol = w.sol + w.held[WSOL] + w.unsynced
           /\ v.unsynced = 0
           /\ v.held = [w.held EXCEPT ![WSOL] = 0]
           /\ v.atas = w.atas \ {WSOL}
<1>1. v = [w EXCEPT !.sol = @ + w.held[WSOL] + w.unsynced, !.unsynced = 0,
                    !.held = [w.held EXCEPT ![WSOL] = 0], !.atas = @ \ {WSOL}]
  BY DEF Execute, Ins, When
<1>2. /\ [w.held EXCEPT ![WSOL] = 0] \in [Mint -> Nat]
      /\ w.sol + w.held[WSOL] + w.unsynced \in Nat
      /\ w.atas \ {WSOL} \in SUBSET Mint
  BY NativeMint, WalletParts
<1>3. v \in Wallet
  BY <1>1, <1>2 DEF Wallet
<1>4. /\ v.status = w.status
      /\ v.sol = w.sol + w.held[WSOL] + w.unsynced
      /\ v.unsynced = 0
      /\ v.held = [w.held EXCEPT ![WSOL] = 0]
      /\ v.atas = w.atas \ {WSOL}
  BY <1>1 DEF Wallet
<1> QED
  BY <1>3, <1>4

\* What a payment needs, and what it leaves.
LEMMA PayResult ==
    ASSUME NEW w \in Wallet, w.status = "ok", NEW amounts \in [Mint -> Nat],
           NEW v, v = Pay(w, amounts)
    PROVE  /\ v \in Wallet
           /\ v.status = "ok" <=> \A m \in Mints(amounts) : m \in w.atas /\ amounts[m] <= w.held[m]
           /\ v.status = "ok" =>
                  /\ v.sol = w.sol
                  /\ v.unsynced = w.unsynced
                  /\ v.held = [m \in Mint |-> w.held[m] - amounts[m]]
                  /\ v.atas = w.atas
<1> DEFINE Enough == \A m \in Mints(amounts) : m \in w.atas /\ amounts[m] <= w.held[m]
<1>1. CASE Enough
  <2>1. v = [w EXCEPT !.held = [m \in Mint |-> w.held[m] - amounts[m]]]
    BY <1>1 DEF Pay, When
  <2>2. [m \in Mint |-> w.held[m] - amounts[m]] \in [Mint -> Nat]
    BY <1>1 DEF Mints, Wallet
  <2> QED
    BY <2>1, <2>2, <1>1 DEF Wallet
<1>2. CASE ~Enough
  BY <1>2, FailedWallet DEF Pay, When
<1> QED
  BY <1>1, <1>2

LEMMA ReceiveResult ==
    ASSUME NEW w \in Wallet, w.status = "ok", NEW amounts \in [Mint -> Nat],
           NEW v, v = Receive(w, amounts)
    PROVE  /\ v \in Wallet
           /\ v.status = "ok" <=> Mints(amounts) \subseteq w.atas
           /\ v.status = "ok" =>
                  /\ v.sol = w.sol
                  /\ v.unsynced = w.unsynced
                  /\ v.held = [m \in Mint |-> w.held[m] + amounts[m]]
                  /\ v.atas = w.atas
<1>1. CASE Mints(amounts) \subseteq w.atas
  <2>1. v = [w EXCEPT !.held = [m \in Mint |-> w.held[m] + amounts[m]]]
    BY <1>1 DEF Receive, When
  <2>2. [m \in Mint |-> w.held[m] + amounts[m]] \in [Mint -> Nat]
    BY DEF Wallet
  <2> QED
    BY <2>1, <2>2, <1>1 DEF Wallet
<1>2. CASE ~(Mints(amounts) \subseteq w.atas)
  BY <1>2, FailedWallet DEF Receive, When
<1> QED
  BY <1>1, <1>2

-----------------------------------------------------------------------------
(***************************************************************************)
(* Lists of instructions.                                                  *)
(***************************************************************************)
LEMMA RunOne ==
    ASSUME NEW c, NEW a, Instructions(c) = <<>> \o <<a>>, NEW w, NEW moved
    PROVE  Run(w, c, moved) = Execute(w, a, moved)
<1> DEFINE list == Instructions(c)
<1>1. DOMAIN list = 1..1 /\ list[1] = a
  <2>1. <<>> \in Seq({a}) /\ <<a>> \in Seq({a})
    OBVIOUS
  <2> QED
    BY <2>1
<1> HIDE DEF list
<1> QED
  BY <1>1 DEF Run, Step, list

LEMMA RunThree ==
    ASSUME NEW c, NEW a, NEW b, NEW d, Instructions(c) = <<a, b, d>> \o <<>>, NEW w, NEW moved
    PROVE  Run(w, c, moved) = Execute(Execute(Execute(w, a, moved), b, moved), d, moved)
<1> DEFINE list == Instructions(c)
<1>1. DOMAIN list = 1..3 /\ list[1] = a /\ list[2] = b /\ list[3] = d
  OBVIOUS
<1> HIDE DEF list
<1> QED
  BY <1>1 DEF Run, Step, list

LEMMA RunFour ==
    ASSUME NEW c, NEW a, NEW b, NEW d, NEW e, Instructions(c) = <<a, b, d>> \o <<e>>,
           NEW w, NEW moved
    PROVE  Run(w, c, moved) =
               Execute(Execute(Execute(Execute(w, a, moved), b, moved), d, moved), e, moved)
<1> DEFINE list == Instructions(c)
<1>1. DOMAIN list = 1..4 /\ list[1] = a /\ list[2] = b /\ list[3] = d /\ list[4] = e
  <2>1. <<a, b, d>> \in Seq({a, b, d, e}) /\ <<e>> \in Seq({a, b, d, e})
    OBVIOUS
  <2> QED
    BY <2>1
<1> HIDE DEF list
<1> QED
  BY <1>1 DEF Run, Step, list

LEMMA RunFive ==
    ASSUME NEW c, NEW a, NEW b, NEW d, NEW e, NEW f, Instructions(c) = <<a, b, d>> \o <<e, f>>,
           NEW w, NEW moved
    PROVE  Run(w, c, moved) =
               Execute(Execute(Execute(Execute(Execute(w, a, moved), b, moved), d, moved),
                               e, moved), f, moved)
<1> DEFINE list == Instructions(c)
<1>1. /\ DOMAIN list = 1..5
      /\ list[1] = a /\ list[2] = b /\ list[3] = d /\ list[4] = e /\ list[5] = f
  <2>1. <<a, b, d>> \in Seq({a, b, d, e, f}) /\ <<e, f>> \in Seq({a, b, d, e, f})
    OBVIOUS
  <2> QED
    BY <2>1
<1> HIDE DEF list
<1> QED
  BY <1>1 DEF Run, Step, list

\* What wrapping needs and does.
LEMMA Wrapped ==
    ASSUME NEW w \in Wallet, w.status = "ok", w.unsynced = 0, NEW n \in Nat \ {0}, NEW moved,
           NEW v, v = Execute(Execute(Execute(w, CreateAta(WSOL), moved),
                                      Ins("transfer_sol", Of(WSOL, n)), moved),
                              Ins("sync_native", Nothing), moved)
    PROVE  /\ v \in Wallet
           /\ v.status = "ok" <=> n <= w.sol
           /\ v.status = "ok" =>
                  /\ v.sol = w.sol - n
                  /\ v.unsynced = 0
                  /\ v.held = [w.held EXCEPT ![WSOL] = @ + n]
                  /\ v.atas = w.atas \cup {WSOL}
                  /\ v.orders = w.orders /\ v.pools = w.pools
<1>1. PICK t : t = Execute(w, CreateAta(WSOL), moved)
  OBVIOUS
<1>2. PICK u : u = Execute(t, Ins("transfer_sol", Of(WSOL, n)), moved)
  OBVIOUS
<1>3. v = Execute(u, Ins("sync_native", Nothing), moved)
  BY <1>1, <1>2
<1>4. /\ t \in Wallet /\ t.status = "ok" /\ t.sol = w.sol /\ t.unsynced = 0
      /\ t.held = w.held /\ t.atas = w.atas \cup {WSOL}
      /\ t.orders = w.orders /\ t.pools = w.pools
  BY <1>1, ExecuteCreate, NativeMint
<1>5. /\ u \in Wallet
      /\ u.status = "ok" <=> n <= w.sol
      /\ u.status = "ok" =>
             /\ u.sol = w.sol - n /\ u.unsynced = 0 + n
             /\ u.held = w.held /\ u.atas = w.atas \cup {WSOL}
             /\ u.orders = w.orders /\ u.pools = w.pools
  BY <1>2, <1>4, ExecuteTransfer
<1>6. CASE u.status = "ok"
  <2>1. /\ v \in Wallet /\ v.status = "ok" /\ v.sol = u.sol /\ v.unsynced = 0
        /\ v.held = [u.held EXCEPT ![WSOL] = @ + u.unsynced] /\ v.atas = u.atas
        /\ v.orders = u.orders /\ v.pools = u.pools
    BY <1>3, <1>5, <1>6, ExecuteSync
  <2> QED
    BY <2>1, <1>5, <1>6
<1>7. CASE u.status = "failed"
  BY <1>3, <1>5, <1>7, ExecuteFailed
<1>8. u.status \in {"ok", "failed"}
  BY <1>5 DEF Wallet
<1> QED
  BY <1>6, <1>7, <1>8

-----------------------------------------------------------------------------
(***************************************************************************)
(* The wallets between transactions: what is held is held on an account,   *)
(* and nothing was sent to the wrapped SOL account without a sync.         *)
(***************************************************************************)
Sound(w) ==
    /\ w \in Wallet
    /\ w.status = "ok"
    /\ w.unsynced = 0
    /\ \A m \in Mint : w.held[m] > 0 => m \in w.atas

Valid(c) == c \in Call /\ PostSol(c.x) # PostSol(c.y)

\* A payment that succeeds leaves a sound wallet.
LEMMA PaySound ==
    ASSUME NEW w, Sound(w), NEW amounts \in [Mint -> Nat], NEW v, v = Pay(w, amounts)
    PROVE  v \in Wallet /\ (v.status = "ok" => Sound(v))
<1>1. v \in Wallet
  BY PayResult DEF Sound
<1>2. ASSUME v.status = "ok" PROVE Sound(v)
  <2>1. /\ v.unsynced = 0
        /\ v.held = [m \in Mint |-> w.held[m] - amounts[m]]
        /\ v.atas = w.atas
        /\ w.held \in [Mint -> Nat]
    BY <1>2, PayResult, WalletParts DEF Sound
  <2>2. \A m \in Mint : v.held[m] > 0 => m \in v.atas
    BY <2>1 DEF Sound
  <2> QED
    BY <1>1, <1>2, <2>1, <2>2 DEF Sound
<1> QED
  BY <1>1, <1>2

LEMMA ReceiveSound ==
    ASSUME NEW w, Sound(w), NEW amounts \in [Mint -> Nat], NEW v, v = Receive(w, amounts)
    PROVE  v \in Wallet /\ (v.status = "ok" => Sound(v))
<1>1. v \in Wallet
  BY ReceiveResult DEF Sound
<1>2. ASSUME v.status = "ok" PROVE Sound(v)
  <2>1. /\ v.unsynced = 0
        /\ v.held = [m \in Mint |-> w.held[m] + amounts[m]]
        /\ v.atas = w.atas
        /\ w.held \in [Mint -> Nat]
        /\ Mints(amounts) \subseteq w.atas
    BY <1>2, ReceiveResult, WalletParts DEF Sound
  <2>2. \A m \in Mint : v.held[m] > 0 => m \in v.atas
    BY <2>1 DEF Sound, Mints
  <2> QED
    BY <1>1, <1>2, <2>1, <2>2 DEF Sound
<1> QED
  BY <1>1, <1>2

\* Orders and pools are opened, and the fee paid, without touching the accounts.
LEMMA OpenSound ==
    ASSUME NEW w, Sound(w), NEW k \in PoolKey, NEW v, v = [w EXCEPT !.orders = @ \cup {k}]
    PROVE  Sound(v) /\ v.sol = w.sol /\ v.held = w.held /\ v.atas = w.atas
<1>1. /\ v.sol = w.sol /\ v.held = w.held /\ v.atas = w.atas
      /\ v.unsynced = w.unsynced /\ v.status = w.status
  BY DEF Sound, Wallet
<1>2. v \in Wallet
  BY DEF Sound, Wallet
<1> QED
  BY <1>1, <1>2 DEF Sound

LEMMA FeeSound ==
    ASSUME NEW w, Sound(w), NEW k \in PoolKey, PoolFee <= w.sol,
           NEW v, v = [w EXCEPT !.pools = @ \cup {k}, !.sol = @ - PoolFee]
    PROVE  Sound(v) /\ v.held = w.held /\ v.atas = w.atas
<1>1. /\ v.held = w.held /\ v.atas = w.atas
      /\ v.unsynced = w.unsynced /\ v.status = w.status
  BY DEF Sound, Wallet
<1>2. w.sol - PoolFee \in Nat /\ w.pools \cup {k} \in SUBSET PoolKey
  BY TransactionAssumption, WalletParts DEF TransactionAssumption, Sound
<1>3. v \in Wallet
  BY <1>2 DEF Sound, Wallet
<1> QED
  BY <1>1, <1>3 DEF Sound

\* So does wrapping, which touches one mint only.
LEMMA WrapSound ==
    ASSUME NEW w, Sound(w), NEW n \in Nat \ {0}, NEW moved,
           NEW v, v = Execute(Execute(Execute(w, CreateAta(WSOL), moved),
                                      Ins("transfer_sol", Of(WSOL, n)), moved),
                              Ins("sync_native", Nothing), moved)
    PROVE  /\ v \in Wallet
           /\ v.status = "ok" <=> n <= w.sol
           /\ v.status = "ok" =>
                  /\ Sound(v)
                  /\ v.sol = w.sol - n
                  /\ v.held = [w.held EXCEPT ![WSOL] = @ + n]
                  /\ v.atas = w.atas \cup {WSOL}
                  /\ v.orders = w.orders /\ v.pools = w.pools
<1>1. /\ v \in Wallet
      /\ v.status = "ok" <=> n <= w.sol
      /\ v.status = "ok" =>
             /\ v.sol = w.sol - n /\ v.unsynced = 0
             /\ v.held = [w.held EXCEPT ![WSOL] = @ + n] /\ v.atas = w.atas \cup {WSOL}
             /\ v.orders = w.orders /\ v.pools = w.pools
  BY Wrapped DEF Sound
<1>2. ASSUME v.status = "ok" PROVE Sound(v)
  <2>1. w.held \in [Mint -> Nat]
    BY WalletParts DEF Sound
  <2>2. \A m \in Mint : v.held[m] > 0 => m \in v.atas
    BY <1>1, <1>2, <2>1 DEF Sound
  <2> QED
    BY <1>1, <1>2, <2>2 DEF Sound
<1> QED
  BY <1>1, <1>2

\* The amounts stand with the tokens they were given for.
LEMMA PoolAmounts ==
    ASSUME NEW c, Valid(c)
    PROVE  /\ PoolOf(c)[1] \in Mint /\ PoolOf(c)[2] \in Mint
           /\ {PoolOf(c)[1], PoolOf(c)[2]} = {PostSol(c.x), PostSol(c.y)}
           /\ SortedAmounts(c)[1] \in Nat \ {0} /\ SortedAmounts(c)[2] \in Nat \ {0}
           /\ Limit(c) \in [Mint -> Nat]
           /\ Mints(Limit(c)) = {PostSol(c.x), PostSol(c.y)}
           /\ \A m \in Mints(Limit(c)) : Limit(c)[m] = Given(c, m)
           /\ PoolOf(c) = <<PostSol(c.x), PostSol(c.y)>> =>
                  SortedAmounts(c)[1] = Given(c, PostSol(c.x))
                  /\ SortedAmounts(c)[2] = Given(c, PostSol(c.y))
<1> DEFINE x == PostSol(c.x)
           y == PostSol(c.y)
<1>1. /\ x \in Mint /\ y \in Mint /\ x # y /\ x \in Nat /\ y \in Nat
      /\ c.a \in Nat \ {0} /\ c.b \in Nat \ {0}
  BY AddressAssumption, TransactionAssumption
     DEF AddressAssumption, TransactionAssumption, Valid, Call, Token, PostSol
<1>2. PoolOf(c) = IF x < y THEN <<x, y>> ELSE <<y, x>>
  BY DEF PoolOf, GetPoolAddress
<1>3. SortedAmounts(c) = IF PoolOf(c)[1] # x THEN <<c.b, c.a>> ELSE <<c.a, c.b>>
  BY DEF SortedAmounts
<1>4. Given(c, x) = c.a /\ Given(c, y) = c.b
  BY <1>1 DEF Given
<1> HIDE DEF x, y
<1>5. Limit(c) = [Nothing EXCEPT ![PoolOf(c)[1]] = SortedAmounts(c)[1],
                                 ![PoolOf(c)[2]] = SortedAmounts(c)[2]]
  BY DEF Limit
<1>6. Limit(c) = [m \in Mint |-> IF m = x THEN c.a ELSE IF m = y THEN c.b ELSE 0]
  <2>1. CASE x < y
    <3>1. PoolOf(c)[1] = x /\ PoolOf(c)[2] = y
      BY <1>2, <2>1
    <3>2. SortedAmounts(c)[1] = c.a /\ SortedAmounts(c)[2] = c.b
      BY <1>3, <3>1
    <3> QED
      BY <1>1, <1>5, <3>1, <3>2 DEF Nothing
  <2>2. CASE ~(x < y)
    <3>1. PoolOf(c)[1] = y /\ PoolOf(c)[2] = x
      BY <1>2, <2>2
    <3>2. SortedAmounts(c)[1] = c.b /\ SortedAmounts(c)[2] = c.a
      BY <1>1, <1>3, <3>1
    <3> QED
      BY <1>1, <1>5, <3>1, <3>2 DEF Nothing
  <2> QED
    BY <2>1, <2>2
<1>7. /\ Limit(c) \in [Mint -> Nat]
      /\ Mints(Limit(c)) = {x, y}
      /\ \A m \in {x, y} : Limit(c)[m] = Given(c, m)
  <2>1. Limit(c) \in [Mint -> Nat]
    BY <1>1, <1>6
  <2>2. /\ Limit(c)[x] = c.a /\ Limit(c)[y] = c.b
        /\ \A m \in Mint \ {x, y} : Limit(c)[m] = 0
    BY <1>1, <1>6
  <2>3. Mints(Limit(c)) = {x, y}
    <3>1. (\A n \in Nat \ {0} : n > 0) /\ ~(0 > 0)
      OBVIOUS
    <3>2. Limit(c)[x] > 0 /\ Limit(c)[y] > 0
      BY <1>1, <2>2, <3>1
    <3>3. \A m \in Mint \ {x, y} : ~(Limit(c)[m] > 0)
      BY <2>2, <3>1, Zenon
    <3>4. Mints(Limit(c)) = {m \in Mint : Limit(c)[m] > 0}
      BY DEF Mints
    <3>5. x \in Mint /\ y \in Mint
      BY <1>1
    <3> QED
      BY <3>2, <3>3, <3>4, <3>5, Zenon
  <2> QED
    BY <1>4, <2>1, <2>2, <2>3
<1>8. CASE x < y
  <2>1. PoolOf(c) = <<x, y>> /\ PoolOf(c)[1] = x /\ PoolOf(c)[2] = y
    BY <1>2, <1>8
  <2>2. SortedAmounts(c) = <<c.a, c.b>>
    BY <1>3, <2>1
  <2> QED
    BY <1>1, <1>4, <1>7, <2>1, <2>2 DEF x, y
<1>9. CASE ~(x < y)
  <2>1. PoolOf(c) = <<y, x>> /\ PoolOf(c)[1] = y /\ PoolOf(c)[2] = x
    BY <1>2, <1>9
  <2>2. SortedAmounts(c) = <<c.b, c.a>>
    BY <1>1, <1>3, <2>1
  <2>3. <<y, x>> # <<x, y>>
    BY <1>1
  <2> QED
    BY <1>1, <1>4, <1>7, <2>1, <2>2, <2>3 DEF x, y
<1> QED
  BY <1>8, <1>9

-----------------------------------------------------------------------------
(***************************************************************************)
(* The four calls.                                                         *)
(***************************************************************************)
\* What a pool moves, where it has a choice, is of its two mints.
LEMMA MovedMints ==
    ASSUME NEW c, Valid(c), NEW moved \in Moved(c)
    PROVE  /\ moved \in [Mint -> Nat]
           /\ c.method \in {"add_liquidity_tx", "remove_liquidity_tx"} =>
                  Mints(moved) = {PostSol(c.x), PostSol(c.y)}
<1>1. CASE c.method \in {"swap_tx", "initialize_pool_tx"}
  BY <1>1 DEF Moved, Nothing
<1>2. CASE c.method \notin {"swap_tx", "initialize_pool_tx"}
  <2>1. /\ moved \in [Mint -> Amount \cup {0}]
        /\ \A m \in Mint : moved[m] > 0 <=> m \in {PoolOf(c)[1], PoolOf(c)[2]}
    BY <1>2 DEF Moved
  <2>2. Mints(moved) = {PoolOf(c)[1], PoolOf(c)[2]}
    BY <2>1, PoolAmounts DEF Mints
  <2>3. Amount \cup {0} \subseteq Nat
    BY TransactionAssumption DEF TransactionAssumption
  <2> QED
    BY <2>1, <2>2, <2>3, PoolAmounts
<1> QED
  BY <1>1, <1>2

\* Before it adds or initializes, a call may wrap.
LEMMA WrapLiquidityRun ==
    ASSUME NEW c, Valid(c), NEW w, Sound(w), NEW ins, NEW moved,
           Instructions(c) = WrapLiquidity(c) \o <<ins>>
    PROVE  \E u \in Wallet :
               /\ Run(w, c, moved) = Execute(u, ins, moved)
               /\ u.status = "ok" => Sound(u)
               /\ PoolOf(c) = <<PostSol(c.x), PostSol(c.y)>> /\ Names(c, SOL_MINT)
                  /\ Given(c, WSOL) <= w.sol =>
                      /\ u.status = "ok"
                      /\ u.sol = w.sol - Given(c, WSOL)
                      /\ u.pools = w.pools
                      /\ WSOL \in u.atas
                      /\ Given(c, WSOL) <= u.held[WSOL]
                      /\ \A m \in Mint \ {WSOL} : u.held[m] = w.held[m]
<1>1. ASSUME NEW n \in Nat \ {0}, WrapLiquidity(c) = Wrap(n), Names(c, SOL_MINT),
             PoolOf(c) = <<PostSol(c.x), PostSol(c.y)>> => n = Given(c, WSOL)
      PROVE  \E u \in Wallet :
               /\ Run(w, c, moved) = Execute(u, ins, moved)
               /\ u.status = "ok" => Sound(u)
               /\ PoolOf(c) = <<PostSol(c.x), PostSol(c.y)>> /\ Names(c, SOL_MINT)
                  /\ Given(c, WSOL) <= w.sol =>
                      /\ u.status = "ok"
                      /\ u.sol = w.sol - Given(c, WSOL)
                      /\ u.pools = w.pools
                      /\ WSOL \in u.atas
                      /\ Given(c, WSOL) <= u.held[WSOL]
                      /\ \A m \in Mint \ {WSOL} : u.held[m] = w.held[m]
  <2>1. PICK u : u = Execute(Execute(Execute(w, CreateAta(WSOL), moved),
                                     Ins("transfer_sol", Of(WSOL, n)), moved),
                             Ins("sync_native", Nothing), moved)
    OBVIOUS
  <2>2. Instructions(c) = <<CreateAta(WSOL), Ins("transfer_sol", Of(WSOL, n)),
                            Ins("sync_native", Nothing)>> \o <<ins>>
    BY <1>1 DEF Wrap
  <2>3. Run(w, c, moved) = Execute(u, ins, moved)
    BY <2>1, <2>2, RunFour
  <2>4. /\ u \in Wallet
        /\ u.status = "ok" <=> n <= w.sol
        /\ u.status = "ok" =>
               /\ Sound(u)
               /\ u.sol = w.sol - n
               /\ u.held = [w.held EXCEPT ![WSOL] = @ + n]
               /\ u.atas = w.atas \cup {WSOL}
               /\ u.pools = w.pools
    BY <1>1, <2>1, WrapSound
  <2>5. ASSUME PoolOf(c) = <<PostSol(c.x), PostSol(c.y)>>, Given(c, WSOL) <= w.sol
        PROVE  /\ u.status = "ok"
               /\ u.sol = w.sol - Given(c, WSOL)
               /\ u.pools = w.pools
               /\ WSOL \in u.atas
               /\ Given(c, WSOL) <= u.held[WSOL]
               /\ \A m \in Mint \ {WSOL} : u.held[m] = w.held[m]
    <3>1. n = Given(c, WSOL)
      BY <1>1, <2>5
    <3>2. u.status = "ok"
      BY <2>4, <2>5, <3>1
    <3>3. w.held \in [Mint -> Nat] /\ WSOL \in Mint
      BY WalletParts, NativeMint DEF Sound
    <3>4. u.held[WSOL] = w.held[WSOL] + n /\ w.held[WSOL] \in Nat
      BY <2>4, <3>2, <3>3
    <3> QED
      BY <1>1, <2>4, <3>1, <3>2, <3>3, <3>4
  <2> QED
    BY <2>3, <2>4, <2>5
<1>2. CASE c.x = SOL_MINT
  <2>1. WrapLiquidity(c) = Wrap(SortedAmounts(c)[1]) /\ Names(c, SOL_MINT)
    BY <1>2 DEF WrapLiquidity, Names
  <2>2. PostSol(c.x) = WSOL
    BY <1>2 DEF PostSol
  <2> QED
    BY <1>1, <2>1, <2>2, PoolAmounts
<1>3. CASE c.x # SOL_MINT /\ c.y = SOL_MINT
  <2>1. WrapLiquidity(c) = Wrap(SortedAmounts(c)[2]) /\ Names(c, SOL_MINT)
    BY <1>3 DEF WrapLiquidity, Names
  <2>2. PostSol(c.y) = WSOL
    BY <1>3 DEF PostSol
  <2> QED
    BY <1>1, <2>1, <2>2, PoolAmounts
<1>4. CASE ~Names(c, SOL_MINT)
  <2>1. Instructions(c) = <<>> \o <<ins>>
    BY <1>4 DEF WrapLiquidity, Names
  <2>2. Run(w, c, moved) = Execute(w, ins, moved)
    BY <2>1, RunOne
  <2> QED
    BY <1>4, <2>2 DEF Sound
<1> QED
  BY <1>2, <1>3, <1>4 DEF Names

\* A swap of native SOL needs the lamports, the deposit and no order in the pool,
\* and takes the amount in lamports and the deposit in wrapped SOL.
CanSwap(c, w) == c.a <= w.sol /\ Deposit <= w.held[WSOL] /\ PoolOf(c) \notin w.orders

Spent(c, w, v) == v.sol = w.sol - c.a /\ v.held = [w.held EXCEPT ![WSOL] = @ - Deposit]

LEMMA SwapRun ==
    ASSUME NEW c, Valid(c), c.method = "swap_tx", NEW w, Sound(w), NEW moved,
           NEW v, v = Run(w, c, moved)
    PROVE  /\ v \in Wallet
           /\ v.status = "ok" => Sound(v)
           /\ c.x = SOL_MINT =>
                  /\ CanSwap(c, w) => v.status = "ok"
                  /\ v.status = "ok" => Spent(c, w, v)
<1> DEFINE limit == Of(PostSol(c.x), c.a)
           total == [limit EXCEPT ![WSOL] = @ + Deposit]
<1>1. /\ c.a \in Nat \ {0} /\ PostSol(c.x) \in Mint /\ WSOL \in Mint
      /\ Deposit \in Nat /\ PoolOf(c) \in PoolKey
  <2>1. c.a \in Nat \ {0} /\ PostSol(c.x) \in Mint /\ WSOL \in Mint /\ Deposit \in Nat
    BY AddressAssumption, TransactionAssumption
       DEF AddressAssumption, TransactionAssumption, Valid, Call, Token, PostSol
  <2>2. PoolOf(c) \in Mint \X Mint
    BY AddressAssumption DEF AddressAssumption, Valid, Call, Token, PostSol, PoolOf, GetPoolAddress
  <2> QED
    BY <2>1, <2>2 DEF PoolKey
<1>2. limit \in [Mint -> Nat] /\ total \in [Mint -> Nat]
  <2>1. limit \in [Mint -> Nat]
    BY <1>1, OneMint
  <2> HIDE DEF limit
  <2> QED
    BY <1>1, <2>1
<1>3. Instructions(c) = (IF c.x = SOL_MINT THEN Wrap(c.a) ELSE <<>>)
                            \o <<PoolIns("swap", PoolOf(c), limit)>>
  BY DEF Instructions, SwapTx, Swap
<1>4. ASSUME NEW u, Sound(u), v = Execute(u, PoolIns("swap", PoolOf(c), limit), moved)
      PROVE  /\ v \in Wallet
             /\ v.status = "ok" => Sound(v)
             /\ v.status = "ok" <=>
                    /\ PoolOf(c) \notin u.orders
                    /\ \A m \in Mints(total) : m \in u.atas /\ total[m] <= u.held[m]
             /\ v.status = "ok" => v.sol = u.sol /\ v.held = [m \in Mint |-> u.held[m] - total[m]]
  <2> DEFINE t == [u EXCEPT !.orders = @ \cup {PoolOf(c)}]
  <2>1. /\ PoolOf(c) \notin u.orders => v = Pay(t, total)
        /\ PoolOf(c) \in u.orders => v = Failed(u)
    <3> HIDE DEF limit
    <3> QED
      BY <1>4, SwapExecute DEF Sound
  <2>2. Sound(t) /\ t.sol = u.sol /\ t.held = u.held /\ t.atas = u.atas
    BY <1>1, <1>4, OpenSound
  <2> HIDE DEF t, total
  <2>3. CASE PoolOf(c) \notin u.orders
    <3>1. v = Pay(t, total)
      BY <2>1, <2>3
    <3>2. v \in Wallet /\ (v.status = "ok" => Sound(v))
      BY <1>2, <2>2, <3>1, PaySound
    <3>3. /\ v.status = "ok" <=> \A m \in Mints(total) : m \in t.atas /\ total[m] <= t.held[m]
          /\ v.status = "ok" => v.sol = t.sol /\ v.held = [m \in Mint |-> t.held[m] - total[m]]
      BY <1>2, <2>2, <3>1, PayResult DEF Sound
    <3> QED
      BY <2>2, <2>3, <3>2, <3>3
  <2>4. CASE PoolOf(c) \in u.orders
    <3>1. v = Failed(u)
      BY <2>1, <2>4
    <3>2. v \in Wallet /\ v.status = "failed"
      BY <1>4, <3>1, FailedWallet DEF Sound
    <3> QED
      BY <2>4, <3>2
  <2> QED
    BY <2>3, <2>4
<1>5. CASE c.x = SOL_MINT
  <2>1. PostSol(c.x) = WSOL
    BY <1>5 DEF PostSol
  <2>2. PICK u : u = Execute(Execute(Execute(w, CreateAta(WSOL), moved),
                                     Ins("transfer_sol", Of(WSOL, c.a)), moved),
                             Ins("sync_native", Nothing), moved)
    OBVIOUS
  <2>3. Instructions(c) = <<CreateAta(WSOL), Ins("transfer_sol", Of(WSOL, c.a)),
                            Ins("sync_native", Nothing)>>
                          \o <<PoolIns("swap", PoolOf(c), limit)>>
    BY <1>3, <1>5, <2>1 DEF Wrap
  <2>4. v = Execute(u, PoolIns("swap", PoolOf(c), limit), moved)
    BY <2>2, <2>3, RunFour
  <2>5. /\ u \in Wallet
        /\ u.status = "ok" <=> c.a <= w.sol
        /\ u.status = "ok" =>
               /\ Sound(u)
               /\ u.sol = w.sol - c.a
               /\ u.held = [w.held EXCEPT ![WSOL] = @ + c.a]
               /\ u.atas = w.atas \cup {WSOL}
               /\ u.orders = w.orders
    BY <1>1, <2>2, WrapSound
  <2>6. /\ Mints(total) \subseteq {WSOL}
        /\ WSOL \in Mints(total)
        /\ total = [m \in Mint |-> IF m = WSOL THEN c.a + Deposit ELSE 0]
    <3>1. limit = [m \in Mint |-> IF m = WSOL THEN c.a ELSE 0]
      BY <2>1 DEF Of, Nothing
    <3> HIDE DEF limit
    <3>2. total = [m \in Mint |-> IF m = WSOL THEN c.a + Deposit ELSE 0]
      BY <1>1, <3>1
    <3> HIDE DEF total
    <3> QED
      BY <1>1, <3>2 DEF Mints
  <2> HIDE DEF limit, total
  <2>7. CASE u.status = "ok"
    <3>1. w.held \in [Mint -> Nat]
      BY WalletParts DEF Sound
    <3>2. u.held[WSOL] = w.held[WSOL] + c.a /\ WSOL \in u.atas /\ w.held[WSOL] \in Nat
      BY <1>1, <2>5, <2>7, <3>1
    <3>3. (\A m \in Mints(total) : m \in u.atas /\ total[m] <= u.held[m])
              <=> Deposit <= w.held[WSOL]
      <4>1. total[WSOL] = c.a + Deposit
        BY <1>1, <2>6
      <4>2. total[WSOL] <= u.held[WSOL] <=> Deposit <= w.held[WSOL]
        BY <1>1, <3>2, <4>1
      <4> QED
        BY <2>6, <3>2, <4>2
    <3>4. [m \in Mint |-> u.held[m] - total[m]] = [w.held EXCEPT ![WSOL] = @ - Deposit]
      <4>1. \A n, h, d \in Nat : (h + n) - (n + d) = h - d /\ h - 0 = h
        OBVIOUS
      <4>2. ASSUME NEW m \in Mint
            PROVE  u.held[m] - total[m] = [w.held EXCEPT ![WSOL] = @ - Deposit][m]
        <5>1. w.held[m] \in Nat
          BY <3>1
        <5>2. CASE m = WSOL
          <6>1. u.held[m] = w.held[m] + c.a /\ total[m] = c.a + Deposit
            BY <1>1, <2>6, <3>2, <5>2
          <6>2. [w.held EXCEPT ![WSOL] = @ - Deposit][m] = w.held[m] - Deposit
            BY <3>1, <5>2
          <6> QED
            BY <1>1, <4>1, <5>1, <6>1, <6>2
        <5>3. CASE m # WSOL
          <6>1. u.held[m] = w.held[m] /\ total[m] = 0
            BY <2>5, <2>6, <2>7, <3>1, <5>3
          <6>2. [w.held EXCEPT ![WSOL] = @ - Deposit][m] = w.held[m]
            BY <3>1, <5>3
          <6> QED
            BY <4>1, <5>1, <6>1, <6>2
        <5> QED
          BY <5>2, <5>3
      <4> QED
        BY <3>1, <4>2
    <3> QED
      <4>1. /\ v \in Wallet
            /\ v.status = "ok" => Sound(v)
            /\ PoolOf(c) \notin u.orders /\ Deposit <= w.held[WSOL] => v.status = "ok"
            /\ v.status = "ok" => v.sol = u.sol /\ v.held = [m \in Mint |-> u.held[m] - total[m]]
        <5>1. Sound(u)
          BY <2>5, <2>7
        <5> QED
          BY <1>4, <2>4, <3>3, <5>1
      <4>2. CanSwap(c, w) => v.status = "ok"
        BY <2>5, <2>7, <4>1 DEF CanSwap
      <4> QED
        BY <2>5, <2>7, <3>4, <4>1, <4>2 DEF Spent
  <2>8. CASE u.status = "failed"
    BY <2>4, <2>5, <2>8, ExecuteFailed DEF CanSwap
  <2> QED
    <3>1. u.status \in {"ok", "failed"}
      BY <2>5 DEF Wallet
    <3> QED
      BY <2>7, <2>8, <3>1
<1>6. CASE c.x # SOL_MINT
  <2>1. Instructions(c) = <<>> \o <<PoolIns("swap", PoolOf(c), limit)>>
    BY <1>3, <1>6
  <2>2. v = Execute(w, PoolIns("swap", PoolOf(c), limit), moved)
    BY <2>1, RunOne
  <2> QED
    BY <1>4, <1>6, <2>2
<1> QED
  BY <1>5, <1>6

\* Liquidity that can be paid for is.
Funded(c, w, moved) ==
    /\ PoolOf(c) = <<PostSol(c.x), PostSol(c.y)>>
    /\ Names(c, SOL_MINT)
    /\ Given(c, WSOL) <= w.sol
    /\ c.method = "initialize_pool_tx" =>
           PoolOf(c) \notin w.pools /\ Given(c, WSOL) + PoolFee <= w.sol
    /\ \A m \in {c.x, c.y} \ {SOL_MINT} : Given(c, m) <= w.held[m]
    /\ \A m \in Mints(moved) : moved[m] <= Given(c, m)

LEMMA LiquidityRun ==
    ASSUME NEW c, Valid(c), c.method \in {"add_liquidity_tx", "initialize_pool_tx"},
           NEW w, Sound(w), NEW moved \in Moved(c), NEW v, v = Run(w, c, moved)
    PROVE  /\ v \in Wallet
           /\ v.status = "ok" =>
                  /\ Sound(v)
                  /\ c.method = "add_liquidity_tx" =>
                         \A t \in Mints(moved) : moved[t] <= Given(c, t)
           /\ Funded(c, w, moved) => v.status = "ok"
<1> DEFINE paid == IF c.method = "add_liquidity_tx" THEN moved ELSE Limit(c)
           ins == PoolIns(IF c.method = "add_liquidity_tx" THEN "add_liquidity"
                          ELSE "initialize_pool", PoolOf(c), Limit(c))
<1>1. Instructions(c) = WrapLiquidity(c) \o <<ins>>
  BY DEF Instructions, AddLiquidityTx, InitializePoolTx
<1>2. /\ paid \in [Mint -> Nat]
      /\ Mints(paid) = {PostSol(c.x), PostSol(c.y)}
  BY PoolAmounts, MovedMints
<1> HIDE DEF paid, ins
<1>3. PICK u \in Wallet :
          /\ v = Execute(u, ins, moved)
          /\ u.status = "ok" => Sound(u)
          /\ PoolOf(c) = <<PostSol(c.x), PostSol(c.y)>> /\ Names(c, SOL_MINT)
             /\ Given(c, WSOL) <= w.sol =>
                 /\ u.status = "ok"
                 /\ u.sol = w.sol - Given(c, WSOL)
                 /\ u.pools = w.pools
                 /\ WSOL \in u.atas
                 /\ Given(c, WSOL) <= u.held[WSOL]
                 /\ \A m \in Mint \ {WSOL} : u.held[m] = w.held[m]
  BY <1>1, WrapLiquidityRun
<1>4. ASSUME Funded(c, w, moved)
      PROVE  /\ u.status = "ok"
             /\ \A m \in Mints(paid) : m \in u.atas /\ paid[m] <= u.held[m]
             /\ \A m \in Mint : moved[m] <= Limit(c)[m] \/ c.method # "add_liquidity_tx"
             /\ c.method = "initialize_pool_tx" => PoolOf(c) \notin u.pools /\ PoolFee <= u.sol
  <2>1. /\ u.status = "ok" /\ Sound(u)
        /\ WSOL \in u.atas
        /\ Given(c, WSOL) <= u.held[WSOL]
        /\ \A m \in Mint \ {WSOL} : u.held[m] = w.held[m]
    BY <1>3, <1>4 DEF Funded
  <2>2. \A m \in Mints(paid) : m \in Mint /\ paid[m] \in Nat \ {0} /\ paid[m] <= Given(c, m)
    <3>1. \A m \in Mints(paid) : m \in Mint /\ paid[m] \in Nat /\ paid[m] > 0
      BY <1>2 DEF Mints
    <3>2. CASE c.method = "add_liquidity_tx"
      BY <1>4, <3>1, <3>2 DEF Funded, paid
    <3>3. CASE c.method # "add_liquidity_tx"
      <4>1. \A m \in Mints(paid) : paid[m] = Given(c, m)
        BY <3>3, PoolAmounts DEF paid
      <4> QED
        BY <3>1, <4>1
    <3> QED
      BY <3>2, <3>3
  <2>3. \A m \in Mints(paid) : m # WSOL => m \in {c.x, c.y} \ {SOL_MINT}
    BY <1>2, NativeMint DEF PostSol
  <2>4. \A m \in Mints(paid) : Given(c, m) <= u.held[m]
    BY <1>4, <2>1, <2>2, <2>3 DEF Funded
  <2>5. \A m \in Mints(paid) : Given(c, m) \in Nat
    BY TransactionAssumption DEF TransactionAssumption, Valid, Call, Given
  <2>6. u.held \in [Mint -> Nat]
    BY <1>3, WalletParts
  <2>7. \A m \in Mints(paid) : paid[m] <= u.held[m] /\ u.held[m] > 0
    BY <2>2, <2>4, <2>5, <2>6
  <2>8. \A m \in Mints(paid) : m \in u.atas
    BY <2>1, <2>2, <2>7 DEF Sound
  <2>9. ASSUME c.method = "add_liquidity_tx", NEW m \in Mint
        PROVE  moved[m] <= Limit(c)[m]
    <3>1. CASE m \in Mints(moved)
      <4>1. Limit(c)[m] = Given(c, m)
        BY <1>2, <2>9, <3>1, PoolAmounts DEF paid
      <4> QED
        BY <1>4, <3>1, <4>1 DEF Funded
    <3>2. CASE m \notin Mints(moved)
      BY <3>2, MovedMints, PoolAmounts DEF Mints
    <3> QED
      BY <3>1, <3>2
  <2>10. ASSUME c.method = "initialize_pool_tx"
         PROVE  PoolOf(c) \notin u.pools /\ PoolFee <= u.sol
    <3>1. /\ u.sol = w.sol - Given(c, WSOL) /\ u.pools = w.pools
          /\ PoolOf(c) \notin w.pools /\ Given(c, WSOL) + PoolFee <= w.sol
      BY <1>3, <1>4, <2>10 DEF Funded
    <3>2. w.sol \in Nat /\ PoolFee \in Nat /\ Given(c, WSOL) \in Nat
      BY TransactionAssumption, WalletParts
         DEF TransactionAssumption, Sound, Valid, Call, Given
    <3> QED
      BY <3>1, <3>2
  <2> QED
    BY <2>1, <2>7, <2>8, <2>9, <2>10
<1>5. CASE u.status = "failed"
  <2>1. v = u
    BY <1>3, <1>5, ExecuteFailed
  <2> QED
    BY <1>4, <1>5, <2>1
<1>6. CASE u.status = "ok" /\ c.method = "initialize_pool_tx"
  <2> DEFINE Free == PoolOf(c) \notin u.pools /\ PoolFee <= u.sol
             t == [u EXCEPT !.pools = @ \cup {PoolOf(c)}, !.sol = @ - PoolFee]
  <2>1. (Free => v = Pay(t, paid)) /\ (~Free => v = Failed(u))
    <3>1. ins = PoolIns("initialize_pool", PoolOf(c), paid)
      BY <1>6 DEF ins, paid
    <3> QED
      BY <1>3, <1>6, <3>1, InitializeExecute
  <2>2. CASE Free
    <3>1. v = Pay(t, paid)
      BY <2>1, <2>2
    <3>2. PoolOf(c) \in PoolKey
      BY PoolAmounts DEF PoolKey, PoolOf, GetPoolAddress
    <3>3. Sound(t) /\ t.held = u.held /\ t.atas = u.atas
      BY <1>3, <1>6, <2>2, <3>2, FeeSound
    <3> HIDE DEF t
    <3>4. v \in Wallet /\ (v.status = "ok" => Sound(v))
      BY <1>2, <3>1, <3>3, PaySound
    <3>5. v.status = "ok" <=> \A m \in Mints(paid) : m \in t.atas /\ paid[m] <= t.held[m]
      BY <1>2, <3>1, <3>3, PayResult DEF Sound
    <3> QED
      BY <1>4, <1>6, <3>3, <3>4, <3>5
  <2>3. CASE ~Free
    <3>1. v = Failed(u)
      BY <2>1, <2>3
    <3>2. v \in Wallet /\ v.status = "failed"
      BY <3>1, FailedWallet
    <3> QED
      BY <1>4, <1>6, <2>3, <3>2
  <2> QED
    BY <2>2, <2>3
<1>7. CASE u.status = "ok" /\ c.method = "add_liquidity_tx"
  <2> DEFINE Within == \A m \in Mint : moved[m] <= Limit(c)[m]
  <2>1. (Within => v = Pay(u, paid)) /\ (~Within => v = Failed(u))
    <3>1. paid = moved /\ ins = PoolIns("add_liquidity", PoolOf(c), Limit(c))
      BY <1>7 DEF ins, paid
    <3> QED
      BY <1>3, <1>7, <3>1, AddExecute
  <2>2. CASE Within
    <3>1. v = Pay(u, paid)
      BY <2>1, <2>2
    <3>2. v \in Wallet /\ (v.status = "ok" => Sound(v))
      BY <1>2, <1>3, <1>7, <3>1, PaySound
    <3>3. v.status = "ok" <=> \A m \in Mints(paid) : m \in u.atas /\ paid[m] <= u.held[m]
      BY <1>2, <1>7, <3>1, PayResult
    <3>4. \A t \in Mints(moved) : moved[t] <= Given(c, t)
      <4>1. \A t \in Mints(moved) : t \in Mint /\ Limit(c)[t] = Given(c, t)
        BY <1>2, <1>7, PoolAmounts DEF paid, Mints
      <4> QED
        BY <2>2, <4>1
    <3> QED
      BY <1>4, <3>2, <3>3, <3>4
  <2>3. CASE ~Within
    <3>1. v = Failed(u)
      BY <2>1, <2>3
    <3>2. v \in Wallet /\ v.status = "failed"
      BY <3>1, FailedWallet
    <3> QED
      BY <1>4, <1>7, <2>3, <3>2
  <2> QED
    BY <2>2, <2>3
<1> QED
  BY <1>5, <1>6, <1>7 DEF Wallet

\* Liquidity taken out in native SOL closes the wrapped SOL account.
LEMMA RemoveRun ==
    ASSUME NEW c, Valid(c), c.method = "remove_liquidity_tx",
           NEW w, Sound(w), NEW moved \in Moved(c), NEW v, v = Run(w, c, moved)
    PROVE  /\ v \in Wallet
           /\ v.status = "ok" =>
                  /\ Sound(v)
                  /\ \A t \in Mints(moved) : moved[t] >= Given(c, t)
                  /\ Names(c, SOL_MINT) =>
                         WSOL \notin v.atas /\ v.sol = w.sol + w.held[WSOL] + moved[WSOL]
<1>1. /\ PoolOf(c)[1] \in Mint /\ PoolOf(c)[2] \in Mint
      /\ moved \in [Mint -> Nat]
      /\ Mints(moved) = {PoolOf(c)[1], PoolOf(c)[2]}
      /\ \A t \in Mints(moved) : t \in Mint /\ Limit(c)[t] = Given(c, t)
  BY PoolAmounts, MovedMints DEF Mints
<1>2. PICK s : s = Execute(w, CreateAta(PoolOf(c)[1]), moved)
  OBVIOUS
<1>3. PICK t : t = Execute(s, CreateAta(PoolOf(c)[2]), moved)
  OBVIOUS
<1>4. PICK u : u = Execute(t, PoolIns("remove_liquidity", PoolOf(c), Limit(c)), moved)
  OBVIOUS
<1>5. /\ s \in Wallet /\ s.status = "ok" /\ s.sol = w.sol /\ s.unsynced = 0
      /\ s.held = w.held /\ s.atas = w.atas \cup {PoolOf(c)[1]}
  BY <1>1, <1>2, ExecuteCreate DEF Sound
<1>6. /\ t \in Wallet /\ t.status = "ok" /\ t.sol = w.sol /\ t.unsynced = 0
      /\ t.held = w.held /\ t.atas = (w.atas \cup {PoolOf(c)[1]}) \cup {PoolOf(c)[2]}
  BY <1>1, <1>3, <1>5, ExecuteCreate
<1>7. Sound(t)
  <2>1. \A m \in Mint : t.held[m] > 0 => m \in t.atas
    BY <1>6 DEF Sound
  <2> QED
    BY <1>6, <2>1 DEF Sound
<1> DEFINE Within == \A m \in Mint : moved[m] >= Limit(c)[m]
<1>8. (Within => u = Receive(t, moved)) /\ (~Within => u = Failed(t))
  BY <1>4, <1>6, RemoveExecute
<1>9. /\ u \in Wallet
      /\ u.status = "ok" =>
             /\ Sound(u)
             /\ Within
             /\ u.sol = w.sol
             /\ u.held = [m \in Mint |-> w.held[m] + moved[m]]
             /\ u.atas = t.atas
  <2>1. CASE Within
    <3>1. u = Receive(t, moved)
      BY <1>8, <2>1
    <3>2. u \in Wallet /\ (u.status = "ok" => Sound(u))
      BY <1>1, <1>7, <3>1, ReceiveSound
    <3>3. u.status = "ok" =>
              /\ u.sol = t.sol
              /\ u.held = [m \in Mint |-> t.held[m] + moved[m]]
              /\ u.atas = t.atas
      BY <1>1, <1>6, <3>1, ReceiveResult
    <3> QED
      BY <1>6, <2>1, <3>2, <3>3
  <2>2. CASE ~Within
    <3>1. u = Failed(t)
      BY <1>8, <2>2
    <3> QED
      BY <1>6, <3>1, FailedWallet
  <2> QED
    BY <2>1, <2>2
<1>10. u.status = "ok" => \A m \in Mints(moved) : moved[m] >= Given(c, m)
  BY <1>1, <1>9
<1> HIDE DEF Within
<1>11. Instructions(c) = <<CreateAta(PoolOf(c)[1]), CreateAta(PoolOf(c)[2]),
                           PoolIns("remove_liquidity", PoolOf(c), Limit(c))>>
                         \o (IF Names(c, SOL_MINT) THEN CloseWsol ELSE <<>>)
  BY DEF Instructions, RemoveLiquidityTx, Names
<1>12. CASE ~Names(c, SOL_MINT)
  <2>1. v = u
    BY <1>2, <1>3, <1>4, <1>11, <1>12, RunThree
  <2> QED
    BY <1>9, <1>10, <1>12, <2>1
<1>13. CASE Names(c, SOL_MINT)
  <2>1. Instructions(c) = <<CreateAta(PoolOf(c)[1]), CreateAta(PoolOf(c)[2]),
                            PoolIns("remove_liquidity", PoolOf(c), Limit(c))>>
                          \o <<Ins("sync_native", Nothing), Ins("close_wsol", Nothing)>>
    BY <1>11, <1>13 DEF CloseWsol
  <2>2. PICK p : p = Execute(u, Ins("sync_native", Nothing), moved)
    OBVIOUS
  <2>3. v = Execute(p, Ins("close_wsol", Nothing), moved)
    BY <1>2, <1>3, <1>4, <2>1, <2>2, RunFive
  <2>4. CASE u.status = "failed"
    <3>1. p = u
      BY <2>2, <2>4, ExecuteFailed
    <3>2. v = u
      BY <2>3, <2>4, <3>1, ExecuteFailed
    <3> QED
      BY <1>9, <2>4, <3>2
  <2>5. CASE u.status = "ok"
    <3>1. WSOL \in {PostSol(c.x), PostSol(c.y)}
      BY <1>13 DEF Names, PostSol
    <3>2. WSOL \in u.atas /\ WSOL \in Mint
      BY <1>6, <1>9, <2>5, <3>1, PoolAmounts, NativeMint
    <3>3. w.held \in [Mint -> Nat] /\ u.held \in [Mint -> Nat] /\ w.sol \in Nat
      BY <1>9, WalletParts DEF Sound
    <3>4. u.held[WSOL] = w.held[WSOL] + moved[WSOL] /\ u.unsynced = 0
      BY <1>9, <2>5, <3>2 DEF Sound
    <3>5. /\ p \in Wallet /\ p.status = "ok" /\ p.sol = u.sol /\ p.unsynced = 0
          /\ p.held = [u.held EXCEPT ![WSOL] = @ + u.unsynced] /\ p.atas = u.atas
      BY <1>9, <2>2, <2>5, <3>2, ExecuteSync
    <3>6. p.held = u.held
      BY <3>2, <3>3, <3>4, <3>5
    <3>7. /\ v \in Wallet /\ v.status = "ok"
          /\ v.sol = p.sol + p.held[WSOL] + p.unsynced
          /\ v.unsynced = 0
          /\ v.held = [p.held EXCEPT ![WSOL] = 0]
          /\ v.atas = p.atas \ {WSOL}
      <4>1. p \in Wallet /\ p.status = "ok" /\ WSOL \in p.atas
        BY <3>2, <3>5
      <4> QED
        BY <2>3, <4>1, ExecuteClose
    <3>8. \A m \in Mint : v.held[m] > 0 => m \in v.atas
      <4>1. ASSUME NEW m \in Mint, v.held[m] > 0 PROVE m \in v.atas
        <5>1. m # WSOL
          BY <3>3, <3>6, <3>7, <4>1
        <5>2. u.held[m] > 0
          BY <3>3, <3>6, <3>7, <4>1, <5>1
        <5>3. m \in u.atas
          BY <1>9, <2>5, <5>2 DEF Sound
        <5> QED
          BY <3>5, <3>7, <5>1, <5>3
      <4> QED
        BY <4>1
    <3>9. Sound(v)
      BY <3>7, <3>8 DEF Sound
    <3>10. moved[WSOL] \in Nat /\ w.held[WSOL] \in Nat
      BY <1>1, <3>2, <3>3
    <3>11. v.sol = w.sol + w.held[WSOL] + moved[WSOL]
      BY <1>9, <2>5, <3>3, <3>4, <3>5, <3>6, <3>7, <3>10
    <3> QED
      BY <1>10, <2>5, <3>7, <3>9, <3>11
  <2> QED
    BY <1>9, <2>4, <2>5 DEF Wallet
<1> QED
  BY <1>12, <1>13

-----------------------------------------------------------------------------
(***************************************************************************)
(* The invariant: the wallet is sound, what is sent is valid, and the last *)
(* transaction was a run of a valid call on a sound wallet.                *)
(***************************************************************************)
LastRun ==
    /\ Valid(last.call)
    /\ Sound(last.before)
    /\ last.moved \in Moved(last.call)
    /\ last.after = Run(last.before, last.call, last.moved)

Inv ==
    /\ Sound(wallet)
    /\ \A c \in sent : Valid(c)
    /\ (last.before = last.after /\ last.after.status = "ok") \/ LastRun

LEMMA RunSound ==
    ASSUME NEW c, Valid(c), NEW w, Sound(w), NEW moved \in Moved(c), NEW v, v = Run(w, c, moved)
    PROVE  v.status = "ok" => Sound(v)
<1>1. c.method \in {"swap_tx", "add_liquidity_tx", "remove_liquidity_tx", "initialize_pool_tx"}
  BY DEF Valid, Call
<1> QED
  BY <1>1, SwapRun, LiquidityRun, RemoveRun

LEMMA InitInv == Init => Inv
<1> SUFFICES ASSUME Init PROVE Inv
  OBVIOUS
<1>1. PICK atas \in {Mint, Mint \ {WSOL}}, pools \in PoolSets :
          wallet = [sol |-> Wealth, unsynced |-> 0, status |-> "ok", atas |-> atas,
                    orders |-> {}, pools |-> pools,
                    held |-> [m \in Mint |-> IF m \in atas THEN Wealth ELSE 0]]
  BY DEF Init
<1>2. Wealth \in Nat /\ pools \subseteq PoolKey
  BY TransactionAssumption DEF TransactionAssumption
<1>3. wallet \in Wallet
  BY <1>1, <1>2 DEF Wallet
<1>4. \A m \in Mint : wallet.held[m] > 0 => m \in wallet.atas
  BY <1>1, <1>2
<1>5. Sound(wallet)
  BY <1>1, <1>3, <1>4 DEF Sound
<1>6. last.before = wallet /\ last.after = wallet /\ sent = {}
  BY DEF Init
<1> QED
  BY <1>5, <1>6 DEF Inv, Sound

\* One step per action.
LEMMA NextInv == Inv /\ [Next]_vars => Inv'
<1> SUFFICES ASSUME Inv, [Next]_vars PROVE Inv'
  OBVIOUS
<1>1. ASSUME NEW c \in Call, Build(c) PROVE Inv'
  BY <1>1 DEF Inv, Build, LastRun, Valid
<1>2. ASSUME NEW c \in sent, Land(c) PROVE Inv'
  <2>1. PICK moved \in Moved(c) :
            /\ wallet' = IF Run(wallet, c, moved).status = "ok" THEN Run(wallet, c, moved) ELSE wallet
            /\ last' = [call |-> c, moved |-> moved, before |-> wallet,
                        after |-> Run(wallet, c, moved)]
    BY <1>2 DEF Land
  <2>2. Valid(c) /\ Sound(wallet)
    BY DEF Inv
  <2>3. Sound(wallet')
    BY <2>1, <2>2, RunSound
  <2>4. sent' \subseteq sent
    BY <1>2 DEF Land
  <2>5. /\ last'.call = c /\ last'.moved = moved /\ last'.before = wallet
        /\ last'.after = Run(wallet, c, moved)
    BY <2>1
  <2>6. LastRun'
    BY <2>2, <2>5 DEF LastRun
  <2>7. \A d \in sent' : Valid(d)
    BY <2>4 DEF Inv
  <2> QED
    BY <2>3, <2>6, <2>7 DEF Inv
<1>3. ASSUME NEW c \in sent, Lose(c) PROVE Inv'
  BY <1>3 DEF Inv, Lose, LastRun
<1>4. ASSUME Unwrap PROVE Inv'
  <2>1. /\ WSOL \in wallet.atas
        /\ wallet' = Execute(wallet, Ins("close_wsol", Nothing), Nothing)
        /\ sent' = sent /\ last' = last
    BY <1>4 DEF Unwrap, CloseWsol
  <2>2. wallet \in Wallet /\ wallet.status = "ok"
    BY DEF Inv, Sound
  <2>3. /\ wallet' \in Wallet /\ wallet'.status = "ok" /\ wallet'.unsynced = 0
        /\ wallet'.held = [wallet.held EXCEPT ![WSOL] = 0]
        /\ wallet'.atas = wallet.atas \ {WSOL}
    BY <2>1, <2>2, ExecuteClose
  <2>4. ASSUME NEW m \in Mint, wallet'.held[m] > 0 PROVE m \in wallet'.atas
    <3>1. wallet.held \in [Mint -> Nat]
      BY <2>2, WalletParts
    <3>2. m # WSOL /\ wallet.held[m] > 0
      BY <2>3, <2>4, <3>1
    <3> QED
      BY <2>3, <3>2 DEF Inv, Sound
  <2>5. Sound(wallet')
    BY <2>3, <2>4 DEF Sound
  <2> QED
    BY <2>1, <2>5 DEF Inv, LastRun
<1>5. ASSUME NEW k \in wallet.orders, CloseOrder(k) PROVE Inv'
  <2>1. PICK m \in {k[1], k[2]}, n \in Amount \cup {0}, deposit \in {0, Deposit} :
            wallet' = Receive([wallet EXCEPT !.orders = @ \ {k},
                                             !.atas = @ \cup Mints([Of(m, n) EXCEPT ![WSOL] = @ + deposit])],
                              [Of(m, n) EXCEPT ![WSOL] = @ + deposit])
    BY <1>5 DEF CloseOrder
  <2>2. sent' = sent /\ last' = last
    BY <1>5 DEF CloseOrder
  <2> DEFINE paid == [Of(m, n) EXCEPT ![WSOL] = @ + deposit]
             w == [wallet EXCEPT !.orders = @ \ {k}, !.atas = @ \cup Mints(paid)]
  <2>3. paid \in [Mint -> Nat]
    <3>1. n \in Nat /\ deposit \in Nat
      BY TransactionAssumption DEF TransactionAssumption
    <3>2. Of(m, n) \in [Mint -> Nat]
      BY <3>1 DEF Of, Nothing
    <3> QED
      BY <3>1, <3>2, NativeMint
  <2>4. wallet' = Receive(w, paid)
    BY <2>1
  <2> HIDE DEF paid
  <2>5. Mints(paid) \subseteq Mint
    BY DEF Mints
  <2>6. Sound(w) /\ w.atas = wallet.atas \cup Mints(paid)
    <3>1. Sound(wallet)
      BY DEF Inv
    <3>2. wallet \in Wallet
      BY <3>1 DEF Sound
    <3>3. /\ w.unsynced = wallet.unsynced /\ w.status = wallet.status /\ w.held = wallet.held
          /\ w.atas = wallet.atas \cup Mints(paid)
      BY <3>2 DEF Wallet
    <3>4. w \in Wallet
      BY <2>5, <3>2 DEF Wallet
    <3> HIDE DEF w
    <3> QED
      BY <3>1, <3>3, <3>4 DEF Sound
  <2> HIDE DEF w
  <2>7. wallet'.status = "ok"
    BY <2>3, <2>4, <2>6, ReceiveResult DEF Sound
  <2>8. Sound(wallet')
    BY <2>3, <2>4, <2>6, <2>7, ReceiveSound
  <2> QED
    BY <2>2, <2>8 DEF Inv, LastRun
<1>6. CASE UNCHANGED vars
  BY <1>6 DEF vars, Inv, LastRun
<1> QED
  BY <1>1, <1>2, <1>3, <1>4, <1>5, <1>6 DEF Next

-----------------------------------------------------------------------------
(***************************************************************************)
(* Theorems.                                                               *)
(***************************************************************************)
\* Between transactions the wallet is sound and the last transaction was a run
\* of a valid call on a sound wallet, whatever was built, lost or landed.
THEOREM AlwaysSound == Spec => []Inv
BY InitInv, NextInv, PTL DEF Spec

\* Of either token a pool takes at most, or gives at least, what was given for it.
THEOREM AmountsAreBounded == Spec => []AmountsFollowTokens
<1>1. Inv => AmountsFollowTokens
  <2> SUFFICES ASSUME Inv, Landed PROVE AmountsFollowTokens
    BY DEF AmountsFollowTokens
  <2>1. LastRun /\ last.after.status = "ok"
    BY DEF Inv, Landed
  <2>2. last.call.method = "add_liquidity_tx" =>
            \A t \in Mints(last.moved) : last.moved[t] <= Given(last.call, t)
    BY <2>1, LiquidityRun DEF LastRun
  <2>3. last.call.method = "remove_liquidity_tx" =>
            \A t \in Mints(last.moved) : last.moved[t] >= Given(last.call, t)
    BY <2>1, RemoveRun DEF LastRun
  <2> QED
    BY <2>2, <2>3 DEF AmountsFollowTokens
<1> QED
  BY <1>1, AlwaysSound, PTL

\* A swap of native SOL takes its amount in lamports, and the deposit alone from
\* the wrapped SOL of the signer.
THEOREM SwapsSpendNativeSol == Spec => []SwapSpendsNativeSol
<1>1. Inv => SwapSpendsNativeSol
  BY SwapRun DEF Inv, Landed, LastRun, Spent, SwapSpendsNativeSol
<1> QED
  BY <1>1, AlwaysSound, PTL

\* A swap of native SOL lands if the signer has the lamports, the deposit and no
\* order in the pool when it runs.
THEOREM FundedSwapsLand == Spec => []FundedSwapLands
<1>1. Inv => FundedSwapLands
  <2> SUFFICES ASSUME Inv PROVE FundedSwapLands
    OBVIOUS
  <2>1. CASE last.after.status = "ok"
    BY <2>1 DEF FundedSwapLands
  <2>2. CASE LastRun
    <3>1. ASSUME last.call.method = "swap_tx", last.call.x = SOL_MINT,
                 CanSwap(last.call, last.before)
          PROVE  last.after.status = "ok"
      <4>1. /\ Valid(last.call) /\ Sound(last.before)
            /\ last.after = Run(last.before, last.call, last.moved)
        BY <2>2 DEF LastRun
      <4> QED
        BY <3>1, <4>1, SwapRun
    <3> QED
      BY <3>1 DEF CanSwap, FundedSwapLands
  <2> QED
    BY <2>1, <2>2 DEF Inv
<1> QED
  BY <1>1, AlwaysSound, PTL

\* Liquidity in native SOL that can be paid for is added, its tokens in order.
THEOREM FundedLiquidityIsAdded == Spec => []FundedLiquidityLands
<1>1. Inv => FundedLiquidityLands
  <2> SUFFICES ASSUME Inv PROVE FundedLiquidityLands
    OBVIOUS
  <2>1. CASE last.after.status = "ok"
    BY <2>1 DEF FundedLiquidityLands
  <2>2. CASE LastRun
    <3>1. last.call.method \in {"add_liquidity_tx", "initialize_pool_tx"} =>
              (Funded(last.call, last.before, last.moved) => last.after.status = "ok")
      BY <2>2, LiquidityRun DEF LastRun
    <3> QED
      BY <3>1 DEF Funded, FundedLiquidityLands
  <2> QED
    BY <2>1, <2>2 DEF Inv
<1> QED
  BY <1>1, AlwaysSound, PTL

\* Liquidity taken out in native SOL leaves nothing wrapped.
THEOREM RemovalsUnwrap == Spec => []RemovalUnwraps
<1>1. Inv => RemovalUnwraps
  BY RemoveRun DEF Inv, Landed, LastRun, RemovalUnwraps
<1> QED
  BY <1>1, AlwaysSound, PTL

\* No lamports are left unsynced on the wrapped SOL account.
THEOREM NothingIsStranded == Spec => []NothingStranded
<1>1. Inv => NothingStranded
  BY DEF Inv, Sound, NothingStranded
<1> QED
  BY <1>1, AlwaysSound, PTL
=============================================================================
