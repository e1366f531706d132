------------------------------ MODULE Addresses ------------------------------
(***************************************************************************)
(* Public keys and the addresses derived from them.                        *)
(*                                                                         *)
(* A mint is the natural number its 32 bytes spell: Pubkey is ordered      *)
(* bytewise, so `<` on pubkeys is `<` on these numbers.  An address made   *)
(* by Pubkey::find_program_address is the tuple of the seeds that vary:    *)
(* the constant seeds keep the families of addresses apart, and within a   *)
(* family the derivation is injective (a hash without collisions).         *)
(***************************************************************************)
EXTENDS Naturals

CONSTANTS Mint,      \* the token mints that pools are made of
          User,      \* the wallets that trade, provide liquidity or settle
          SOL_MINT,  \* the pseudo mint a caller passes to mean native SOL
          WSOL       \* native_mint::ID, the mint of wrapped SOL

ASSUME AddressAssumption ==
    /\ Mint \subseteq Nat \ {0}
    /\ WSOL \in Mint
    /\ SOL_MINT \in Nat \ ({0} \cup Mint)

\* What a caller may pass where a `_tx` function or quote expects a token.
Token == Mint \cup {SOL_MINT}

\* Every `_tx` function first replaces SOL by wrapped SOL.
PostSol(t) == IF t = SOL_MINT THEN WSOL ELSE t

\* The pool of two mints: the pair is sorted before the address is derived.
GetPoolAddress(x, y) == IF x < y THEN <<x, y>> ELSE <<y, x>>

\* Pubkey::default() where a pool key is expected; no two mints derive it.
DefaultPool == <<0, 0>>

PoolKey == (Mint \X Mint) \cup {DefaultPool}

\* One order account per pool and trader, whatever the order.
OrderAddress(pool, user) == <<pool, user>>
=============================================================================
