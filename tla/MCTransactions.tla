--------------------------- MODULE MCTransactions ---------------------------
(***************************************************************************)
(* Transactions for TLC: wrapped SOL sorts before one of the other mints   *)
(* and after the other.                                                    *)
(***************************************************************************)
EXTENDS Transactions

MCMint == {2, 3, 5}
MCWSOL == 3
MCSOL_MINT == 1

\* No pool, or every pool of wrapped SOL.  A pool is made by a first call, or was
\* there; in either case a second call can use it or try to make it again.
MCPoolSets == {{}, {<<2, 3>>, <<3, 5>>}}
=============================================================================
