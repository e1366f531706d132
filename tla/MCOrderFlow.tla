---------------------------- MODULE MCOrderFlow ----------------------------
(***************************************************************************)
(* OrderFlow for TLC.                                                      *)
(***************************************************************************)
EXTENDS OrderFlow, TLC

CONSTANTS s1, p1, p2

OneSettler == {s1}
TwoPools == {p1, p2}

\* Pools differ in nothing but their names.
PoolSymmetry == Permutations(TwoPools)
=============================================================================
