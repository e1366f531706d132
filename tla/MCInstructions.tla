--------------------------- MODULE MCInstructions ---------------------------
(***************************************************************************)
(* Instructions for TLC: a byte is a bit, a u64 two of them, a field       *)
(* element two words; 13 is the prime, 16 = R and 16 * 9 = 1 modulo 13.    *)
(* The strings have the lengths of the code.                               *)
(***************************************************************************)
EXTENDS Instructions

CONSTANTS TOKEN_A, TOKEN_B

MCMint == {2, 3, 5}
MCWSOL == 3
MCSOL_MINT == 1
MCPool == {<<2, 3>>, <<3, 5>>}
MCProgramOf == (2 :> TOKEN_A) @@ (3 :> TOKEN_A) @@ (5 :> TOKEN_B)

MCPoseidon(a, b) == (3 * a + 5 * b + a * b + 7) % 13

MCPrefix == [i \in 1..7 |-> 7]
MCComma == <<8>>

String(length) == [i \in 1..length |-> 9]

\* Lengths at the limits, and past them, and a label that ends in a zero.
MCGiven ==
    {[label |-> l, ref_code |-> r] :
        l \in {None, Some(String(10)), Some(String(11))}, r \in {None, Some(String(20))}}
    \cup {[label |-> Some(<<>>), ref_code |-> Some(String(21))],
          [label |-> Some(<<9, 0>>), ref_code |-> None]}

MCSecret ==
    {[min_out |-> 1, salt |-> <<1, 0>>], [min_out |-> 1, salt |-> <<0, 1>>],
     [min_out |-> 3, salt |-> <<0, 1>>]}

MCProofs ==
    {[a |-> [x |-> 1, y |-> 4], b |-> [x |-> [c0 |-> 1, c1 |-> 6], y |-> [c0 |-> 0, c1 |-> 9]],
      c |-> [x |-> 10, y |-> 7]]}
=============================================================================
