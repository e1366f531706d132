-------------------------------- MODULE Codec --------------------------------
(***************************************************************************)
(* Numbers, field elements and strings as the bytes that travel between    *)
(* the client, the circuits and the program.                               *)
(*                                                                         *)
(* A byte has Base values, a u64 WordBytes bytes, a field element Limbs    *)
(* words; u64s and field elements are natural numbers below the bounds     *)
(* this sets.  A byte string is a sequence, most of them of BufferBytes.   *)
(***************************************************************************)
EXTENDS Naturals, Sequences, SequencesExt

CONSTANTS Base,           \* 256
          WordBytes,      \* 8
          Limbs,          \* 4
          P,              \* the prime of the scalar field Fr of BN254
          Ri,             \* the inverse modulo P of R, below
          Q,              \* the prime of the base field Fq, of coordinates
          Poseidon(_, _)  \* external: the hash of two field elements

BufferBytes == WordBytes * Limbs

\* Base to the power n.
Power[n \in Nat] == IF n = 0 THEN 1 ELSE Base * Power[n - 1]

Word == 0..(Power[WordBytes] - 1)

Fr == 0..(P - 1)

\* A field element z is held in memory as z * R modulo P (Montgomery form).
R == Power[BufferBytes]

ASSUME CodecAssumption ==
    /\ {Base, WordBytes, Limbs, P, Q} \subseteq Nat \ {0, 1}
    /\ P < R
    /\ Q < R
    /\ Ri \in Nat /\ (R * Ri) % P = 1
    /\ \A min_out, salt \in Word : Poseidon(min_out % P, salt % P) \in Fr

-----------------------------------------------------------------------------
(***************************************************************************)
(* Positional notation.                                                    *)
(***************************************************************************)
FromLe(bytes) ==
    LET value[i \in 0..Len(bytes)] ==
            IF i = 0 THEN 0 ELSE value[i - 1] + bytes[i] * Power[i - 1]
    IN  value[Len(bytes)]

ToLe(n, width) == [i \in 1..width |-> (n \div Power[i - 1]) % Base]

\* u64::from_le_bytes and u64::to_le_bytes.
FromWord(bytes) == FromLe(bytes)
ToWord(n) == ToLe(n, WordBytes)

LimbsOf(n) == [i \in 1..Limbs |-> (n \div Power[WordBytes * (i - 1)]) % Power[WordBytes]]

\* Each word at its own place in the output.
U64ArrayToU8ArrayLe(limbs) ==
    [i \in 1..(WordBytes * Len(limbs)) |->
        ToWord(limbs[((i - 1) \div WordBytes) + 1])[((i - 1) % WordBytes) + 1]]

\* What the hexadecimal string of a number, padded to the width of a buffer,
\* decodes to; and back.
To32ByteBuffer(n) == Reverse(ToLe(n, BufferBytes))
From32ByteBuffer(buffer) == FromLe(Reverse(buffer))

\* A mutation of BigintToBytesBe: every word is turned round by itself.
BigintWordsBe(limbs) == FlattenSeq([i \in DOMAIN limbs |-> Reverse(ToWord(limbs[i]))])

BigintToBytesBe(limbs) == Reverse(U64ArrayToU8ArrayLe(limbs))

-----------------------------------------------------------------------------
(***************************************************************************)
(* The commitment to a minimum: c_min of a swap, and of its order.         *)
(***************************************************************************)
\* The words of the hash as they lie in memory: in Montgomery form.
ComputePoseidonHashWithSalt(min_out, salt) ==
    LimbsOf((Poseidon(min_out % P, FromWord(salt) % P) * R) % P)

\* A mutation of BytesToBigint: the Montgomery form is taken for the number.
BytesToBigintPlain(bytes) == FromLe(bytes) % P

\* Out of the Montgomery form.
BytesToBigint(bytes) == (FromLe(bytes) * Ri) % P

CommitmentBytes(min_out, salt) ==
    To32ByteBuffer(BytesToBigint(U64ArrayToU8ArrayLe(ComputePoseidonHashWithSalt(min_out, salt))))

-----------------------------------------------------------------------------
(***************************************************************************)
(* A proof: points a and c of G1, with coordinates in Fq, and b of G2,     *)
(* with coordinates c0 + c1 * u.                                           *)
(***************************************************************************)
G1 == [x : 1..(Q - 1), y : 1..(Q - 1)]
Fq2 == [c0 : 0..(Q - 1), c1 : 0..(Q - 1)]
Proof == [a : G1, b : [x : Fq2, y : Fq2], c : G1]

Neg(point) == [point EXCEPT !.y = Q - @]

FqBytes(n) == BigintToBytesBe(LimbsOf(n))

G1Uncompressed(point) == FqBytes(point.x) \o FqBytes(point.y)

NegateAndSerializeG1(point) == G1Uncompressed(Neg(point))

G2Uncompressed(point) ==
    FqBytes(point.x.c1) \o FqBytes(point.x.c0) \o FqBytes(point.y.c1) \o FqBytes(point.y.c0)

\* The parts of a GeneratedProof.
ConvertProofToSolanaProof(proof, real_out, commitment) ==
    [proof_a |-> NegateAndSerializeG1(proof.a),
     proof_b |-> G2Uncompressed(proof.b),
     proof_c |-> G1Uncompressed(proof.c),
     public_signals |-> <<To32ByteBuffer(real_out), To32ByteBuffer(commitment)>>]

-----------------------------------------------------------------------------
(***************************************************************************)
(* Strings: a character is one or more bytes, and what counts is bytes.    *)
(* Failure stands for an Err.                                              *)
(***************************************************************************)
Failure == <<"Err">>

ConvertStringToBytesArray(string, length) ==
    IF Len(string) > length THEN Failure
    ELSE [i \in 1..length |-> IF i <= Len(string) THEN string[i] ELSE 0]
=============================================================================
