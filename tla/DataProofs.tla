----------------------------- MODULE DataProofs ------------------------------
(***************************************************************************)
(* Proofs about the data of Instructions, for any base, widths, pools,     *)
(* amounts and strings: the program reads what the builders were given,    *)
(* the commitment of a swap and the proof that answers it survive the way  *)
(* through bytes, and so do the label and the referral code.               *)
(***************************************************************************)
EXTENDS InstructionsProofs, CodecProofs

-----------------------------------------------------------------------------
(***************************************************************************)
(* A field at the head of some bytes.                                      *)
(***************************************************************************)
Bytes == Seq(Nat)

LEMMA CatBytes ==
    ASSUME NEW s \in Bytes, NEW t \in Bytes
    PROVE  /\ Cat(s, t) \in Bytes
           /\ Len(Cat(s, t)) = Len(s) + Len(t)
           /\ \A i \in 1..Len(s) : Cat(s, t)[i] = s[i]
           /\ SubSeq(Cat(s, t), 1, Len(s)) = s
           /\ SubSeq(Cat(s, t), Len(s) + 1, Len(Cat(s, t))) = t
           /\ Cat(s, <<>>) = s
  BY DEF Bytes, Cat

LEMMA CatAssociative ==
    ASSUME NEW s \in Bytes, NEW t \in Bytes, NEW u \in Bytes
    PROVE  Cat(Cat(s, t), u) = Cat(s, Cat(t, u))
  BY DEF Bytes, Cat

LEMMA ByteStrings == Seq(Byte) \subseteq Bytes
  BY BaseType DEF Bytes, Byte

\* The bytes e are how a value of this kind is written.
Encodes(kind, e, value) ==
    /\ e \in Bytes
    /\ \A tail \in Bytes : Field(kind, Cat(e, tail)) = value /\ After(kind, Cat(e, tail)) = tail

LEMMA FixedWidth ==
    ASSUME NEW kind, NEW e \in Bytes, \A tail \in Bytes : Width(kind, Cat(e, tail)) = Len(e)
    PROVE  \A tail \in Bytes :
               /\ SubSeq(Cat(e, tail), 1, Width(kind, Cat(e, tail))) = e
               /\ After(kind, Cat(e, tail)) = tail
  BY CatBytes DEF After

LEMMA EncodesWord ==
    ASSUME NEW n \in Word
    PROVE  Encodes("u64", ToWord(n), n)
  <1> DEFINE e == ToWord(n)
  <1>1. n \in Nat
    BY Widths, PowerFacts DEF Word
  <1>2. e \in Bytes /\ Len(e) = WordBytes
    BY <1>1, Widths, ToLeType, ByteStrings DEF ToWord
  <1>3. FromLe(e) = n
    BY FromWordOfToWord DEF FromWord
  <1> HIDE DEF e
  <1>4. \A bytes : Width("u64", bytes) = WordBytes
    BY DEF Width
  <1>5. \A bytes : Field("u64", bytes) = FromLe(SubSeq(bytes, 1, Width("u64", bytes)))
    BY DEF Field
  <1>6. \A tail \in Bytes :
            /\ SubSeq(Cat(e, tail), 1, Width("u64", Cat(e, tail))) = e
            /\ After("u64", Cat(e, tail)) = tail
    BY <1>2, <1>4, FixedWidth
  <1>7. Encodes("u64", e, n)
    BY <1>2, <1>3, <1>5, <1>6 DEF Encodes
  <1> QED
    BY <1>7 DEF e

LEMMA EncodesBool ==
    ASSUME NEW b \in BOOLEAN
    PROVE  Encodes("bool", BoolByte(b), b)
  <1> DEFINE e == BoolByte(b)
             n == IF b THEN 1 ELSE 0
  <1>1. e = <<n>>
    BY DEF BoolByte
  <1>2. n \in Nat /\ b = (n = 1)
    OBVIOUS
  <1> HIDE DEF e, n
  <1>3. e \in Bytes /\ Len(e) = 1 /\ e[1] = n
    BY <1>1, <1>2 DEF Bytes
  <1>4. \A tail \in Bytes : Width("bool", Cat(e, tail)) = Len(e)
    BY <1>3 DEF Width
  <1>5. \A tail \in Bytes :
            /\ SubSeq(Cat(e, tail), 1, Width("bool", Cat(e, tail))) = e
            /\ After("bool", Cat(e, tail)) = tail
    BY <1>3, <1>4, FixedWidth
  <1>6. \A bytes : Field("bool", bytes) = (SubSeq(bytes, 1, Width("bool", bytes))[1] = 1)
    BY DEF Field
  <1>7. \A tail \in Bytes : Field("bool", Cat(e, tail)) = b
    <2> SUFFICES ASSUME NEW tail \in Bytes
                 PROVE  Field("bool", Cat(e, tail)) = b
      OBVIOUS
    <2>1. SubSeq(Cat(e, tail), 1, Width("bool", Cat(e, tail)))[1] = n
      BY <1>3, <1>5
    <2> QED
      BY <1>2, <1>6, <2>1
  <1>8. Encodes("bool", e, b)
    BY <1>3, <1>5, <1>7 DEF Encodes
  <1> QED
    BY <1>8 DEF e

LEMMA EncodesBuffer ==
    ASSUME NEW kind \in {"buffer", "g1", "g2"}, NEW e \in Bytes,
           Len(e) = (CASE kind = "buffer" -> BufferBytes
                       [] kind = "g1" -> 2 * BufferBytes
                       [] kind = "g2" -> 4 * BufferBytes)
    PROVE  Encodes(kind, e, e)
  <1>1. \A bytes : Width(kind, bytes) = Len(e)
    BY DEF Width
  <1>2. \A bytes : Field(kind, bytes) = SubSeq(bytes, 1, Width(kind, bytes))
    BY DEF Field
  <1>3. \A tail \in Bytes :
            /\ SubSeq(Cat(e, tail), 1, Width(kind, Cat(e, tail))) = e
            /\ After(kind, Cat(e, tail)) = tail
    BY <1>1, FixedWidth
  <1>4. \A tail \in Bytes : Field(kind, Cat(e, tail)) = e
    BY <1>2, <1>3
  <1> QED
    BY <1>3, <1>4 DEF Encodes

\* What a client holds: nothing, or a string of a fixed length.
Kept(option, length) ==
    option = None \/ \E bytes \in Bytes : Len(bytes) = length /\ option = Some(bytes)

LEMMA EncodesOption ==
    ASSUME NEW kind \in {"ref_code", "label"}, NEW option,
           Kept(option, IF kind = "label" THEN LabelBytes ELSE RefCodeBytes)
    PROVE  Encodes(kind, BorshOption(option), option)
  <1> DEFINE length == IF kind = "label" THEN LabelBytes ELSE RefCodeBytes
             e == BorshOption(option)
  <1>1. \A bytes : Width(kind, bytes) = IF bytes[1] = 0 THEN 1 ELSE 1 + length
    BY DEF Width
  <1>2. \A bytes : Field(kind, bytes) =
            LET taken == SubSeq(bytes, 1, Width(kind, bytes)) IN
            IF taken[1] = 0 THEN None ELSE Some(Tail(taken))
    BY DEF Field
  <1>3. length \in Nat
    BY DEF LabelBytes, RefCodeBytes
  <1>4. \/ option = None
        \/ \E bytes \in Bytes : Len(bytes) = length /\ option = Some(bytes)
    BY DEF Kept
  <1> HIDE DEF length
  <1>5. /\ e \in Bytes
        /\ Len(e) \in Nat /\ Len(e) >= 1
        /\ Len(e) = IF e[1] = 0 THEN 1 ELSE 1 + length
        /\ option = IF e[1] = 0 THEN None ELSE Some(Tail(e))
    <2>1. CASE option = None
      <3>1. e = <<0>>
        BY <2>1 DEF BorshOption
      <3> QED
        BY <2>1, <3>1 DEF Bytes
    <2>2. CASE \E bytes \in Bytes : Len(bytes) = length /\ option = Some(bytes)
      <3>1. PICK bytes \in Bytes : Len(bytes) = length /\ option = Some(bytes)
        BY <2>2
      <3>2. option # None /\ (CHOOSE b \in option : TRUE) = bytes
        BY <3>1 DEF Some, None
      <3>3. e = <<1>> \o bytes
        BY <3>2 DEF BorshOption
      <3> HIDE DEF e
      <3>4. <<1>> \in Seq(Nat) /\ bytes \in Seq(Nat) /\ Len(<<1>>) = 1 /\ <<1>>[1] = 1
        BY DEF Bytes
      <3>5. e \in Seq(Nat) /\ Len(e) = 1 + length /\ e[1] = 1
        BY <1>3, <3>1, <3>3, <3>4
      <3>6. Tail(e) = bytes
        BY <3>3, <3>4
      <3>7. e[1] # 0
        BY <3>5
      <3>8. Some(Tail(e)) = Some(bytes)
        BY <3>6, Zenon
      <3>9. e \in Bytes /\ Len(e) \in Nat /\ Len(e) >= 1
        BY <1>3, <3>5 DEF Bytes
      <3> QED
        BY <3>1, <3>5, <3>7, <3>8, <3>9
    <2> QED
      BY <1>4, <2>1, <2>2
  <1> HIDE DEF e
  <1>6. \A tail \in Bytes : Cat(e, tail)[1] = e[1]
    <2>1. 1 \in 1..Len(e)
      BY <1>5
    <2> QED
      BY <1>5, <2>1, CatBytes
  <1>7. \A tail \in Bytes : Width(kind, Cat(e, tail)) = Len(e)
    BY <1>1, <1>5, <1>6
  <1>8. \A tail \in Bytes :
            /\ SubSeq(Cat(e, tail), 1, Width(kind, Cat(e, tail))) = e
            /\ After(kind, Cat(e, tail)) = tail
    BY <1>5, <1>7, FixedWidth
  <1>9. \A tail \in Bytes : Field(kind, Cat(e, tail)) = option
    BY <1>2, <1>5, <1>8
  <1>10. Encodes(kind, e, option)
    BY <1>5, <1>8, <1>9 DEF Encodes
  <1> QED
    BY <1>10 DEF e

-----------------------------------------------------------------------------
(***************************************************************************)
(* Field after field.                                                      *)
(***************************************************************************)
\* What is left before each field, and after the last of n.
Rests(rest, kinds, n, data) ==
    rest = [i \in 0..n |-> IF i = 0 THEN data ELSE After(kinds[i], rest[i - 1])]

LEMMA RestsExist ==
    ASSUME NEW kinds, NEW data, NEW n \in Nat
    PROVE  \E rest : Rests(rest, kinds, n, data)
  <1> DEFINE S == {m \in Nat : \E rest : Rests(rest, kinds, m, data)}
  <1>1. 0 \in S
    <2>1. Rests([i \in 0..0 |-> data], kinds, 0, data)
      BY DEF Rests
    <2> QED
      BY <2>1
  <1>2. ASSUME NEW m \in Nat, m \in S
        PROVE  m + 1 \in S
    <2>1. PICK f : Rests(f, kinds, m, data)
      BY <1>2
    <2> DEFINE g == [i \in 0..(m + 1) |-> IF i = m + 1 THEN After(kinds[m + 1], f[m]) ELSE f[i]]
    <2>2. ASSUME NEW i \in 0..(m + 1)
          PROVE  g[i] = IF i = 0 THEN data ELSE After(kinds[i], g[i - 1])
      <3>1. CASE i = m + 1
        BY <3>1
      <3>2. CASE i \in 0..m
        BY <2>1, <3>2 DEF Rests
      <3> QED
        BY <3>1, <3>2
    <2>3. Rests(g, kinds, m + 1, data)
      BY <2>2 DEF Rests
    <2> QED
      BY <2>3
  <1> HIDE DEF S
  <1>3. Nat \subseteq S
    BY <1>1, <1>2, Induction
  <1> QED
    BY <1>3 DEF S

LEMMA DecodeReads ==
    ASSUME NEW op, NEW data, Len(Kinds[op]) \in Nat
    PROVE  \E rest :
               /\ Rests(rest, Kinds[op], Len(Kinds[op]), data)
               /\ Decode(op, data) =
                      [fields |-> [i \in 1..Len(Kinds[op]) |-> Field(Kinds[op][i], rest[i - 1])],
                       rest |-> rest[Len(Kinds[op])]]
  <1>1. \E rest : Rests(rest, Kinds[op], Len(Kinds[op]), data)
    BY RestsExist
  <1> QED
    BY <1>1 DEF Decode, Rests

\* The bytes s are how the first i of some values are written.
Encoded(kinds, i, s, values) ==
    /\ s \in Bytes
    /\ \A tail \in Bytes, n \in Nat : \A rest :
           Rests(rest, kinds, n, Cat(s, tail)) /\ i <= n =>
               /\ rest[i] = tail
               /\ \A j \in 1..i : Field(kinds[j], rest[j - 1]) = values[j]

LEMMA EncodedFirst ==
    ASSUME NEW kinds, NEW values, NEW e, Encodes(kinds[1], e, values[1])
    PROVE  Encoded(kinds, 1, e, values)
  <1> SUFFICES ASSUME NEW tail \in Bytes, NEW n \in Nat, NEW rest,
                      Rests(rest, kinds, n, Cat(e, tail)), 1 <= n
               PROVE  /\ rest[1] = tail
                      /\ \A j \in 1..1 : Field(kinds[j], rest[j - 1]) = values[j]
    BY DEF Encodes, Encoded
  <1>1. rest[0] = Cat(e, tail) /\ rest[1] = After(kinds[1], rest[0])
    BY DEF Rests
  <1>2. rest[1] = tail /\ Field(kinds[1], rest[0]) = values[1]
    BY <1>1 DEF Encodes
  <1> QED
    BY <1>2

LEMMA EncodedNext ==
    ASSUME NEW kinds, NEW values, NEW i \in Nat, NEW s, NEW e,
           Encoded(kinds, i, s, values), Encodes(kinds[i + 1], e, values[i + 1])
    PROVE  Encoded(kinds, i + 1, Cat(s, e), values)
  <1>1. s \in Bytes /\ e \in Bytes /\ Cat(s, e) \in Bytes
    BY CatBytes DEF Encoded, Encodes
  <1>2. ASSUME NEW tail \in Bytes, NEW n \in Nat, NEW rest,
               Rests(rest, kinds, n, Cat(Cat(s, e), tail)), i + 1 <= n
        PROVE  /\ rest[i + 1] = tail
               /\ \A j \in 1..(i + 1) : Field(kinds[j], rest[j - 1]) = values[j]
    <2>1. Cat(e, tail) \in Bytes
      BY <1>1, CatBytes
    <2>2. Rests(rest, kinds, n, Cat(s, Cat(e, tail))) /\ i <= n
      BY <1>1, <1>2, CatAssociative
    <2>3. /\ rest[i] = Cat(e, tail)
          /\ \A j \in 1..i : Field(kinds[j], rest[j - 1]) = values[j]
      BY <2>1, <2>2 DEF Encoded
    <2>4. rest[i + 1] = After(kinds[i + 1], rest[i])
      <3>1. i + 1 \in 0..n /\ i + 1 # 0 /\ (i + 1) - 1 = i
        BY <1>2
      <3> QED
        BY <2>2, <3>1 DEF Rests
    <2>5. rest[i + 1] = tail /\ Field(kinds[i + 1], rest[i]) = values[i + 1]
      BY <2>3, <2>4 DEF Encodes
    <2>6. \A j \in 1..(i + 1) : j \in 1..i \/ (j = i + 1 /\ j - 1 = i)
      OBVIOUS
    <2> QED
      BY <2>3, <2>5, <2>6
  <1> QED
    BY <1>1, <1>2 DEF Encoded

\* All of them.
LEMMA EncodedAll ==
    ASSUME NEW op, NEW n \in Nat, NEW data, NEW values,
           Len(Kinds[op]) = n, Encoded(Kinds[op], n, data, values),
           DOMAIN values = 1..n, IsList(values)
    PROVE  Decode(op, data) = [fields |-> values, rest |-> <<>>]
  <1>1. PICK rest : /\ Rests(rest, Kinds[op], n, data)
                    /\ Decode(op, data) =
                           [fields |-> [i \in 1..n |-> Field(Kinds[op][i], rest[i - 1])],
                            rest |-> rest[n]]
    BY DecodeReads
  <1>2. data \in Bytes /\ <<>> \in Bytes /\ Cat(data, <<>>) = data
    BY CatBytes DEF Encoded, Bytes
  <1>3. /\ rest[n] = <<>>
        /\ \A j \in 1..n : Field(Kinds[op][j], rest[j - 1]) = values[j]
    BY <1>1, <1>2 DEF Encoded
  <1>4. PICK S : values \in Seq(S)
    BY DEF IsList
  <1>5. values = [i \in 1..n |-> values[i]]
    BY <1>4
  <1>6. [i \in 1..n |-> Field(Kinds[op][i], rest[i - 1])] = values
    BY <1>3, <1>5
  <1> QED
    BY <1>1, <1>3, <1>6

\* A tuple of n values; what the data of an operation is read as.
Tuple(values, n) == IsList(values) /\ DOMAIN values = 1..n

ReadAs(op, data, values) == Decode(op, data) = [fields |-> values, rest |-> <<>>]

LEMMA Tuples ==
    ASSUME NEW v1, NEW v2, NEW v3, NEW v4, NEW v5
    PROVE  /\ Tuple(<<v1>>, 1)
           /\ Tuple(<<v1, v2, v3>>, 3)
           /\ Tuple(<<v1, v2, v3, v4>>, 4)
           /\ Tuple(<<v1, v2, v3, v4, v5>>, 5)
  <1>1. <<v1>> \in Seq({v1}) /\ DOMAIN <<v1>> = 1..1
    OBVIOUS
  <1>2. <<v1, v2, v3>> \in Seq({v1, v2, v3}) /\ DOMAIN <<v1, v2, v3>> = 1..3
    OBVIOUS
  <1>3. /\ <<v1, v2, v3, v4>> \in Seq({v1, v2, v3, v4})
        /\ DOMAIN <<v1, v2, v3, v4>> = 1..4
    OBVIOUS
  <1>4. /\ <<v1, v2, v3, v4, v5>> \in Seq({v1, v2, v3, v4, v5})
        /\ DOMAIN <<v1, v2, v3, v4, v5>> = 1..5
    OBVIOUS
  <1> QED
    BY <1>1, <1>2, <1>3, <1>4 DEF Tuple, IsList

LEMMA OneField ==
    ASSUME NEW op, NEW values, NEW e1,
           Len(Kinds[op]) = 1, Tuple(values, 1),
           Encodes(Kinds[op][1], e1, values[1])
    PROVE  ReadAs(op, e1, values)
  <1>1. Encoded(Kinds[op], 1, e1, values)
    BY EncodedFirst
  <1> QED
    BY <1>1, EncodedAll DEF ReadAs, Tuple

LEMMA ThreeFields ==
    ASSUME NEW op, NEW values, NEW e1, NEW e2, NEW e3,
           Len(Kinds[op]) = 3, Tuple(values, 3),
           Encodes(Kinds[op][1], e1, values[1]), Encodes(Kinds[op][2], e2, values[2]),
           Encodes(Kinds[op][3], e3, values[3])
    PROVE  ReadAs(op, Cat(Cat(e1, e2), e3), values)
  <1> DEFINE s2 == Cat(e1, e2)
             s3 == Cat(s2, e3)
  <1>1. Encoded(Kinds[op], 1, e1, values)
    BY EncodedFirst
  <1>2. Encoded(Kinds[op], 2, s2, values)
    BY <1>1, EncodedNext
  <1> HIDE DEF s2
  <1>3. Encoded(Kinds[op], 3, s3, values)
    BY <1>2, EncodedNext
  <1> HIDE DEF s3
  <1>4. ReadAs(op, s3, values)
    BY <1>3, EncodedAll DEF ReadAs, Tuple
  <1> QED
    BY <1>4 DEF s2, s3

\* The first four, whatever follows.
LEMMA FourEncoded ==
    ASSUME NEW kinds, NEW values, NEW e1, NEW e2, NEW e3, NEW e4,
           Encodes(kinds[1], e1, values[1]), Encodes(kinds[2], e2, values[2]),
           Encodes(kinds[3], e3, values[3]), Encodes(kinds[4], e4, values[4])
    PROVE  Encoded(kinds, 4, Cat(Cat(Cat(e1, e2), e3), e4), values)
  <1> DEFINE s2 == Cat(e1, e2)
             s3 == Cat(s2, e3)
             s4 == Cat(s3, e4)
  <1>1. Encoded(kinds, 1, e1, values)
    BY EncodedFirst
  <1>2. Encoded(kinds, 2, s2, values)
    BY <1>1, EncodedNext
  <1> HIDE DEF s2
  <1>3. Encoded(kinds, 3, s3, values)
    BY <1>2, EncodedNext
  <1> HIDE DEF s3
  <1>4. Encoded(kinds, 4, s4, values)
    BY <1>3, EncodedNext
  <1> QED
    BY <1>4 DEF s2, s3

LEMMA FourFields ==
    ASSUME NEW op, NEW values, NEW e1, NEW e2, NEW e3, NEW e4,
           Len(Kinds[op]) = 4, Tuple(values, 4),
           Encodes(Kinds[op][1], e1, values[1]), Encodes(Kinds[op][2], e2, values[2]),
           Encodes(Kinds[op][3], e3, values[3]), Encodes(Kinds[op][4], e4, values[4])
    PROVE  ReadAs(op, Cat(Cat(Cat(e1, e2), e3), e4), values)
  <1> DEFINE s4 == Cat(Cat(Cat(e1, e2), e3), e4)
  <1>1. Encoded(Kinds[op], 4, s4, values)
    BY FourEncoded
  <1> HIDE DEF s4
  <1>2. ReadAs(op, s4, values)
    BY <1>1, EncodedAll DEF ReadAs, Tuple
  <1> QED
    BY <1>2 DEF s4

LEMMA FiveFields ==
    ASSUME NEW op, NEW values, NEW e1, NEW e2, NEW e3, NEW e4, NEW e5,
           Len(Kinds[op]) = 5, Tuple(values, 5),
           Encodes(Kinds[op][1], e1, values[1]), Encodes(Kinds[op][2], e2, values[2]),
           Encodes(Kinds[op][3], e3, values[3]), Encodes(Kinds[op][4], e4, values[4]),
           Encodes(Kinds[op][5], e5, values[5])
    PROVE  ReadAs(op, Cat(Cat(Cat(Cat(e1, e2), e3), e4), e5), values)
  <1> DEFINE s4 == Cat(Cat(Cat(e1, e2), e3), e4)
             s5 == Cat(s4, e5)
  <1>1. Encoded(Kinds[op], 4, s4, values)
    BY FourEncoded
  <1> HIDE DEF s4
  <1>2. Encoded(Kinds[op], 5, s5, values)
    BY <1>1, EncodedNext
  <1> HIDE DEF s5
  <1>3. ReadAs(op, s5, values)
    BY <1>2, EncodedAll DEF ReadAs, Tuple
  <1> QED
    BY <1>3 DEF s4, s5

-----------------------------------------------------------------------------
(***************************************************************************)
(* Builder by builder.                                                     *)
(***************************************************************************)
ReadsBack(ins) == ReadAs(ins.op, ins.data, ins.params)

LEMMA InstructionFields ==
    ASSUME NEW op, NEW params, NEW data, NEW accounts
    PROVE  LET ins == Instruction(op, params, data, accounts) IN
           /\ ins.op = op /\ ins.params = params /\ ins.data = data
           /\ (ReadsBack(ins) <=> ReadAs(op, data, params))
  BY DEF Instruction, ReadsBack

LEMMA CommitmentType ==
    ASSUME NEW secret \in Secret
    PROVE  /\ CommitmentBytes(secret.min_out, secret.salt) \in Bytes
           /\ Len(CommitmentBytes(secret.min_out, secret.salt)) = BufferBytes
           /\ From32ByteBuffer(CommitmentBytes(secret.min_out, secret.salt)) =
                  Poseidon(secret.min_out % P, FromWord(secret.salt) % P)
           /\ From32ByteBuffer(CommitmentBytes(secret.min_out, secret.salt)) \in Fr
           /\ CommitmentBytes(secret.min_out, secret.salt) =
                  To32ByteBuffer(Poseidon(secret.min_out % P, FromWord(secret.salt) % P))
  <1>1. secret \in [min_out : Word, salt : [1..WordBytes -> 0..(Base - 1)]]
    BY InstructionsAssumption
  <1>2. secret.min_out \in Word /\ secret.salt \in [1..WordBytes -> Byte]
    BY <1>1 DEF Byte
  <1>3. secret.salt \in Seq(Byte) /\ Len(secret.salt) = WordBytes
    BY <1>2, Widths
  <1> QED
    BY <1>2, <1>3, CommitmentIsRead, ByteStrings

\* What a swap's data is put together from, b its direction.
LEMMA SwapDecodes ==
    ASSUME NEW amount_in \in Word, NEW b \in BOOLEAN, NEW c_min \in Bytes,
           Len(c_min) = BufferBytes, NEW label, Kept(label, LabelBytes)
    PROVE  ReadAs("swap",
                  Cat(Cat(Cat(ToWord(amount_in), BoolByte(b)), c_min), BorshOption(label)),
                  <<amount_in, b, c_min, label>>)
  <1> DEFINE values == <<amount_in, b, c_min, label>>
  <1>1. /\ Len(Kinds["swap"]) = 4
        /\ Kinds["swap"][1] = "u64" /\ Kinds["swap"][2] = "bool"
        /\ Kinds["swap"][3] = "buffer" /\ Kinds["swap"][4] = "label"
    BY DEF Kinds
  <1>2. /\ Encodes("u64", ToWord(amount_in), amount_in)
        /\ Encodes("bool", BoolByte(b), b)
        /\ Encodes("buffer", c_min, c_min)
        /\ Encodes("label", BorshOption(label), label)
    BY EncodesWord, EncodesBool, EncodesBuffer, EncodesOption
  <1>3. values[1] = amount_in /\ values[2] = b /\ values[3] = c_min /\ values[4] = label
    OBVIOUS
  <1>4. Tuple(values, 4)
    BY Tuples
  <1> HIDE DEF values
  <1> QED
    BY <1>1, <1>2, <1>3, <1>4, FourFields DEF values

LEMMA SwapReadsBack ==
    ASSUME NEW a, NEW source_mint, NEW u, NEW amount_in \in Word, NEW secret \in Secret,
           NEW label, Kept(label, LabelBytes)
    PROVE  LET ins == GetSwapAndAccountMetas(a, source_mint, u, amount_in, secret, label) IN
           /\ ins.op = "swap"
           /\ ReadsBack(ins)
           /\ ins.params[3] = CommitmentBytes(secret.min_out, secret.salt)
  <1> DEFINE c_min == CommitmentBytes(secret.min_out, secret.salt)
  <1>1. PICK b \in BOOLEAN : b = (source_mint = a.key[1])
    OBVIOUS
  <1> DEFINE params == <<amount_in, b, c_min, label>>
             data == Cat(Cat(Cat(ToWord(amount_in), BoolByte(b)), c_min), BorshOption(label))
             ins == Instruction("swap", params, data, SwapAccounts(a, u))
  <1>2. GetSwapAndAccountMetas(a, source_mint, u, amount_in, secret, label) = ins
    BY <1>1 DEF GetSwapAndAccountMetas, Cat
  <1>3. c_min \in Bytes /\ Len(c_min) = BufferBytes
    BY CommitmentType
  <1> HIDE DEF c_min
  <1>4. ReadAs("swap", data, params)
    BY <1>3, SwapDecodes
  <1>5. params[3] = c_min
    OBVIOUS
  <1> HIDE DEF params, data
  <1>6. ins.op = "swap" /\ ReadsBack(ins) /\ ins.params[3] = c_min
    BY <1>4, <1>5, InstructionFields
  <1> QED
    BY <1>2, <1>6 DEF c_min

LEMMA RemoveLiquidityReadsBack ==
    ASSUME NEW a, NEW u, NEW amount_lp \in Word, NEW min_x \in Word, NEW min_y \in Word,
           NEW label, Kept(label, LabelBytes)
    PROVE  LET ins == GetRemoveLiquidityAndAccountMetas(a, u, amount_lp, min_x, min_y, label) IN
           /\ ReadsBack(ins)
           /\ ins.params[2] = min_x /\ ins.params[3] = min_y
  <1> DEFINE values == <<amount_lp, min_x, min_y, label>>
             data == Cat(Cat(Cat(ToWord(amount_lp), ToWord(min_x)), ToWord(min_y)),
                         BorshOption(label))
             ins == Instruction("remove_liquidity", values, data, RemoveLiquidityAccounts(a, u))
  <1>1. GetRemoveLiquidityAndAccountMetas(a, u, amount_lp, min_x, min_y, label) = ins
    BY DEF GetRemoveLiquidityAndAccountMetas, Cat
  <1>2. /\ Len(Kinds["remove_liquidity"]) = 4
        /\ Kinds["remove_liquidity"][1] = "u64" /\ Kinds["remove_liquidity"][2] = "u64"
        /\ Kinds["remove_liquidity"][3] = "u64" /\ Kinds["remove_liquidity"][4] = "label"
    BY DEF Kinds
  <1>3. /\ Encodes("u64", ToWord(amount_lp), amount_lp)
        /\ Encodes("u64", ToWord(min_x), min_x)
        /\ Encodes("u64", ToWord(min_y), min_y)
        /\ Encodes("label", BorshOption(label), label)
    BY EncodesWord, EncodesOption
  <1>4. values[1] = amount_lp /\ values[2] = min_x /\ values[3] = min_y /\ values[4] = label
    OBVIOUS
  <1>5. Tuple(values, 4)
    BY Tuples
  <1> HIDE DEF values
  <1>6. ReadAs("remove_liquidity", data, values)
    BY <1>2, <1>3, <1>4, <1>5, FourFields
  <1> HIDE DEF data
  <1>7. ReadsBack(ins) /\ ins.params = values
    BY <1>6, InstructionFields
  <1> QED
    BY <1>1, <1>4, <1>7

LEMMA AddLiquidityReadsBack ==
    ASSUME NEW a, NEW u, NEW amount_lp \in Word, NEW max_x \in Word, NEW max_y \in Word,
           NEW ref_code, Kept(ref_code, RefCodeBytes), NEW label, Kept(label, LabelBytes)
    PROVE  LET ins == GetAddLiquidityAndAccountMetas(a, u, amount_lp, max_x, max_y, ref_code, label)
           IN  /\ ReadsBack(ins)
               /\ ins.params[2] = max_x /\ ins.params[3] = max_y
  <1> DEFINE values == <<amount_lp, max_x, max_y, ref_code, label>>
             data == Cat(Cat(Cat(Cat(ToWord(amount_lp), ToWord(max_x)), ToWord(max_y)),
                             BorshOption(ref_code)), BorshOption(label))
             ins == Instruction("add_liquidity", values, data, AddLiquidityAccounts(a, u))
  <1>1. GetAddLiquidityAndAccountMetas(a, u, amount_lp, max_x, max_y, ref_code, label) = ins
    BY DEF GetAddLiquidityAndAccountMetas, Cat
  <1>2. /\ Len(Kinds["add_liquidity"]) = 5
        /\ Kinds["add_liquidity"][1] = "u64" /\ Kinds["add_liquidity"][2] = "u64"
        /\ Kinds["add_liquidity"][3] = "u64" /\ Kinds["add_liquidity"][4] = "ref_code"
        /\ Kinds["add_liquidity"][5] = "label"
    BY DEF Kinds
  <1>3. /\ Encodes("u64", ToWord(amount_lp), amount_lp)
        /\ Encodes("u64", ToWord(max_x), max_x)
        /\ Encodes("u64", ToWord(max_y), max_y)
        /\ Encodes("ref_code", BorshOption(ref_code), ref_code)
        /\ Encodes("label", BorshOption(label), label)
    BY EncodesWord, EncodesOption
  <1>4. /\ values[1] = amount_lp /\ values[2] = max_x /\ values[3] = max_y
        /\ values[4] = ref_code /\ values[5] = label
    OBVIOUS
  <1>5. Tuple(values, 5)
    BY Tuples
  <1> HIDE DEF values
  <1>6. ReadAs("add_liquidity", data, values)
    BY <1>2, <1>3, <1>4, <1>5, FiveFields
  <1> HIDE DEF data
  <1>7. ReadsBack(ins) /\ ins.params = values
    BY <1>6, InstructionFields
  <1> QED
    BY <1>1, <1>4, <1>7

LEMMA InitializePoolReadsBack ==
    ASSUME NEW u, NEW x, NEW y, NEW program_x, NEW program_y,
           NEW amount_x \in Word, NEW amount_y \in Word, NEW label, Kept(label, LabelBytes)
    PROVE  LET ins == GetInitializePoolAndAccountMetas(u, x, y, program_x, program_y,
                                                       amount_x, amount_y, label)
           IN  /\ ReadsBack(ins)
               /\ ins.params[1] = amount_x /\ ins.params[2] = amount_y
  <1> DEFINE values == <<amount_x, amount_y, label>>
             data == Cat(Cat(ToWord(amount_x), ToWord(amount_y)), BorshOption(label))
             ins == Instruction("initialize_pool", values, data,
                                InitializePoolAccounts(<<x, y>>, <<program_x, program_y>>, u))
  <1>1. GetInitializePoolAndAccountMetas(u, x, y, program_x, program_y,
                                         amount_x, amount_y, label) = ins
    BY DEF GetInitializePoolAndAccountMetas, Cat
  <1>2. /\ Len(Kinds["initialize_pool"]) = 3
        /\ Kinds["initialize_pool"][1] = "u64" /\ Kinds["initialize_pool"][2] = "u64"
        /\ Kinds["initialize_pool"][3] = "label"
    BY DEF Kinds
  <1>3. /\ Encodes("u64", ToWord(amount_x), amount_x)
        /\ Encodes("u64", ToWord(amount_y), amount_y)
        /\ Encodes("label", BorshOption(label), label)
    BY EncodesWord, EncodesOption
  <1>4. values[1] = amount_x /\ values[2] = amount_y /\ values[3] = label
    OBVIOUS
  <1>5. Tuple(values, 3)
    BY Tuples
  <1> HIDE DEF values
  <1>6. ReadAs("initialize_pool", data, values)
    BY <1>2, <1>3, <1>4, <1>5, ThreeFields
  <1> HIDE DEF data
  <1>7. ReadsBack(ins) /\ ins.params = values
    BY <1>6, InstructionFields
  <1> QED
    BY <1>1, <1>4, <1>7

LEMMA SlashReadsBack ==
    ASSUME NEW a, NEW signer, NEW owner, NEW label, Kept(label, LabelBytes)
    PROVE  ReadsBack(GetSlashAndAccountMetas(a, signer, owner, label))
  <1> DEFINE values == <<label>>
             ins == Instruction("slash", values, BorshOption(label), SlashAccounts(a, signer, owner))
  <1>1. GetSlashAndAccountMetas(a, signer, owner, label) = ins
    BY DEF GetSlashAndAccountMetas
  <1>2. Len(Kinds["slash"]) = 1 /\ Kinds["slash"][1] = "label"
    BY DEF Kinds
  <1>3. Encodes("label", BorshOption(label), label)
    BY EncodesOption
  <1>4. values[1] = label
    OBVIOUS
  <1>5. Tuple(values, 1)
    BY Tuples
  <1> HIDE DEF values
  <1>6. ReadAs("slash", BorshOption(label), values)
    BY <1>2, <1>3, <1>4, <1>5, OneField
  <1>7. ReadsBack(ins)
    BY <1>6, InstructionFields
  <1> QED
    BY <1>1, <1>7

-----------------------------------------------------------------------------
(***************************************************************************)
(* The points of a proof.                                                  *)
(***************************************************************************)
\* Bytes of n buffers.
Buffers(s, n) == s \in Bytes /\ Len(s) = n * BufferBytes

\* What is read of bytes is not changed by more of them, and the last part is
\* the one that was added.
LEMMA PartOfMore ==
    ASSUME NEW n \in Nat, NEW s, Buffers(s, n), NEW b, Buffers(b, 1)
    PROVE  /\ Buffers(Cat(s, b), n + 1)
           /\ Part(Cat(s, b), n + 1) = From32ByteBuffer(b)
           /\ \A i \in 1..n : Part(Cat(s, b), i) = Part(s, i)
  <1> DEFINE m == BufferBytes
             l == Cat(s, b)
  <1>1. m \in Nat
    BY Widths
  <1> HIDE DEF m
  <1>2. n * m \in Nat /\ (n + 1) * m = n * m + m /\ 1 * m = m
    BY <1>1
  <1>3. s \in Bytes /\ b \in Bytes /\ Len(s) = n * m /\ Len(b) = m
    BY <1>2 DEF Buffers, m
  <1>4. l \in Bytes /\ Len(l) = (n + 1) * m
    BY <1>2, <1>3, CatBytes
  <1>5. SubSeq(l, Len(s) + 1, Len(l)) = b /\ \A j \in 1..Len(s) : l[j] = s[j]
    BY <1>3, CatBytes
  <1> HIDE DEF l
  <1>6. SubSeq(l, ((n + 1) - 1) * m + 1, (n + 1) * m) = b
    <2>1. (n + 1) - 1 = n
      OBVIOUS
    <2>2. ((n + 1) - 1) * m + 1 = Len(s) + 1
      BY <2>1, <1>3
    <2> QED
      BY <2>2, <1>4, <1>5
  <1>7. ASSUME NEW i \in 1..n
        PROVE  SubSeq(l, (i - 1) * m + 1, i * m) = SubSeq(s, (i - 1) * m + 1, i * m)
    <2> DEFINE from == (i - 1) * m + 1
               to == i * m
    <2>1. (i - 1) * m \in Nat /\ i * m \in Nat /\ (n - i) * m \in Nat
      <3>1. i \in Nat /\ i - 1 \in Nat /\ n - i \in Nat
        OBVIOUS
      <3> QED
        BY <3>1, <1>1
    <2>2. n * m = i * m + (n - i) * m
      BY <1>1
    <2>3. i * m <= n * m
      BY <2>1, <2>2, <1>2
    <2>4. from \in Nat /\ from >= 1 /\ to \in Nat /\ to <= Len(s)
      BY <2>1, <2>3, <1>3
    <2> HIDE DEF from, to
    <2>5. SubSeq(l, from, to) = [j \in 1..(1 + to - from) |-> l[j + from - 1]]
      BY <2>4, <1>4 DEF Bytes
    <2>6. SubSeq(s, from, to) = [j \in 1..(1 + to - from) |-> s[j + from - 1]]
      BY <2>4, <1>3 DEF Bytes
    <2>7. \A j \in 1..(1 + to - from) : l[j + from - 1] = s[j + from - 1]
      BY <2>4, <1>3, <1>5 DEF Bytes
    <2>8. SubSeq(l, from, to) = SubSeq(s, from, to)
      BY <2>5, <2>6, <2>7
    <2> QED
      BY <2>8 DEF from, to
  <1> QED
    BY <1>4, <1>6, <1>7 DEF Part, m, l, Buffers

\* A single buffer.
LEMMA PartOfOne ==
    ASSUME NEW b, Buffers(b, 1)
    PROVE  Part(b, 1) = From32ByteBuffer(b)
  <1>1. BufferBytes \in Nat
    BY Widths
  <1>2. (1 - 1) * BufferBytes + 1 = 1 /\ 1 * BufferBytes = BufferBytes
    BY <1>1
  <1>3. b \in Bytes /\ Len(b) = 1 * BufferBytes
    BY DEF Buffers
  <1>4. SubSeq(b, 1, Len(b)) = b
    BY <1>3 DEF Bytes
  <1> QED
    BY <1>2, <1>3, <1>4 DEF Part

LEMMA FqBytesIsRead ==
    ASSUME NEW n \in 0..(Q - 1)
    PROVE  Buffers(FqBytes(n), 1) /\ From32ByteBuffer(FqBytes(n)) = n
  <1>1. n \in Nat /\ n < R
    BY FieldType
  <1>2. FqBytes(n) \in Bytes /\ Len(FqBytes(n)) = BufferBytes
    BY <1>1, FqBytesIsBuffer, BufferType, ByteStrings
  <1>3. BufferBytes = 1 * BufferBytes
    BY Widths
  <1> QED
    BY <1>1, <1>2, <1>3, FqBytesIsBuffer, BufferIsRead DEF Buffers

LEMMA G1IsRead ==
    ASSUME NEW point \in G1
    PROVE  Buffers(G1Uncompressed(point), 2) /\ ReadG1(G1Uncompressed(point)) = point
  <1> DEFINE x == FqBytes(point.x)
             y == FqBytes(point.y)
             l == Cat(x, y)
  <1>1. point.x \in 0..(Q - 1) /\ point.y \in 0..(Q - 1)
    BY FieldType DEF G1
  <1>2. /\ Buffers(x, 1) /\ From32ByteBuffer(x) = point.x
        /\ Buffers(y, 1) /\ From32ByteBuffer(y) = point.y
    BY <1>1, FqBytesIsRead
  <1>3. G1Uncompressed(point) = l
    BY DEF G1Uncompressed, Cat
  <1> HIDE DEF x, y
  <1>4. /\ Buffers(l, 2)
        /\ Part(l, 1) = point.x /\ Part(l, 2) = point.y
    <2>1. Buffers(l, 1 + 1) /\ Part(l, 1 + 1) = point.y /\ Part(l, 1) = Part(x, 1)
      BY <1>2, PartOfMore
    <2> QED
      BY <1>2, <2>1, PartOfOne
  <1> HIDE DEF l
  <1>5. ReadG1(l) = [x |-> point.x, y |-> point.y]
    BY <1>4 DEF ReadG1
  <1>6. point = [x |-> point.x, y |-> point.y]
    BY DEF G1
  <1> QED
    BY <1>3, <1>4, <1>5, <1>6

LEMMA NegType ==
    ASSUME NEW point \in G1
    PROVE  Neg(point) \in G1
  <1>1. point.x \in 1..(Q - 1) /\ point.y \in 1..(Q - 1)
    BY DEF G1
  <1>2. Q - point.y \in 1..(Q - 1)
    BY <1>1, FieldType
  <1>3. Neg(point) = [x |-> point.x, y |-> Q - point.y]
    BY DEF G1, Neg
  <1> QED
    BY <1>1, <1>2, <1>3 DEF G1

LEMMA G2IsRead ==
    ASSUME NEW point \in [x : Fq2, y : Fq2]
    PROVE  Buffers(G2Uncompressed(point), 4) /\ ReadG2(G2Uncompressed(point)) = point
  <1> DEFINE b1 == FqBytes(point.x.c1)
             b2 == FqBytes(point.x.c0)
             b3 == FqBytes(point.y.c1)
             b4 == FqBytes(point.y.c0)
             s2 == Cat(b1, b2)
             s3 == Cat(s2, b3)
             s4 == Cat(s3, b4)
  <1>1. point.x \in Fq2 /\ point.y \in Fq2
    OBVIOUS
  <1>2. /\ point.x.c1 \in 0..(Q - 1) /\ point.x.c0 \in 0..(Q - 1)
        /\ point.y.c1 \in 0..(Q - 1) /\ point.y.c0 \in 0..(Q - 1)
    BY <1>1 DEF Fq2
  <1>3. /\ Buffers(b1, 1) /\ From32ByteBuffer(b1) = point.x.c1
        /\ Buffers(b2, 1) /\ From32ByteBuffer(b2) = point.x.c0
        /\ Buffers(b3, 1) /\ From32ByteBuffer(b3) = point.y.c1
        /\ Buffers(b4, 1) /\ From32ByteBuffer(b4) = point.y.c0
    BY <1>2, FqBytesIsRead
  <1>4. G2Uncompressed(point) = s4
    BY DEF G2Uncompressed, Cat
  <1> HIDE DEF b1, b2, b3, b4
  <1>5. Buffers(s2, 2) /\ Part(s2, 1) = point.x.c1 /\ Part(s2, 2) = point.x.c0
    <2>1. Buffers(s2, 1 + 1) /\ Part(s2, 1 + 1) = From32ByteBuffer(b2) /\ Part(s2, 1) = Part(b1, 1)
      BY <1>3, PartOfMore
    <2> QED
      BY <1>3, <2>1, PartOfOne
  <1> HIDE DEF s2
  <1>6. /\ Buffers(s3, 3)
        /\ Part(s3, 1) = point.x.c1 /\ Part(s3, 2) = point.x.c0 /\ Part(s3, 3) = point.y.c1
    <2>1. /\ Buffers(s3, 2 + 1)
          /\ Part(s3, 2 + 1) = From32ByteBuffer(b3)
          /\ Part(s3, 1) = Part(s2, 1) /\ Part(s3, 2) = Part(s2, 2)
      BY <1>3, <1>5, PartOfMore
    <2> QED
      BY <1>3, <1>5, <2>1
  <1> HIDE DEF s3
  <1>7. /\ Buffers(s4, 4)
        /\ Part(s4, 1) = point.x.c1 /\ Part(s4, 2) = point.x.c0
        /\ Part(s4, 3) = point.y.c1 /\ Part(s4, 4) = point.y.c0
    <2>1. /\ Buffers(s4, 3 + 1)
          /\ Part(s4, 3 + 1) = From32ByteBuffer(b4)
          /\ Part(s4, 1) = Part(s3, 1) /\ Part(s4, 2) = Part(s3, 2) /\ Part(s4, 3) = Part(s3, 3)
      BY <1>3, <1>6, PartOfMore
    <2> QED
      BY <1>3, <1>6, <2>1
  <1> HIDE DEF s4
  <1>8. ReadG2(s4) = [x |-> [c1 |-> point.x.c1, c0 |-> point.x.c0],
                      y |-> [c1 |-> point.y.c1, c0 |-> point.y.c0]]
    BY <1>7 DEF ReadG2
  <1>9. /\ point.x = [c1 |-> point.x.c1, c0 |-> point.x.c0]
        /\ point.y = [c1 |-> point.y.c1, c0 |-> point.y.c0]
    BY <1>1 DEF Fq2
  <1>10. point = [x |-> point.x, y |-> point.y]
    OBVIOUS
  <1>11. ReadG2(s4) = point
    BY <1>8, <1>9, <1>10
  <1> QED
    BY <1>4, <1>7, <1>11

\* An output is a word, and a word is less than R.
LEMMA WordIsSmall ==
    ASSUME NEW n \in Word
    PROVE  n \in Nat /\ n < R
  <1> DEFINE w == Power[WordBytes]
  <1>1. w \in Nat /\ w > 0 /\ n \in Nat /\ n < w
    BY Widths, PowerFacts DEF Word
  <1>2. PICK k \in Nat : Limbs = k + 1
    <2>1. Limbs - 1 \in Nat /\ Limbs = (Limbs - 1) + 1
      BY Widths
    <2> QED
      BY <2>1
  <1>3. WordBytes * k \in Nat /\ BufferBytes = WordBytes + WordBytes * k
    BY <1>2, Widths DEF BufferBytes
  <1>4. R = w * Power[WordBytes * k]
    BY <1>3, Widths, PowerSum DEF R
  <1>5. Power[WordBytes * k] \in Nat /\ Power[WordBytes * k] > 0
    BY <1>3, PowerFacts
  <1> HIDE DEF w
  <1>6. w <= w * Power[WordBytes * k]
    BY <1>1, <1>5
  <1> QED
    BY <1>1, <1>4, <1>6

LEMMA BufferOfNumber ==
    ASSUME NEW n \in Nat, n < R
    PROVE  Buffers(To32ByteBuffer(n), 1) /\ From32ByteBuffer(To32ByteBuffer(n)) = n
  <1>1. To32ByteBuffer(n) \in Bytes /\ Len(To32ByteBuffer(n)) = BufferBytes
    BY BufferType, ByteStrings
  <1>2. BufferBytes = 1 * BufferBytes
    BY Widths
  <1> QED
    BY <1>1, <1>2, BufferIsRead DEF Buffers

\* Each part of the converted proof is what the program reads as the part of
\* the proof it stands for.
ProofIsRead(p, proof, real_out, commitment) ==
    /\ Buffers(p.proof_a, 2) /\ ReadG1(p.proof_a) = Neg(proof.a)
    /\ Buffers(p.proof_b, 4) /\ ReadG2(p.proof_b) = proof.b
    /\ Buffers(p.proof_c, 2) /\ ReadG1(p.proof_c) = proof.c
    /\ Buffers(p.public_signals[1], 1) /\ From32ByteBuffer(p.public_signals[1]) = real_out
    /\ Buffers(p.public_signals[2], 1) /\ p.public_signals[2] = To32ByteBuffer(commitment)

\* For any widths, prime and proof: a verifier that reads big-endian coordinates,
\* c1 before c0, finds in the converted proof the points of the proof, the first
\* one negated, and the two public signals.
THEOREM ConvertedProofIsRead ==
    ASSUME NEW proof \in Proof, NEW real_out \in Word, NEW commitment \in Fr,
           NEW p, p = ConvertProofToSolanaProof(proof, real_out, commitment)
    PROVE  ProofIsRead(p, proof, real_out, commitment)
  <1>1. proof.a \in G1 /\ proof.b \in [x : Fq2, y : Fq2] /\ proof.c \in G1
    BY DEF Proof
  <1>2. /\ p.proof_a = G1Uncompressed(Neg(proof.a))
        /\ p.proof_b = G2Uncompressed(proof.b)
        /\ p.proof_c = G1Uncompressed(proof.c)
        /\ p.public_signals[1] = To32ByteBuffer(real_out)
        /\ p.public_signals[2] = To32ByteBuffer(commitment)
    BY DEF ConvertProofToSolanaProof, NegateAndSerializeG1
  <1>3. Neg(proof.a) \in G1
    BY <1>1, NegType
  <1>4. real_out \in Nat /\ real_out < R /\ commitment \in Nat /\ commitment < R
    BY WordIsSmall, FieldType DEF Fr
  <1> QED
    BY <1>1, <1>2, <1>3, <1>4, G1IsRead, G2IsRead, BufferOfNumber DEF ProofIsRead

-----------------------------------------------------------------------------
(***************************************************************************)
(* The builders that carry a proof.                                        *)
(***************************************************************************)
\* The places of two lists put together.
LEMMA JoinTuples ==
    ASSUME NEW s, NEW t, NEW n \in Nat, NEW m \in Nat, Tuple(s, n), Tuple(t, m)
    PROVE  /\ Tuple(Cat(s, t), n + m)
           /\ \A i \in 1..n : Cat(s, t)[i] = s[i]
           /\ \A i \in 1..m : Cat(s, t)[n + i] = t[i]
  <1>1. PICK S : s \in Seq(S)
    BY DEF Tuple, IsList
  <1>2. PICK T : t \in Seq(T)
    BY DEF Tuple, IsList
  <1>3. s \in Seq(S \cup T) /\ t \in Seq(S \cup T)
    BY <1>1, <1>2
  <1>4. Len(s) = n /\ Len(t) = m
    BY <1>1, <1>2 DEF Tuple
  <1> DEFINE l == s \o t
  <1>5. /\ l \in Seq(S \cup T) /\ Len(l) = n + m /\ DOMAIN l = 1..(n + m)
        /\ \A i \in 1..n : l[i] = s[i]
        /\ \A i \in 1..m : l[n + i] = t[i]
    BY <1>3, <1>4
  <1> HIDE DEF l
  <1>6. Tuple(l, n + m)
    BY <1>5 DEF Tuple, IsList
  <1> QED
    BY <1>5, <1>6 DEF l, Cat

\* The five fields of a proof, at the head of the data.
LEMMA ProofEncoded ==
    ASSUME NEW kinds, NEW values, NEW p, NEW proof, NEW real_out, NEW commitment,
           ProofIsRead(p, proof, real_out, commitment),
           \A i \in 1..5 : kinds[i] = ProofKinds[i],
           \A i \in 1..5 : values[i] = ProofFields(p)[i]
    PROVE  Encoded(kinds, 5, ProofData(p), values)
  <1> DEFINE e1 == p.proof_a
             e2 == p.proof_b
             e3 == p.proof_c
             e4 == p.public_signals[1]
             e5 == p.public_signals[2]
             s4 == Cat(Cat(Cat(e1, e2), e3), e4)
             s5 == Cat(s4, e5)
  <1>1. /\ kinds[1] = "g1" /\ kinds[2] = "g2" /\ kinds[3] = "g1"
        /\ kinds[4] = "buffer" /\ kinds[5] = "buffer"
    BY DEF ProofKinds
  <1>2. /\ values[1] = e1 /\ values[2] = e2 /\ values[3] = e3 /\ values[4] = e4 /\ values[5] = e5
    <2> DEFINE f == ProofFields(p)
    <2>1. f[1] = e1 /\ f[2] = e2 /\ f[3] = e3 /\ f[4] = e4 /\ f[5] = e5
      BY DEF ProofFields
    <2> HIDE DEF f, e1, e2, e3, e4, e5
    <2>2. \A i \in 1..5 : values[i] = f[i]
      BY DEF f
    <2> QED
      BY <2>1, <2>2
  <1>3. ProofData(p) = s5
    BY DEF ProofData, Cat
  <1>4. /\ e1 \in Bytes /\ Len(e1) = 2 * BufferBytes
        /\ e2 \in Bytes /\ Len(e2) = 4 * BufferBytes
        /\ e3 \in Bytes /\ Len(e3) = 2 * BufferBytes
        /\ e4 \in Bytes /\ Len(e4) = BufferBytes
        /\ e5 \in Bytes /\ Len(e5) = BufferBytes
    BY Widths DEF ProofIsRead, Buffers
  <1> HIDE DEF e1, e2, e3, e4, e5
  <1>5. /\ Encodes("g1", e1, e1) /\ Encodes("g2", e2, e2) /\ Encodes("g1", e3, e3)
        /\ Encodes("buffer", e4, e4) /\ Encodes("buffer", e5, e5)
    BY <1>4, EncodesBuffer
  <1>6. Encoded(kinds, 4, s4, values)
    BY <1>1, <1>2, <1>5, FourEncoded
  <1> HIDE DEF s4
  <1>7. Encoded(kinds, 4 + 1, s5, values)
    <2>1. Encodes(kinds[4 + 1], e5, values[4 + 1])
      BY <1>1, <1>2, <1>5
    <2> QED
      BY <1>6, <2>1, EncodedNext
  <1> QED
    BY <1>3, <1>7

LEMMA ProofTuples ==
    /\ \A p : Tuple(ProofFields(p), 5)
    /\ Tuple(ProofKinds, 5)
    /\ Kinds["cancel"] = Cat(ProofKinds, <<"label">>)
    /\ Kinds["settle"] = Cat(ProofKinds, <<"bool", "ref_code", "label">>)
  BY Tuples DEF ProofFields, ProofKinds, Kinds, Cat

LEMMA EncodedTuple ==
    ASSUME NEW op, NEW n \in Nat, NEW data, NEW values,
           Len(Kinds[op]) = n, Encoded(Kinds[op], n, data, values), Tuple(values, n)
    PROVE  ReadAs(op, data, values)
  BY EncodedAll DEF ReadAs, Tuple

LEMMA CancelReadsBack ==
    ASSUME NEW a, NEW signer, NEW owner, NEW p, NEW proof, NEW real_out, NEW commitment,
           ProofIsRead(p, proof, real_out, commitment), NEW label, Kept(label, LabelBytes)
    PROVE  LET ins == GetCancelAndAccountMetas(a, signer, owner, p, label) IN
           /\ ins.op = "cancel"
           /\ ReadsBack(ins)
           /\ \A i \in 1..5 : ins.params[i] = ProofFields(p)[i]
  <1> DEFINE kinds == Cat(ProofKinds, <<"label">>)
             values == Cat(ProofFields(p), <<label>>)
             data == Cat(ProofData(p), BorshOption(label))
             ins == Instruction("cancel", values, data, CancelAccounts(a, signer, owner))
  <1>1. GetCancelAndAccountMetas(a, signer, owner, p, label) = ins
    BY DEF GetCancelAndAccountMetas, Cat
  <1>2. /\ Tuple(values, 5 + 1)
        /\ \A i \in 1..5 : values[i] = ProofFields(p)[i]
        /\ values[5 + 1] = label
    <2>1. Tuple(<<label>>, 1) /\ <<label>>[1] = label
      BY Tuples
    <2> QED
      BY <2>1, ProofTuples, JoinTuples
  <1>3. /\ Tuple(kinds, 5 + 1)
        /\ \A i \in 1..5 : kinds[i] = ProofKinds[i]
        /\ kinds[5 + 1] = "label"
    <2>1. Tuple(<<"label">>, 1) /\ <<"label">>[1] = "label"
      BY Tuples
    <2> QED
      BY <2>1, ProofTuples, JoinTuples
  <1>4. Kinds["cancel"] = kinds
    BY ProofTuples
  <1> HIDE DEF kinds, values
  <1>5. Encoded(kinds, 5, ProofData(p), values)
    BY <1>2, <1>3, ProofEncoded
  <1>6. Encodes(kinds[5 + 1], BorshOption(label), values[5 + 1])
    BY <1>2, <1>3, EncodesOption
  <1>7. Encoded(kinds, 5 + 1, data, values)
    BY <1>5, <1>6, EncodedNext
  <1>8. Len(kinds) = 5 + 1
    BY <1>3 DEF Tuple, IsList
  <1> HIDE DEF data
  <1>9. ReadAs("cancel", data, values)
    <2>1. /\ Len(Kinds["cancel"]) = 6
          /\ Encoded(Kinds["cancel"], 6, data, values)
          /\ Tuple(values, 6)
      BY <1>2, <1>4, <1>7, <1>8
    <2> QED
      BY <2>1, EncodedTuple
  <1>10. ins.op = "cancel" /\ ReadsBack(ins) /\ ins.params = values
    BY <1>9, InstructionFields
  <1> QED
    BY <1>1, <1>2, <1>10

\* The data of a settle, by its unwrapping.
LEMMA SettleReadsBack ==
    ASSUME NEW a, NEW signer, NEW owner, NEW p, NEW proof, NEW real_out, NEW commitment,
           ProofIsRead(p, proof, real_out, commitment), NEW unwrap_wsol \in BOOLEAN,
           NEW ref_code, Kept(ref_code, RefCodeBytes), NEW label, Kept(label, LabelBytes)
    PROVE  LET ins == GetSettleAndAccountMetas(a, signer, owner, p, unwrap_wsol, ref_code, label)
           IN  /\ ins.op = "settle"
               /\ ReadsBack(ins)
               /\ \A i \in 1..5 : ins.params[i] = ProofFields(p)[i]
  <1> DEFINE more == <<unwrap_wsol, ref_code, label>>
             kinds == Cat(ProofKinds, <<"bool", "ref_code", "label">>)
             values == Cat(ProofFields(p), more)
             e6 == BoolByte(unwrap_wsol)
             e7 == BorshOption(ref_code)
             e8 == BorshOption(label)
             s6 == Cat(ProofData(p), e6)
             s7 == Cat(s6, e7)
             data == Cat(s7, e8)
             ins == Instruction("settle", values, data, SettleAccounts(a, signer, owner))
  <1>1. GetSettleAndAccountMetas(a, signer, owner, p, unwrap_wsol, ref_code, label) =
            Instruction("settle", values, Cat(s6, Cat(e7, e8)), SettleAccounts(a, signer, owner))
    BY DEF GetSettleAndAccountMetas, SettleOptions, Cat
  <1>2. /\ Tuple(values, 5 + 3)
        /\ \A i \in 1..5 : values[i] = ProofFields(p)[i]
        /\ values[6] = unwrap_wsol /\ values[7] = ref_code /\ values[8] = label
    <2>1. Tuple(more, 3)
      BY Tuples
    <2>2. more[1] = unwrap_wsol /\ more[2] = ref_code /\ more[3] = label
      OBVIOUS
    <2> HIDE DEF more
    <2>3. /\ Tuple(values, 5 + 3)
          /\ \A i \in 1..5 : values[i] = ProofFields(p)[i]
          /\ \A i \in 1..3 : values[5 + i] = more[i]
      BY <2>1, ProofTuples, JoinTuples
    <2> HIDE DEF values
    <2>4. values[5 + 1] = more[1] /\ values[5 + 2] = more[2] /\ values[5 + 3] = more[3]
      BY <2>3
    <2> QED
      BY <2>2, <2>3, <2>4
  <1>3. /\ Tuple(kinds, 5 + 3)
        /\ \A i \in 1..5 : kinds[i] = ProofKinds[i]
        /\ kinds[6] = "bool" /\ kinds[7] = "ref_code" /\ kinds[8] = "label"
    <2> DEFINE t == <<"bool", "ref_code", "label">>
    <2>1. Tuple(t, 3)
      BY Tuples
    <2>2. t[1] = "bool" /\ t[2] = "ref_code" /\ t[3] = "label"
      OBVIOUS
    <2> HIDE DEF t
    <2>3. /\ Tuple(kinds, 5 + 3)
          /\ \A i \in 1..5 : kinds[i] = ProofKinds[i]
          /\ \A i \in 1..3 : kinds[5 + i] = t[i]
      BY <2>1, ProofTuples, JoinTuples DEF t
    <2> HIDE DEF kinds
    <2>4. kinds[5 + 1] = t[1] /\ kinds[5 + 2] = t[2] /\ kinds[5 + 3] = t[3]
      BY <2>3
    <2> QED
      BY <2>2, <2>3, <2>4
  <1>4. Kinds["settle"] = kinds
    BY ProofTuples
  <1> HIDE DEF kinds, values, more
  <1>5. Encoded(kinds, 5, ProofData(p), values)
    BY <1>2, <1>3, ProofEncoded
  <1>6. /\ Encodes("bool", e6, unwrap_wsol) /\ Encodes("ref_code", e7, ref_code)
        /\ Encodes("label", e8, label)
    BY EncodesBool, EncodesOption
  <1> HIDE DEF e6, e7, e8
  <1>7. Encoded(kinds, 6, s6, values)
    <2>1. Encodes(kinds[5 + 1], e6, values[5 + 1])
      BY <1>2, <1>3, <1>6
    <2> QED
      BY <1>5, <2>1, EncodedNext
  <1> HIDE DEF s6
  <1>8. Encoded(kinds, 7, s7, values)
    <2>1. Encodes(kinds[6 + 1], e7, values[6 + 1])
      BY <1>2, <1>3, <1>6
    <2> QED
      BY <1>7, <2>1, EncodedNext
  <1>9. data = Cat(s6, Cat(e7, e8))
    BY <1>6, <1>7, CatAssociative DEF Encodes, Encoded
  <1> HIDE DEF s7
  <1>10. Encoded(kinds, 8, data, values)
    <2>1. Encodes(kinds[7 + 1], e8, values[7 + 1])
      BY <1>2, <1>3, <1>6
    <2> QED
      BY <1>8, <2>1, EncodedNext
  <1>11. Len(kinds) = 8
    BY <1>3 DEF Tuple, IsList
  <1> HIDE DEF data
  <1>12. ReadAs("settle", data, values)
    <2>1. /\ Len(Kinds["settle"]) = 8
          /\ Encoded(Kinds["settle"], 8, data, values)
          /\ Tuple(values, 8)
      BY <1>2, <1>4, <1>10, <1>11
    <2> QED
      BY <2>1, EncodedTuple
  <1>13. ins.op = "settle" /\ ReadsBack(ins) /\ ins.params = values
    BY <1>12, InstructionFields
  <1> QED
    BY <1>1, <1>2, <1>9, <1>13

-----------------------------------------------------------------------------
(***************************************************************************)
(* What new() keeps of a label and a referral code.                        *)
(***************************************************************************)
\* The bytes e are s with zeros behind it.
Padded(e, s, length) ==
    /\ e \in Bytes /\ Len(e) = length
    /\ s \in Bytes /\ Len(s) <= length
    /\ \A i \in 1..Len(s) : e[i] = s[i]
    /\ \A i \in 1..length : i > Len(s) => e[i] = 0

LEMMA PaddedOrFailure ==
    ASSUME NEW s \in Bytes, NEW length \in Nat, length > 1
    PROVE  /\ Len(s) > length => ConvertStringToBytesArray(s, length) = Failure
           /\ Len(s) <= length =>
                  /\ Padded(ConvertStringToBytesArray(s, length), s, length)
                  /\ ConvertStringToBytesArray(s, length) # Failure
  <1>1. ASSUME Len(s) <= length
        PROVE  Padded(ConvertStringToBytesArray(s, length), s, length)
    <2> DEFINE e == [i \in 1..length |-> IF i <= Len(s) THEN s[i] ELSE 0]
    <2>1. Len(s) \in Nat /\ \A i \in 1..Len(s) : s[i] \in Nat
      BY DEF Bytes
    <2>2. e \in Bytes /\ Len(e) = length
      BY <2>1 DEF Bytes
    <2>3. ConvertStringToBytesArray(s, length) = e
      BY <1>1, <2>1 DEF ConvertStringToBytesArray
    <2>4. \A i \in 1..Len(s) : e[i] = s[i]
      BY <1>1, <2>1
    <2>5. \A i \in 1..length : i > Len(s) => e[i] = 0
      BY <2>1
    <2> HIDE DEF e
    <2> QED
      BY <1>1, <2>2, <2>3, <2>4, <2>5 DEF Padded
  <1>2. \A e : Padded(e, s, length) => e # Failure
    <2> SUFFICES ASSUME NEW e, Padded(e, s, length), e = Failure
                 PROVE  FALSE
      OBVIOUS
    <2>1. Len(Failure) = 1
      BY DEF Failure
    <2>2. Len(e) = length
      BY DEF Padded
    <2> QED
      BY <2>1, <2>2
  <1>3. Len(s) > length => ConvertStringToBytesArray(s, length) = Failure
    BY DEF ConvertStringToBytesArray
  <1> QED
    BY <1>1, <1>2, <1>3

\* An option given to new() holds one string at most.
LEMMA GivenOptions ==
    ASSUME NEW given \in Given, NEW option \in {given.label, given.ref_code}
    PROVE  option = None \/ \E s \in Bytes : option = Some(s)
  <1>1. option \subseteq Seq(Nat) /\ \A s, t \in option : s = t
    BY InstructionsAssumption
  <1>2. ASSUME NEW s \in option
        PROVE  s \in Bytes /\ option = Some(s)
    BY <1>1 DEF Bytes, Some
  <1> QED
    BY <1>2 DEF None

LEMMA SomeIsNotNone ==
    ASSUME NEW value
    PROVE  /\ Some(value) # None
           /\ (CHOOSE s \in Some(value) : TRUE) = value
           /\ \A s : s \in Some(value) <=> s = value
  BY DEF Some, None

\* The label as it is joined.
Joined(s) == Prefix \o Comma \o s

LEMMA JoinedType ==
    /\ Prefix \in Bytes /\ Len(Prefix) <= MaxLabel
    /\ \A s \in Bytes : Joined(s) \in Bytes /\ (Len(s) <= MaxLabel => Len(Joined(s)) <= LabelBytes)
  <1>1. Prefix \in Seq(Nat) /\ Len(Prefix) <= MaxLabel /\ Comma \in Seq(Nat) /\ Len(Comma) = 1
    BY InstructionsAssumption
  <1>2. ASSUME NEW s \in Bytes
        PROVE  Joined(s) \in Bytes /\ Len(Joined(s)) = Len(Prefix) + 1 + Len(s)
    <2>1. \A t, u \in Bytes : Cat(t, u) \in Bytes /\ Len(Cat(t, u)) = Len(t) + Len(u)
      BY CatBytes
    <2>2. Prefix \in Bytes /\ Comma \in Bytes
      BY <1>1 DEF Bytes
    <2>3. Cat(Prefix, Comma) \in Bytes /\ Len(Cat(Prefix, Comma)) = Len(Prefix) + 1
      <3>1. /\ Cat(Prefix, Comma) \in Bytes
            /\ Len(Cat(Prefix, Comma)) = Len(Prefix) + Len(Comma)
        BY <2>1, <2>2
      <3>2. Len(Comma) = 1
        BY <1>1
      <3> QED
        BY <3>1, <3>2
    <2>4. Joined(s) = Cat(Cat(Prefix, Comma), s)
      BY DEF Joined, Cat
    <2> QED
      BY <2>1, <2>3, <2>4
  <1>3. \A s \in Bytes : Len(s) \in Nat
    BY DEF Bytes
  <1> QED
    BY <1>1, <1>2, <1>3 DEF Bytes, MaxLabel, LabelBytes

LEMMA LabelMade ==
    ASSUME NEW given \in Given
    PROVE  \/ /\ given.label = None
              /\ FullLabel(given.label) # Failure
              /\ Padded(FullLabel(given.label), Prefix, LabelBytes)
           \/ \E s \in Bytes :
                  /\ given.label = Some(s)
                  /\ FullLabel(given.label) = Failure <=> Len(s) > MaxLabel
                  /\ Len(s) <= MaxLabel => Padded(FullLabel(given.label), Joined(s), LabelBytes)
  <1>1. LabelBytes \in Nat /\ LabelBytes > 1 /\ MaxLabel <= LabelBytes /\ MaxLabel \in Nat
    BY DEF LabelBytes, MaxLabel
  <1>2. CASE given.label = None
    <2>1. FullLabel(given.label) = ConvertStringToBytesArray(Prefix, LabelBytes)
      BY <1>2 DEF FullLabel
    <2>2. Prefix \in Bytes /\ Len(Prefix) <= LabelBytes
      BY <1>1, JoinedType DEF Bytes
    <2> QED
      BY <1>1, <1>2, <2>1, <2>2, PaddedOrFailure
  <1>3. ASSUME NEW s \in Bytes, given.label = Some(s)
        PROVE  /\ FullLabel(given.label) = Failure <=> Len(s) > MaxLabel
               /\ Len(s) <= MaxLabel => Padded(FullLabel(given.label), Joined(s), LabelBytes)
    <2>1. FullLabel(given.label) =
              IF Len(s) > MaxLabel THEN Failure ELSE ConvertStringToBytesArray(Joined(s), LabelBytes)
      BY <1>3, SomeIsNotNone DEF FullLabel, Joined
    <2>2. Len(s) \in Nat /\ Joined(s) \in Bytes /\ (Len(s) <= MaxLabel => Len(Joined(s)) <= LabelBytes)
      BY JoinedType DEF Bytes
    <2>3. Len(s) > MaxLabel <=> ~(Len(s) <= MaxLabel)
      BY <1>1, <2>2
    <2> QED
      BY <1>1, <2>1, <2>2, <2>3, PaddedOrFailure
  <1>4. given.label = None \/ \E s \in Bytes : given.label = Some(s)
    BY GivenOptions
  <1> QED
    BY <1>2, <1>3, <1>4

LEMMA RefCodeMade ==
    ASSUME NEW given \in Given
    PROVE  \/ given.ref_code = None /\ RefCodeOf(given.ref_code) = None
           \/ \E s \in Bytes : \E e :
                  /\ given.ref_code = Some(s)
                  /\ RefCodeOf(given.ref_code) = Some(e)
                  /\ e = Failure <=> Len(s) > RefCodeBytes
                  /\ Len(s) <= RefCodeBytes => Padded(e, s, RefCodeBytes)
  <1>1. RefCodeBytes \in Nat /\ RefCodeBytes > 1
    BY DEF RefCodeBytes
  <1>2. CASE given.ref_code = None
    BY <1>2 DEF RefCodeOf
  <1>3. ASSUME NEW s \in Bytes, given.ref_code = Some(s)
        PROVE  \E e : /\ RefCodeOf(given.ref_code) = Some(e)
                      /\ e = Failure <=> Len(s) > RefCodeBytes
                      /\ Len(s) <= RefCodeBytes => Padded(e, s, RefCodeBytes)
    <2> DEFINE e == ConvertStringToBytesArray(s, RefCodeBytes)
    <2>1. RefCodeOf(given.ref_code) = Some(e)
      BY <1>3, SomeIsNotNone DEF RefCodeOf
    <2>2. Len(s) \in Nat
      BY DEF Bytes
    <2>3. Len(s) > RefCodeBytes <=> ~(Len(s) <= RefCodeBytes)
      BY <1>1, <2>2
    <2>4. /\ e = Failure <=> Len(s) > RefCodeBytes
          /\ Len(s) <= RefCodeBytes => Padded(e, s, RefCodeBytes)
      BY <1>1, <2>3, PaddedOrFailure
    <2> QED
      BY <2>1, <2>4
  <1>4. given.ref_code = None \/ \E s \in Bytes : given.ref_code = Some(s)
    BY GivenOptions
  <1> QED
    BY <1>2, <1>3, <1>4

LEMMA ClientFields ==
    ASSUME NEW label, NEW ref_code, NEW c, c = NewClient(label, ref_code)
    PROVE  /\ c.ok <=> FullLabel(label) # Failure /\ Failure \notin RefCodeOf(ref_code)
           /\ c.label = Some(FullLabel(label))
           /\ c.ref_code = RefCodeOf(ref_code)
           /\ c.given.label = label /\ c.given.ref_code = ref_code
  BY Zenon DEF NewClient

\* A client that is returned keeps strings of the lengths the program expects.
LEMMA ClientKeeps ==
    ASSUME NEW given \in Given, NEW c, c = NewClient(given.label, given.ref_code), c.ok
    PROVE  Kept(c.label, LabelBytes) /\ Kept(c.ref_code, RefCodeBytes)
  <1>1. /\ FullLabel(given.label) # Failure /\ Failure \notin RefCodeOf(given.ref_code)
        /\ c.label = Some(FullLabel(given.label)) /\ c.ref_code = RefCodeOf(given.ref_code)
    BY ClientFields
  <1>2. \A s \in Bytes : Len(s) \in Nat
    BY DEF Bytes
  <1>3. MaxLabel \in Nat /\ RefCodeBytes \in Nat
    BY DEF MaxLabel, RefCodeBytes
  <1>4. Kept(c.label, LabelBytes)
    <2>1. \E s : Padded(FullLabel(given.label), s, LabelBytes)
      BY <1>1, <1>2, <1>3, LabelMade
    <2> QED
      BY <1>1, <2>1 DEF Padded, Kept
  <1>5. Kept(c.ref_code, RefCodeBytes)
    <2>1. CASE RefCodeOf(given.ref_code) = None
      BY <1>1, <2>1 DEF Kept
    <2>2. ASSUME NEW s \in Bytes, NEW e, RefCodeOf(given.ref_code) = Some(e),
                 e = Failure <=> Len(s) > RefCodeBytes,
                 Len(s) <= RefCodeBytes => Padded(e, s, RefCodeBytes)
          PROVE  Kept(c.ref_code, RefCodeBytes)
      <3>1. e # Failure
        BY <1>1, <2>2, SomeIsNotNone
      <3>2. Padded(e, s, RefCodeBytes)
        BY <1>2, <1>3, <2>2, <3>1
      <3> QED
        BY <1>1, <2>2, <3>2 DEF Padded, Kept
    <2> QED
      BY <2>1, <2>2, RefCodeMade
  <1> QED
    BY <1>4, <1>5

LEMMA MaximumExists ==
    ASSUME NEW n \in Nat, NEW T \in SUBSET (0..n), 0 \in T
    PROVE  Max(T) \in T
  <1> DEFINE S == {m \in Nat : \A U \in SUBSET (0..m) :
                                   0 \in U => \E x \in U : \A y \in U : x >= y}
  <1>1. 0 \in S
    <2>1. \A U \in SUBSET (0..0) : 0 \in U => \A y \in U : 0 >= y
      OBVIOUS
    <2> QED
      BY <2>1
  <1>2. ASSUME NEW m \in Nat, m \in S
        PROVE  m + 1 \in S
    <2> SUFFICES ASSUME NEW U \in SUBSET (0..(m + 1)), 0 \in U
                 PROVE  \E x \in U : \A y \in U : x >= y
      OBVIOUS
    <2>1. CASE m + 1 \in U
      BY <2>1
    <2>2. CASE m + 1 \notin U
      <3>1. U \in SUBSET (0..m)
        BY <2>2
      <3> QED
        BY <1>2, <3>1
    <2> QED
      BY <2>1, <2>2
  <1> HIDE DEF S
  <1>3. n \in S
    BY <1>1, <1>2, Induction
  <1>4. \E x \in T : \A y \in T : x >= y
    BY <1>3 DEF S
  <1> QED
    BY <1>4 DEF Max

\* A string and what it is padded to are the same but for zeros at their end.
LEMMA UnpaddedAlike ==
    ASSUME NEW e, NEW s, NEW length \in Nat, Padded(e, s, length)
    PROVE  Unpadded(e) = Unpadded(s)
  <1> DEFINE T == {0} \cup {i \in DOMAIN s : s[i] # 0}
             U == {0} \cup {i \in DOMAIN e : e[i] # 0}
             m == Max(T)
  <1>1. /\ Len(s) \in Nat /\ DOMAIN s = 1..Len(s)
        /\ DOMAIN e = 1..length
        /\ Len(s) <= length
    BY DEF Padded, Bytes
  <1>2. /\ \A i \in 1..Len(s) : e[i] = s[i]
        /\ \A i \in 1..length : i > Len(s) => e[i] = 0
    BY DEF Padded
  <1>3. U = T
    <2>1. ASSUME NEW i \in 1..length, e[i] # 0
          PROVE  i \in 1..Len(s) /\ s[i] # 0
      BY <1>1, <1>2, <2>1
    <2>2. ASSUME NEW i \in 1..Len(s), s[i] # 0
          PROVE  i \in 1..length /\ e[i] # 0
      BY <1>1, <1>2, <2>2
    <2> QED
      BY <1>1, <2>1, <2>2
  <1>4. m \in 0..Len(s)
    <2>1. T \in SUBSET (0..Len(s)) /\ 0 \in T
      BY <1>1
    <2> HIDE DEF T
    <2>2. m \in T
      BY <1>1, <2>1, MaximumExists
    <2> QED
      BY <2>1, <2>2
  <1> HIDE DEF T, U, m
  <1>5. e \in Seq(Nat) /\ s \in Seq(Nat) /\ Len(e) = length
    BY DEF Padded, Bytes
  <1>6. SubSeq(e, 1, m) = SubSeq(s, 1, m)
    <2>1. SubSeq(e, 1, m) = [i \in 1..m |-> e[i]]
      BY <1>1, <1>4, <1>5
    <2>2. SubSeq(s, 1, m) = [i \in 1..m |-> s[i]]
      BY <1>1, <1>4, <1>5
    <2>3. \A i \in 1..m : e[i] = s[i]
      BY <1>1, <1>2, <1>4
    <2> QED
      BY <2>1, <2>2, <2>3
  <1> QED
    BY <1>3, <1>6 DEF Unpadded, T, U, m

\* LabelSurvives, of any client that new() makes.
LEMMA ClientSurvives ==
    ASSUME NEW given \in Given, NEW c, c = NewClient(given.label, given.ref_code)
    PROVE  /\ c.ok <=> /\ \A s \in given.label : Len(s) <= MaxLabel
                       /\ \A s \in given.ref_code : Len(s) <= RefCodeBytes
           /\ c.ok =>
                  /\ {Unpadded(b) : b \in c.label} =
                         IF given.label = None THEN {Unpadded(Prefix)}
                         ELSE {Unpadded(Prefix \o Comma \o s) : s \in given.label}
                  /\ {Unpadded(b) : b \in c.ref_code} = {Unpadded(s) : s \in given.ref_code}
  <1> DEFINE f == FullLabel(given.label)
             r == RefCodeOf(given.ref_code)
  <1>1. /\ c.ok <=> f # Failure /\ Failure \notin r
        /\ c.label = Some(f) /\ c.ref_code = r
    BY ClientFields
  <1>2. /\ MaxLabel \in Nat /\ LabelBytes \in Nat /\ RefCodeBytes \in Nat
        /\ \A s \in Bytes : Len(s) \in Nat
    BY DEF MaxLabel, LabelBytes, RefCodeBytes, Bytes
  <1> HIDE DEF f, r
  <1>3. /\ f # Failure <=> \A s \in given.label : Len(s) <= MaxLabel
        /\ f # Failure => Unpadded(f) \in IF given.label = None THEN {Unpadded(Prefix)}
                                          ELSE {Unpadded(Joined(s)) : s \in given.label}
    <2>1. CASE given.label = None /\ f # Failure /\ Padded(f, Prefix, LabelBytes)
      <3>1. Unpadded(f) = Unpadded(Prefix)
        BY <1>2, <2>1, UnpaddedAlike
      <3> QED
        BY <2>1, <3>1 DEF None
    <2>2. ASSUME NEW s \in Bytes, given.label = Some(s), f = Failure <=> Len(s) > MaxLabel,
                 Len(s) <= MaxLabel => Padded(f, Joined(s), LabelBytes)
          PROVE  /\ f # Failure <=> \A t \in given.label : Len(t) <= MaxLabel
                 /\ f # Failure => Unpadded(f) \in {Unpadded(Joined(t)) : t \in given.label}
      <3>1. Len(s) > MaxLabel <=> ~(Len(s) <= MaxLabel)
        BY <1>2
      <3>2. s \in given.label /\ \A t \in given.label : t = s
        BY <2>2, SomeIsNotNone
      <3>3. f # Failure => Unpadded(f) = Unpadded(Joined(s))
        BY <1>2, <2>2, <3>1, UnpaddedAlike
      <3> QED
        BY <2>2, <3>1, <3>2, <3>3
    <2>3. \A s : Some(s) # None
      BY SomeIsNotNone
    <2> QED
      BY <2>1, <2>2, <2>3, LabelMade DEF f
  <1>4. /\ Failure \notin r <=> \A s \in given.ref_code : Len(s) <= RefCodeBytes
        /\ Failure \notin r =>
               {Unpadded(b) : b \in r} = {Unpadded(s) : s \in given.ref_code}
    <2>1. CASE given.ref_code = None /\ r = None
      BY <2>1 DEF None
    <2>2. ASSUME NEW s \in Bytes, NEW e, given.ref_code = Some(s), r = Some(e),
                 e = Failure <=> Len(s) > RefCodeBytes,
                 Len(s) <= RefCodeBytes => Padded(e, s, RefCodeBytes)
          PROVE  /\ Failure \notin r <=> \A t \in given.ref_code : Len(t) <= RefCodeBytes
                 /\ Failure \notin r =>
                        {Unpadded(b) : b \in r} = {Unpadded(t) : t \in given.ref_code}
      <3>1. Len(s) > RefCodeBytes <=> ~(Len(s) <= RefCodeBytes)
        BY <1>2
      <3>2. /\ s \in given.ref_code /\ \A t \in given.ref_code : t = s
            /\ e \in r /\ \A b \in r : b = e
        BY <2>2, SomeIsNotNone
      <3>3. e # Failure => Unpadded(e) = Unpadded(s)
        BY <1>2, <2>2, <3>1, UnpaddedAlike
      <3> QED
        BY <2>2, <3>1, <3>2, <3>3
    <2> QED
      BY <2>1, <2>2, RefCodeMade DEF r
  <1>5. f # Failure =>
            {Unpadded(b) : b \in Some(f)} =
                IF given.label = None THEN {Unpadded(Prefix)}
                ELSE {Unpadded(Joined(s)) : s \in given.label}
    <2>1. ASSUME NEW x \in IF given.label = None THEN {Unpadded(Prefix)}
                           ELSE {Unpadded(Joined(s)) : s \in given.label},
                 NEW y \in IF given.label = None THEN {Unpadded(Prefix)}
                           ELSE {Unpadded(Joined(s)) : s \in given.label}
          PROVE  x = y
      <3>1. \A s, t \in given.label : s = t
        BY InstructionsAssumption
      <3> QED
        BY <3>1
    <2>2. {Unpadded(b) : b \in Some(f)} = {Unpadded(f)}
      BY DEF Some
    <2> QED
      BY <1>3, <2>1, <2>2
  <1> QED
    BY <1>1, <1>3, <1>4, <1>5 DEF Joined

-----------------------------------------------------------------------------
(***************************************************************************)
(* The inductive invariant: the client is one that new() made, an order    *)
(* commits to the secret of its swap, and an instruction is read as its    *)
(* parameters, which carry what it was built for.                          *)
(***************************************************************************)
\* The client is one that new() made.
ClientMade == \E given \in Given : client = NewClient(given.label, given.ref_code)

\* An order keeps the commitment to the secret its swap was made with.
OrderCommits ==
    order.open =>
        /\ order.secret \in Secret
        /\ order.d_out \in Yield
        /\ order.c_min = CommitmentBytes(order.secret.min_out, order.secret.salt)

\* The parameters carry the commitment, ...
CarriesCommitment ==
    LET secret == last.for.secret IN
        /\ secret \in Secret
        /\ last.ins.params[3] = CommitmentBytes(secret.min_out, secret.salt)

\* ... the proof the prover found for the order, ...
CarriesProof ==
    LET p == ConvertProofToSolanaProof(last.proof, order.d_out, From32ByteBuffer(order.c_min)) IN
        /\ order.open
        /\ last.proof \in Proofs
        /\ \A i \in 1..5 : last.ins.params[i] = ProofFields(p)[i]

\* ... and the amounts, in the order of the pool's mints.
CarriesAmounts ==
    LET tokens == last.for.tokens
        limits == Ordered(KeyOf(tokens[1], tokens[2]), tokens[1], last.for.amounts)
        first == IF last.op = "initialize_pool" THEN 1 ELSE 2
    IN  last.ins.params[first] = limits[1] /\ last.ins.params[first + 1] = limits[2]

DataCarried ==
    last # NoInstruction =>
        /\ last.ins.op = last.op /\ ReadsBack(last.ins)
        /\ last.op = "swap" => CarriesCommitment
        /\ last.op \in {"settle", "cancel"} => CarriesProof
        /\ last.op \in {"initialize_pool", "add_liquidity", "remove_liquidity"} => CarriesAmounts

Carried == ClientMade /\ OrderCommits /\ DataCarried

LEMMA BuiltParts ==
    ASSUME NEW ins, NEW for, NEW proof
    PROVE  LET b == Built(ins, for, proof) IN
           b.op = ins.op /\ b.ins = ins /\ b.for = for /\ b.proof = proof
  BY DEF Built

LEMMA ForParts ==
    ASSUME NEW owner, NEW caller, NEW tokens, NEW amounts, NEW secret
    PROVE  LET f == For(owner, caller, tokens, amounts, secret) IN
           f.tokens = tokens /\ f.amounts = amounts /\ f.secret = secret
  BY DEF For

LEMMA ClientIsKept ==
    ASSUME ClientMade, client.ok
    PROVE  Kept(client.label, LabelBytes) /\ Kept(client.ref_code, RefCodeBytes)
  BY ClientKeeps DEF ClientMade

LEMMA CarriedInit == Init => Carried
  BY DEF Init, Carried, ClientMade, OrderCommits, DataCarried, NoOrder

LEMMA SwapTxCarried ==
    ASSUME Carried, NEW u, NEW token_in, NEW token_out, NEW amount_in \in Amount,
           NEW secret \in Secret, SwapTx(u, token_in, token_out, amount_in, secret)
    PROVE  Carried'
  <1> DEFINE ins == GetSwapAndAccountMetas(amm', PostSol(token_in), u, amount_in, secret,
                                           client.label)
             for == For(u, u, <<token_in, token_out>>, <<amount_in, 0>>, secret)
  <1>1. client' = client /\ order' = order /\ client.ok /\ last' = Built(ins, for, NoProof)
    BY DEF SwapTx
  <1>2. ClientMade' /\ OrderCommits'
    BY <1>1 DEF Carried, ClientMade, OrderCommits
  <1>3. Kept(client.label, LabelBytes) /\ amount_in \in Word
    BY <1>1, ClientIsKept, InstructionsAssumption DEF Carried
  <1>4. /\ ins.op = "swap"
        /\ ReadsBack(ins)
        /\ ins.params[3] = CommitmentBytes(secret.min_out, secret.salt)
    BY <1>3, SwapReadsBack
  <1>5. for.secret = secret
    BY ForParts
  <1> HIDE DEF ins, for
  <1>6. last'.op = "swap" /\ last'.ins = ins /\ last'.for = for
    BY <1>1, <1>4, BuiltParts
  <1>7. CarriesCommitment'
    BY <1>4, <1>5, <1>6 DEF CarriesCommitment
  <1>8. DataCarried'
    BY <1>4, <1>6, <1>7 DEF DataCarried
  <1> QED
    BY <1>2, <1>8 DEF Carried

LEMMA SlashTxCarried ==
    ASSUME Carried, NEW signer, SlashTx(signer)
    PROVE  Carried'
  <1> DEFINE ins == GetSlashAndAccountMetas(amm, signer, order.trader, client.label)
             for == For(order.trader, signer, <<>>, <<>>, NoSecret)
  <1>1. client' = client /\ order' = order /\ client.ok /\ last' = Built(ins, for, NoProof)
    BY DEF SlashTx
  <1>2. ClientMade' /\ OrderCommits'
    BY <1>1 DEF Carried, ClientMade, OrderCommits
  <1>3. Kept(client.label, LabelBytes)
    BY <1>1, ClientIsKept DEF Carried
  <1>4. ins.op = "slash" /\ ReadsBack(ins)
    BY <1>3, SlashReadsBack DEF GetSlashAndAccountMetas, Instruction
  <1> HIDE DEF ins, for
  <1>5. last'.op = "slash" /\ last'.ins = ins
    BY <1>1, <1>4, BuiltParts
  <1>6. DataCarried'
    BY <1>4, <1>5 DEF DataCarried
  <1> QED
    BY <1>2, <1>6 DEF Carried

\* What the prover is given for an order makes a proof that is read as itself.
LEMMA OrderProof ==
    ASSUME Carried, order.open, NEW proof \in Proofs,
           NEW p, p = ConvertProofToSolanaProof(proof, order.d_out, From32ByteBuffer(order.c_min))
    PROVE  ProofIsRead(p, proof, order.d_out, From32ByteBuffer(order.c_min))
  <1>1. order.d_out \in Word /\ proof \in Proof
    BY InstructionsAssumption DEF Carried, OrderCommits
  <1>2. From32ByteBuffer(order.c_min) \in Fr
    BY CommitmentType DEF Carried, OrderCommits
  <1> QED
    BY <1>1, <1>2, ConvertedProofIsRead

LEMMA ProveTxCarried ==
    ASSUME Carried, NEW signer, NEW secret, NEW unwrap_wsol \in BOOLEAN, NEW proof \in Proofs,
           ProveTx(signer, secret, unwrap_wsol, proof)
    PROVE  Carried'
  <1> DEFINE commitment == From32ByteBuffer(order.c_min)
             p == ConvertProofToSolanaProof(proof, order.d_out, commitment)
             for == For(order.trader, signer, <<>>, <<>>, secret)
             settle == GetSettleAndAccountMetas(amm, signer, order.trader, p, unwrap_wsol,
                                                client.ref_code, client.label)
             cancel == GetCancelAndAccountMetas(amm, signer, order.trader, p, client.label)
  <1>1. /\ client' = client /\ order' = order /\ client.ok /\ order.open
        /\ last' = Built(IF secret.min_out <= order.d_out THEN settle ELSE cancel, for, proof)
    BY DEF ProveTx
  <1>2. ClientMade' /\ OrderCommits'
    BY <1>1 DEF Carried, ClientMade, OrderCommits
  <1>3. Kept(client.label, LabelBytes) /\ Kept(client.ref_code, RefCodeBytes)
    BY <1>1, ClientIsKept DEF Carried
  <1>4. ProofIsRead(p, proof, order.d_out, commitment)
    BY <1>1, OrderProof
  <1>5. ASSUME NEW ins, last' = Built(ins, for, proof), ins.op \in {"settle", "cancel"},
               ReadsBack(ins), \A i \in 1..5 : ins.params[i] = ProofFields(p)[i]
        PROVE  Carried'
    <2>1. last'.op = ins.op /\ last'.ins = ins /\ last'.proof = proof
      BY <1>5, BuiltParts
    <2>2. CarriesProof'
      BY <1>1, <1>5, <2>1 DEF CarriesProof
    <2>3. DataCarried'
      BY <1>5, <2>1, <2>2 DEF DataCarried
    <2> QED
      BY <1>2, <2>3 DEF Carried
  <1> HIDE DEF commitment, p, for
  <1>6. /\ settle.op = "settle" /\ ReadsBack(settle)
        /\ \A i \in 1..5 : settle.params[i] = ProofFields(p)[i]
    BY <1>3, <1>4, SettleReadsBack
  <1>7. /\ cancel.op = "cancel" /\ ReadsBack(cancel)
        /\ \A i \in 1..5 : cancel.params[i] = ProofFields(p)[i]
    BY <1>3, <1>4, CancelReadsBack
  <1> HIDE DEF settle, cancel
  <1>8. last' = Built(settle, for, proof) \/ last' = Built(cancel, for, proof)
    BY <1>1
  <1> QED
    BY <1>5, <1>6, <1>7, <1>8

LEMMA LandSwapCarried ==
    ASSUME Carried, LandSwap
    PROVE  Carried'
  <1>1. last.op = "swap" /\ last' = NoInstruction /\ client' = client
    BY DEF LandSwap
  <1>2. last # NoInstruction
    BY <1>1 DEF NoInstruction
  <1>3. /\ last.for.secret \in Secret
        /\ last.ins.op = "swap" /\ ReadsBack(last.ins)
        /\ last.ins.params[3] = CommitmentBytes(last.for.secret.min_out, last.for.secret.salt)
    BY <1>1, <1>2 DEF Carried, DataCarried, CarriesCommitment
  <1>4. Decode("swap", last.ins.data).fields = last.ins.params
    BY <1>3 DEF ReadsBack, ReadAs
  <1>5. order'.d_out \in Yield /\ order'.secret = last.for.secret
    BY DEF LandSwap
  <1>6. order'.c_min = Decode("swap", last.ins.data).fields[3]
    BY DEF LandSwap
  <1>7. OrderCommits'
    BY <1>3, <1>4, <1>5, <1>6 DEF OrderCommits
  <1> QED
    BY <1>1, <1>7 DEF Carried, ClientMade, DataCarried

LEMMA AmountsAreWords ==
    ASSUME NEW amounts \in Amount \X Amount, NEW k, NEW t1
    PROVE  /\ amounts[1] \in Word
           /\ Ordered(k, t1, amounts)[1] \in Word
           /\ Ordered(k, t1, amounts)[2] \in Word
  <1>1. amounts[1] \in Amount /\ amounts[2] \in Amount
    OBVIOUS
  <1>2. amounts[1] \in Word /\ amounts[2] \in Word
    BY <1>1, InstructionsAssumption
  <1> QED
    BY <1>2 DEF Ordered

\* What takes amounts for the pool of two tokens.
LEMMA OpenerCarried ==
    ASSUME Carried, NEW u, NEW t1, NEW t2, NEW amounts, NEW ins,
           client' = client, order' = order,
           last' = Built(ins, For(u, u, <<t1, t2>>, amounts, NoSecret), NoProof),
           ReadsBack(ins),
           \/ /\ ins.op \in {"add_liquidity", "remove_liquidity"}
              /\ ins.params[2] = Ordered(KeyOf(t1, t2), t1, amounts)[1]
              /\ ins.params[3] = Ordered(KeyOf(t1, t2), t1, amounts)[2]
           \/ /\ ins.op = "initialize_pool"
              /\ ins.params[1] = Ordered(KeyOf(t1, t2), t1, amounts)[1]
              /\ ins.params[2] = Ordered(KeyOf(t1, t2), t1, amounts)[2]
    PROVE  Carried'
  <1> DEFINE for == For(u, u, <<t1, t2>>, amounts, NoSecret)
  <1>1. for.tokens = <<t1, t2>> /\ for.amounts = amounts
    BY ForParts
  <1>2. last'.op = ins.op /\ last'.ins = ins /\ last'.for = for
    BY BuiltParts
  <1> HIDE DEF for
  <1>3. last'.for.tokens[1] = t1 /\ last'.for.tokens[2] = t2 /\ last'.for.amounts = amounts
    BY <1>1, <1>2
  <1>4. CarriesAmounts'
    BY <1>2, <1>3 DEF CarriesAmounts
  <1>5. DataCarried'
    BY <1>2, <1>4 DEF DataCarried
  <1>6. ClientMade' /\ OrderCommits'
    BY DEF Carried, ClientMade, OrderCommits
  <1> QED
    BY <1>5, <1>6 DEF Carried

LEMMA LiquidityTxCarried ==
    ASSUME Carried, NEW op \in {"add_liquidity", "remove_liquidity"},
           NEW u, NEW t1, NEW t2, NEW amounts \in Amount \X Amount,
           LiquidityTx(op, u, t1, t2, amounts[1], amounts)
    PROVE  Carried'
  <1> DEFINE limits == Ordered(KeyOf(t1, t2), t1, amounts)
             add == GetAddLiquidityAndAccountMetas(amm', u, amounts[1], limits[1], limits[2],
                                                   client.ref_code, client.label)
             remove == GetRemoveLiquidityAndAccountMetas(amm', u, amounts[1], limits[1], limits[2],
                                                         client.label)
             for == For(u, u, <<t1, t2>>, amounts, NoSecret)
  <1>1. /\ client' = client /\ order' = order /\ client.ok
        /\ last' = Built(IF op = "add_liquidity" THEN add ELSE remove, for, NoProof)
    BY DEF LiquidityTx
  <1>2. /\ Kept(client.label, LabelBytes) /\ Kept(client.ref_code, RefCodeBytes)
        /\ amounts[1] \in Word /\ limits[1] \in Word /\ limits[2] \in Word
    BY <1>1, ClientIsKept, AmountsAreWords DEF Carried
  <1> HIDE DEF limits
  <1>3. ReadsBack(add) /\ add.params[2] = limits[1] /\ add.params[3] = limits[2]
    BY <1>2, AddLiquidityReadsBack
  <1>4. add.op = "add_liquidity"
    BY DEF GetAddLiquidityAndAccountMetas, Instruction
  <1>5. ReadsBack(remove) /\ remove.params[2] = limits[1] /\ remove.params[3] = limits[2]
    BY <1>2, RemoveLiquidityReadsBack
  <1>6. remove.op = "remove_liquidity"
    BY DEF GetRemoveLiquidityAndAccountMetas, Instruction
  <1> HIDE DEF add, remove
  <1>7. CASE last' = Built(add, for, NoProof)
    BY <1>1, <1>3, <1>4, <1>7, OpenerCarried DEF limits
  <1>8. CASE last' = Built(remove, for, NoProof)
    BY <1>1, <1>5, <1>6, <1>8, OpenerCarried DEF limits
  <1> QED
    BY <1>1, <1>7, <1>8

LEMMA InitializePoolTxCarried ==
    ASSUME Carried, NEW u, NEW t1, NEW t2, NEW amounts \in Amount \X Amount,
           InitializePoolTx(u, t1, t2, amounts)
    PROVE  Carried'
  <1> DEFINE k == KeyOf(t1, t2)
             sorted == Ordered(k, t1, amounts)
             ins == GetInitializePoolAndAccountMetas(u, k[1], k[2], ProgramOf[k[1]],
                                                     ProgramOf[k[2]], sorted[1], sorted[2],
                                                     client.label)
             for == For(u, u, <<t1, t2>>, amounts, NoSecret)
  <1>1. client' = client /\ order' = order /\ client.ok /\ last' = Built(ins, for, NoProof)
    BY DEF InitializePoolTx
  <1>2. Kept(client.label, LabelBytes) /\ sorted[1] \in Word /\ sorted[2] \in Word
    BY <1>1, ClientIsKept, AmountsAreWords DEF Carried
  <1> HIDE DEF sorted
  <1>3. ReadsBack(ins) /\ ins.params[1] = sorted[1] /\ ins.params[2] = sorted[2]
    BY <1>2, InitializePoolReadsBack
  <1>4. ins.op = "initialize_pool"
    BY DEF GetInitializePoolAndAccountMetas, Instruction
  <1> HIDE DEF ins
  <1> QED
    BY <1>1, <1>3, <1>4, OpenerCarried DEF sorted

LEMMA CarriedNext == Carried /\ [Next]_vars => Carried'
  <1> SUFFICES ASSUME Carried, [Next]_vars
               PROVE  Carried'
    OBVIOUS
  <1>1. ASSUME NEW given \in Given, New(given.label, given.ref_code)
        PROVE  Carried'
    BY <1>1 DEF New, Carried, ClientMade, OrderCommits, DataCarried, CarriesCommitment,
                CarriesProof, CarriesAmounts
  <1>2. ASSUME NEW k \in Pool, LoadPool(k)
        PROVE  Carried'
    BY <1>2 DEF LoadPool, Carried, ClientMade, OrderCommits, DataCarried, CarriesCommitment,
                CarriesProof, CarriesAmounts
  <1>3. CASE Build
    <2>1. ASSUME NEW u \in User, NEW t1 \in Token, NEW t2 \in Token,
                 NEW amounts \in Amount \X Amount
          PROVE  /\ \A secret \in Secret : SwapTx(u, t1, t2, amounts[1], secret) => Carried'
                 /\ \A op \in {"add_liquidity", "remove_liquidity"} :
                        LiquidityTx(op, u, t1, t2, amounts[1], amounts) => Carried'
                 /\ InitializePoolTx(u, t1, t2, amounts) => Carried'
      <3>1. amounts[1] \in Amount
        OBVIOUS
      <3> QED
        BY <3>1, SwapTxCarried, LiquidityTxCarried, InitializePoolTxCarried
    <2> QED
      BY <1>3, <2>1, SlashTxCarried, ProveTxCarried DEF Build
  <1>4. CASE LandSwap
    BY <1>4, LandSwapCarried
  <1>5. CASE LandFinalize
    BY <1>5 DEF LandFinalize, Carried, ClientMade, OrderCommits, DataCarried, NoOrder
  <1>6. CASE Discard
    BY <1>6 DEF Discard, Carried, ClientMade, OrderCommits, DataCarried
  <1>7. CASE UNCHANGED vars
    BY <1>7 DEF vars, Carried, ClientMade, OrderCommits, DataCarried, CarriesCommitment,
                CarriesProof, CarriesAmounts
  <1> QED
    BY <1>1, <1>2, <1>3, <1>4, <1>5, <1>6, <1>7 DEF Next

\* Every reachable state carries its data: see the parts above.
THEOREM AlwaysCarried == Spec => []Carried
  BY CarriedInit, CarriedNext, PTL DEF Spec

-----------------------------------------------------------------------------
(***************************************************************************)
(* What a state promises that carries its data.                            *)
(***************************************************************************)
\* For any strings, prefix and limits of bytes: new() takes what fits and no
\* more, and what it keeps is what it was given, zeros at the end aside.
THEOREM AlwaysLabelSurvives == Spec => []LabelSurvives
  <1>1. Carried => LabelSurvives
    <2> SUFFICES ASSUME Carried
                 PROVE  LabelSurvives
      OBVIOUS
    <2>1. PICK given \in Given : client = NewClient(given.label, given.ref_code)
      BY DEF Carried, ClientMade
    <2>2. client.given.label = given.label /\ client.given.ref_code = given.ref_code
      BY <2>1, ClientFields
    <2> QED
      BY <2>1, <2>2, ClientSurvives DEF LabelSurvives
  <1> QED
    BY <1>1, AlwaysCarried, PTL

\* For any base, widths and parameters, the data of an instruction is read as
\* the parameters the builder returns, with nothing left over.
THEOREM AlwaysProgramReadsParams == Spec => []ProgramReadsParams
  <1>1. Carried => ProgramReadsParams
    BY DEF Carried, DataCarried, ReadsBack, ReadAs, ProgramReadsParams
  <1> QED
    BY <1>1, AlwaysCarried, PTL

\* For any hash, primes and widths, the secret of a swap is a witness for the
\* commitment as its order keeps it, to settle or to cancel as the output says.
THEOREM AlwaysCommitmentSurvives == Spec => []CommitmentSurvives
  <1>1. Carried => CommitmentSurvives
    <2> SUFFICES ASSUME Carried, order.open
                 PROVE  CommitmentSurvives
      BY DEF CommitmentSurvives
    <2>1. order.secret \in Secret
      BY DEF Carried, OrderCommits
    <2>2. order.c_min = CommitmentBytes(order.secret.min_out, order.secret.salt)
      BY DEF Carried, OrderCommits
    <2>3. From32ByteBuffer(order.c_min) =
              Poseidon(order.secret.min_out % P, FromWord(order.secret.salt) % P)
      BY <2>1, <2>2, CommitmentType
    <2> QED
      BY <2>3 DEF CommitmentSurvives, Witness
  <1> QED
    BY <1>1, AlwaysCarried, PTL

\* For any widths and any proof the prover may find, the program reads the
\* proof with its first point negated, and the order's own output and commitment.
THEOREM AlwaysProgramVerifiesTheProof == Spec => []ProgramVerifiesTheProof
  <1>1. Carried => ProgramVerifiesTheProof
    <2> SUFFICES ASSUME Carried, last.op \in {"settle", "cancel"}, order.open
                 PROVE  ProgramVerifiesTheProof
      BY DEF ProgramVerifiesTheProof
    <2> DEFINE commitment == From32ByteBuffer(order.c_min)
               p == ConvertProofToSolanaProof(last.proof, order.d_out, commitment)
               read == Decode(last.op, last.ins.data).fields
    <2>1. last # NoInstruction
      BY DEF NoInstruction
    <2>2. last.ins.op = last.op /\ ReadsBack(last.ins) /\ CarriesProof
      BY <2>1 DEF Carried, DataCarried
    <2>3. ProofIsRead(p, last.proof, order.d_out, commitment)
      BY <2>2, OrderProof DEF CarriesProof
    <2>4. To32ByteBuffer(commitment) = order.c_min
      BY CommitmentType DEF Carried, OrderCommits
    <2>5. read = last.ins.params /\ \A i \in 1..5 : last.ins.params[i] = ProofFields(p)[i]
      BY <2>2 DEF ReadsBack, ReadAs, CarriesProof
    <2>6. /\ ProofFields(p)[1] = p.proof_a /\ ProofFields(p)[2] = p.proof_b
          /\ ProofFields(p)[3] = p.proof_c /\ ProofFields(p)[4] = p.public_signals[1]
          /\ ProofFields(p)[5] = p.public_signals[2]
      BY DEF ProofFields
    <2> HIDE DEF commitment, p, read
    <2>7. /\ read[1] = p.proof_a /\ read[2] = p.proof_b /\ read[3] = p.proof_c
          /\ read[4] = p.public_signals[1] /\ read[5] = p.public_signals[2]
      BY <2>5, <2>6
    <2>8. /\ ReadG1(read[1]) = Neg(last.proof.a)
          /\ ReadG2(read[2]) = last.proof.b
          /\ ReadG1(read[3]) = last.proof.c
          /\ From32ByteBuffer(read[4]) = order.d_out
          /\ read[5] = order.c_min
      BY <2>3, <2>4, <2>7 DEF ProofIsRead
    <2> QED
      BY <2>8 DEF ProgramVerifiesTheProof, read
  <1> QED
    BY <1>1, AlwaysCarried, PTL

\* The pool of two tokens is the same in either order.
LEMMA KeyOfEither ==
    ASSUME NEW k \in Pool, NEW t1, NEW t2, k = KeyOf(t1, t2)
    PROVE  /\ KeyOf(t2, t1) = k
           /\ \/ k[1] = PostSol(t1) /\ k[2] = PostSol(t2)
              \/ k[1] = PostSol(t2) /\ k[2] = PostSol(t1) /\ k[1] # PostSol(t1)
  <1> DEFINE x == PostSol(t1)
             y == PostSol(t2)
  <1>1. k \in Mint \X Mint /\ k[1] < k[2]
    BY InstructionsAssumption
  <1>2. k[1] \in Nat /\ k[2] \in Nat
    BY <1>1, AddressAssumption
  <1>3. k = IF x < y THEN <<x, y>> ELSE <<y, x>>
    BY DEF KeyOf, GetPoolAddress
  <1>4. KeyOf(t2, t1) = IF y < x THEN <<y, x>> ELSE <<x, y>>
    BY DEF KeyOf, GetPoolAddress
  <1> HIDE DEF x, y
  <1>5. CASE x < y
    <2>1. k[1] = x /\ k[2] = y
      BY <1>3, <1>5
    <2>2. ~(y < x)
      BY <1>2, <1>5, <2>1
    <2> QED
      BY <1>3, <1>4, <1>5, <2>1, <2>2 DEF x, y
  <1>6. CASE ~(x < y)
    <2>1. k[1] = y /\ k[2] = x
      BY <1>3, <1>6
    <2>2. y < x /\ y # x
      BY <1>1, <1>2, <2>1
    <2> QED
      BY <1>3, <1>4, <1>6, <2>1, <2>2 DEF x, y
  <1> QED
    BY <1>5, <1>6

\* For any mints, pools and amounts, named in either order, each amount stands
\* where the program reads the one of its token's mint, and the pool is the
\* one of the two tokens.
THEOREM AlwaysAmountsMeetTheirMints == Spec => []AmountsMeetTheirMints
  <1>1. Sound /\ Carried => AmountsMeetTheirMints
    <2> SUFFICES ASSUME Sound, Carried,
                        last.op \in {"initialize_pool", "add_liquidity", "remove_liquidity"}
                 PROVE  AmountsMeetTheirMints
      BY DEF AmountsMeetTheirMints
    <2> DEFINE read == Decode(last.op, last.ins.data).fields
               first == IF last.op = "initialize_pool" THEN 1 ELSE 2
               place == Place[last.op]
               t1 == last.for.tokens[1]
               t2 == last.for.tokens[2]
               amounts == last.for.amounts
               limits == Ordered(KeyOf(t1, t2), t1, amounts)
    <2>1. last # NoInstruction
      BY DEF NoInstruction
    <2>2. PICK k \in Pool : Opens(k)
      BY <2>1 DEF Sound, BuiltSound, Finalizes
    <2>3. k = KeyOf(t1, t2) /\ Lists(last.op, last.ins.accounts, k, last.for.owner, last.for.owner)
      BY <2>2 DEF Opens
    <2>4. /\ Key(last.ins, place.pool) = PoolAccount(k)
          /\ Key(last.ins, place.x) = MintKey(k[1])
          /\ Key(last.ins, place.x + 1) = MintKey(k[2])
      BY <2>3 DEF Lists, MintsAt, Key
    <2>5. last.ins.op = last.op /\ ReadsBack(last.ins) /\ CarriesAmounts
      BY <2>1 DEF Carried, DataCarried
    <2>6. read = last.ins.params
      BY <2>5 DEF ReadsBack, ReadAs
    <2>7. read[first] = limits[1] /\ read[first + 1] = limits[2]
      BY <2>5, <2>6 DEF CarriesAmounts
    <2>8. place.x \in Nat /\ first \in Nat
      BY PlacesAreNumbers
    <2> HIDE DEF read, first, place, t1, t2, amounts
    <2>9. KeyOf(t2, t1) = k
      BY <2>3, KeyOfEither
    <2>10. ASSUME NEW i \in {0, 1}
           PROVE  \E j \in {1, 2} :
                      /\ Key(last.ins, place.x + i) = MintKey(PostSol(last.for.tokens[j]))
                      /\ read[first + i] = amounts[j]
      <3>1. CASE k[1] = PostSol(t1) /\ k[2] = PostSol(t2)
        <4>1. limits[1] = amounts[1] /\ limits[2] = amounts[2]
          BY <2>3, <3>1 DEF Ordered
        <4>2. CASE i = 0
          BY <2>4, <2>7, <2>8, <3>1, <4>1, <4>2 DEF t1
        <4>3. CASE i = 1
          BY <2>4, <2>7, <2>8, <3>1, <4>1, <4>3 DEF t2
        <4> QED
          BY <4>2, <4>3
      <3>2. CASE k[1] = PostSol(t2) /\ k[2] = PostSol(t1) /\ k[1] # PostSol(t1)
        <4>1. limits[1] = amounts[2] /\ limits[2] = amounts[1]
          BY <2>3, <3>2 DEF Ordered
        <4>2. CASE i = 0
          BY <2>4, <2>7, <2>8, <3>2, <4>1, <4>2 DEF t2
        <4>3. CASE i = 1
          BY <2>4, <2>7, <2>8, <3>2, <4>1, <4>3 DEF t1
        <4> QED
          BY <4>2, <4>3
      <3> QED
        BY <2>3, <3>1, <3>2, KeyOfEither
    <2> QED
      BY <2>4, <2>9, <2>10 DEF AmountsMeetTheirMints, read, first, place, t1, t2, amounts
  <1> QED
    BY <1>1, AlwaysSound, AlwaysCarried, PTL
=============================================================================
