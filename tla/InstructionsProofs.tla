------------------------- MODULE InstructionsProofs -------------------------
(***************************************************************************)
(* Proofs about the account lists of Instructions, for any mints, pools,   *)
(* programs and wallets: who signs, whose accounts are named, and that     *)
(* what closes an order reaches the accounts that opened it.               *)
(***************************************************************************)
EXTENDS Instructions, TLAPS

-----------------------------------------------------------------------------
(***************************************************************************)
(* Lists of accounts, put together from parts.                             *)
(***************************************************************************)
IsList(l) == \E S : l \in Seq(S)

SignersAt(l) == {i \in DOMAIN l : l[i].signer}

WrittenOf(l) == {m.key : m \in {l[i] : i \in {j \in DOMAIN l : l[j].writable}}}

\* A list of n accounts, those at sg sign.
List(l, n, sg) == IsList(l) /\ Len(l) = n /\ SignersAt(l) = sg

LEMMA MetaFlags ==
    ASSUME NEW key
    PROVE  /\ Signing(key).key = key /\ Signing(key).signer /\ Signing(key).writable
           /\ Writing(key).key = key /\ ~Writing(key).signer /\ Writing(key).writable
           /\ Reading(key).key = key /\ ~Reading(key).signer /\ ~Reading(key).writable
  BY DEF Signing, Writing, Reading, Meta

\* What a single account adds to the keys that are written.
Wr(m) == IF m.writable THEN {m.key} ELSE {}

LEMMA WrOf ==
    ASSUME NEW key
    PROVE  Wr(Signing(key)) = {key} /\ Wr(Writing(key)) = {key} /\ Wr(Reading(key)) = {}
  BY MetaFlags DEF Wr

LEMMA One ==
    ASSUME NEW a
    PROVE  /\ List(<<a>>, 1, IF a.signer THEN {1} ELSE {})
           /\ WrittenOf(<<a>>) = Wr(a)
  <1>1. <<a>> \in Seq({a})
    OBVIOUS
  <1>2. SignersAt(<<a>>) = IF a.signer THEN {1} ELSE {}
    BY DEF SignersAt
  <1>3. WrittenOf(<<a>>) = Wr(a)
    BY DEF WrittenOf, Wr
  <1> QED
    BY <1>1, <1>2, <1>3 DEF List, IsList

LEMMA Two ==
    ASSUME NEW a, NEW b, ~b.signer
    PROVE  /\ List(<<a, b>>, 2, IF a.signer THEN {1} ELSE {})
           /\ WrittenOf(<<a, b>>) = Wr(a) \cup Wr(b)
  <1>1. <<a, b>> \in Seq({a, b})
    OBVIOUS
  <1>2. SignersAt(<<a, b>>) = IF a.signer THEN {1} ELSE {}
    BY DEF SignersAt
  <1>3. WrittenOf(<<a, b>>) = Wr(a) \cup Wr(b)
    BY DEF WrittenOf, Wr
  <1> QED
    BY <1>1, <1>2, <1>3 DEF List, IsList

LEMMA Three ==
    ASSUME NEW a, NEW b, NEW c, ~a.signer, ~b.signer, ~c.signer
    PROVE  /\ List(<<a, b, c>>, 3, {})
           /\ WrittenOf(<<a, b, c>>) = Wr(a) \cup Wr(b) \cup Wr(c)
  <1>1. <<a, b, c>> \in Seq({a, b, c})
    OBVIOUS
  <1>2. SignersAt(<<a, b, c>>) = {}
    BY DEF SignersAt
  <1>3. WrittenOf(<<a, b, c>>) = Wr(a) \cup Wr(b) \cup Wr(c)
    BY DEF WrittenOf, Wr
  <1> QED
    BY <1>1, <1>2, <1>3 DEF List, IsList

LEMMA Four ==
    ASSUME NEW a, NEW b, NEW c, NEW d, ~b.signer, ~c.signer, ~d.signer
    PROVE  /\ List(<<a, b, c, d>>, 4, IF a.signer THEN {1} ELSE {})
           /\ WrittenOf(<<a, b, c, d>>) = Wr(a) \cup Wr(b) \cup Wr(c) \cup Wr(d)
  <1>1. <<a, b, c, d>> \in Seq({a, b, c, d})
    OBVIOUS
  <1>2. SignersAt(<<a, b, c, d>>) = IF a.signer THEN {1} ELSE {}
    BY DEF SignersAt
  <1>3. WrittenOf(<<a, b, c, d>>) = Wr(a) \cup Wr(b) \cup Wr(c) \cup Wr(d)
    BY DEF WrittenOf, Wr
  <1> QED
    BY <1>1, <1>2, <1>3 DEF List, IsList

LEMMA Five ==
    ASSUME NEW a, NEW b, NEW c, NEW d, NEW e, ~a.signer, ~b.signer, ~c.signer, ~d.signer, ~e.signer
    PROVE  List(<<a, b, c, d, e>>, 5, {})
  <1>1. <<a, b, c, d, e>> \in Seq({a, b, c, d, e})
    OBVIOUS
  <1>2. SignersAt(<<a, b, c, d, e>>) = {}
    BY DEF SignersAt
  <1> QED
    BY <1>1, <1>2 DEF List, IsList

LEMMA Six ==
    ASSUME NEW a, NEW b, NEW c, NEW d, NEW e, NEW f,
           ~a.signer, ~b.signer, ~c.signer, ~d.signer, ~e.signer, ~f.signer
    PROVE  List(<<a, b, c, d, e, f>>, 6, {})
  <1>1. <<a, b, c, d, e, f>> \in Seq({a, b, c, d, e, f})
    OBVIOUS
  <1>2. SignersAt(<<a, b, c, d, e, f>>) = {}
    BY DEF SignersAt
  <1> QED
    BY <1>1, <1>2 DEF List, IsList

\* Two lists one after the other.
Cat(s, t) == s \o t

LEMMA Join ==
    ASSUME NEW s, NEW t, NEW n \in Nat, NEW m \in Nat, NEW sg,
           List(s, n, sg), List(t, m, {})
    PROVE  /\ List(Cat(s, t), n + m, sg)
           /\ \A i \in 1..n : Cat(s, t)[i] = s[i]
           /\ \A i \in 1..m : Cat(s, t)[n + i] = t[i]
           /\ WrittenOf(Cat(s, t)) = WrittenOf(s) \cup WrittenOf(t)
  <1> DEFINE l == s \o t
  <1>1. PICK S : s \in Seq(S)
    BY DEF List, IsList
  <1>2. PICK T : t \in Seq(T)
    BY DEF List, IsList
  <1>3. s \in Seq(S \cup T) /\ t \in Seq(S \cup T)
    BY <1>1, <1>2
  <1>4. /\ l \in Seq(S \cup T)
        /\ n \in Nat /\ m \in Nat
        /\ Len(l) = n + m
        /\ DOMAIN s = 1..n
        /\ DOMAIN t = 1..m
        /\ DOMAIN l = 1..(n + m)
        /\ \A i \in 1..n : l[i] = s[i]
        /\ \A i \in 1..m : l[n + i] = t[i]
    BY <1>3 DEF List
  <1> HIDE DEF l
  <1>5. \A i \in DOMAIN l : i \in 1..n \/ (i - n \in 1..m /\ i = n + (i - n))
    BY <1>4
  <1>6. SignersAt(l) = sg
    <2>1. \A i \in SignersAt(l) : i \in sg
      <3> SUFFICES ASSUME NEW i \in DOMAIN l, l[i].signer
                   PROVE  i \in sg
        BY DEF SignersAt
      <3>1. CASE i \in 1..n
        BY <3>1, <1>4 DEF List, SignersAt
      <3>2. CASE i - n \in 1..m
        <4>1. l[i] = t[i - n]
          BY <3>2, <1>4, <1>5
        <4> QED
          BY <3>2, <4>1, <1>4 DEF List, SignersAt
      <3> QED
        BY <3>1, <3>2, <1>5
    <2>2. \A i \in sg : i \in SignersAt(l)
      <3> SUFFICES ASSUME NEW i \in DOMAIN s, s[i].signer
                   PROVE  i \in SignersAt(l)
        BY DEF List, SignersAt
      <3>1. i \in 1..n /\ i \in DOMAIN l /\ l[i] = s[i]
        BY <1>4
      <3> QED
        BY <3>1 DEF SignersAt
    <2> QED
      BY <2>1, <2>2 DEF SignersAt
  <1>7. WrittenOf(l) = WrittenOf(s) \cup WrittenOf(t)
    <2>1. \A x \in WrittenOf(s) : x \in WrittenOf(l)
      BY <1>4 DEF WrittenOf
    <2>2. \A x \in WrittenOf(t) : x \in WrittenOf(l)
      <3> SUFFICES ASSUME NEW i \in DOMAIN t, t[i].writable
                   PROVE  t[i].key \in WrittenOf(l)
        BY DEF WrittenOf
      <3>1. n + i \in DOMAIN l /\ l[n + i] = t[i]
        BY <1>4
      <3> QED
        BY <3>1 DEF WrittenOf
    <2>3. \A x \in WrittenOf(l) : x \in WrittenOf(s) \cup WrittenOf(t)
      <3> SUFFICES ASSUME NEW i \in DOMAIN l, l[i].writable
                   PROVE  l[i].key \in WrittenOf(s) \cup WrittenOf(t)
        BY DEF WrittenOf
      <3>1. CASE i \in 1..n
        BY <3>1, <1>4 DEF WrittenOf
      <3>2. CASE i - n \in 1..m
        <4>1. l[i] = t[i - n]
          BY <3>2, <1>4, <1>5
        <4> QED
          BY <3>2, <4>1, <1>4 DEF WrittenOf
      <3> QED
        BY <3>1, <3>2, <1>5
    <2> QED
      BY <2>1, <2>2, <2>3
  <1>8. List(l, n + m, sg)
    BY <1>4, <1>6 DEF List, IsList
  <1> QED
    BY <1>4, <1>7, <1>8 DEF l, Cat

-----------------------------------------------------------------------------
(***************************************************************************)
(* The parts the lists share, for an owners pair of token programs.        *)
(***************************************************************************)
\* The two mints, and a wallet's accounts for them, from place i of a list.
MintsAt(l, i, k) == l[i].key = MintKey(k[1]) /\ l[i + 1].key = MintKey(k[2])

AccountsAt(l, i, k, owners, u) ==
    /\ l[i].key = UserTokenAccount(u, MintKey(k[1]), owners[1])
    /\ l[i + 1].key = UserTokenAccount(u, MintKey(k[2]), owners[2])

LEMMA MintsOfList ==
    ASSUME NEW k
    PROVE  /\ List(MintsOf(k), 2, {})
           /\ WrittenOf(MintsOf(k)) = {}
           /\ MintsAt(MintsOf(k), 1, k)
  BY Two, MetaFlags, WrOf DEF MintsOf, MintsAt

LEMMA ReservesList ==
    ASSUME NEW k
    PROVE  /\ List(Reserves(k), 2, {})
           /\ WrittenOf(Reserves(k)) = {PoolReserve(k, k[1]), PoolReserve(k, k[2])}
  <1>1. ~Writing(PoolReserve(k, k[1])).signer /\ ~Writing(PoolReserve(k, k[2])).signer
    BY MetaFlags
  <1> QED
    BY <1>1, Two, WrOf DEF Reserves

LEMMA TokenAccountsList ==
    ASSUME NEW k, NEW owners, NEW u
    PROVE  /\ List(TokenAccounts(k, owners, u), 2, {})
           /\ WrittenOf(TokenAccounts(k, owners, u)) =
                  {UserTokenAccount(u, MintKey(k[1]), owners[1]),
                   UserTokenAccount(u, MintKey(k[2]), owners[2])}
           /\ AccountsAt(TokenAccounts(k, owners, u), 1, k, owners, u)
  <1> DEFINE a == UserTokenAccount(u, MintKey(k[1]), owners[1])
             b == UserTokenAccount(u, MintKey(k[2]), owners[2])
  <1>1. TokenAccounts(k, owners, u) = <<Writing(a), Writing(b)>>
    BY DEF TokenAccounts
  <1> HIDE DEF a, b
  <1>2. /\ List(TokenAccounts(k, owners, u), 2, {})
        /\ WrittenOf(TokenAccounts(k, owners, u)) = {a, b}
        /\ TokenAccounts(k, owners, u)[1].key = a
        /\ TokenAccounts(k, owners, u)[2].key = b
    BY <1>1, Two, MetaFlags, WrOf
  <1> QED
    BY <1>2 DEF a, b, AccountsAt

LEMMA TokenProgramsList ==
    ASSUME NEW owners
    PROVE  /\ List(TokenPrograms(owners), 3, {})
           /\ WrittenOf(TokenPrograms(owners)) = {}
  <1>1. \A p : ~Reading(ProgramKey(p)).signer /\ Wr(Reading(ProgramKey(p))) = {}
    BY MetaFlags, WrOf
  <1> QED
    BY <1>1, Three DEF TokenPrograms

LEMMA LoadedFields ==
    ASSUME NEW k
    PROVE  Loaded(k).key = k /\ Loaded(k).token_owners = ProgramsOf(k)
  <1>1. FromPool(k, 1).key = k
    BY DEF FromPool, NewAmm
  <1> QED
    BY <1>1 DEF Loaded, Update, UpdatedOwners, UpdateStages

-----------------------------------------------------------------------------
(***************************************************************************)
(* The seven lists.                                                        *)
(***************************************************************************)
\* Eight parts, as in the list of a swap.
Eight(t1, t2, t3, t4, t5, t6, t7, t8) ==
    Cat(Cat(Cat(Cat(Cat(Cat(Cat(t1, t2), t3), t4), t5), t6), t7), t8)

LEMMA SwapShape ==
    ASSUME NEW t1, NEW t2, NEW t3, NEW t4, NEW t5, NEW t6, NEW t7, NEW t8,
           List(t1, 1, {1}), List(t2, 2, {}), List(t3, 4, {}), List(t4, 2, {}), List(t5, 1, {}),
           List(t6, 2, {}), List(t7, 4, {}), List(t8, 3, {}),
           NEW l, l = Eight(t1, t2, t3, t4, t5, t6, t7, t8)
    PROVE  /\ SignersAt(l) = {1}
           /\ l[1] = t1[1] /\ l[2] = t2[1] /\ l[3] = t2[2] /\ l[5] = t3[2]
           /\ l[8] = t4[1] /\ l[9] = t4[2] /\ l[14] = t7[2]
           /\ WrittenOf(l) =
                  WrittenOf(t1) \cup WrittenOf(t2) \cup WrittenOf(t3) \cup WrittenOf(t4)
                  \cup WrittenOf(t5) \cup WrittenOf(t6) \cup WrittenOf(t7) \cup WrittenOf(t8)
  <1> DEFINE s2 == Cat(t1, t2)
             s3 == Cat(s2, t3)
             s4 == Cat(s3, t4)
             s5 == Cat(s4, t5)
             s6 == Cat(s5, t6)
             s7 == Cat(s6, t7)
             s8 == Cat(s7, t8)
  <1>1. /\ List(s2, 3, {1}) /\ List(s3, 7, {1}) /\ List(s4, 9, {1}) /\ List(s5, 10, {1})
        /\ List(s6, 12, {1}) /\ List(s7, 16, {1}) /\ List(s8, 19, {1})
    BY Join
  <1>2. s8[1] = t1[1] /\ s8[2] = t2[1] /\ s8[3] = t2[2] /\ s8[5] = t3[2]
    BY <1>1, Join
  <1>3. s8[8] = t4[1] /\ s8[9] = t4[2] /\ s8[14] = t7[2]
    BY <1>1, Join
  <1>4. WrittenOf(s8) =
            WrittenOf(t1) \cup WrittenOf(t2) \cup WrittenOf(t3) \cup WrittenOf(t4)
            \cup WrittenOf(t5) \cup WrittenOf(t6) \cup WrittenOf(t7) \cup WrittenOf(t8)
    BY <1>1, Join
  <1> QED
    BY <1>1, <1>2, <1>3, <1>4 DEF Eight, List

\* What a swap writes.
SwapWrites(k, u) ==
    {Wallet(u), PoolAccount(k), UserTokenAccount(u, MintKey(k[1]), ProgramOf[k[1]]),
     UserTokenAccount(u, MintKey(k[2]), ProgramOf[k[2]]), WsolAta(u), PoolReserve(k, k[1]),
     PoolReserve(k, k[2]), PoolWsolReserve(k), OrderAccount(k, u)}

LEMMA SwapList ==
    ASSUME NEW k, NEW u, NEW l, l = SwapAccounts(Loaded(k), u)
    PROVE  /\ SignersAt(l) = {1}
           /\ l[1].key = Wallet(u)
           /\ MintsAt(l, 2, k)
           /\ l[5].key = PoolAccount(k)
           /\ AccountsAt(l, 8, k, ProgramsOf(k), u)
           /\ l[14].key = OrderAccount(k, u)
           /\ WrittenOf(l) = SwapWrites(k, u)
  <1> DEFINE p == ProgramsOf(k)
             t1 == <<Signing(Wallet(u))>>
             t2 == MintsOf(k)
             t3 == <<Wsol, Writing(PoolAccount(k)), Reading(Authority), Reading(AmmConfig)>>
             t4 == TokenAccounts(k, p, u)
             t5 == <<Writing(WsolAta(u))>>
             t6 == Reserves(k)
             t7 == <<Writing(PoolWsolReserve(k)), Writing(OrderAccount(k, u)), AtaProgram, System>>
             t8 == TokenPrograms(p)
  <1>1. l = Eight(t1, t2, t3, t4, t5, t6, t7, t8)
    BY LoadedFields DEF SwapAccounts, Eight, Cat
  <1>2. List(t1, 1, {1}) /\ t1[1].key = Wallet(u) /\ WrittenOf(t1) = {Wallet(u)}
    BY One, MetaFlags, WrOf
  <1>3. List(t3, 4, {}) /\ t3[2].key = PoolAccount(k) /\ WrittenOf(t3) = {PoolAccount(k)}
    BY Four, MetaFlags, WrOf DEF Wsol
  <1>4. List(t5, 1, {}) /\ WrittenOf(t5) = {WsolAta(u)}
    BY One, MetaFlags, WrOf
  <1>5. /\ List(t7, 4, {})
        /\ t7[2].key = OrderAccount(k, u)
        /\ WrittenOf(t7) = {PoolWsolReserve(k), OrderAccount(k, u)}
    BY Four, MetaFlags, WrOf DEF AtaProgram, System
  <1>6. /\ List(t2, 2, {}) /\ MintsAt(t2, 1, k) /\ WrittenOf(t2) = {}
        /\ List(t4, 2, {}) /\ AccountsAt(t4, 1, k, p, u)
        /\ WrittenOf(t4) = {UserTokenAccount(u, MintKey(k[1]), p[1]),
                            UserTokenAccount(u, MintKey(k[2]), p[2])}
        /\ List(t6, 2, {}) /\ WrittenOf(t6) = {PoolReserve(k, k[1]), PoolReserve(k, k[2])}
        /\ List(t8, 3, {}) /\ WrittenOf(t8) = {}
    BY MintsOfList, TokenAccountsList, ReservesList, TokenProgramsList
  <1>7. p[1] = ProgramOf[k[1]] /\ p[2] = ProgramOf[k[2]]
    BY DEF ProgramsOf
  <1> HIDE DEF p, t1, t2, t3, t4, t5, t6, t7, t8
  <1>8. /\ SignersAt(l) = {1}
        /\ l[1] = t1[1] /\ l[2] = t2[1] /\ l[3] = t2[2] /\ l[5] = t3[2]
        /\ l[8] = t4[1] /\ l[9] = t4[2] /\ l[14] = t7[2]
        /\ WrittenOf(l) =
               WrittenOf(t1) \cup WrittenOf(t2) \cup WrittenOf(t3) \cup WrittenOf(t4)
               \cup WrittenOf(t5) \cup WrittenOf(t6) \cup WrittenOf(t7) \cup WrittenOf(t8)
    BY <1>1, <1>2, <1>3, <1>4, <1>5, <1>6, SwapShape
  <1>9. WrittenOf(l) = SwapWrites(k, u)
    BY <1>2, <1>3, <1>4, <1>5, <1>6, <1>7, <1>8 DEF SwapWrites
  <1>10. MintsAt(l, 2, k) /\ AccountsAt(l, 8, k, p, u)
    BY <1>6, <1>8 DEF MintsAt, AccountsAt
  <1> QED
    BY <1>2, <1>3, <1>5, <1>8, <1>9, <1>10 DEF p

LEMMA CloseHeadList ==
    ASSUME NEW k, NEW signer, NEW owner, NEW l, l = CloseHead(Loaded(k), signer, owner)
    PROVE  /\ List(l, 11, {1})
           /\ l[1].key = Wallet(signer)
           /\ MintsAt(l, 3, k)
           /\ l[6].key = PoolAccount(k)
           /\ WrittenOf(l) = {Wallet(signer), Wallet(owner), PoolAccount(k), PoolReserve(k, k[1]),
                              PoolReserve(k, k[2]), PoolWsolReserve(k)}
  <1> DEFINE t1 == <<Signing(Wallet(signer)), Writing(Wallet(owner))>>
             t2 == MintsOf(k)
             t3 == <<Wsol, Writing(PoolAccount(k)), Reading(Authority)>>
             t4 == Reserves(k)
             t5 == <<Writing(PoolWsolReserve(k)), Reading(AmmConfig)>>
  <1>1. l = t1 \o t2 \o t3 \o t4 \o t5
    BY LoadedFields DEF CloseHead
  <1>2. /\ List(t1, 2, {1})
        /\ t1[1].key = Wallet(signer)
        /\ WrittenOf(t1) = {Wallet(signer), Wallet(owner)}
    BY Two, MetaFlags, WrOf
  <1>3. List(t3, 3, {}) /\ t3[2].key = PoolAccount(k) /\ WrittenOf(t3) = {PoolAccount(k)}
    BY Three, MetaFlags, WrOf DEF Wsol
  <1>4. List(t5, 2, {}) /\ WrittenOf(t5) = {PoolWsolReserve(k)}
    BY Two, MetaFlags, WrOf
  <1>5. /\ List(t2, 2, {}) /\ MintsAt(t2, 1, k) /\ WrittenOf(t2) = {}
        /\ List(t4, 2, {}) /\ WrittenOf(t4) = {PoolReserve(k, k[1]), PoolReserve(k, k[2])}
    BY MintsOfList, ReservesList
  <1> HIDE DEF t1, t2, t3, t4, t5
  <1> DEFINE s2 == Cat(t1, t2)
             s3 == Cat(s2, t3)
             s4 == Cat(s3, t4)
             s5 == Cat(s4, t5)
  <1>6. l = s5
    BY <1>1 DEF Cat
  <1>7. List(s2, 4, {1}) /\ List(s3, 7, {1}) /\ List(s4, 9, {1}) /\ List(s5, 11, {1})
    BY <1>2, <1>3, <1>4, <1>5, Join
  <1>8. s5[1] = t1[1] /\ s5[3] = t2[1] /\ s5[4] = t2[2] /\ s5[6] = t3[2]
    BY <1>2, <1>3, <1>4, <1>5, <1>7, Join
  <1>9. WrittenOf(s5) =
            WrittenOf(t1) \cup WrittenOf(t2) \cup WrittenOf(t3) \cup WrittenOf(t4) \cup WrittenOf(t5)
    BY <1>2, <1>3, <1>4, <1>5, <1>7, Join
  <1> HIDE DEF s5
  <1>10. MintsAt(l, 3, k)
    BY <1>5, <1>6, <1>8 DEF MintsAt
  <1> QED
    BY <1>2, <1>3, <1>4, <1>5, <1>6, <1>7, <1>8, <1>9, <1>10

LEMMA CloseTailList ==
    ASSUME NEW k
    PROVE  List(CloseTail(Loaded(k)), 5, {}) /\ WrittenOf(CloseTail(Loaded(k))) = {}
  <1> DEFINE t1 == <<System, AtaProgram>>
             t2 == TokenPrograms(Loaded(k).token_owners)
  <1>1. List(t1, 2, {}) /\ WrittenOf(t1) = {}
    BY Two, MetaFlags, WrOf DEF System, AtaProgram
  <1>2. List(t2, 3, {}) /\ WrittenOf(t2) = {}
    BY TokenProgramsList
  <1>3. CloseTail(Loaded(k)) = Cat(t1, t2)
    BY DEF CloseTail, Cat
  <1> HIDE DEF t1, t2
  <1> QED
    BY <1>1, <1>2, <1>3, Join

\* The head, the token accounts of the trader, some accounts and the tail.
CloseList(k, signer, owner, t3) ==
    CloseHead(Loaded(k), signer, owner)
    \o TokenAccounts(Loaded(k).key, Loaded(k).token_owners, owner)
    \o t3 \o CloseTail(Loaded(k))

\* What follows from a list of m accounts in the middle.
CloseFacts(l, k, signer, owner, t3, m) ==
    /\ SignersAt(l) = {1}
    /\ l[1].key = Wallet(signer)
    /\ MintsAt(l, 3, k)
    /\ l[6].key = PoolAccount(k)
    /\ AccountsAt(l, 12, k, ProgramsOf(k), owner)
    /\ \A i \in 1..m : l[13 + i] = t3[i]
    /\ WrittenOf(l) = {Wallet(signer), Wallet(owner), PoolAccount(k), PoolReserve(k, k[1]),
                       PoolReserve(k, k[2]), PoolWsolReserve(k)}
                      \cup {UserTokenAccount(owner, MintKey(k[1]), ProgramOf[k[1]]),
                            UserTokenAccount(owner, MintKey(k[2]), ProgramOf[k[2]])}
                      \cup WrittenOf(t3)

LEMMA CloseShape ==
    ASSUME NEW k, NEW signer, NEW owner, NEW m \in Nat, NEW t3, List(t3, m, {})
    PROVE  CloseFacts(CloseList(k, signer, owner, t3), k, signer, owner, t3, m)
  <1> DEFINE p == ProgramsOf(k)
             t1 == CloseHead(Loaded(k), signer, owner)
             t2 == TokenAccounts(k, p, owner)
             t4 == CloseTail(Loaded(k))
             l == CloseList(k, signer, owner, t3)
  <1>1. l = t1 \o t2 \o t3 \o t4
    BY LoadedFields DEF CloseList
  <1>2. /\ List(t1, 11, {1})
        /\ t1[1].key = Wallet(signer)
        /\ MintsAt(t1, 3, k)
        /\ t1[6].key = PoolAccount(k)
        /\ WrittenOf(t1) = {Wallet(signer), Wallet(owner), PoolAccount(k), PoolReserve(k, k[1]),
                            PoolReserve(k, k[2]), PoolWsolReserve(k)}
    BY CloseHeadList
  <1>3. p[1] = ProgramOf[k[1]] /\ p[2] = ProgramOf[k[2]]
    BY DEF ProgramsOf
  <1>4. /\ List(t2, 2, {})
        /\ AccountsAt(t2, 1, k, p, owner)
        /\ WrittenOf(t2) = {UserTokenAccount(owner, MintKey(k[1]), ProgramOf[k[1]]),
                            UserTokenAccount(owner, MintKey(k[2]), ProgramOf[k[2]])}
    BY <1>3, TokenAccountsList
  <1>5. List(t4, 5, {}) /\ WrittenOf(t4) = {}
    BY CloseTailList
  <1> HIDE DEF p, l, t1, t2, t4
  <1> DEFINE s2 == Cat(t1, t2)
             s3 == Cat(s2, t3)
             s4 == Cat(s3, t4)
  <1>6. l = s4
    BY <1>1 DEF Cat
  <1>7. List(s2, 13, {1}) /\ List(s3, 13 + m, {1}) /\ List(s4, 13 + m + 5, {1})
    BY <1>2, <1>4, <1>5, Join
  <1>8. /\ \A i \in 1..11 : s4[i] = t1[i]
        /\ s4[12] = t2[1] /\ s4[13] = t2[2]
        /\ \A i \in 1..m : s4[13 + i] = t3[i]
    BY <1>2, <1>4, <1>5, <1>7, Join
  <1>9. WrittenOf(s4) = WrittenOf(t1) \cup WrittenOf(t2) \cup WrittenOf(t3) \cup WrittenOf(t4)
    <2>1. WrittenOf(s2) = WrittenOf(t1) \cup WrittenOf(t2)
      BY <1>2, <1>4, Join
    <2>2. WrittenOf(s3) = WrittenOf(s2) \cup WrittenOf(t3)
      <3> HIDE DEF s2
      <3> QED
        BY <1>7, Join
    <2>3. WrittenOf(s4) = WrittenOf(s3) \cup WrittenOf(t4)
      <3>1. 13 + m \in Nat
        OBVIOUS
      <3> HIDE DEF s3
      <3> QED
        BY <3>1, <1>5, <1>7, Join
    <2> QED
      BY <2>1, <2>2, <2>3
  <1> HIDE DEF s4
  <1>10. MintsAt(l, 3, k) /\ AccountsAt(l, 12, k, p, owner)
    BY <1>2, <1>4, <1>6, <1>8 DEF MintsAt, AccountsAt
  <1>11. SignersAt(l) = {1}
    BY <1>6, <1>7 DEF List
  <1> QED
    BY <1>2, <1>4, <1>5, <1>6, <1>8, <1>9, <1>10, <1>11 DEF p, l, CloseFacts

\* Of a list for operation op on the pool k: the caller alone signs, and the
\* pool, its mints and the wallet's accounts for them stand where the operation
\* has them.
Lists(op, l, k, owner, caller) ==
    /\ {l[i].key : i \in SignersAt(l)} = {Wallet(caller)}
    /\ l[Place[op].pool].key = PoolAccount(k)
    /\ MintsAt(l, Place[op].x, k)
    /\ AccountsAt(l, Place[op].account_x, k, ProgramsOf(k), owner)

LEMMA SwapLists ==
    ASSUME NEW k, NEW u, NEW l, l = SwapAccounts(Loaded(k), u)
    PROVE  /\ Lists("swap", l, k, u, u)
           /\ l[Place["swap"].order].key = OrderAccount(k, u)
           /\ WrittenOf(l) = SwapWrites(k, u)
  <1>1. /\ Place["swap"].x = 2 /\ Place["swap"].account_x = 8
        /\ Place["swap"].pool = 5 /\ Place["swap"].order = 14
    BY DEF Place
  <1>2. /\ SignersAt(l) = {1}
        /\ l[1].key = Wallet(u)
        /\ MintsAt(l, 2, k)
        /\ l[5].key = PoolAccount(k)
        /\ AccountsAt(l, 8, k, ProgramsOf(k), u)
        /\ l[14].key = OrderAccount(k, u)
        /\ WrittenOf(l) = SwapWrites(k, u)
    BY SwapList
  <1>3. {l[i].key : i \in SignersAt(l)} = {Wallet(u)}
    BY <1>2
  <1> QED
    BY <1>1, <1>2, <1>3 DEF Lists

\* What settle, cancel and slash all write.
CloserWrites(k, owner, caller) ==
    {Wallet(caller), Wallet(owner), PoolAccount(k), PoolReserve(k, k[1]),
     PoolReserve(k, k[2]), PoolWsolReserve(k)}
    \cup {UserTokenAccount(owner, MintKey(k[1]), ProgramOf[k[1]]),
          UserTokenAccount(owner, MintKey(k[2]), ProgramOf[k[2]])}
    \cup {WsolAta(caller), OrderAccount(k, owner)}

\* A list that closes the order of owner on the pool k.
Closes(op, l, k, owner, caller) ==
    /\ Lists(op, l, k, owner, caller)
    /\ l[Place[op].order].key = OrderAccount(k, owner)
    /\ CloserWrites(k, owner, caller) \subseteq WrittenOf(l)
    /\ WrittenOf(l) \subseteq
           CloserWrites(k, owner, caller) \cup {WsolAta(owner), OrderWsol(k, owner)}
    /\ op # "slash" => WsolAta(owner) \in WrittenOf(l)

LEMMA CloseLists ==
    ASSUME NEW op \in {"settle", "cancel", "slash"},
           NEW k, NEW signer, NEW owner, NEW m \in Nat, NEW t3, NEW l,
           CloseFacts(l, k, signer, owner, t3, m)
    PROVE  Lists(op, l, k, owner, signer)
  <1>1. Place[op].x = 3 /\ Place[op].account_x = 12 /\ Place[op].pool = 6
    BY DEF Place
  <1>2. {l[i].key : i \in SignersAt(l)} = {Wallet(signer)}
    BY DEF CloseFacts
  <1> QED
    BY <1>1, <1>2 DEF Lists, CloseFacts

LEMMA SettleCloses ==
    ASSUME NEW k, NEW signer, NEW owner, NEW l, l = SettleAccounts(Loaded(k), signer, owner)
    PROVE  Closes("settle", l, k, owner, signer)
  <1> DEFINE t3 == <<Writing(WsolAta(owner)), Writing(WsolAta(signer)),
                     Writing(OrderAccount(k, owner)), Writing(OrderWsol(k, owner))>>
  <1>1. l = CloseList(k, signer, owner, t3)
    BY LoadedFields DEF CloseList, SettleAccounts
  <1>2. /\ List(t3, 4, {})
        /\ t3[3].key = OrderAccount(k, owner)
        /\ WrittenOf(t3) = {WsolAta(owner), WsolAta(signer), OrderAccount(k, owner),
                            OrderWsol(k, owner)}
    BY Four, MetaFlags, WrOf
  <1> HIDE DEF t3
  <1>3. CloseFacts(l, k, signer, owner, t3, 4)
    BY <1>1, <1>2, CloseShape
  <1>4. Lists("settle", l, k, owner, signer)
    BY <1>3, CloseLists
  <1>5. Place["settle"].order = 16
    BY DEF Place
  <1> QED
    BY <1>2, <1>3, <1>4, <1>5 DEF Closes, CloserWrites, CloseFacts

LEMMA CancelCloses ==
    ASSUME NEW k, NEW signer, NEW owner, NEW l, l = CancelAccounts(Loaded(k), signer, owner)
    PROVE  Closes("cancel", l, k, owner, signer)
  <1> DEFINE t3 == <<Writing(WsolAta(owner)), Writing(WsolAta(signer)),
                     Writing(OrderAccount(k, owner))>>
  <1>1. l = CloseList(k, signer, owner, t3)
    BY LoadedFields DEF CloseList, CancelAccounts
  <1>2. /\ List(t3, 3, {})
        /\ t3[3].key = OrderAccount(k, owner)
        /\ WrittenOf(t3) = {WsolAta(owner), WsolAta(signer), OrderAccount(k, owner)}
    BY Three, MetaFlags, WrOf
  <1> HIDE DEF t3
  <1>3. CloseFacts(l, k, signer, owner, t3, 3)
    BY <1>1, <1>2, CloseShape
  <1>4. Lists("cancel", l, k, owner, signer)
    BY <1>3, CloseLists
  <1>5. Place["cancel"].order = 16
    BY DEF Place
  <1> QED
    BY <1>2, <1>3, <1>4, <1>5 DEF Closes, CloserWrites, CloseFacts

LEMMA SlashCloses ==
    ASSUME NEW k, NEW signer, NEW owner, NEW l, l = SlashAccounts(Loaded(k), signer, owner)
    PROVE  Closes("slash", l, k, owner, signer)
  <1> DEFINE t3 == <<Writing(WsolAta(signer)), Writing(OrderAccount(k, owner))>>
  <1>1. l = CloseList(k, signer, owner, t3)
    BY LoadedFields DEF CloseList, SlashAccounts
  <1>2. /\ List(t3, 2, {})
        /\ t3[2].key = OrderAccount(k, owner)
        /\ WrittenOf(t3) = {WsolAta(signer), OrderAccount(k, owner)}
    BY Two, MetaFlags, WrOf
  <1> HIDE DEF t3
  <1>3. CloseFacts(l, k, signer, owner, t3, 2)
    BY <1>1, <1>2, CloseShape
  <1>4. Lists("slash", l, k, owner, signer)
    BY <1>3, CloseLists
  <1>5. Place["slash"].order = 15
    BY DEF Place
  <1> QED
    BY <1>2, <1>3, <1>4, <1>5 DEF Closes, CloserWrites, CloseFacts

\* What the two liquidity lists end with.
LEMMA LiquidityTailList ==
    ASSUME NEW k, NEW u, NEW l, l = LiquidityTail(Loaded(k), u)
    PROVE  List(l, 10, {}) /\ AccountsAt(l, 1, k, ProgramsOf(k), u)
  <1> DEFINE p == ProgramsOf(k)
             t1 == TokenAccounts(k, p, u)
             t2 == <<LpAccount(k, u)>>
             t3 == Reserves(k)
             t4 == <<AtaProgram, System>>
             t5 == TokenPrograms(p)
  <1>1. l = Cat(Cat(Cat(Cat(t1, t2), t3), t4), t5)
    BY LoadedFields DEF LiquidityTail, Cat
  <1>2. List(t2, 1, {}) /\ List(t4, 2, {})
    BY One, Two, MetaFlags DEF LpAccount, AtaProgram, System
  <1>3. List(t1, 2, {}) /\ AccountsAt(t1, 1, k, p, u) /\ List(t3, 2, {}) /\ List(t5, 3, {})
    BY TokenAccountsList, ReservesList, TokenProgramsList
  <1> HIDE DEF p, t1, t2, t3, t4, t5
  <1> DEFINE s2 == Cat(t1, t2)
             s3 == Cat(s2, t3)
             s4 == Cat(s3, t4)
             s5 == Cat(s4, t5)
  <1>4. List(s2, 3, {}) /\ List(s3, 5, {}) /\ List(s4, 7, {}) /\ List(s5, 10, {})
    BY <1>2, <1>3, Join
  <1>5. s5[1] = t1[1] /\ s5[2] = t1[2]
    BY <1>2, <1>3, <1>4, Join
  <1>6. l = s5
    BY <1>1
  <1> HIDE DEF s5
  <1> QED
    BY <1>3, <1>4, <1>5, <1>6 DEF AccountsAt, p

\* Both begin alike but for four accounts.
LiquidityList(k, u, t3) ==
    <<Signing(Wallet(u))>> \o MintsOf(k) \o t3 \o LiquidityTail(Loaded(k), u)

LEMMA LiquidityShape ==
    ASSUME NEW k, NEW u, NEW t3, List(t3, 4, {}),
           NEW l, l = LiquidityList(k, u, t3)
    PROVE  /\ {l[i].key : i \in SignersAt(l)} = {Wallet(u)}
           /\ MintsAt(l, 2, k)
           /\ \A i \in 1..4 : l[3 + i] = t3[i]
           /\ AccountsAt(l, 8, k, ProgramsOf(k), u)
  <1> DEFINE t1 == <<Signing(Wallet(u))>>
             t2 == MintsOf(k)
             t4 == LiquidityTail(Loaded(k), u)
  <1>1. l = Cat(Cat(Cat(t1, t2), t3), t4)
    BY DEF LiquidityList, Cat
  <1>2. List(t1, 1, {1}) /\ t1[1].key = Wallet(u)
    BY One, MetaFlags
  <1>3. /\ List(t2, 2, {}) /\ MintsAt(t2, 1, k)
        /\ List(t4, 10, {}) /\ AccountsAt(t4, 1, k, ProgramsOf(k), u)
    BY MintsOfList, LiquidityTailList
  <1> HIDE DEF t1, t2, t4
  <1> DEFINE s2 == Cat(t1, t2)
             s3 == Cat(s2, t3)
             s4 == Cat(s3, t4)
  <1>4. List(s2, 3, {1}) /\ List(s3, 7, {1}) /\ List(s4, 17, {1})
    BY <1>2, <1>3, Join
  <1>5. s4[1] = t1[1] /\ s4[2] = t2[1] /\ s4[3] = t2[2] /\ s4[8] = t4[1] /\ s4[9] = t4[2]
    BY <1>2, <1>3, <1>4, Join
  <1>6. \A i \in 1..4 : s4[3 + i] = t3[i]
    <2>1. \A i \in 1..4 : s3[3 + i] = t3[i]
      BY <1>4, Join
    <2>2. \A i \in 1..7 : s4[i] = s3[i]
      BY <1>3, <1>4, Join
    <2>3. \A i \in 1..4 : 3 + i \in 1..7
      OBVIOUS
    <2> HIDE DEF s3, s4
    <2> QED
      BY <2>1, <2>2, <2>3
  <1>7. l = s4
    BY <1>1
  <1> HIDE DEF s4
  <1>8. SignersAt(l) = {1}
    BY <1>4, <1>7 DEF List
  <1>9. {l[i].key : i \in SignersAt(l)} = {Wallet(u)}
    BY <1>2, <1>5, <1>7, <1>8
  <1>10. MintsAt(l, 2, k) /\ AccountsAt(l, 8, k, ProgramsOf(k), u)
    BY <1>3, <1>5, <1>7 DEF MintsAt, AccountsAt
  <1> QED
    BY <1>6, <1>7, <1>9, <1>10

LEMMA AddLiquidityLists ==
    ASSUME NEW k, NEW u, NEW l, l = AddLiquidityAccounts(Loaded(k), u)
    PROVE  Lists("add_liquidity", l, k, u, u)
  <1> DEFINE t3 == <<Writing(LpMint(k)), Writing(PoolAccount(k)), Reading(AmmConfig),
                     Reading(Authority)>>
  <1>1. l = LiquidityList(k, u, t3)
    BY LoadedFields DEF LiquidityList, AddLiquidityAccounts
  <1>2. List(t3, 4, {}) /\ t3[2].key = PoolAccount(k)
    BY Four, MetaFlags
  <1>3. /\ Place["add_liquidity"].x = 2 /\ Place["add_liquidity"].account_x = 8
        /\ Place["add_liquidity"].pool = 3 + 2
    BY DEF Place
  <1> HIDE DEF t3
  <1> QED
    BY <1>1, <1>2, <1>3, LiquidityShape DEF Lists

LEMMA RemoveLiquidityLists ==
    ASSUME NEW k, NEW u, NEW l, l = RemoveLiquidityAccounts(Loaded(k), u)
    PROVE  Lists("remove_liquidity", l, k, u, u)
  <1> DEFINE t3 == <<Reading(AmmConfig), Writing(LpMint(k)), Writing(PoolAccount(k)),
                     Reading(Authority)>>
  <1>1. l = LiquidityList(k, u, t3)
    BY LoadedFields DEF LiquidityList, RemoveLiquidityAccounts
  <1>2. List(t3, 4, {}) /\ t3[3].key = PoolAccount(k)
    BY Four, MetaFlags
  <1>3. /\ Place["remove_liquidity"].x = 2 /\ Place["remove_liquidity"].account_x = 8
        /\ Place["remove_liquidity"].pool = 3 + 3
    BY DEF Place
  <1> HIDE DEF t3
  <1> QED
    BY <1>1, <1>2, <1>3, LiquidityShape DEF Lists

LEMMA InitializePoolLists ==
    ASSUME NEW k, NEW u, NEW l, l = InitializePoolAccounts(k, ProgramsOf(k), u)
    PROVE  Lists("initialize_pool", l, k, u, u)
  <1> DEFINE p == ProgramsOf(k)
             t1 == <<Signing(Wallet(u)), Writing(PoolAccount(k)), Reading(Authority),
                     Reading(AmmConfig)>>
             t2 == MintsOf(k)
             t3 == <<Wsol, Writing(LpMint(k)), Writing(Metadata(LpMint(k))),
                     Reading(Metadata(MintKey(k[1]))), Reading(Metadata(MintKey(k[2])))>>
             t4 == TokenAccounts(k, p, u)
             t5 == <<LpAccount(k, u)>>
             t6 == Reserves(k)
             t7 == <<Writing(PoolWsolReserve(k)), Writing(FeeVault),
                     Reading(ProgramKey("metadata")), System, Reading(<<"rent">>), AtaProgram>>
             t8 == TokenPrograms(p)
  <1>1. l = Eight(t1, t2, t3, t4, t5, t6, t7, t8)
    BY DEF InitializePoolAccounts, Eight, Cat
  <1>2. List(t1, 4, {1}) /\ t1[1].key = Wallet(u) /\ t1[2].key = PoolAccount(k)
    BY Four, MetaFlags
  <1>3. List(t3, 5, {})
    BY Five, MetaFlags DEF Wsol
  <1>4. List(t5, 1, {})
    BY One, MetaFlags DEF LpAccount
  <1>5. List(t7, 6, {})
    BY Six, MetaFlags DEF System, AtaProgram
  <1>6. /\ List(t2, 2, {}) /\ MintsAt(t2, 1, k)
        /\ List(t4, 2, {}) /\ AccountsAt(t4, 1, k, p, u)
        /\ List(t6, 2, {}) /\ List(t8, 3, {})
    BY MintsOfList, TokenAccountsList, ReservesList, TokenProgramsList
  <1> HIDE DEF p, t1, t2, t3, t4, t5, t6, t7, t8
  <1> DEFINE s2 == Cat(t1, t2)
             s3 == Cat(s2, t3)
             s4 == Cat(s3, t4)
             s5 == Cat(s4, t5)
             s6 == Cat(s5, t6)
             s7 == Cat(s6, t7)
             s8 == Cat(s7, t8)
  <1>7. /\ List(s2, 6, {1}) /\ List(s3, 11, {1}) /\ List(s4, 13, {1}) /\ List(s5, 14, {1})
        /\ List(s6, 16, {1}) /\ List(s7, 22, {1}) /\ List(s8, 25, {1})
    BY <1>2, <1>3, <1>4, <1>5, <1>6, Join
  <1>8. s8[1] = t1[1] /\ s8[2] = t1[2] /\ s8[5] = t2[1] /\ s8[6] = t2[2]
    BY <1>2, <1>3, <1>4, <1>5, <1>6, <1>7, Join
  <1>9. s8[12] = t4[1] /\ s8[13] = t4[2]
    BY <1>2, <1>3, <1>4, <1>5, <1>6, <1>7, Join
  <1>10. l = s8
    BY <1>1 DEF Eight
  <1> HIDE DEF s8
  <1>11. SignersAt(l) = {1}
    BY <1>7, <1>10 DEF List
  <1>12. {l[i].key : i \in SignersAt(l)} = {Wallet(u)}
    BY <1>2, <1>8, <1>10, <1>11
  <1>13. /\ Place["initialize_pool"].x = 5 /\ Place["initialize_pool"].account_x = 12
         /\ Place["initialize_pool"].pool = 2
    BY DEF Place
  <1>14. MintsAt(l, 5, k) /\ AccountsAt(l, 12, k, p, u) /\ l[2].key = PoolAccount(k)
    BY <1>2, <1>6, <1>8, <1>9, <1>10 DEF MintsAt, AccountsAt
  <1> QED
    BY <1>12, <1>13, <1>14 DEF Lists, p

-----------------------------------------------------------------------------
(***************************************************************************)
(* The inductive invariant: the cache is a loaded pool, an instruction is  *)
(* one of the lists above, of some pool, and an order is what a swap wrote.*)
(***************************************************************************)
AmmSound == amm = NewAmm \/ \E k \in Pool : amm = Loaded(k)

Opens(k) ==
    /\ last.op \in {"swap", "add_liquidity", "remove_liquidity", "initialize_pool"}
    /\ last.for.caller = last.for.owner
    /\ k = KeyOf(last.for.tokens[1], last.for.tokens[2])
    /\ Lists(last.op, last.ins.accounts, k, last.for.owner, last.for.owner)

Swaps(k) ==
    LET l == last.ins.accounts IN
        /\ l[Place["swap"].order].key = OrderAccount(k, last.for.owner)
        /\ WrittenOf(l) = SwapWrites(k, last.for.owner)
        /\ last.ins.params[2] = (PostSol(last.for.tokens[1]) = k[1])

Finalizes(k) ==
    /\ last.op \in {"settle", "cancel", "slash"}
    /\ Closes(last.op, last.ins.accounts, k, last.for.owner, last.for.caller)
    /\ order.open
    /\ order.trader = last.for.owner

BuiltSound ==
    last # NoInstruction =>
        \E k \in Pool : (Opens(k) /\ (last.op = "swap" => Swaps(k))) \/ Finalizes(k)

OrderSound ==
    order.open =>
        \E k \in Pool :
            /\ order.pool = PoolAccount(k)
            /\ order.account = OrderAccount(k, order.trader)
            /\ order.written = SwapWrites(k, order.trader)

Sound == AmmSound /\ BuiltSound /\ OrderSound

LEMMA BuiltFields ==
    ASSUME NEW op, NEW params, NEW data, NEW accounts, NEW for, NEW proof
    PROVE  LET b == Built(Instruction(op, params, data, accounts), for, proof) IN
           /\ b.op = op
           /\ b.ins.accounts = accounts
           /\ b.ins.params = params
           /\ b.for = for
  BY DEF Built, Instruction

LEMMA ForFields ==
    ASSUME NEW owner, NEW caller, NEW tokens, NEW amounts, NEW secret
    PROVE  LET f == For(owner, caller, tokens, amounts, secret) IN
           f.owner = owner /\ f.caller = caller /\ f.tokens = tokens
  BY DEF For

LEMMA SoundInit == Init => Sound
  BY DEF Init, Sound, AmmSound, BuiltSound, OrderSound, NoOrder

LEMMA SwapTxSound ==
    ASSUME Sound, NEW u, NEW token_in, NEW token_out, NEW amount_in, NEW secret,
           SwapTx(u, token_in, token_out, amount_in, secret)
    PROVE  Sound'
  <1> DEFINE k == KeyOf(token_in, token_out)
             l == SwapAccounts(Loaded(k), u)
             is_swap_x_to_y == PostSol(token_in) = k[1]
  <1>1. k \in Pool /\ amm' = Loaded(k) /\ order' = order
    BY DEF SwapTx
  <1>2. PICK c_min, data :
            last' = Built(Instruction("swap", <<amount_in, is_swap_x_to_y, c_min, client.label>>,
                                      data, l),
                          For(u, u, <<token_in, token_out>>, <<amount_in, 0>>, secret), NoProof)
    BY LoadedFields DEF SwapTx, GetSwapAndAccountMetas
  <1>3. /\ last'.op = "swap" /\ last'.ins.accounts = l
        /\ last'.for.owner = u /\ last'.for.caller = u
        /\ last'.for.tokens = <<token_in, token_out>>
    BY <1>2, BuiltFields, ForFields
  <1>4. last'.ins.params[2] = is_swap_x_to_y
    <2>1. last'.ins.params = <<amount_in, is_swap_x_to_y, c_min, client.label>>
      BY <1>2, BuiltFields
    <2> HIDE DEF is_swap_x_to_y
    <2> QED
      BY <2>1
  <1>5. /\ Lists("swap", l, k, u, u)
        /\ l[Place["swap"].order].key = OrderAccount(k, u)
        /\ WrittenOf(l) = SwapWrites(k, u)
    BY SwapLists
  <1>6. KeyOf(last'.for.tokens[1], last'.for.tokens[2]) = k /\ last'.for.tokens[1] = token_in
    BY <1>3
  <1> HIDE DEF k, l
  <1>7. Opens(k)'
    BY <1>3, <1>5, <1>6 DEF Opens
  <1>8. Swaps(k)'
    BY <1>3, <1>4, <1>5, <1>6 DEF Swaps
  <1>9. AmmSound' /\ OrderSound'
    BY <1>1 DEF Sound, AmmSound, OrderSound
  <1> QED
    BY <1>1, <1>7, <1>8, <1>9 DEF Sound, BuiltSound

\* An opener that is not a swap.
LEMMA OpenerSound ==
    ASSUME Sound, NEW k \in Pool, NEW u,
           NEW op \in {"add_liquidity", "remove_liquidity", "initialize_pool"},
           AmmSound', order' = order,
           last'.op = op, last'.for.owner = u, last'.for.caller = u,
           k = KeyOf(last'.for.tokens[1], last'.for.tokens[2]),
           Lists(op, last'.ins.accounts, k, u, u)
    PROVE  Sound'
  <1>1. Opens(k)' /\ last'.op # "swap"
    BY DEF Opens
  <1>2. OrderSound'
    BY DEF Sound, OrderSound
  <1> QED
    BY <1>1, <1>2 DEF Sound, BuiltSound

LEMMA LiquidityTxSound ==
    ASSUME Sound, NEW op \in {"add_liquidity", "remove_liquidity"},
           NEW u, NEW t1, NEW t2, NEW amount_lp, NEW amounts,
           LiquidityTx(op, u, t1, t2, amount_lp, amounts)
    PROVE  Sound'
  <1> DEFINE k == KeyOf(t1, t2)
  <1>1. k \in Pool /\ amm' = Loaded(k) /\ order' = order
    BY DEF LiquidityTx
  <1>2. AmmSound'
    BY <1>1 DEF AmmSound
  <1>3. CASE op = "add_liquidity"
    <2>1. PICK params, data :
              last' = Built(Instruction(op, params, data, AddLiquidityAccounts(Loaded(k), u)),
                            For(u, u, <<t1, t2>>, amounts, NoSecret), NoProof)
      BY <1>1, <1>3 DEF LiquidityTx, GetAddLiquidityAndAccountMetas
    <2>2. /\ last'.op = op /\ last'.for.owner = u /\ last'.for.caller = u
          /\ last'.ins.accounts = AddLiquidityAccounts(Loaded(k), u)
          /\ last'.for.tokens = <<t1, t2>>
      BY <2>1, BuiltFields, ForFields
    <2>3. k = KeyOf(last'.for.tokens[1], last'.for.tokens[2])
      BY <2>2
    <2> HIDE DEF k
    <2> QED
      BY <1>1, <1>2, <1>3, <2>2, <2>3, AddLiquidityLists, OpenerSound
  <1>4. CASE op = "remove_liquidity"
    <2>1. PICK params, data :
              last' = Built(Instruction(op, params, data, RemoveLiquidityAccounts(Loaded(k), u)),
                            For(u, u, <<t1, t2>>, amounts, NoSecret), NoProof)
      BY <1>1, <1>4 DEF LiquidityTx, GetRemoveLiquidityAndAccountMetas
    <2>2. /\ last'.op = op /\ last'.for.owner = u /\ last'.for.caller = u
          /\ last'.ins.accounts = RemoveLiquidityAccounts(Loaded(k), u)
          /\ last'.for.tokens = <<t1, t2>>
      BY <2>1, BuiltFields, ForFields
    <2>3. k = KeyOf(last'.for.tokens[1], last'.for.tokens[2])
      BY <2>2
    <2> HIDE DEF k
    <2> QED
      BY <1>1, <1>2, <1>4, <2>2, <2>3, RemoveLiquidityLists, OpenerSound
  <1> QED
    BY <1>3, <1>4

LEMMA InitializePoolTxSound ==
    ASSUME Sound, NEW u, NEW t1, NEW t2, NEW amounts, InitializePoolTx(u, t1, t2, amounts)
    PROVE  Sound'
  <1> DEFINE k == KeyOf(t1, t2)
             op == "initialize_pool"
             l == InitializePoolAccounts(k, ProgramsOf(k), u)
  <1>1. k \in Pool /\ amm' = amm /\ order' = order
    BY DEF InitializePoolTx
  <1>2. AmmSound'
    BY <1>1 DEF Sound, AmmSound
  <1>3. k \in Mint \X Mint
    BY <1>1, InstructionsAssumption
  <1>4. <<k[1], k[2]>> = k
    BY <1>3
  <1>5. PICK params, data :
            last' = Built(Instruction(op, params, data, l),
                          For(u, u, <<t1, t2>>, amounts, NoSecret), NoProof)
    BY <1>4 DEF InitializePoolTx, GetInitializePoolAndAccountMetas, ProgramsOf
  <1>6. /\ last'.op = op /\ last'.for.owner = u /\ last'.for.caller = u
        /\ last'.ins.accounts = l /\ last'.for.tokens = <<t1, t2>>
    BY <1>5, BuiltFields, ForFields
  <1>7. k = KeyOf(last'.for.tokens[1], last'.for.tokens[2])
    BY <1>6
  <1>8. Lists(op, l, k, u, u)
    BY InitializePoolLists
  <1> HIDE DEF k, l
  <1> QED
    BY <1>1, <1>2, <1>6, <1>7, <1>8, OpenerSound

\* What builds a closer of the order there is.
LEMMA FinalizerSound ==
    ASSUME Sound, NEW k \in Pool, NEW signer, NEW op \in {"settle", "cancel", "slash"},
           amm' = amm, order' = order, order.open,
           last'.op = op, last'.for.owner = order.trader, last'.for.caller = signer,
           Closes(op, last'.ins.accounts, k, order.trader, signer)
    PROVE  Sound'
  <1>1. Finalizes(k)'
    BY DEF Finalizes
  <1>2. OrderSound' /\ AmmSound'
    BY DEF Sound, OrderSound, AmmSound
  <1> QED
    BY <1>1, <1>2 DEF Sound, BuiltSound

LEMMA SlashTxSound ==
    ASSUME Sound, NEW signer, SlashTx(signer)
    PROVE  Sound'
  <1>1. amm' = amm /\ order' = order /\ order.open
    BY DEF SlashTx
  <1>2. PICK k \in Pool : amm = Loaded(k)
    BY DEF SlashTx, Sound, AmmSound
  <1> DEFINE l == SlashAccounts(Loaded(k), signer, order.trader)
  <1>3. PICK params, data :
            last' = Built(Instruction("slash", params, data, l),
                          For(order.trader, signer, <<>>, <<>>, NoSecret), NoProof)
    BY <1>2 DEF SlashTx, GetSlashAndAccountMetas
  <1>4. /\ last'.op = "slash" /\ last'.for.owner = order.trader /\ last'.for.caller = signer
        /\ last'.ins.accounts = l
    BY <1>3, BuiltFields, ForFields
  <1>5. Closes("slash", l, k, order.trader, signer)
    BY SlashCloses
  <1> HIDE DEF l
  <1> QED
    BY <1>1, <1>4, <1>5, FinalizerSound

LEMMA ProveTxSound ==
    ASSUME Sound, NEW signer, NEW secret, NEW unwrap_wsol, NEW proof,
           ProveTx(signer, secret, unwrap_wsol, proof)
    PROVE  Sound'
  <1>1. amm' = amm /\ order' = order /\ order.open
    BY DEF ProveTx
  <1>2. PICK k \in Pool : amm = Loaded(k)
    BY DEF ProveTx, Sound, AmmSound
  <1> DEFINE f == For(order.trader, signer, <<>>, <<>>, secret)
  <1>3. CASE secret.min_out <= order.d_out
    <2> DEFINE l == SettleAccounts(Loaded(k), signer, order.trader)
    <2>1. PICK params, data : last' = Built(Instruction("settle", params, data, l), f, proof)
      BY <1>2, <1>3 DEF ProveTx, GetSettleAndAccountMetas
    <2>2. /\ last'.op = "settle" /\ last'.for.owner = order.trader /\ last'.for.caller = signer
          /\ last'.ins.accounts = l
      BY <2>1, BuiltFields, ForFields
    <2>3. Closes("settle", l, k, order.trader, signer)
      BY SettleCloses
    <2> HIDE DEF l
    <2> QED
      BY <1>1, <2>2, <2>3, FinalizerSound
  <1>4. CASE ~(secret.min_out <= order.d_out)
    <2> DEFINE l == CancelAccounts(Loaded(k), signer, order.trader)
    <2>1. PICK params, data : last' = Built(Instruction("cancel", params, data, l), f, proof)
      BY <1>2, <1>4 DEF ProveTx, GetCancelAndAccountMetas
    <2>2. /\ last'.op = "cancel" /\ last'.for.owner = order.trader /\ last'.for.caller = signer
          /\ last'.ins.accounts = l
      BY <2>1, BuiltFields, ForFields
    <2>3. Closes("cancel", l, k, order.trader, signer)
      BY CancelCloses
    <2> HIDE DEF l
    <2> QED
      BY <1>1, <2>2, <2>3, FinalizerSound
  <1> QED
    BY <1>3, <1>4

LEMMA LandSwapSound ==
    ASSUME Sound, LandSwap
    PROVE  Sound'
  <1>1. last.op = "swap" /\ last' = NoInstruction /\ amm' = amm
    BY DEF LandSwap
  <1>2. PICK k \in Pool : Opens(k) /\ Swaps(k)
    BY <1>1 DEF Sound, BuiltSound, Finalizes, NoInstruction
  <1>3. /\ order'.pool = Key(last.ins, Place["swap"].pool)
        /\ order'.account = Key(last.ins, Place["swap"].order)
        /\ order'.trader = last.for.owner
        /\ order'.written = Written(last.ins)
    BY DEF LandSwap
  <1>4. Written(last.ins) = WrittenOf(last.ins.accounts)
    BY DEF Written, WrittenOf
  <1>5. OrderSound'
    BY <1>1, <1>2, <1>3, <1>4 DEF OrderSound, Opens, Lists, Swaps, Key
  <1> QED
    BY <1>1, <1>5 DEF Sound, AmmSound, BuiltSound

LEMMA SoundNext == Sound /\ [Next]_vars => Sound'
  <1> SUFFICES ASSUME Sound, [Next]_vars
               PROVE  Sound'
    OBVIOUS
  <1>1. ASSUME NEW given \in Given, New(given.label, given.ref_code)
        PROVE  Sound'
    BY <1>1 DEF New, Sound, AmmSound, BuiltSound, OrderSound, Opens, Swaps, Finalizes
  <1>2. ASSUME NEW k \in Pool, LoadPool(k)
        PROVE  Sound'
    BY <1>2 DEF LoadPool, Sound, AmmSound, BuiltSound, OrderSound, Opens, Swaps, Finalizes
  <1>3. CASE Build
    BY <1>3, SwapTxSound, LiquidityTxSound, InitializePoolTxSound, SlashTxSound, ProveTxSound
    DEF Build
  <1>4. CASE LandSwap
    BY <1>4, LandSwapSound
  <1>5. CASE LandFinalize
    BY <1>5 DEF LandFinalize, Sound, AmmSound, BuiltSound, OrderSound, NoOrder
  <1>6. CASE Discard
    BY <1>6 DEF Discard, Sound, AmmSound, BuiltSound, OrderSound
  <1>7. CASE UNCHANGED vars
    BY <1>7 DEF vars, Sound, AmmSound, BuiltSound, OrderSound, Opens, Swaps, Finalizes
  <1> QED
    BY <1>1, <1>2, <1>3, <1>4, <1>5, <1>6, <1>7 DEF Next

\* Every reachable state is sound: see the parts above.
THEOREM AlwaysSound == Spec => []Sound
  BY SoundInit, SoundNext, PTL DEF Spec

-----------------------------------------------------------------------------
(***************************************************************************)
(* What a sound state promises.                                            *)
(***************************************************************************)
\* The addresses of the two families a wallet owns, and the others.
LEMMA OwnedAddresses ==
    ASSUME NEW u, NEW owner, NEW k, NEW m, NEW program, u # owner
    PROVE  /\ Owns(u, Wallet(u)) /\ Owns(u, WsolAta(u))
           /\ ~Owns(u, Wallet(owner)) /\ ~Owns(u, WsolAta(owner))
           /\ ~Owns(u, UserTokenAccount(owner, m, program))
           /\ ~Owns(u, PoolAccount(k)) /\ ~Owns(u, PoolReserve(k, m)) /\ ~Owns(u, PoolWsolReserve(k))
           /\ ~Owns(u, OrderAccount(k, owner)) /\ ~Owns(u, OrderWsol(k, owner))
  BY DEF Owns, Wallet, WsolAta, UserTokenAccount, PoolAccount, PoolReserve, PoolWsolReserve,
         OrderAccount, OrderWsol

LEMMA CloserSpares ==
    ASSUME NEW op, NEW l, NEW k, NEW owner, NEW caller, Closes(op, l, k, owner, caller),
           caller # owner
    PROVE  {key \in WrittenOf(l) : Owns(caller, key)} = {Wallet(caller), WsolAta(caller)}
  <1>1. \A key \in CloserWrites(k, owner, caller) \cup {WsolAta(owner), OrderWsol(k, owner)} :
            Owns(caller, key) => key \in {Wallet(caller), WsolAta(caller)}
    BY OwnedAddresses DEF CloserWrites
  <1>2. {Wallet(caller), WsolAta(caller)} \subseteq WrittenOf(l)
    BY DEF Closes, CloserWrites
  <1>3. WrittenOf(l) \subseteq
            CloserWrites(k, owner, caller) \cup {WsolAta(owner), OrderWsol(k, owner)}
    BY DEF Closes
  <1>4. Owns(caller, Wallet(caller)) /\ Owns(caller, WsolAta(caller))
    BY OwnedAddresses
  <1> QED
    BY <1>1, <1>2, <1>3, <1>4

\* For any pools, wallets and history, an instruction needs the signature of
\* the caller alone, and one that closes the order of another may write nothing
\* of the caller but the lamports and the wrapped SOL account.
THEOREM AlwaysOnlyCallerSigns == Spec => []OnlyCallerSigns
  <1>1. Sound => OnlyCallerSigns
    <2> SUFFICES ASSUME Sound, last # NoInstruction
                 PROVE  OnlyCallerSigns
      BY DEF OnlyCallerSigns
    <2> DEFINE l == last.ins.accounts
    <2>1. PICK k \in Pool : Opens(k) \/ Finalizes(k)
      BY DEF Sound, BuiltSound
    <2>2. {l[i].key : i \in SignersAt(l)} = {Wallet(last.for.caller)}
      BY <2>1 DEF Opens, Finalizes, Closes, Lists
    <2>3. {Key(last.ins, i) : i \in Signers(last.ins)} = {l[i].key : i \in SignersAt(l)}
      BY DEF Key, Signers, SignersAt
    <2>4. Written(last.ins) = WrittenOf(l)
      BY DEF Written, WrittenOf
    <2>5. ASSUME last.for.caller # last.for.owner
          PROVE  {key \in Written(last.ins) : Owns(last.for.caller, key)} =
                     {Wallet(last.for.caller), WsolAta(last.for.caller)}
      <3>1. Closes(last.op, l, k, last.for.owner, last.for.caller)
        BY <2>1, <2>5 DEF Opens, Finalizes
      <3> HIDE DEF l
      <3> QED
        BY <2>4, <2>5, <3>1, CloserSpares
    <2> QED
      BY <2>2, <2>3, <2>5 DEF OnlyCallerSigns
  <1> QED
    BY <1>1, AlwaysSound, PTL

LEMMA SwapWritesClosed ==
    ASSUME NEW op \in {"settle", "cancel", "slash"}, NEW l, NEW k, NEW owner, NEW caller,
           Closes(op, l, k, owner, caller)
    PROVE  SwapWrites(k, owner) \ (IF op = "slash" THEN {WsolAta(owner)} ELSE {})
               \subseteq WrittenOf(l)
  <1>1. SwapWrites(k, owner) \subseteq CloserWrites(k, owner, caller) \cup {WsolAta(owner)}
    BY DEF SwapWrites, CloserWrites
  <1> QED
    BY <1>1 DEF Closes

\* For any pools, wallets and caches, a list that names the order's pool names
\* the order, and may write what its swap wrote.
THEOREM AlwaysCloserReachesTheOrder == Spec => []CloserReachesTheOrder
  <1>1. Sound => CloserReachesTheOrder
    <2> SUFFICES ASSUME Sound, last.op \in {"settle", "cancel", "slash"}, order.open,
                        Key(last.ins, Place[last.op].pool) = order.pool
                 PROVE  /\ Key(last.ins, Place[last.op].order) = order.account
                        /\ order.written \ (IF last.op = "slash" THEN {WsolAta(order.trader)} ELSE {})
                               \subseteq Written(last.ins)
      BY DEF CloserReachesTheOrder
    <2>1. PICK k \in Pool : Finalizes(k)
      BY DEF Sound, BuiltSound, Opens, NoInstruction
    <2>2. PICK j \in Pool :
              /\ order.pool = PoolAccount(j)
              /\ order.account = OrderAccount(j, order.trader)
              /\ order.written = SwapWrites(j, order.trader)
      BY DEF Sound, OrderSound
    <2>3. /\ Closes(last.op, last.ins.accounts, k, order.trader, last.for.caller)
          /\ Key(last.ins, Place[last.op].pool) = PoolAccount(k)
          /\ Key(last.ins, Place[last.op].order) = OrderAccount(k, order.trader)
      BY <2>1 DEF Finalizes, Closes, Lists, Key
    <2>4. j = k
      BY <2>2, <2>3 DEF PoolAccount
    <2>5. Written(last.ins) = WrittenOf(last.ins.accounts)
      BY DEF Written, WrittenOf
    <2> QED
      BY <2>2, <2>3, <2>4, <2>5, SwapWritesClosed
  <1> QED
    BY <1>1, AlwaysSound, PTL

LEMMA PlacesAreNumbers ==
    ASSUME NEW op \in {"swap", "settle", "cancel", "slash", "initialize_pool", "add_liquidity",
                       "remove_liquidity"}
    PROVE  Place[op].x \in Nat /\ Place[op].account_x \in Nat
  BY DEF Place

\* For any mints and programs, the token accounts named are the wallet's for
\* the mints named, and a swap in native SOL pays from the wrapped account.
THEOREM AlwaysNamesTheRealAccounts == Spec => []NamesTheRealAccounts
  <1>1. Sound => NamesTheRealAccounts
    <2> SUFFICES ASSUME Sound, last # NoInstruction
                 PROVE  NamesTheRealAccounts
      BY DEF NamesTheRealAccounts
    <2> DEFINE l == last.ins.accounts
               x == Place[last.op].x
               account_x == Place[last.op].account_x
               owner == last.for.owner
    <2>1. PICK k \in Pool : (Opens(k) /\ (last.op = "swap" => Swaps(k))) \/ Finalizes(k)
      BY DEF Sound, BuiltSound
    <2>2. x \in Nat /\ account_x \in Nat
      BY <2>1, PlacesAreNumbers DEF Opens, Finalizes
    <2>3. MintsAt(l, x, k) /\ AccountsAt(l, account_x, k, ProgramsOf(k), owner)
      BY <2>1 DEF Opens, Finalizes, Closes, Lists
    <2>4. /\ l[x + 0].key = MintKey(k[1]) /\ l[x + 1].key = MintKey(k[2])
          /\ l[account_x + 0].key = <<"ata", owner, ProgramOf[k[1]], MintKey(k[1])>>
          /\ l[account_x + 1].key = <<"ata", owner, ProgramOf[k[2]], MintKey(k[2])>>
      <3> HIDE DEF l, x, account_x, owner
      <3> QED
        BY <2>2, <2>3 DEF MintsAt, AccountsAt, UserTokenAccount, ProgramsOf
    <2>5. \A m, n : MintKey(m) = MintKey(n) => m = n
      BY DEF MintKey
    <2>6. ASSUME NEW i \in {0, 1}, NEW m \in Mint, Key(last.ins, x + i) = MintKey(m)
          PROVE  Key(last.ins, account_x + i) = <<"ata", owner, ProgramOf[m], MintKey(m)>>
      <3> HIDE DEF x, account_x, owner
      <3> QED
        BY <2>4, <2>5, <2>6 DEF Key
    <2>7. ASSUME last.op = "swap", last.for.tokens[1] = SOL_MINT
          PROVE  Key(last.ins, account_x + (IF last.ins.params[2] THEN 0 ELSE 1)) = WsolAta(owner)
      <3>1. Opens(k) /\ Swaps(k)
        BY <2>1, <2>7 DEF Finalizes
      <3>2. k = KeyOf(SOL_MINT, last.for.tokens[2]) /\ (last.ins.params[2] = (WSOL = k[1]))
        BY <2>7, <3>1 DEF Opens, Swaps, PostSol
      <3>3. k[1] = WSOL \/ k[2] = WSOL
        BY <3>2 DEF KeyOf, GetPoolAddress, PostSol
      <3>4. ProgramOf[WSOL] = TOKEN
        BY InstructionsAssumption
      <3>5. CASE k[1] = WSOL
        <4>1. last.ins.params[2] = TRUE
          BY <3>2, <3>5
        <4> HIDE DEF account_x, owner
        <4> QED
          BY <4>1, <2>4, <3>4, <3>5 DEF Key, WsolAta
      <3>6. CASE k[1] # WSOL
        <4>1. last.ins.params[2] = FALSE
          BY <3>2, <3>6
        <4> HIDE DEF account_x, owner
        <4> QED
          BY <4>1, <2>4, <3>3, <3>4, <3>6 DEF Key, WsolAta
      <3> QED
        BY <3>5, <3>6
    <2> QED
      BY <2>6, <2>7 DEF NamesTheRealAccounts
  <1> QED
    BY <1>1, AlwaysSound, PTL
=============================================================================
