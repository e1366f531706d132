---------------------------- MODULE Instructions ----------------------------
(***************************************************************************)
(* What the builders of DarklakeAmm put into an instruction: its accounts  *)
(* and its data, made by a client with a label and a referral code, and    *)
(* read by the Darklake program, which keeps the commitment of a swap in   *)
(* an order until somebody, with another cache at another time, closes it. *)
(*                                                                         *)
(* An Option is the set of what it holds.  The byte strings of a label     *)
(* have bytes of their own, 0 among them, which are never computed with.   *)
(* The discriminator at the head of the data is the operation's name.  The *)
(* reserves and the config, which the builders take from the pool account, *)
(* are those the program puts there, derived from the pool.                *)
(***************************************************************************)
EXTENDS DarklakeAmm, Codec

CONSTANTS Given,           \* what new() may be given: a label and a referral
                           \* code, each an option of a string
          Prefix, Comma,   \* "cv0.4.0" and ","
          Pool,            \* the pools that exist, by key
          Amount,          \* amounts that go into a swap or a pool
          Secret,          \* the minima and salts of swaps and of settlers
          Yield,           \* what a swap can yield
          Proofs           \* the proofs the prover may find

None == {}
Some(value) == {value}

LabelBytes == 21
RefCodeBytes == 20
MaxLabel == 10

ASSUME InstructionsAssumption ==
    /\ ProgramOf[WSOL] = TOKEN
    /\ Prefix \in Seq(Nat) /\ Len(Prefix) <= MaxLabel
    /\ Comma \in Seq(Nat) /\ Len(Comma) = 1
    /\ \A given \in Given : \A option \in {given.label, given.ref_code} :
           option \subseteq Seq(Nat) /\ \A s, t \in option : s = t
    /\ Pool \subseteq {k \in Mint \X Mint : k[1] < k[2]}
    /\ Amount \subseteq Word
    /\ Secret \subseteq [min_out : Word, salt : [1..WordBytes -> 0..(Base - 1)]]
    /\ Yield \subseteq Word
    /\ Proofs \subseteq Proof

VARIABLES
    client,  \* what new() made of its label and referral code
    amm,     \* self.darklake_amm, loaded and updated
    order,   \* external: the order account a swap opened, or NoOrder
    last     \* the last instruction built, and what it was built for

vars == <<client, amm, order, last>>

-----------------------------------------------------------------------------
(***************************************************************************)
(* new()                                                                   *)
(***************************************************************************)
\* A mutation of FullLabel: the limit is the one of the joined label.
FullLabelLong(label) ==
    IF label = None THEN ConvertStringToBytesArray(Prefix, LabelBytes)
    ELSE ConvertStringToBytesArray(Prefix \o Comma \o (CHOOSE s \in label : TRUE), RefCodeBytes)

\* With the prefix, the comma and eleven bytes the joined label would still fit.
FullLabel(label) ==
    IF label = None THEN ConvertStringToBytesArray(Prefix, LabelBytes)
    ELSE LET s == CHOOSE s \in label : TRUE IN
         IF Len(s) > MaxLabel THEN Failure
         ELSE ConvertStringToBytesArray(Prefix \o Comma \o s, LabelBytes)

RefCodeOf(ref_code) ==
    IF ref_code = None THEN None
    ELSE Some(ConvertStringToBytesArray(CHOOSE s \in ref_code : TRUE, RefCodeBytes))

\* given is history; an Err leaves no client.
NewClient(label, ref_code) ==
    [ok |-> FullLabel(label) # Failure /\ Failure \notin RefCodeOf(ref_code),
     label |-> Some(FullLabel(label)),
     ref_code |-> RefCodeOf(ref_code),
     given |-> [label |-> label, ref_code |-> ref_code]]

-----------------------------------------------------------------------------
(***************************************************************************)
(* Addresses, each the tuple of its seeds.                                 *)
(***************************************************************************)
Wallet(u) == <<"wallet", u>>
MintKey(m) == <<"mint", m>>
ProgramKey(p) == <<"program", p>>
PoolAccount(k) == <<"pool", k>>
PoolReserve(k, m) == <<"pool_reserve", k, m>>
PoolWsolReserve(k) == <<"pool_wsol_reserve", k>>
OrderAccount(k, u) == <<"order", k, u>>
OrderWsol(k, u) == <<"order_wsol", k, u>>
LpMint(k) == <<"lp", k>>
Metadata(mint) == <<"metadata", mint>>
Authority == <<"authority">>
AmmConfig == <<"amm_config">>
FeeVault == <<"create_pool_fee_vault">>

\* A mutation of UserTokenAccount: the program is not among the seeds.
UserTokenAccountAnyProgram(u, mint, program) == <<"ata", u, TOKEN, mint>>

UserTokenAccount(u, mint, program) == <<"ata", u, program, mint>>

\* The account that wrapping fills, utils.rs: the program of wrapped SOL.
WsolAta(u) == <<"ata", u, TOKEN, MintKey(WSOL)>>

Meta(key, signer, writable) == [key |-> key, signer |-> signer, writable |-> writable]

Signing(key) == Meta(key, TRUE, TRUE)
Writing(key) == Meta(key, FALSE, TRUE)
Reading(key) == Meta(key, FALSE, FALSE)

-----------------------------------------------------------------------------
(***************************************************************************)
(* The account lists, of the pool a cache a holds.                         *)
(***************************************************************************)
MintsOf(k) == <<Reading(MintKey(k[1])), Reading(MintKey(k[2]))>>
Wsol == Reading(MintKey(WSOL))
Reserves(k) == <<Writing(PoolReserve(k, k[1])), Writing(PoolReserve(k, k[2]))>>

TokenAccounts(k, owners, u) ==
    <<Writing(UserTokenAccount(u, MintKey(k[1]), owners[1])),
      Writing(UserTokenAccount(u, MintKey(k[2]), owners[2]))>>

LpAccount(k, u) == Writing(UserTokenAccount(u, LpMint(k), TOKEN))

System == Reading(ProgramKey("system"))
AtaProgram == Reading(ProgramKey("associated_token"))

TokenPrograms(owners) ==
    <<Reading(ProgramKey(owners[1])), Reading(ProgramKey(owners[2])), Reading(ProgramKey(TOKEN))>>

SwapAccounts(a, u) ==
    <<Signing(Wallet(u))>> \o MintsOf(a.key)
    \o <<Wsol, Writing(PoolAccount(a.key)), Reading(Authority), Reading(AmmConfig)>>
    \o TokenAccounts(a.key, a.token_owners, u) \o <<Writing(WsolAta(u))>>
    \o Reserves(a.key) \o <<Writing(PoolWsolReserve(a.key)), Writing(OrderAccount(a.key, u)),
                            AtaProgram, System>>
    \o TokenPrograms(a.token_owners)

\* The head that settle, cancel and slash share; before it, a mutation of it:
\* the trader has to sign.
CloseHeadOwnerSigns(a, signer, owner) ==
    <<Signing(Wallet(signer)), Signing(Wallet(owner))>> \o MintsOf(a.key)
    \o <<Wsol, Writing(PoolAccount(a.key)), Reading(Authority)>>
    \o Reserves(a.key) \o <<Writing(PoolWsolReserve(a.key)), Reading(AmmConfig)>>

CloseHead(a, signer, owner) ==
    <<Signing(Wallet(signer)), Writing(Wallet(owner))>> \o MintsOf(a.key)
    \o <<Wsol, Writing(PoolAccount(a.key)), Reading(Authority)>>
    \o Reserves(a.key) \o <<Writing(PoolWsolReserve(a.key)), Reading(AmmConfig)>>

CloseTail(a) == <<System, AtaProgram>> \o TokenPrograms(a.token_owners)

\* A mutation of SettleAccounts: the token accounts are those of the signer.
SettleAccountsOfSigner(a, signer, owner) ==
    CloseHead(a, signer, owner) \o TokenAccounts(a.key, a.token_owners, signer)
    \o <<Writing(WsolAta(signer)), Writing(WsolAta(signer)),
         Writing(OrderAccount(a.key, owner)), Writing(OrderWsol(a.key, owner))>> \o CloseTail(a)

SettleAccounts(a, signer, owner) ==
    CloseHead(a, signer, owner) \o TokenAccounts(a.key, a.token_owners, owner)
    \o <<Writing(WsolAta(owner)), Writing(WsolAta(signer)),
         Writing(OrderAccount(a.key, owner)), Writing(OrderWsol(a.key, owner))>> \o CloseTail(a)

CancelAccounts(a, signer, owner) ==
    CloseHead(a, signer, owner) \o TokenAccounts(a.key, a.token_owners, owner)
    \o <<Writing(WsolAta(owner)), Writing(WsolAta(signer)),
         Writing(OrderAccount(a.key, owner))>> \o CloseTail(a)

SlashAccounts(a, signer, owner) ==
    CloseHead(a, signer, owner) \o TokenAccounts(a.key, a.token_owners, owner)
    \o <<Writing(WsolAta(signer)), Writing(OrderAccount(a.key, owner))>> \o CloseTail(a)

\* What add and remove share; they list lp, pool and config in another order.
LiquidityTail(a, u) ==
    TokenAccounts(a.key, a.token_owners, u) \o <<LpAccount(a.key, u)>>
    \o Reserves(a.key) \o <<AtaProgram, System>> \o TokenPrograms(a.token_owners)

AddLiquidityAccounts(a, u) ==
    <<Signing(Wallet(u))>> \o MintsOf(a.key)
    \o <<Writing(LpMint(a.key)), Writing(PoolAccount(a.key)), Reading(AmmConfig), Reading(Authority)>>
    \o LiquidityTail(a, u)

RemoveLiquidityAccounts(a, u) ==
    <<Signing(Wallet(u))>> \o MintsOf(a.key)
    \o <<Reading(AmmConfig), Writing(LpMint(a.key)), Writing(PoolAccount(a.key)), Reading(Authority)>>
    \o LiquidityTail(a, u)

\* From the parameters alone, as they come.
InitializePoolAccounts(k, owners, u) ==
    <<Signing(Wallet(u)), Writing(PoolAccount(k)), Reading(Authority), Reading(AmmConfig)>>
    \o MintsOf(k) \o <<Wsol, Writing(LpMint(k)), Writing(Metadata(LpMint(k))),
                       Reading(Metadata(MintKey(k[1]))), Reading(Metadata(MintKey(k[2])))>>
    \o TokenAccounts(k, owners, u) \o <<LpAccount(k, u)>> \o Reserves(k)
    \o <<Writing(PoolWsolReserve(k)), Writing(FeeVault), Reading(ProgramKey("metadata")), System,
         Reading(<<"rent">>), AtaProgram>> \o TokenPrograms(owners)

-----------------------------------------------------------------------------
(***************************************************************************)
(* The data: the fields of the parameters one after the other, and the     *)
(* parameters themselves, in the order amm.rs declares them.               *)
(***************************************************************************)
BoolByte(b) == IF b THEN <<1>> ELSE <<0>>

BorshOption(o) == IF o = None THEN <<0>> ELSE <<1>> \o (CHOOSE bytes \in o : TRUE)

Instruction(op, params, data, accounts) ==
    [op |-> op, params |-> params, data |-> data, accounts |-> accounts]

GetSwapAndAccountMetas(a, source_mint, u, amount_in, secret, label) ==
    LET c_min == CommitmentBytes(secret.min_out, secret.salt)
        is_swap_x_to_y == source_mint = a.key[1]
    IN  Instruction("swap", <<amount_in, is_swap_x_to_y, c_min, label>>,
                    ToWord(amount_in) \o BoolByte(is_swap_x_to_y) \o c_min \o BorshOption(label),
                    SwapAccounts(a, u))

ProofData(p) ==
    p.proof_a \o p.proof_b \o p.proof_c \o p.public_signals[1] \o p.public_signals[2]

ProofFields(p) ==
    <<p.proof_a, p.proof_b, p.proof_c, p.public_signals[1], p.public_signals[2]>>

\* A mutation of SettleOptions: the label goes first.
SettleOptionsSwapped(ref_code, label) == BorshOption(label) \o BorshOption(ref_code)

SettleOptions(ref_code, label) == BorshOption(ref_code) \o BorshOption(label)

GetSettleAndAccountMetas(a, signer, owner, p, unwrap_wsol, ref_code, label) ==
    Instruction("settle", ProofFields(p) \o <<unwrap_wsol, ref_code, label>>,
                ProofData(p) \o BoolByte(unwrap_wsol) \o SettleOptions(ref_code, label),
                SettleAccounts(a, signer, owner))

GetCancelAndAccountMetas(a, signer, owner, p, label) ==
    Instruction("cancel", ProofFields(p) \o <<label>>, ProofData(p) \o BorshOption(label),
                CancelAccounts(a, signer, owner))

GetSlashAndAccountMetas(a, signer, owner, label) ==
    Instruction("slash", <<label>>, BorshOption(label), SlashAccounts(a, signer, owner))

GetAddLiquidityAndAccountMetas(a, u, amount_lp, max_x, max_y, ref_code, label) ==
    Instruction("add_liquidity", <<amount_lp, max_x, max_y, ref_code, label>>,
                ToWord(amount_lp) \o ToWord(max_x) \o ToWord(max_y)
                \o BorshOption(ref_code) \o BorshOption(label),
                AddLiquidityAccounts(a, u))

GetRemoveLiquidityAndAccountMetas(a, u, amount_lp, min_x, min_y, label) ==
    Instruction("remove_liquidity", <<amount_lp, min_x, min_y, label>>,
                ToWord(amount_lp) \o ToWord(min_x) \o ToWord(min_y) \o BorshOption(label),
                RemoveLiquidityAccounts(a, u))

GetInitializePoolAndAccountMetas(u, x, y, program_x, program_y, amount_x, amount_y, label) ==
    Instruction("initialize_pool", <<amount_x, amount_y, label>>,
                ToWord(amount_x) \o ToWord(amount_y) \o BorshOption(label),
                InitializePoolAccounts(<<x, y>>, <<program_x, program_y>>, u))

-----------------------------------------------------------------------------
(***************************************************************************)
(* External: how the program reads an instruction.  It takes the fields of *)
(* the data in the order its parameters declare them, and its accounts by  *)
(* their place.                                                            *)
(***************************************************************************)
ProofKinds == <<"g1", "g2", "g1", "buffer", "buffer">>

\* The parameter types of amm.rs.
Kinds == [swap |-> <<"u64", "bool", "buffer", "label">>,
          settle |-> ProofKinds \o <<"bool", "ref_code", "label">>,
          cancel |-> ProofKinds \o <<"label">>,
          slash |-> <<"label">>,
          initialize_pool |-> <<"u64", "u64", "label">>,
          add_liquidity |-> <<"u64", "u64", "u64", "ref_code", "label">>,
          remove_liquidity |-> <<"u64", "u64", "u64", "label">>]

Width(kind, bytes) ==
    CASE kind = "u64" -> WordBytes
      [] kind = "bool" -> 1
      [] kind = "buffer" -> BufferBytes
      [] kind = "g1" -> 2 * BufferBytes
      [] kind = "g2" -> 4 * BufferBytes
      [] kind = "ref_code" -> IF bytes[1] = 0 THEN 1 ELSE 1 + RefCodeBytes
      [] kind = "label" -> IF bytes[1] = 0 THEN 1 ELSE 1 + LabelBytes

Field(kind, bytes) ==
    LET taken == SubSeq(bytes, 1, Width(kind, bytes)) IN
    CASE kind = "u64" -> FromLe(taken)
      [] kind = "bool" -> taken[1] = 1
      [] kind \in {"buffer", "g1", "g2"} -> taken
      [] kind \in {"ref_code", "label"} -> IF taken[1] = 0 THEN None ELSE Some(Tail(taken))

\* What is left of the bytes behind the field.
After(kind, bytes) == SubSeq(bytes, Width(kind, bytes) + 1, Len(bytes))

Decode(op, data) ==
    LET kinds == Kinds[op]
        rest[i \in 0..Len(kinds)] == IF i = 0 THEN data ELSE After(kinds[i], rest[i - 1])
    IN  [fields |-> [i \in 1..Len(kinds) |-> Field(kinds[i], rest[i - 1])],
         rest |-> rest[Len(kinds)]]

\* Where the lists have the accounts that the properties ask about.
Place == [swap             |-> [x |-> 2, pool |-> 5, account_x |-> 8, order |-> 14],
          settle           |-> [x |-> 3, pool |-> 6, account_x |-> 12, order |-> 16],
          cancel           |-> [x |-> 3, pool |-> 6, account_x |-> 12, order |-> 16],
          slash            |-> [x |-> 3, pool |-> 6, account_x |-> 12, order |-> 15],
          initialize_pool  |-> [x |-> 5, pool |-> 2, account_x |-> 12],
          add_liquidity    |-> [x |-> 2, pool |-> 5, account_x |-> 8],
          remove_liquidity |-> [x |-> 2, pool |-> 6, account_x |-> 8]]

Key(ins, place) == ins.accounts[place].key

Written(ins) == {m.key : m \in {ins.accounts[i] : i \in {j \in DOMAIN ins.accounts : ins.accounts[j].writable}}}

Signers(ins) == {i \in DOMAIN ins.accounts : ins.accounts[i].signer}

\* A point as the program's verifier reads it: big-endian coordinates, and the
\* coefficient of u first.
Part(bytes, i) == From32ByteBuffer(SubSeq(bytes, (i - 1) * BufferBytes + 1, i * BufferBytes))

ReadG1(bytes) == [x |-> Part(bytes, 1), y |-> Part(bytes, 2)]

ReadG2(bytes) == [x |-> [c1 |-> Part(bytes, 1), c0 |-> Part(bytes, 2)],
                  y |-> [c1 |-> Part(bytes, 3), c0 |-> Part(bytes, 4)]]

\* The circuits have a witness when the hash of their private inputs is the
\* commitment and the minimum is on the right side of the output.
Witness(kind, min_out, salt, real_out, commitment) ==
    /\ Poseidon(min_out % P, salt % P) = commitment
    /\ kind = "settle" <=> min_out <= real_out

-----------------------------------------------------------------------------
NoOrder == [open |-> FALSE]

NoInstruction == [op |-> "none"]

\* What the last instruction was built for.
For(owner, caller, tokens, amounts, secret) ==
    [owner |-> owner, caller |-> caller, tokens |-> tokens, amounts |-> amounts, secret |-> secret]

NoSecret == CHOOSE s \in Secret : TRUE
NoProof == CHOOSE p \in Proofs : TRUE

Built(ins, for, proof) == [op |-> ins.op, ins |-> ins, for |-> for, proof |-> proof]

Init ==
    /\ \E given \in Given : client = NewClient(given.label, given.ref_code)
    /\ amm = NewAmm
    /\ order = NoOrder
    /\ last = NoInstruction

\* An error is returned, and the caller tries other strings.
New(label, ref_code) ==
    /\ ~client.ok
    /\ client' = NewClient(label, ref_code)
    /\ UNCHANGED <<amm, order, last>>

\* load_pool and update_accounts succeed, see DarklakeSDK for when they do not.
Loaded(k) == Update(FromPool(k, 1), [r \in Role |-> 1], UpdateStages)

KeyOf(t1, t2) == GetPoolAddress(PostSol(t1), PostSol(t2))

\* swap_tx: the salt it draws is part of secret.
SwapTx(u, token_in, token_out, amount_in, secret) ==
    /\ client.ok
    /\ KeyOf(token_in, token_out) \in Pool
    /\ amm' = Loaded(KeyOf(token_in, token_out))
    /\ last' = Built(GetSwapAndAccountMetas(amm', PostSol(token_in), u, amount_in, secret, client.label),
                     For(u, u, <<token_in, token_out>>, <<amount_in, 0>>, secret), NoProof)
    /\ UNCHANGED <<client, order>>

\* External: the program opens an order from what it reads.
LandSwap ==
    /\ last.op = "swap"
    /\ order = NoOrder
    /\ \E d_out \in Yield :
           order' = [open |-> TRUE, account |-> Key(last.ins, Place["swap"].order),
                     pool |-> Key(last.ins, Place["swap"].pool), trader |-> last.for.owner,
                     c_min |-> Decode("swap", last.ins.data).fields[3], d_out |-> d_out,
                     written |-> Written(last.ins), secret |-> last.for.secret]
    /\ last' = NoInstruction
    /\ UNCHANGED <<client, amm>>

\* A call for another pool, on the same client, leaves its pool in the cache.
LoadPool(k) ==
    /\ client.ok
    /\ amm' = Loaded(k)
    /\ UNCHANGED <<client, order, last>>

\* finalize_tx of an order past its deadline.
SlashTx(signer) ==
    /\ client.ok /\ order.open /\ amm # NewAmm
    /\ last' = Built(GetSlashAndAccountMetas(amm, signer, order.trader, client.label),
                     For(order.trader, signer, <<>>, <<>>, NoSecret), NoProof)
    /\ UNCHANGED <<client, amm, order>>

\* finalize_tx before it: for a secret without a witness the prover panics.
ProveTx(signer, secret, unwrap_wsol, proof) ==
    LET is_settle == secret.min_out <= order.d_out
        kind == IF is_settle THEN "settle" ELSE "cancel"
        commitment == From32ByteBuffer(order.c_min)
        p == ConvertProofToSolanaProof(proof, order.d_out, commitment)
    IN  /\ client.ok /\ order.open /\ amm # NewAmm
        /\ Witness(kind, secret.min_out, FromWord(secret.salt), order.d_out, commitment)
        /\ last' = Built(IF is_settle
                         THEN GetSettleAndAccountMetas(amm, signer, order.trader, p, unwrap_wsol,
                                                       client.ref_code, client.label)
                         ELSE GetCancelAndAccountMetas(amm, signer, order.trader, p, client.label),
                         For(order.trader, signer, <<>>, <<>>, secret), proof)
        /\ UNCHANGED <<client, amm, order>>

\* External: the program closes the order of the instruction.
LandFinalize ==
    /\ last.op \in {"settle", "cancel", "slash"}
    /\ order.open
    /\ Key(last.ins, Place[last.op].order) = order.account
    /\ order' = NoOrder
    /\ last' = NoInstruction
    /\ UNCHANGED <<client, amm>>

\* The amounts trade places with the tokens.
Ordered(k, t1, amounts) == IF k[1] = PostSol(t1) THEN amounts ELSE <<amounts[2], amounts[1]>>

LiquidityTx(op, u, t1, t2, amount_lp, amounts) ==
    LET k == KeyOf(t1, t2)
        limits == Ordered(k, t1, amounts)
    IN  /\ client.ok
        /\ k \in Pool
        /\ amm' = Loaded(k)
        /\ last' = Built(IF op = "add_liquidity"
                         THEN GetAddLiquidityAndAccountMetas(amm', u, amount_lp, limits[1], limits[2],
                                                             client.ref_code, client.label)
                         ELSE GetRemoveLiquidityAndAccountMetas(amm', u, amount_lp, limits[1], limits[2],
                                                                client.label),
                         For(u, u, <<t1, t2>>, amounts, NoSecret), NoProof)
        /\ UNCHANGED <<client, order>>

\* A mutation of InitializePoolTx: the mints are passed on as they were named.
InitializePoolTxUnsorted(u, t1, t2, amounts) ==
    LET x == PostSol(t1)
        y == PostSol(t2)
    IN  /\ client.ok
        /\ KeyOf(t1, t2) \in Pool
        /\ last' = Built(GetInitializePoolAndAccountMetas(u, x, y, ProgramOf[x], ProgramOf[y],
                                                          amounts[1], amounts[2], client.label),
                         For(u, u, <<t1, t2>>, amounts, NoSecret), NoProof)
        /\ UNCHANGED <<client, amm, order>>

InitializePoolTx(u, t1, t2, amounts) ==
    LET k == KeyOf(t1, t2)
        sorted == Ordered(k, t1, amounts)
    IN  /\ client.ok
        /\ k \in Pool
        /\ last' = Built(GetInitializePoolAndAccountMetas(u, k[1], k[2], ProgramOf[k[1]], ProgramOf[k[2]],
                                                          sorted[1], sorted[2], client.label),
                         For(u, u, <<t1, t2>>, amounts, NoSecret), NoProof)
        /\ UNCHANGED <<client, amm, order>>

\* What is built is not sent, or does not land.
Discard ==
    /\ last # NoInstruction
    /\ last' = NoInstruction
    /\ UNCHANGED <<client, amm, order>>

Build ==
    \/ \E u \in User, t1, t2 \in Token, amounts \in Amount \X Amount :
           \/ \E secret \in Secret : SwapTx(u, t1, t2, amounts[1], secret)
           \/ \E op \in {"add_liquidity", "remove_liquidity"} :
                  LiquidityTx(op, u, t1, t2, amounts[1], amounts)
           \/ InitializePoolTx(u, t1, t2, amounts)
    \/ \E signer \in User :
           \/ SlashTx(signer)
           \/ \E secret \in Secret, unwrap_wsol \in BOOLEAN, proof \in Proofs :
                  ProveTx(signer, secret, unwrap_wsol, proof)

Next ==
    \/ \E given \in Given : New(given.label, given.ref_code)
    \/ \E k \in Pool : LoadPool(k)
    \/ last = NoInstruction /\ Build
    \/ LandSwap
    \/ LandFinalize
    \/ Discard

Spec == Init /\ [][Next]_vars

-----------------------------------------------------------------------------
(***************************************************************************)
(* Properties.                                                             *)
(***************************************************************************)
\* A string without the zeros it was padded with.
Unpadded(bytes) == SubSeq(bytes, 1, Max({0} \cup {i \in DOMAIN bytes : bytes[i] # 0}))

\* new() takes every label and referral code of the length it allows and no
\* other, and what it keeps gives them back, but for zeros at their end: the
\* prefix alone, or the prefix, a comma and the label (sdk.rs:62-100,
\* utils.rs:95-106).
LabelSurvives ==
    LET label == client.given.label
        ref_code == client.given.ref_code
    IN  /\ client.ok <=>
               /\ \A s \in label : Len(s) <= MaxLabel
               /\ \A s \in ref_code : Len(s) <= RefCodeBytes
        /\ client.ok =>
               /\ {Unpadded(b) : b \in client.label} =
                      IF label = None THEN {Unpadded(Prefix)}
                      ELSE {Unpadded(Prefix \o Comma \o s) : s \in label}
               /\ {Unpadded(b) : b \in client.ref_code} = {Unpadded(s) : s \in ref_code}

\* The data of an instruction, read by the declaration of its parameters, gives
\* the parameters that the builder returns next to it, and nothing is left over
\* (darklake_amm.rs:320-340, 437-458 and the like; amm.rs:291-355).
ProgramReadsParams ==
    last # NoInstruction =>
        Decode(last.op, last.ins.data) = [fields |-> last.ins.params, rest |-> <<>>]

\* Whoever has the minimum and the salt that swap_tx returned can prove it of
\* the commitment as the order keeps it: hash to words, words to bytes, out of
\* the Montgomery form, to a buffer, and back (darklake_amm.rs:320, sdk.rs:865-873).
CommitmentSurvives ==
    order.open =>
        LET secret == order.secret
            kind == IF secret.min_out <= order.d_out THEN "settle" ELSE "cancel"
        IN  Witness(kind, secret.min_out, FromWord(secret.salt), order.d_out,
                    From32ByteBuffer(order.c_min))

\* The program verifies the proof that was found, with its first point negated,
\* for the commitment and the output the order has (proof_generator.rs:134-215).
ProgramVerifiesTheProof ==
    last.op \in {"settle", "cancel"} /\ order.open =>
        LET read == Decode(last.op, last.ins.data).fields IN
            /\ ReadG1(read[1]) = Neg(last.proof.a)
            /\ ReadG2(read[2]) = last.proof.b
            /\ ReadG1(read[3]) = last.proof.c
            /\ From32ByteBuffer(read[4]) = order.d_out
            /\ read[5] = order.c_min

\* What closes an order, by a client whose cache holds the order's pool, names
\* the order and may write every account its swap wrote but the wrapped SOL
\* account on a slash, whoever signs (account_metas.rs:26-215).
CloserReachesTheOrder ==
    /\ last.op \in {"settle", "cancel", "slash"}
    /\ order.open
    /\ Key(last.ins, Place[last.op].pool) = order.pool
    =>  /\ Key(last.ins, Place[last.op].order) = order.account
        /\ order.written \ (IF last.op = "slash" THEN {WsolAta(order.trader)} ELSE {})
               \subseteq Written(last.ins)

\* The accounts of a wallet: its lamports and its token accounts.
Owns(u, key) == key[1] \in {"wallet", "ata"} /\ key[2] = u

\* The signature of the one who sends it is all an instruction needs, and of
\* that wallet it may write, when it closes an order of somebody else, nothing
\* but the lamports and the wrapped SOL account (account_metas.rs:26-215).
OnlyCallerSigns ==
    last # NoInstruction =>
        /\ {Key(last.ins, i) : i \in Signers(last.ins)} = {Wallet(last.for.caller)}
        /\ last.for.caller # last.for.owner =>
               {key \in Written(last.ins) : Owns(last.for.caller, key)} =
                   {Wallet(last.for.caller), WsolAta(last.for.caller)}

\* The token accounts named are those the wallet has for the two mints, of the
\* program of each mint; of a swap in native SOL, the account that was wrapped
\* into is the one that the direction among the parameters pays from
\* (sdk.rs:254-262).
NamesTheRealAccounts ==
    last # NoInstruction =>
        LET place == Place[last.op]
            Account(i) == Key(last.ins, place.account_x + i)
            Mint_(i) == Key(last.ins, place.x + i)
        IN  /\ \A i \in {0, 1}, m \in Mint :
                   Mint_(i) = MintKey(m) =>
                       Account(i) = <<"ata", last.for.owner, ProgramOf[m], MintKey(m)>>
            /\ last.op = "swap" /\ last.for.tokens[1] = SOL_MINT =>
                   LET is_swap_x_to_y == last.ins.params[2] IN
                       Account(IF is_swap_x_to_y THEN 0 ELSE 1) = WsolAta(last.for.owner)

\* The amount given for a token stands in the data where the list has its mint;
\* and the pool is the one that any later call for the two tokens finds, in
\* whichever order either call names them, the call that made it included
\* (sdk.rs:419-425, 620-628, 1042-1052; darklake_amm.rs:814).
AmountsMeetTheirMints ==
    last.op \in {"initialize_pool", "add_liquidity", "remove_liquidity"} =>
        LET read == Decode(last.op, last.ins.data).fields
            first == IF last.op = "initialize_pool" THEN 1 ELSE 2
            place == Place[last.op]
            tokens == last.for.tokens
        IN  /\ Key(last.ins, place.pool) = PoolAccount(KeyOf(tokens[2], tokens[1]))
            /\ \A i \in {0, 1} :
                   \E j \in {1, 2} :
                       /\ Key(last.ins, place.x + i) = MintKey(PostSol(tokens[j]))
                       /\ read[first + i] = last.for.amounts[j]
=============================================================================
