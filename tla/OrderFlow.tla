------------------------------ MODULE OrderFlow ------------------------------
(***************************************************************************)
(* The life of one trader's orders.  swap_tx commits to a minimum and a    *)
(* salt; any number of settlers call finalize_tx, which reads the order at *)
(* the client's commitment, then the slot, decides, proves, and hands out  *)
(* a transaction that lands later, or never.  The address of the order     *)
(* account depends on the pool and the trader alone, and finalize_tx takes *)
(* the pool from the cache of its client, whichever pool the order is in:  *)
(* a transaction can meet a later order than the one it was made for, or   *)
(* one of another pool.                                                    *)
(***************************************************************************)
EXTENDS Naturals, FiniteSets

CONSTANTS Settler,     \* the wallets that call finalize_tx, each with a client
          Pool,        \* the pools the trader swaps in
          NoPool,      \* is no pool
          Amount,      \* amounts of the output token
          Duration,    \* deadline_slot_duration of the AMM config
          MaxSwaps,    \* bound: calls of swap_tx
          MaxSlot,     \* bound: the slots that pass
          MaxFlight    \* bound: transactions sent and neither landed nor lost

ASSUME OrderAssumption ==
    /\ Amount \subseteq Nat
    /\ Amount # {}
    /\ NoPool \notin Pool
    /\ Duration \in Nat
    /\ MaxSwaps \in Nat
    /\ MaxSlot \in Nat
    /\ MaxFlight \in Nat

VARIABLES
    slot,       \* external: the current slot
    order,      \* external: the order account of each pool, or NoOrder
    confirmed,  \* external: the order accounts as the clients' commitment level shows them
    opened,     \* external: how many orders were opened
    flight,     \* transactions sent and neither landed nor lost
    made,       \* how many times swap_tx was called
    salts,      \* the salts swap_tx returned
    job,        \* the finalize_tx call of each settler
    last        \* history: how the last order was closed

chainVars == <<slot, order, confirmed, opened>>
vars == <<chainVars, flight, made, salts, job, last>>

-----------------------------------------------------------------------------
Salt == 0..MaxSwaps

\* A mutation of Commitment: the minimum is left out.
CommitmentWithoutMinOut(min_out, salt) == <<0, salt>>

\* Poseidon of the minimum and the salt, without collisions.
Commitment(min_out, salt) == <<min_out, salt>>

\* History, in no account: id, which order this is, and min_out, what its trader
\* asked for.
NoOrder == [pool |-> NoPool, id |-> 0, min_out |-> 0, c_min |-> <<0, 0>>, d_out |-> 0, deadline |-> 0]

\* pool stands for the two mints of the account.
Order == [pool : Pool \cup {NoPool}, id : Nat, min_out : Nat, c_min : Nat \X Nat, d_out : Nat,
          deadline : Nat]

\* A transaction, for the order account of a pool; a settle or cancel carries the
\* public inputs of its proof.  History: the order it was made for, or the
\* minimum of a swap.
Tx == [kind : {"swap", "settle", "cancel", "slash"}, pool : Pool, id : Nat, min_out : Nat,
       c_min : Nat \X Nat, d_out : Nat]

SwapTx(k, min_out, c_min) ==
    [kind |-> "swap", pool |-> k, id |-> 0, min_out |-> min_out, c_min |-> c_min, d_out |-> 0]

FinalizeTx(kind, k, o) ==
    [kind |-> kind, pool |-> k, id |-> o.id, min_out |-> 0, c_min |-> o.c_min, d_out |-> o.d_out]

Idle == [pc |-> "idle", cached |-> NoPool, min_out |-> 0, salt |-> 0, order |-> NoOrder]

\* A call of finalize_tx, on a client that has a pool cached.
Job == [pc : {"idle", "slot", "prove"}, cached : Pool \cup {NoPool}, min_out : Nat, salt : Nat,
        order : Order]

\* How an order was closed, and whether by a transaction made for it.
Closing == [kind : {"none", "settle", "cancel", "slash"}, whose : {"none", "its own", "another's"}]

Closed(kind, whose) == [kind |-> kind, whose |-> whose]

NothingClosed == Closed("none", "none")

\* Types; and what a settler has read, once it has read, is an order.
TypeOK ==
    /\ slot \in 0..MaxSlot
    /\ order \in [Pool -> Order]
    /\ confirmed \in [Pool -> Order]
    /\ opened \in Nat
    /\ flight \subseteq Tx
    /\ made \in 0..MaxSwaps
    /\ salts \subseteq Nat
    /\ job \in [Settler -> Job]
    /\ \A s \in Settler :
           job[s].pc # "idle" => job[s].cached \in Pool /\ job[s].order # NoOrder
    /\ last \in Closing

Init ==
    /\ slot = 0
    /\ order = [k \in Pool |-> NoOrder]
    /\ confirmed = [k \in Pool |-> NoOrder]
    /\ opened = 0
    /\ flight = {}
    /\ made = 0
    /\ salts = {}
    /\ job = [s \in Settler |-> Idle]
    /\ last = NothingClosed

-----------------------------------------------------------------------------
(***************************************************************************)
(* finalize_ix.                                                            *)
(***************************************************************************)
\* Mutations of IsSettle, IsSlash and NewSalt.
IsSettleStrict(min_out, output) == min_out < output
IsSlashEarly(current_slot, deadline) == current_slot >= deadline
IsSlashNever(current_slot, deadline) == FALSE
NewSaltConstant == 1

IsSettle(min_out, output) == min_out <= output

IsSlash(current_slot, deadline) == current_slot > deadline

\* A salt never used before: eight random bytes.
NewSalt == made + 1

Kind(j) == IF IsSettle(j.min_out, j.order.d_out) THEN "settle" ELSE "cancel"

\* External, and an assumption about the circuits: one proves that the committed
\* minimum is reached, at equality too, the other that it is not, each for the
\* commitment of its inputs.  It is what the builders check of their parameters.
Provable(kind, min_out, salt, o) ==
    /\ Commitment(min_out, salt) = o.c_min
    /\ kind = "settle" => min_out <= o.d_out
    /\ kind = "cancel" => min_out > o.d_out

\* External: the program closes an order by a proof about it up to its
\* deadline, and by a slash after it.
Accepts(t) ==
    LET o == order[t.pool] IN
    /\ o # NoOrder
    /\ IF t.kind = "slash"
       THEN slot > o.deadline
       ELSE slot <= o.deadline /\ t.c_min = o.c_min /\ t.d_out = o.d_out

-----------------------------------------------------------------------------
\* swap_tx returns a transaction and the salt; the trader sends it.  A trader
\* who thinks it lost may make another before it lands.
CallSwap(k, min_out) ==
    /\ made < MaxSwaps
    /\ Cardinality(flight) < MaxFlight
    /\ made' = made + 1
    /\ salts' = salts \cup {NewSalt}
    /\ flight' = flight \cup {SwapTx(k, min_out, Commitment(min_out, NewSalt))}
    /\ UNCHANGED <<chainVars, job, last>>

\* A call of finalize_tx, from the answer to its request for the order account.
Call(s, cached, o) ==
    /\ job[s].pc = "idle"
    /\ salts # {}
    /\ job' = [job EXCEPT ![s] = [Idle EXCEPT !.pc = "slot", !.cached = cached, !.order = o]]
    /\ UNCHANGED <<chainVars, flight, made, salts, last>>

\* A mutation of CallFinalize: an account that is not there is read as zeros.
CallFinalizeUnchecked(s, cached, k) == Call(s, cached, confirmed[k])

\* Anyone calls finalize_tx for the order in pool k, on a client that other calls
\* left with any pool in its cache.
CallFinalize(s, cached, k) ==
    /\ confirmed[k] # NoOrder
    /\ Call(s, cached, confirmed[k])

\* No order after all the attempts.
FindNoOrder(s, k) ==
    /\ job[s].pc = "idle"
    /\ salts # {}
    /\ confirmed[k] = NoOrder
    /\ UNCHANGED vars

\* The call ends without a transaction: a failed request, or a proof that does
\* not exist.
Abandon(s) ==
    /\ job' = [job EXCEPT ![s] = Idle]
    /\ UNCHANGED <<chainVars, flight, made, salts, last>>

\* The call ends with a transaction for the cached pool, which its caller signs
\* and sends.
Send(s, kind) ==
    /\ Cardinality(flight) < MaxFlight
    /\ flight' = flight \cup {FinalizeTx(kind, job[s].cached, job[s].order)}
    /\ job' = [job EXCEPT ![s] = Idle]
    /\ UNCHANGED <<chainVars, made, salts, last>>

\* The slot is the processed one, newer than the order; past the deadline the
\* order is slashed without a proof.
SlashOrder(s) ==
    /\ job[s].pc = "slot"
    /\ IsSlash(slot, job[s].order.deadline)
    /\ Send(s, "slash")

\* The minimum and the salt the call was given are not looked at before: any
\* minimum, and one of the salts.
StartProof(s, min_out, salt) ==
    /\ job[s].pc = "slot"
    /\ ~IsSlash(slot, job[s].order.deadline)
    /\ salt \in salts
    /\ job' = [job EXCEPT ![s].pc = "prove", ![s].min_out = min_out, ![s].salt = salt]
    /\ UNCHANGED <<chainVars, flight, made, salts, last>>

FinishProof(s) ==
    /\ job[s].pc = "prove"
    /\ Provable(Kind(job[s]), job[s].min_out, job[s].salt, job[s].order)
    /\ Send(s, Kind(job[s]))

\* No witness: the prover panics.
FailProof(s) ==
    /\ job[s].pc = "prove"
    /\ ~Provable(Kind(job[s]), job[s].min_out, job[s].salt, job[s].order)
    /\ Abandon(s)

FailRequest(s) ==
    /\ job[s].pc = "slot"
    /\ Abandon(s)

-----------------------------------------------------------------------------
(***************************************************************************)
(* External: the chain and the network.                                    *)
(***************************************************************************)
Tick ==
    /\ slot < MaxSlot
    /\ slot' = slot + 1
    /\ UNCHANGED <<order, confirmed, opened, flight, made, salts, job, last>>

Confirm ==
    /\ confirmed # order
    /\ confirmed' = order
    /\ UNCHANGED <<slot, order, opened, flight, made, salts, job, last>>

\* The order a swap opens.
Opened(t, d_out) ==
    [pool |-> t.pool, id |-> opened + 1, min_out |-> t.min_out, c_min |-> t.c_min,
     d_out |-> d_out, deadline |-> slot + Duration]

LandSwap(t) ==
    /\ t.kind = "swap"
    /\ order[t.pool] = NoOrder
    /\ slot + Duration < MaxSlot
    /\ opened' = opened + 1
    /\ \E d_out \in Amount : order' = [order EXCEPT ![t.pool] = Opened(t, d_out)]
    /\ flight' = flight \ {t}
    /\ last' = NothingClosed
    /\ UNCHANGED <<slot, confirmed, made, salts, job>>

LandFinalize(t) ==
    /\ t.kind # "swap"
    /\ Accepts(t)
    /\ order' = [order EXCEPT ![t.pool] = NoOrder]
    /\ last' = Closed(t.kind, IF t.id = order[t.pool].id THEN "its own" ELSE "another's")
    /\ flight' = flight \ {t}
    /\ UNCHANGED <<slot, confirmed, opened, made, salts, job>>

\* Dropped, expired with its blockhash, or landed and refused.
Lose(t) ==
    /\ flight' = flight \ {t}
    /\ UNCHANGED <<chainVars, made, salts, job, last>>

-----------------------------------------------------------------------------
Settle(s) ==
    \/ SlashOrder(s)
    \/ \E min_out \in Amount, salt \in Salt : StartProof(s, min_out, salt)
    \/ FinishProof(s)
    \/ FailProof(s)

Next ==
    \/ \E k \in Pool, min_out \in Amount : CallSwap(k, min_out)
    \/ \E s \in Settler, k \in Pool :
           FindNoOrder(s, k) \/ \E cached \in Pool : CallFinalize(s, cached, k)
    \/ \E s \in Settler : Settle(s) \/ FailRequest(s)
    \/ \E t \in flight : LandSwap(t) \/ LandFinalize(t) \/ Lose(t)
    \/ Tick
    \/ Confirm

Spec == Init /\ [][Next]_vars

\* The client has the pool of the order it was given.
AtHome(s) == job[s].cached = job[s].order.pool

\* Commitment levels catch up and transactions land or expire.  Every settler keeps
\* loading every pool and calling finalize_tx for its order, calls whose requests do
\* not fail for ever, and a transaction that the program accepts does not get lost
\* for ever.  Time need not pass, and nobody need know a secret.
FairSpec ==
    /\ Spec
    /\ WF_vars(Confirm)
    /\ \A s \in Settler :
           /\ \A k \in Pool : SF_vars(CallFinalize(s, k, k))
           /\ SF_vars(AtHome(s) /\ SlashOrder(s))
           /\ SF_vars(Settle(s))
    /\ SF_vars(\E t \in flight : LandFinalize(t))
    /\ WF_vars(\E t \in flight : Lose(t))

TimePasses == WF_vars(Tick)

\* The caller gives the minimum and the salt of the order it reads.
StartRightProof(s) ==
    \E min_out \in Amount, salt \in Salt :
        /\ AtHome(s)
        /\ Commitment(min_out, salt) = job[s].order.c_min
        /\ StartProof(s, min_out, salt)

SecretsAreKnown == \A s \in Settler : SF_vars(StartRightProof(s))

-----------------------------------------------------------------------------
(***************************************************************************)
(* Properties.                                                             *)
(***************************************************************************)
\* A settle or cancel closes only the order it was made for, however late it
\* lands, whatever order has taken its place at the same address, and whichever
\* pool its client had cached: the salt is never used twice
\* (darklake_amm.rs:952-958, sdk.rs:230, 331).
ProofBindsOrder ==
    last.kind \in {"settle", "cancel"} => last.whose = "its own"

\* While an order is open, the program refuses a transaction that was made for
\* it, in its pool, only because its deadline has passed since: never because it
\* was decided too early to slash, or with other public inputs (sdk.rs:839-943).
OnlyDeadlineRefuses ==
    \A t \in flight :
        LET o == order[t.pool] IN
        t.id = o.id /\ o # NoOrder =>
            Accepts(t) \/ (t.kind # "slash" /\ slot > o.deadline)

\* Every order is finalized in the end, where time passes: by a slash if nothing
\* else comes before its deadline (sdk.rs:840-857).
OrderFinalized ==
    TimePasses => \A k \in Pool : order[k] # NoOrder ~> order[k] = NoOrder

\* An order whose minimum and salt the settlers know is closed unless its deadline
\* passes, also where time stands still at its last slot or the output is the
\* minimum itself: no call of finalize_tx goes for the circuit that has no witness,
\* or for a slash that the program does not take yet (sdk.rs:839-868).
ClosedUnlessExpired ==
    SecretsAreKnown =>
        \A k \in Pool : order[k] # NoOrder ~> (order[k] = NoOrder \/ slot > order[k].deadline)

\* The order of a pool as its trader sees it.
Seen(o) ==
    IF o = NoOrder
    THEN [is |-> "none"]
    ELSE [is |-> "open", min_out |-> o.min_out, d_out |-> o.d_out, expired |-> slot > o.deadline]

\* What the trader is promised.
Promise == INSTANCE OrderPromise WITH
    open <- [k \in Pool |-> Seen(order[k])],
    outcome <- last.kind

\* swap_tx and finalize_tx together keep the promise, also when a client names
\* the order of another pool than the one it was given.
KeepsPromise == Promise!Spec

\* They keep it in the end, where time passes: no open order stays open for ever.
KeepsPromiseInTheEnd == KeepsPromise /\ (TimePasses => Promise!Fairness)

(***************************************************************************)
(* The inductive invariant the safety properties follow from: an order is  *)
(* known by its id as well as by its salt, wherever it is remembered.      *)
(***************************************************************************)
\* Every order that the chain shows or a settler remembers.
Known ==
    {NoOrder} \cup {order[k] : k \in Pool} \cup {confirmed[k] : k \in Pool}
    \cup {job[s].order : s \in Settler}

\* Orders keep what the trader asked for.
KnownOrders ==
    \A o \in Known :
        /\ o.id <= opened
        /\ o.id = 0 => o = NoOrder
        /\ o.c_min[1] = o.min_out
        /\ o.c_min[2] <= made

OrdersAgree ==
    \A o, p \in Known : o.id = p.id \/ o.c_min[2] = p.c_min[2] => o = p

\* The salt of a swap that did not land is in no order and no other transaction.
SwapsAreFresh ==
    \A t \in flight :
        t.kind = "swap" =>
            /\ t.id = 0
            /\ t.min_out \in Amount
            /\ t.c_min[1] = t.min_out
            /\ t.c_min[2] \in 1..made
            /\ \A o \in Known : o.c_min[2] # t.c_min[2]
            /\ \A u \in flight : u.c_min[2] = t.c_min[2] => u = t

\* A transaction that closes an order is of the kind that order deserves.
ClosesWhatItWasMadeFor ==
    \A t \in flight :
        t.kind # "swap" =>
            /\ t.id \in 1..opened
            /\ t.c_min[2] <= made
            /\ t.kind = "settle" => t.c_min[1] <= t.d_out
            /\ t.kind = "cancel" => t.c_min[1] > t.d_out
            /\ \A o \in Known :
                   /\ t.id = o.id \/ t.c_min[2] = o.c_min[2] =>
                          t.id = o.id /\ t.c_min = o.c_min /\ t.d_out = o.d_out
                   /\ t.kind = "slash" /\ t.id = o.id => slot > o.deadline

OInv ==
    /\ TypeOK
    /\ KnownOrders
    /\ OrdersAgree
    /\ SwapsAreFresh
    /\ ClosesWhatItWasMadeFor
    /\ ProofBindsOrder
=============================================================================
