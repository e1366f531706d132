--------------------------- MODULE OrderFlowProofs ---------------------------
(***************************************************************************)
(* Proofs about OrderFlow, for any settlers, pools, amounts and bounds:    *)
(* OInv is inductive, the safety properties follow from it, and every step *)
(* is a step of OrderPromise or changes nothing there.                     *)
(***************************************************************************)
EXTENDS OrderFlow, TLAPS

LEMMA Constants ==
    /\ NoOrder \in Order
    /\ NoOrder.id = 0
    /\ NoOrder.c_min = <<0, 0>>
    /\ NoOrder.min_out = 0
    /\ Idle \in Job
    /\ Idle.pc = "idle"
    /\ Idle.order = NoOrder
    /\ NothingClosed.kind = "none"
    /\ NothingClosed \in Closing
  BY DEF NothingClosed, Closed, Closing, NoOrder, Order, Idle, Job

\* What is known is an order account or none.
LEMMA KnownType ==
    ASSUME TypeOK
    PROVE  /\ Known \subseteq Order
           /\ NoOrder \in Known
           /\ \A k \in Pool : order[k] \in Known /\ confirmed[k] \in Known
           /\ \A s \in Settler : job[s].order \in Known
  BY Constants DEF TypeOK, Known, Job

LEMMA InitInv == Init => OInv
  <1> SUFFICES ASSUME Init PROVE OInv
    OBVIOUS
  <1>1. \A o \in Known : o = NoOrder
    BY Constants DEF Init, Known
  <1>2. TypeOK
    BY Constants, OrderAssumption DEF Init, TypeOK
  <1>3. KnownOrders /\ OrdersAgree
    BY <1>1, <1>2, Constants DEF Init, KnownOrders, OrdersAgree
  <1>4. SwapsAreFresh /\ ClosesWhatItWasMadeFor /\ ProofBindsOrder
    BY Constants DEF Init, SwapsAreFresh, ClosesWhatItWasMadeFor, ProofBindsOrder
  <1> QED
    BY <1>2, <1>3, <1>4 DEF OInv

\* A step after which no more orders are known and no more transactions are
\* under way keeps the invariant.
LEMMA Carry ==
    ASSUME OInv, TypeOK', ProofBindsOrder',
           Known' \subseteq Known, flight' \subseteq flight,
           opened' = opened, made' = made, slot' >= slot
    PROVE  OInv'
  <1> USE DEF OInv
  <1>0. /\ slot \in Nat
        /\ slot' \in Nat
        /\ \A o \in Known : o.deadline \in Nat
    BY KnownType, OrderAssumption DEF TypeOK, Order
  <1>1. KnownOrders'
    BY DEF KnownOrders
  <1>2. OrdersAgree'
    BY DEF OrdersAgree
  <1>3. SwapsAreFresh'
    BY DEF SwapsAreFresh
  <1>4. ClosesWhatItWasMadeFor'
    BY <1>0 DEF ClosesWhatItWasMadeFor
  <1> QED
    BY <1>1, <1>2, <1>3, <1>4

\* The same, when only the call of one settler moves on and remembers an order
\* that was known.
LEMMA CarryJob ==
    ASSUME OInv, NEW s \in Settler, NEW j \in Job, j.order \in Known,
           j.pc # "idle" => j.cached \in Pool /\ j.order # NoOrder,
           job' = [job EXCEPT ![s] = j],
           UNCHANGED <<chainVars, flight, made, salts, last>>
    PROVE  OInv'
  <1> USE DEF OInv
  <1>1. TypeOK'
    BY DEF TypeOK, chainVars
  <1>2. Known' \subseteq Known
    <2>1. \A r \in Settler : job'[r].order \in Known
      BY DEF TypeOK, Known
    <2> QED
      BY <2>1 DEF Known, chainVars
  <1>3. ProofBindsOrder'
    BY DEF ProofBindsOrder
  <1> QED
    BY <1>1, <1>2, <1>3, Carry DEF TypeOK, chainVars, OrderAssumption

-----------------------------------------------------------------------------
(***************************************************************************)
(* The steps.                                                              *)
(***************************************************************************)
LEMMA CallSwapInv ==
    ASSUME OInv, NEW k \in Pool, NEW min_out \in Amount, CallSwap(k, min_out)
    PROVE  OInv'
  <1> DEFINE t0 == SwapTx(k, min_out, Commitment(min_out, NewSalt))
  <1> USE DEF OInv
  <1>0. /\ made \in Nat
        /\ made' = made + 1
        /\ flight' = flight \cup {t0}
        /\ salts' = salts \cup {made + 1}
        /\ min_out \in Nat
        /\ opened \in Nat
        /\ UNCHANGED <<slot, order, confirmed, opened, job, last>>
    BY OrderAssumption DEF CallSwap, NewSalt, TypeOK, chainVars
  <1>1. /\ t0 \in Tx
        /\ t0.kind = "swap"
        /\ t0.id = 0
        /\ t0.min_out = min_out
        /\ t0.c_min = <<min_out, made + 1>>
        /\ t0.c_min[1] = min_out
        /\ t0.c_min[2] = made + 1
    BY <1>0 DEF SwapTx, Commitment, NewSalt, Tx
  <1>2. Known' = Known
    BY <1>0 DEF Known
  <1>3. TypeOK'
    <2>1. made' \in 0..MaxSwaps
      BY <1>0, OrderAssumption DEF CallSwap
    <2> HIDE DEF t0
    <2>2. salts' \subseteq Nat /\ flight' \subseteq Tx
      BY <1>0, <1>1 DEF TypeOK
    <2> QED
      BY <1>0, <2>1, <2>2 DEF TypeOK
  <1>4. \A o \in Known : o.c_min[2] \in Nat /\ o.c_min[2] <= made
    BY KnownType DEF KnownOrders, Order
  <1>5. \A t \in flight : t.c_min[2] \in Nat /\ t.c_min[2] <= made
    BY <1>0 DEF TypeOK, Tx, SwapsAreFresh, ClosesWhatItWasMadeFor
  <1>6. KnownOrders'
    BY <1>0, <1>2, <1>4 DEF KnownOrders
  <1>7. OrdersAgree'
    BY <1>2 DEF OrdersAgree
  <1>8. SwapsAreFresh'
    <2> SUFFICES ASSUME NEW t \in flight', t.kind = "swap"
                 PROVE  /\ t.id = 0
                        /\ t.min_out \in Amount
                        /\ t.c_min[1] = t.min_out
                        /\ t.c_min[2] \in 1..made'
                        /\ \A o \in Known : o.c_min[2] # t.c_min[2]
                        /\ \A u \in flight' : u.c_min[2] = t.c_min[2] => u = t
      BY <1>2 DEF SwapsAreFresh
    <2>1. CASE t = t0
      BY <2>1, <1>0, <1>1, <1>4, <1>5
    <2>2. CASE t \in flight
      BY <2>2, <1>0, <1>1, <1>5 DEF SwapsAreFresh
    <2> QED
      BY <2>1, <2>2, <1>0
  <1>9. ClosesWhatItWasMadeFor'
    <2> SUFFICES ASSUME NEW t \in flight', t.kind # "swap"
                 PROVE  /\ t.id \in 1..opened
                        /\ t.c_min[2] <= made'
                        /\ t.kind = "settle" => t.c_min[1] <= t.d_out
                        /\ t.kind = "cancel" => t.c_min[1] > t.d_out
                        /\ \A o \in Known :
                               /\ t.id = o.id \/ t.c_min[2] = o.c_min[2] =>
                                      t.id = o.id /\ t.c_min = o.c_min /\ t.d_out = o.d_out
                               /\ t.kind = "slash" /\ t.id = o.id => slot > o.deadline
      BY <1>0, <1>2 DEF ClosesWhatItWasMadeFor
    <2>1. t \in flight
      BY <1>0, <1>1
    <2>2. t.c_min[2] <= made'
      BY <2>1, <1>0, <1>5
    <2> QED
      BY <2>1, <2>2 DEF ClosesWhatItWasMadeFor
  <1>10. ProofBindsOrder'
    BY <1>0 DEF ProofBindsOrder
  <1> QED
    BY <1>3, <1>6, <1>7, <1>8, <1>9, <1>10

LEMMA CallFinalizeInv ==
    ASSUME OInv, NEW s \in Settler, NEW cached \in Pool, NEW k \in Pool,
           CallFinalize(s, cached, k)
    PROVE  OInv'
  <1> DEFINE j == [Idle EXCEPT !.pc = "slot", !.cached = cached, !.order = confirmed[k]]
  <1>1. /\ j \in Job
        /\ j.order = confirmed[k]
        /\ j.order # NoOrder
        /\ j.cached = cached
    BY Constants DEF OInv, TypeOK, Job, CallFinalize, Idle
  <1>2. j.order \in Known
    BY <1>1, KnownType DEF OInv
  <1>3. /\ job' = [job EXCEPT ![s] = j]
        /\ UNCHANGED <<chainVars, flight, made, salts, last>>
    BY DEF CallFinalize, Call
  <1> HIDE DEF j
  <1> QED
    BY <1>1, <1>2, <1>3, CarryJob

LEMMA AbandonInv ==
    ASSUME OInv, NEW s \in Settler, Abandon(s)
    PROVE  OInv'
  <1>1. NoOrder \in Known
    BY DEF Known
  <1> QED
    BY <1>1, Constants, CarryJob DEF Abandon

LEMMA StartProofInv ==
    ASSUME OInv, NEW s \in Settler, NEW min_out \in Amount, NEW salt \in Salt,
           StartProof(s, min_out, salt)
    PROVE  OInv'
  <1> DEFINE j == [job[s] EXCEPT !.pc = "prove", !.min_out = min_out, !.salt = salt]
  <1>0. min_out \in Nat /\ salt \in Nat
    BY OrderAssumption DEF Salt
  <1>1. /\ j \in Job
        /\ j.order = job[s].order
        /\ j.cached = job[s].cached
        /\ j.cached \in Pool
        /\ j.order # NoOrder
    BY <1>0 DEF OInv, TypeOK, Job, StartProof
  <1>2. j.order \in Known
    BY <1>1, KnownType DEF OInv
  <1>3. job' = [job EXCEPT ![s] = j]
    BY DEF StartProof, OInv, TypeOK
  <1>4. UNCHANGED <<chainVars, flight, made, salts, last>>
    BY DEF StartProof
  <1> HIDE DEF j
  <1> QED
    BY <1>1, <1>2, <1>3, <1>4, CarryJob

\* A call may end with any transaction its order deserves.
LEMMA SendInv ==
    ASSUME OInv, NEW s \in Settler, NEW kind \in {"settle", "cancel", "slash"},
           job[s].pc \in {"slot", "prove"},
           kind = "settle" => job[s].order.c_min[1] <= job[s].order.d_out,
           kind = "cancel" => job[s].order.c_min[1] > job[s].order.d_out,
           kind = "slash" => slot > job[s].order.deadline,
           Send(s, kind)
    PROVE  OInv'
  <1> DEFINE o0 == job[s].order
             t0 == FinalizeTx(kind, job[s].cached, o0)
  <1> USE DEF OInv
  <1>0. /\ o0 \in Known
        /\ o0 \in Order
        /\ o0 # NoOrder
        /\ job[s].cached \in Pool
        /\ flight' = flight \cup {t0}
        /\ job' = [job EXCEPT ![s] = Idle]
        /\ UNCHANGED <<slot, order, confirmed, opened, made, salts, last>>
    BY KnownType DEF Send, chainVars, Known, TypeOK
  <1>1. /\ t0 \in Tx
        /\ t0.kind = kind
        /\ t0.id = o0.id
        /\ t0.c_min = o0.c_min
        /\ t0.d_out = o0.d_out
    BY <1>0 DEF FinalizeTx, Tx, Order
  <1>2. Known' \subseteq Known
    <2>1. \A r \in Settler : job'[r].order \in Known
      BY <1>0, Constants DEF TypeOK, Known
    <2> QED
      BY <2>1, <1>0 DEF Known
  <1>3. TypeOK'
    BY <1>0, <1>1, Constants DEF TypeOK
  <1>4. KnownOrders' /\ OrdersAgree'
    BY <1>0, <1>2 DEF KnownOrders, OrdersAgree
  <1>5. SwapsAreFresh'
    BY <1>0, <1>1, <1>2 DEF SwapsAreFresh
  <1>6. ClosesWhatItWasMadeFor'
    <2> SUFFICES ASSUME NEW t \in flight', t.kind # "swap"
                 PROVE  /\ t.id \in 1..opened
                        /\ t.c_min[2] <= made
                        /\ t.kind = "settle" => t.c_min[1] <= t.d_out
                        /\ t.kind = "cancel" => t.c_min[1] > t.d_out
                        /\ \A o \in Known :
                               /\ t.id = o.id \/ t.c_min[2] = o.c_min[2] =>
                                      t.id = o.id /\ t.c_min = o.c_min /\ t.d_out = o.d_out
                               /\ t.kind = "slash" /\ t.id = o.id => slot > o.deadline
      BY <1>0, <1>2 DEF ClosesWhatItWasMadeFor
    <2>1. CASE t \in flight
      BY <2>1 DEF ClosesWhatItWasMadeFor
    <2>2. CASE t = t0
      <3>1. t.id \in 1..opened /\ t.c_min[2] <= made
        BY <2>2, <1>0, <1>1 DEF KnownOrders, TypeOK, Order
      <3>2. \A o \in Known : t.id = o.id \/ t.c_min[2] = o.c_min[2] => o = o0
        BY <2>2, <1>0, <1>1 DEF OrdersAgree
      <3> QED
        BY <2>2, <3>1, <3>2, <1>1
    <2> QED
      BY <2>1, <2>2, <1>0
  <1>7. ProofBindsOrder'
    BY <1>0 DEF ProofBindsOrder
  <1> QED
    BY <1>3, <1>4, <1>5, <1>6, <1>7

\* The order a settler works on has the types of its account.
LEMMA JobType ==
    ASSUME TypeOK, NEW s \in Settler
    PROVE  /\ job[s].order \in Order
           /\ job[s].order.c_min \in Nat \X Nat
           /\ job[s].order.d_out \in Nat
           /\ job[s].order.deadline \in Nat
           /\ job[s].min_out \in Nat
           /\ job[s].salt \in Nat
  BY DEF TypeOK, Job, Order

LEMMA SlashOrderInv ==
    ASSUME OInv, NEW s \in Settler, SlashOrder(s)
    PROVE  OInv'
  BY SendInv DEF SlashOrder, IsSlash

LEMMA FinishProofInv ==
    ASSUME OInv, NEW s \in Settler, FinishProof(s)
    PROVE  OInv'
  <1> DEFINE k == Kind(job[s])
  <1>1. k \in {"settle", "cancel"}
    BY DEF Kind
  <1>2. /\ job[s].pc = "prove"
        /\ job[s].order.c_min[1] = job[s].min_out
        /\ k = "settle" => job[s].min_out <= job[s].order.d_out
        /\ k = "cancel" => job[s].min_out > job[s].order.d_out
        /\ Send(s, k)
    BY JobType DEF FinishProof, Provable, Commitment, OInv
  <1> HIDE DEF k
  <1> QED
    BY <1>1, <1>2, SendInv

LEMMA OpenedType ==
    ASSUME TypeOK, NEW t \in flight, NEW d_out \in Amount
    PROVE  /\ Opened(t, d_out) \in Order
           /\ Opened(t, d_out).id = opened + 1
           /\ Opened(t, d_out).min_out = t.min_out
           /\ Opened(t, d_out).c_min = t.c_min
           /\ Opened(t, d_out).d_out = d_out
           /\ Opened(t, d_out).deadline = slot + Duration
           /\ Opened(t, d_out) # NoOrder
  <1>1. /\ t \in Tx
        /\ opened \in Nat
        /\ slot \in Nat
        /\ d_out \in Nat
        /\ Duration \in Nat
    BY OrderAssumption DEF TypeOK
  <1>2. /\ Opened(t, d_out) \in Order
        /\ Opened(t, d_out).id = opened + 1
    BY <1>1 DEF Opened, Order, Tx
  <1> QED
    BY <1>1, <1>2, Constants DEF Opened

LEMMA LandSwapInv ==
    ASSUME OInv, NEW t0 \in flight, LandSwap(t0)
    PROVE  OInv'
  <1> USE DEF OInv
  <1>0. PICK d_out \in Amount : order' = [order EXCEPT ![t0.pool] = Opened(t0, d_out)]
    BY DEF LandSwap
  <1> DEFINE o1 == Opened(t0, d_out)
  <1>1. order' = [order EXCEPT ![t0.pool] = o1]
    BY <1>0
  <1>2. /\ t0.kind = "swap"
        /\ t0 \in Tx
        /\ t0.pool \in Pool
        /\ opened \in Nat
        /\ opened' = opened + 1
        /\ flight' = flight \ {t0}
        /\ last' = NothingClosed
        /\ UNCHANGED <<slot, confirmed, made, salts, job>>
    BY DEF LandSwap, TypeOK, Tx
  <1>3. /\ o1 \in Order
        /\ o1.id = opened + 1
        /\ o1.min_out = t0.min_out
        /\ o1.c_min = t0.c_min
        /\ o1 # NoOrder
    BY <1>2, OpenedType
  <1> HIDE DEF o1
  <1>4. Known' \subseteq Known \cup {o1}
    <2>1. \A m \in Pool : order'[m] \in Known \cup {o1}
      BY <1>1, <1>2, KnownType DEF TypeOK
    <2>2. \A o \in Known' : o \in Known \cup {o1}
      <3> SUFFICES ASSUME NEW o \in Known'
                   PROVE  o \in Known \cup {o1}
        OBVIOUS
      <3>1. CASE o = NoOrder
        BY <3>1, KnownType
      <3>2. CASE \E m \in Pool : o = order'[m]
        BY <3>2, <2>1
      <3>3. CASE \E m \in Pool : o = confirmed[m]
        BY <3>3, KnownType
      <3>4. CASE \E r \in Settler : o = job[r].order
        BY <3>4, KnownType
      <3> QED
        BY <3>1, <3>2, <3>3, <3>4, <1>2 DEF Known
    <2> QED
      BY <2>2
  <1>5. TypeOK'
    BY <1>1, <1>2, <1>3, Constants DEF TypeOK
  <1>6. \A o \in Known : o.id \in Nat /\ o.id <= opened
    BY KnownType DEF KnownOrders, Order
  <1>7. /\ t0.c_min[2] \in 1..made
        /\ t0.c_min[1] = t0.min_out
        /\ \A o \in Known : o.c_min[2] # t0.c_min[2]
        /\ \A u \in flight' : u.c_min[2] # t0.c_min[2]
    BY <1>2 DEF SwapsAreFresh
  <1>8. KnownOrders'
    <2> SUFFICES ASSUME NEW o \in Known \cup {o1}
                 PROVE  /\ o.id <= opened + 1
                        /\ o.id = 0 => o = NoOrder
                        /\ o.c_min[1] = o.min_out
                        /\ o.c_min[2] <= made
      BY <1>2, <1>4 DEF KnownOrders
    <2>1. CASE o \in Known
      BY <2>1, <1>2, <1>6 DEF KnownOrders
    <2>2. CASE o = o1
      BY <2>2, <1>2, <1>3, <1>7
    <2> QED
      BY <2>1, <2>2
  <1>9. OrdersAgree'
    <2> SUFFICES ASSUME NEW o \in Known \cup {o1}, NEW p \in Known \cup {o1},
                        o.id = p.id \/ o.c_min[2] = p.c_min[2]
                 PROVE  o = p
      BY <1>4 DEF OrdersAgree
    <2>1. CASE o \in Known /\ p \in Known
      BY <2>1 DEF OrdersAgree
    <2>2. CASE o = o1 \/ p = o1
      BY <2>2, <1>2, <1>3, <1>6, <1>7
    <2> QED
      BY <2>1, <2>2
  <1>10. SwapsAreFresh'
    BY <1>2, <1>3, <1>4, <1>7 DEF SwapsAreFresh
  <1>11. ClosesWhatItWasMadeFor'
    <2> SUFFICES ASSUME NEW t \in flight', t.kind # "swap"
                 PROVE  /\ t.id \in 1..(opened + 1)
                        /\ t.c_min[2] <= made
                        /\ t.kind = "settle" => t.c_min[1] <= t.d_out
                        /\ t.kind = "cancel" => t.c_min[1] > t.d_out
                        /\ \A o \in Known \cup {o1} :
                               /\ t.id = o.id \/ t.c_min[2] = o.c_min[2] =>
                                      t.id = o.id /\ t.c_min = o.c_min /\ t.d_out = o.d_out
                               /\ t.kind = "slash" /\ t.id = o.id => slot > o.deadline
      BY <1>2, <1>4 DEF ClosesWhatItWasMadeFor
    <2>1. t \in flight /\ t.id \in 1..opened
      BY <1>2 DEF ClosesWhatItWasMadeFor
    <2>2. t.id # o1.id /\ t.c_min[2] # o1.c_min[2]
      BY <2>1, <1>2, <1>3, <1>7
    <2> QED
      BY <2>1, <2>2, <1>2 DEF ClosesWhatItWasMadeFor
  <1>12. ProofBindsOrder'
    BY <1>2, Constants DEF ProofBindsOrder
  <1> QED
    BY <1>5, <1>8, <1>9, <1>10, <1>11, <1>12

\* A transaction that closes an order by a proof was made for it.
LEMMA LandedForItsOrder ==
    ASSUME OInv, NEW t \in flight, t.kind \in {"settle", "cancel"}, Accepts(t)
    PROVE  t.id = order[t.pool].id
  <1>1. t.pool \in Pool
    BY DEF OInv, TypeOK, Tx
  <1>2. order[t.pool] \in Known
    BY <1>1, KnownType DEF OInv
  <1> QED
    BY <1>2 DEF OInv, ClosesWhatItWasMadeFor, Accepts

LEMMA LandFinalizeInv ==
    ASSUME OInv, NEW t \in flight, LandFinalize(t)
    PROVE  OInv'
  <1>1. /\ t \in Tx
        /\ t.kind \in {"settle", "cancel", "slash"}
        /\ t.pool \in Pool
        /\ order' = [order EXCEPT ![t.pool] = NoOrder]
        /\ last' = Closed(t.kind, IF t.id = order[t.pool].id THEN "its own" ELSE "another's")
        /\ flight' \subseteq flight
        /\ UNCHANGED <<slot, confirmed, opened, made, salts, job>>
    BY DEF LandFinalize, OInv, TypeOK, Tx
  <1>2. ProofBindsOrder'
    <2>1. /\ last'.kind = t.kind
          /\ last'.whose = IF t.id = order[t.pool].id THEN "its own" ELSE "another's"
      BY <1>1 DEF Closed
    <2> QED
      BY <2>1, LandedForItsOrder DEF ProofBindsOrder, LandFinalize
  <1>3. Known' \subseteq Known
    <2>1. \A k \in Pool : order'[k] \in Known
      BY <1>1, KnownType DEF OInv, TypeOK
    <2> QED
      BY <1>1, <2>1 DEF Known
  <1>4. TypeOK'
    <2>1. order' \in [Pool -> Order]
      BY <1>1, Constants DEF OInv, TypeOK
    <2>2. last' \in Closing
      BY <1>1 DEF Closed, Closing
    <2> QED
      BY <1>1, <2>1, <2>2 DEF OInv, TypeOK
  <1>5. slot' >= slot
    <2>1. slot \in Nat
      BY OrderAssumption DEF OInv, TypeOK
    <2>2. slot' = slot
      BY DEF LandFinalize
    <2> QED
      BY <2>1, <2>2
  <1> QED
    BY <1>1, <1>2, <1>3, <1>4, <1>5, Carry

LEMMA ChainInv ==
    ASSUME OInv, Tick \/ Confirm \/ (\E t \in flight : Lose(t))
    PROVE  OInv'
  <1> USE DEF OInv
  <1>0. slot \in Nat
    BY OrderAssumption DEF TypeOK
  <1>1. TypeOK'
    <2>1. CASE Tick
      <3>1. slot' \in 0..MaxSlot
        BY <2>1, <1>0, OrderAssumption DEF Tick, TypeOK
      <3> QED
        BY <2>1, <3>1 DEF TypeOK, Tick
    <2>2. CASE Confirm
      BY <2>2 DEF TypeOK, Confirm
    <2>3. CASE \E t \in flight : Lose(t)
      BY <2>3 DEF TypeOK, Lose, chainVars
    <2> QED
      BY <2>1, <2>2, <2>3
  <1>2. Known' \subseteq Known
    BY DEF Known, Tick, Confirm, Lose, chainVars
  <1>3. ProofBindsOrder'
    BY DEF ProofBindsOrder, Tick, Confirm, Lose
  <1>4. /\ flight' \subseteq flight
        /\ opened' = opened
        /\ made' = made
        /\ slot' >= slot
    BY <1>0 DEF Tick, Confirm, Lose, chainVars
  <1> QED
    BY <1>1, <1>2, <1>3, <1>4, Carry

LEMMA NextInv ==
    ASSUME OInv, [Next]_vars
    PROVE  OInv'
  <1>1. CASE \E k \in Pool, min_out \in Amount : CallSwap(k, min_out)
    BY <1>1, CallSwapInv
  <1>2. CASE \E s \in Settler, k \in Pool, cached \in Pool : CallFinalize(s, cached, k)
    BY <1>2, CallFinalizeInv
  <1>3. CASE \E s \in Settler : Settle(s)
    <2> PICK s \in Settler : Settle(s)
      BY <1>3
    <2>1. CASE SlashOrder(s)
      BY <2>1, SlashOrderInv
    <2>2. CASE \E min_out \in Amount, salt \in Salt : StartProof(s, min_out, salt)
      BY <2>2, StartProofInv
    <2>3. CASE FinishProof(s)
      BY <2>3, FinishProofInv
    <2>4. CASE FailProof(s)
      BY <2>4, AbandonInv DEF FailProof
    <2> QED
      BY <2>1, <2>2, <2>3, <2>4 DEF Settle
  <1>4. CASE \E s \in Settler : FailRequest(s)
    BY <1>4, AbandonInv DEF FailRequest
  <1>5. CASE \E t \in flight : LandSwap(t)
    BY <1>5, LandSwapInv
  <1>6. CASE \E t \in flight : LandFinalize(t)
    BY <1>6, LandFinalizeInv
  <1>7. CASE Tick \/ Confirm \/ (\E t \in flight : Lose(t))
    BY <1>7, ChainInv
  <1>8. CASE UNCHANGED vars
    <2>1. /\ Known' = Known
          /\ UNCHANGED <<slot, order, confirmed, opened, flight, made, salts, job, last>>
      BY <1>8 DEF Known, vars, chainVars
    <2>2. TypeOK' /\ ProofBindsOrder'
      BY <2>1 DEF OInv, TypeOK, ProofBindsOrder
    <2>3. KnownOrders' /\ OrdersAgree' /\ SwapsAreFresh' /\ ClosesWhatItWasMadeFor'
      BY <2>1 DEF OInv, KnownOrders, OrdersAgree, SwapsAreFresh, ClosesWhatItWasMadeFor
    <2> QED
      BY <2>2, <2>3 DEF OInv
  <1> QED
    BY <1>1, <1>2, <1>3, <1>4, <1>5, <1>6, <1>7, <1>8 DEF Next, FindNoOrder

\* What is true of every order known and every transaction under way, for any
\* settlers and whatever is lost, late or out of order: an order is one and the
\* same by its id and by its salt.
THEOREM OrdersInvariance == Spec => []OInv
  BY InitInv, NextInv, PTL DEF Spec

-----------------------------------------------------------------------------
(***************************************************************************)
(* The safety properties.                                                  *)
(***************************************************************************)
\* Every variable stays in its type, and settlers decide about orders only.
THEOREM OrdersTypeCorrect == Spec => []TypeOK
  BY OrdersInvariance, PTL DEF OInv

\* No settle or cancel closes an order that took the place of its own
\* (darklake_amm.rs:952-958).
THEOREM ProofsBindOrders == Spec => []ProofBindsOrder
  BY OrdersInvariance, PTL DEF OInv

LEMMA InvRefusal == OInv => OnlyDeadlineRefuses
  <1> SUFFICES ASSUME OInv, NEW t \in flight,
                      t.id = order[t.pool].id, order[t.pool] # NoOrder
               PROVE  Accepts(t) \/ (t.kind # "slash" /\ slot > order[t.pool].deadline)
    BY DEF OnlyDeadlineRefuses
  <1> DEFINE o == order[t.pool]
  <1> USE DEF OInv
  <1>1. t.pool \in Pool /\ o \in Known /\ o \in Order
    BY KnownType DEF TypeOK, Tx
  <1>2. t.kind # "swap"
    BY <1>1 DEF SwapsAreFresh, KnownOrders
  <1>3. /\ t.c_min = o.c_min
        /\ t.d_out = o.d_out
        /\ t.kind = "slash" => slot > o.deadline
    BY <1>1, <1>2 DEF ClosesWhatItWasMadeFor
  <1>4. slot \in Nat /\ o.deadline \in Nat
    BY <1>1, OrderAssumption DEF TypeOK, Order
  <1> QED
    BY <1>3, <1>4 DEF Accepts

\* While its order is open, a transaction is refused for being late and for
\* nothing else (sdk.rs:839-943).
THEOREM DeadlineAloneRefuses == Spec => []OnlyDeadlineRefuses
  BY OrdersInvariance, InvRefusal, PTL

-----------------------------------------------------------------------------
(***************************************************************************)
(* The promise.                                                            *)
(***************************************************************************)
\* The orders as the promise sees them.
openBar == [k \in Pool |-> Seen(order[k])]

LEMMA PromiseInit == Init => Promise!Init
  <1> SUFFICES ASSUME Init PROVE Promise!Init
    OBVIOUS
  <1>1. \A k \in Pool : Seen(order[k]) = Promise!None
    BY DEF Init, Seen, Promise!None
  <1> QED
    BY <1>1, Constants DEF Init, Promise!Init

\* An open order shows what its trader asked for and what the pool gives.
LEMMA SeenOpen ==
    ASSUME NEW o, o # NoOrder
    PROVE  /\ Seen(o) = Promise!Open(o.min_out, o.d_out, slot > o.deadline)
           /\ Seen(o) # Promise!None
           /\ Seen(o).min_out = o.min_out
           /\ Seen(o).d_out = o.d_out
           /\ Seen(o).expired = (slot > o.deadline)
  <1>1. Seen(o) = [is |-> "open", min_out |-> o.min_out, d_out |-> o.d_out,
                   expired |-> slot > o.deadline]
    BY DEF Seen
  <1>2. Seen(o).is = "open"
    BY <1>1
  <1>3. Seen(o) # Promise!None
    BY <1>2 DEF Promise!None
  <1>4. Seen(o) = Promise!Open(o.min_out, o.d_out, slot > o.deadline)
    BY <1>1, Zenon DEF Promise!Open
  <1> QED
    BY <1>1, <1>3, <1>4

LEMMA SeenNone == Seen(NoOrder) = Promise!None
  BY DEF Seen, Promise!None

LEMMA LandSwapKeepsPromise ==
    ASSUME OInv, NEW t \in flight, LandSwap(t)
    PROVE  \E k \in Pool : Promise!Swap(k)
  <1> DEFINE k == t.pool
  <1>1. PICK d_out \in Amount : order' = [order EXCEPT ![k] = Opened(t, d_out)]
    BY DEF LandSwap
  <1> DEFINE o1 == Opened(t, d_out)
  <1>2. /\ k \in Pool
        /\ t.min_out \in Amount
        /\ order[k] = NoOrder
        /\ order \in [Pool -> Order]
        /\ slot' = slot
        /\ last'.kind = "none"
    BY Constants DEF LandSwap, OInv, TypeOK, Tx, SwapsAreFresh
  <1>3. o1 # NoOrder /\ o1.min_out = t.min_out /\ o1.d_out = d_out
    BY OpenedType DEF OInv
  <1>4. (slot > o1.deadline) = FALSE
    <2>1. o1.deadline = slot + Duration
      BY OpenedType DEF OInv
    <2> QED
      BY <2>1, OrderAssumption DEF OInv, TypeOK
  <1> HIDE DEF o1
  <1>5. Seen(o1) = Promise!Open(t.min_out, d_out, FALSE)
    BY <1>3, <1>4, SeenOpen, Zenon
  <1>6. /\ openBar[k] = Promise!None
        /\ openBar' = [openBar EXCEPT ![k] = Promise!Open(t.min_out, d_out, FALSE)]
    <2>1. \A o : Seen(o)' = Seen(o)
      BY <1>2 DEF Seen
    <2>2. \A m \in Pool : Seen(order[m])' = IF m = k THEN Seen(o1) ELSE Seen(order[m])
      BY <1>1, <1>2 DEF Seen, o1
    <2> QED
      BY <1>2, <1>5, <2>2, SeenNone DEF openBar
  <1> QED
    BY <1>1, <1>2, <1>6 DEF openBar, Promise!Swap

LEMMA LandFinalizeKeepsPromise ==
    ASSUME OInv, NEW t \in flight, LandFinalize(t)
    PROVE  \E k \in Pool : Promise!Finalize(k)
  <1> DEFINE k == t.pool
             o == order[k]
  <1>1. /\ k \in Pool
        /\ o # NoOrder
        /\ o \in Known
        /\ o \in Order
        /\ order \in [Pool -> Order]
        /\ order' = [order EXCEPT ![k] = NoOrder]
        /\ slot' = slot
        /\ last'.kind = t.kind
        /\ Accepts(t)
        /\ t.kind \in {"settle", "cancel", "slash"}
    BY KnownType DEF LandFinalize, Accepts, OInv, TypeOK, Tx, Closed
  <1>2. /\ slot \in Nat
        /\ o.deadline \in Nat
        /\ o.d_out \in Nat
        /\ o.c_min[1] = o.min_out
        /\ o.min_out \in Nat
    BY <1>1, OrderAssumption DEF OInv, TypeOK, Order, KnownOrders
  <1>3. /\ Seen(o) # Promise!None
        /\ Seen(o).expired = (slot > o.deadline)
        /\ Seen(o).min_out = o.min_out
        /\ Seen(o).d_out = o.d_out
    BY <1>1, SeenOpen
  <1>4. t.kind = Promise!Deserved(Seen(o))
    <2>1. CASE t.kind = "slash"
      BY <2>1, <1>1, <1>3 DEF Accepts, Promise!Deserved
    <2>2. CASE t.kind = "settle"
      <3>1. /\ ~(slot > o.deadline)
            /\ o.min_out <= o.d_out
        BY <2>2, <1>1, <1>2 DEF Accepts, OInv, ClosesWhatItWasMadeFor
      <3> QED
        BY <2>2, <3>1, <1>3 DEF Promise!Deserved
    <2>3. CASE t.kind = "cancel"
      <3>1. /\ ~(slot > o.deadline)
            /\ ~(o.min_out <= o.d_out)
        BY <2>3, <1>1, <1>2 DEF Accepts, OInv, ClosesWhatItWasMadeFor
      <3> QED
        BY <2>3, <3>1, <1>3 DEF Promise!Deserved
    <2> QED
      BY <1>1, <2>1, <2>2, <2>3
  <1>5. /\ openBar[k] = Seen(o)
        /\ openBar' = [openBar EXCEPT ![k] = Promise!None]
    <2>1. \A m \in Pool : Seen(order[m])' = IF m = k THEN Promise!None ELSE Seen(order[m])
      BY <1>1, SeenNone DEF Seen, Promise!None
    <2> QED
      BY <1>1, <2>1 DEF openBar
  <1> QED
    BY <1>1, <1>3, <1>4, <1>5 DEF openBar, Promise!Finalize

\* A slot more makes an order late, or leaves it as it was.
LEMMA SlotMore ==
    ASSUME TypeOK, Tick, NEW k \in Pool
    PROVE  /\ slot = order[k].deadline /\ order[k] # NoOrder =>
                  /\ Seen(order[k]).expired = FALSE
                  /\ Seen(order[k])' = Promise!Expired(Seen(order[k]))
           /\ ~(slot = order[k].deadline /\ order[k] # NoOrder) =>
                  Seen(order[k])' = Seen(order[k])
  <1> DEFINE o == order[k]
  <1>1. order' = order /\ slot' = slot + 1
    BY DEF Tick
  <1>2. slot \in Nat /\ o.deadline \in Nat
    BY OrderAssumption DEF TypeOK, Order
  <1>3. CASE slot = o.deadline /\ o # NoOrder
    <2>1. Seen(o).expired = FALSE /\ Seen(o).min_out = o.min_out /\ Seen(o).d_out = o.d_out
      <3>1. (slot > o.deadline) = FALSE
        BY <1>2, <1>3
      <3> QED
        BY <1>3, <3>1, SeenOpen
    <2>2. Seen(o)' = [is |-> "open", min_out |-> o.min_out, d_out |-> o.d_out, expired |-> TRUE]
      <3>1. (slot' > order'[k].deadline) = TRUE
        BY <1>1, <1>2, <1>3
      <3> QED
        BY <1>1, <1>3, <3>1, Zenon DEF Seen
    <2>3. Seen(o)' = Promise!Expired(Seen(o))
      BY <2>1, <2>2, Zenon DEF Promise!Expired, Promise!Open
    <2> QED
      BY <1>3, <2>1, <2>3
  <1>4. CASE ~(slot = o.deadline /\ o # NoOrder)
    <2>1. o # NoOrder => (slot' > order'[k].deadline) = (slot > o.deadline)
      BY <1>1, <1>2, <1>4
    <2>2. Seen(o)' = Seen(o)
      BY <1>1, <2>1 DEF Seen
    <2> QED
      BY <1>4, <2>2
  <1> QED
    BY <1>3, <1>4

LEMMA TickKeepsPromise ==
    ASSUME OInv, Tick
    PROVE  (\E pools \in SUBSET Pool : Promise!Expire(pools)) \/ UNCHANGED Promise!vars
  <1> DEFINE late == {k \in Pool : slot = order[k].deadline /\ order[k] # NoOrder}
  <1>1. last' = last
    BY DEF Tick
  <1>2. \A k \in late : openBar[k] # Promise!None /\ ~openBar[k].expired
    BY SlotMore, SeenOpen DEF openBar, OInv
  <1>3. openBar' = [k \in Pool |-> IF k \in late THEN Promise!Expired(openBar[k])
                                   ELSE openBar[k]]
    <2>1. \A k \in Pool : Seen(order[k])' = IF k \in late THEN Promise!Expired(openBar[k])
                                            ELSE openBar[k]
      BY SlotMore DEF openBar, OInv
    <2> HIDE DEF late
    <2> QED
      BY <2>1, Zenon DEF openBar
  <1>4. late \in SUBSET Pool
    OBVIOUS
  <1> HIDE DEF late
  <1>5. CASE late = {}
    <2>1. openBar' = openBar
      BY <1>3, <1>5 DEF openBar
    <2> QED
      BY <1>1, <2>1 DEF openBar, Promise!vars
  <1>6. CASE late # {}
    BY <1>1, <1>2, <1>3, <1>4, <1>6 DEF openBar, Promise!Expire
  <1> QED
    BY <1>5, <1>6

LEMMA NextKeepsPromise ==
    ASSUME OInv, [Next]_vars
    PROVE  [Promise!Next]_(Promise!vars)
  <1>1. CASE UNCHANGED <<slot, order, last>>
    BY <1>1 DEF Promise!vars, Seen
  <1>2. CASE \E t \in flight : LandSwap(t)
    BY <1>2, LandSwapKeepsPromise DEF Promise!Next
  <1>3. CASE \E t \in flight : LandFinalize(t)
    BY <1>3, LandFinalizeKeepsPromise DEF Promise!Next
  <1>4. CASE Tick
    BY <1>4, TickKeepsPromise DEF Promise!Next
  <1> QED
    BY <1>1, <1>2, <1>3, <1>4
       DEF Next, Settle, CallSwap, CallFinalize, Call, FindNoOrder, SlashOrder, StartProof,
           FinishProof, FailProof, FailRequest, Abandon, Send, Confirm, Lose, vars, chainVars

\* swap_tx and finalize_tx keep the promise made to a trader in every pool, whoever
\* settles, whatever pool a client has cached, whatever gets lost, and however long
\* anything takes.
THEOREM PromiseKept == Spec => KeepsPromise
  BY PromiseInit, OrdersInvariance, NextKeepsPromise, PTL DEF Spec, KeepsPromise, Promise!Spec
=============================================================================
