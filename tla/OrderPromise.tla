---------------------------- MODULE OrderPromise ----------------------------
(***************************************************************************)
(* What swap_tx and finalize_tx promise a trader together: the orders of   *)
(* one trader in one pool come one after the other, and each is settled if *)
(* it pays the minimum, cancelled if it does not, or slashed if nobody did *)
(* either before its deadline.                                             *)
(***************************************************************************)
EXTENDS Naturals

CONSTANTS Amount, Pool

VARIABLES
    open,      \* the open order of each pool, or none
    outcome    \* what became of the last order

vars == <<open, outcome>>

None == [is |-> "none"]

Open(min_out, d_out, expired) ==
    [is |-> "open", min_out |-> min_out, d_out |-> d_out, expired |-> expired]

Init ==
    /\ open = [k \in Pool |-> None]
    /\ outcome = "none"

\* The trader swaps: min_out is the trader's, d_out what the pool gives.
Swap(k) ==
    /\ open[k] = None
    /\ \E min_out \in Amount, d_out \in Amount :
           open' = [open EXCEPT ![k] = Open(min_out, d_out, FALSE)]
    /\ outcome' = "none"

Expired(o) == Open(o.min_out, o.d_out, TRUE)

\* Orders of several pools may have one deadline.
Expire(pools) ==
    /\ pools # {}
    /\ \A k \in pools : open[k] # None /\ ~open[k].expired
    /\ open' = [k \in Pool |-> IF k \in pools THEN Expired(open[k]) ELSE open[k]]
    /\ UNCHANGED outcome

\* The outcome an order deserves.
Deserved(o) ==
    IF o.expired THEN "slash"
    ELSE IF o.min_out <= o.d_out THEN "settle"
    ELSE "cancel"

Finalize(k) ==
    /\ open[k] # None
    /\ outcome' = Deserved(open[k])
    /\ open' = [open EXCEPT ![k] = None]

Next ==
    \/ \E k \in Pool : Swap(k) \/ Finalize(k)
    \/ \E pools \in SUBSET Pool : Expire(pools)

Spec == Init /\ [][Next]_vars

\* Every open order is finalized in the end.
Fairness == \A k \in Pool : WF_vars(Finalize(k))
=============================================================================
