------------------------------ MODULE Operators -----------------------------
(***************************************************************************)
(* The operator set and the fee accounting together: fees are shared among *)
(* the active operators in order of registration, by the batches they      *)
(* posted, of which the caller reports some as challenged.                 *)
(***************************************************************************)
EXTENDS OperatorSet, FeeDistribution

CONSTANT Challenged     \* numbers of challenged batches that callers report

ASSUME ChallengedAssumption == Challenged \subseteq Nat

all_vars == <<operator_vars, fee_vars>>

\* The active operators in order of registration.
rank(i) == Cardinality({j \in active_operators : j <= i})
active_seq ==
    [n \in 1..Cardinality(active_operators) |-> operators[CHOOSE i \in active_operators : rank(i) = n]]

fee_list(challenged) ==
    [i \in DOMAIN active_seq |->
        [pubkey |-> active_seq[i].pubkey, batches_posted |-> active_seq[i].total_batches,
         batches_challenged |-> challenged[i]]]

FeeNext ==
    \/ \E size \in DataSizes, count \in BatchCounts : create_fee_envelope(calculate_total_fee(size, count))
    \/ \E challenged \in [DOMAIN active_seq -> Challenged] : calculate_operator_shares(fee_list(challenged))
    \/ distribute_fees
    \/ \E p \in Pubkeys : mark_operator_challenged(p)

Init == OperatorInit /\ FeeInit

Next ==
    \/ OperatorNext /\ UNCHANGED fee_vars
    \/ FeeNext /\ UNCHANGED operator_vars

Spec == Init /\ [][Next]_all_vars
=============================================================================
