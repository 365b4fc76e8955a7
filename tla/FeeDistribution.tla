--------------------------- MODULE FeeDistribution --------------------------
(***************************************************************************)
(* Fee accounting (consensus/fee_distribution.rs).  Amounts are u64: a     *)
(* product that does not fit makes checked_mul return None.  Of the        *)
(* envelopes only their number and their indexer fees matter.              *)
(***************************************************************************)
EXTENDS U64, Sequences, FiniteSetsExt

CONSTANTS
    indexer_fee_pct, min_indexer_fee,   \* FeeParams
    base_fee, fee_per_byte, min_operator_fee,
    DataSizes,          \* sizes of the data that pay a fee
    BatchCounts,        \* batch counts a fee is computed for
    MaxEnvelopes,       \* bound on the number of envelopes
    MaxMarks            \* bound on the challenged batches of a share

ASSUME FeeAssumption ==
    /\ MaxEnvelopes \in Nat /\ MaxMarks \in Nat
    /\ indexer_fee_pct \in 0..100 /\ min_indexer_fee \in Nat
    /\ base_fee \in Nat /\ fee_per_byte \in Nat /\ min_operator_fee \in Nat
    /\ DataSizes \subseteq Nat /\ BatchCounts \subseteq Nat

VARIABLES
    envelopes,              \* number of envelopes
    indexer_fees,           \* sum of their indexer fees
    operator_shares,        \* the shares last calculated
    total_fees_collected, total_fees_distributed, pending_fees,
    calculated,             \* pending fees and operators of the last calculation (history)
    open,                   \* the last calculation is not distributed yet (history)
    repeated                \* a calculation was distributed twice (history)

fee_vars == <<envelopes, indexer_fees, operator_shares, total_fees_collected,
              total_fees_distributed, pending_fees, calculated, open, repeated>>

-----------------------------------------------------------------------------
calculate_total_fee(data_size, batch_count) ==
    base_fee + data_size * fee_per_byte + batch_count * min_operator_fee

\* Mutant: the minimum is not capped by the fee itself.
calculate_indexer_fee_uncapped(total_fee) ==
    LET share == IF fits(total_fee * indexer_fee_pct)
                 THEN (total_fee * indexer_fee_pct) \div 100 ELSE U64Max
    IN  Max({share, min_indexer_fee})

calculate_indexer_fee(total_fee) ==
    LET share == IF fits(total_fee * indexer_fee_pct)
                 THEN (total_fee * indexer_fee_pct) \div 100 ELSE U64Max
    IN  Min({Max({share, min_indexer_fee}), total_fee})

\* Everything collected, were it all paid out twice, fits in a u64: the totals
\* are added unchecked.
FeesFit ==
    \E f \in 0..U64Max :
        /\ 2 * (MaxEnvelopes * f) <= U64Max
        /\ \A size \in DataSizes, count \in BatchCounts : calculate_total_fee(size, count) <= f

create_fee_envelope(total_fee) ==
    /\ envelopes < MaxEnvelopes
    /\ LET indexer_fee == calculate_indexer_fee(total_fee)
       IN  /\ indexer_fees' = indexer_fees + indexer_fee
           /\ pending_fees' = pending_fees + saturating_sub(total_fee, indexer_fee)
    /\ envelopes' = envelopes + 1
    /\ total_fees_collected' = total_fees_collected + total_fee
    /\ UNCHANGED <<operator_shares, total_fees_distributed, calculated, open, repeated>>

\* Mutant: challenged batches are paid.
effective_posted(op) == op.batches_posted

effective(op) == saturating_sub(op.batches_posted, op.batches_challenged)

total_effective(ops) == SumFunction([i \in DOMAIN ops |-> effective(ops[i])])

share(op, total) ==
    IF fits(pending_fees * effective(op)) THEN (pending_fees * effective(op)) \div total ELSE 0

\* What rounding, and every product that does not fit, leaves over.
remainder(ops) ==
    pending_fees - SumFunction([i \in DOMAIN ops |-> share(ops[i], total_effective(ops))])

\* The first operator of the list gets the remainder.
calculate_operator_shares(ops) ==
    /\ ops # <<>> /\ total_effective(ops) > 0
    /\ operator_shares' =
         [i \in DOMAIN ops |->
            [pubkey |-> ops[i].pubkey, batches_posted |-> ops[i].batches_posted,
             batches_challenged |-> ops[i].batches_challenged,
             fee_share |-> share(ops[i], total_effective(ops)) + (IF i = 1 THEN remainder(ops) ELSE 0)]]
    /\ calculated' = [pending |-> pending_fees, ops |-> ops]
    /\ open' = TRUE
    /\ UNCHANGED <<envelopes, indexer_fees, total_fees_collected, total_fees_distributed,
                   pending_fees, repeated>>

shares_sum == SumFunction([i \in DOMAIN operator_shares |-> operator_shares[i].fee_share])

\* The shares stay, so that a second call distributes them again; what comes
\* after such a call is left out, nothing is claimed of it.
distribute_fees ==
    /\ ~repeated
    /\ total_fees_distributed' = total_fees_distributed + shares_sum
    /\ pending_fees' = saturating_sub(pending_fees, shares_sum)
    /\ open' = FALSE
    /\ repeated' = (repeated \/ (~open /\ shares_sum > 0))
    /\ UNCHANGED <<envelopes, indexer_fees, operator_shares, total_fees_collected, calculated>>

\* The first share of the operator; its fee_share stays as it is.
mark_operator_challenged(p) ==
    LET of_operator == {i \in DOMAIN operator_shares : operator_shares[i].pubkey = p}
    IN  /\ of_operator # {}
        /\ operator_shares[Min(of_operator)].batches_challenged < MaxMarks
        /\ operator_shares' = [operator_shares EXCEPT ![Min(of_operator)].batches_challenged = @ + 1]
        /\ UNCHANGED <<envelopes, indexer_fees, total_fees_collected, total_fees_distributed,
                       pending_fees, calculated, open, repeated>>

FeeInit ==
    /\ envelopes = 0 /\ indexer_fees = 0
    /\ operator_shares = <<>>
    /\ total_fees_collected = 0 /\ total_fees_distributed = 0 /\ pending_fees = 0
    /\ calculated = [pending |-> 0, ops |-> <<>>] /\ open = FALSE /\ repeated = FALSE

-----------------------------------------------------------------------------
(* Properties.                                                             *)

\* Amounts are u64.
FeeTypeOK ==
    /\ envelopes \in 0..MaxEnvelopes
    /\ \A i \in DOMAIN operator_shares : operator_shares[i].fee_share \in 0..U64Max
    /\ {total_fees_collected, total_fees_distributed, pending_fees, indexer_fees} \subseteq 0..U64Max

\* Every satoshi collected is the indexer's, paid out or pending, in whatever
\* order envelopes, calculations and payments come, as long as no calculation
\* is distributed twice (create_fee_envelope, distribute_fees).
FeesConserved ==
    /\ FeeTypeOK
    /\ ~repeated => total_fees_collected = indexer_fees + total_fees_distributed + pending_fees

\* A calculation gives out exactly what was pending, also when products
\* overflow, so that distributing it leaves only what came in since.  Unless a
\* product overflowed, every operator gets its part of what was pending rounded
\* down, and only the first one more, by less than one satoshi for each
\* operator; one whose batches were all challenged gets nothing else.  The
\* challenges are those the calculation was given: a later
\* mark_operator_challenged takes nothing off a share (ChallengedShareReduced).
SharesProportional ==
    LET ops == calculated.ops
        unchallenged == [i \in DOMAIN ops |->
                            saturating_sub(ops[i].batches_posted, ops[i].batches_challenged)]
        total == SumFunction(unchallenged)
    IN  /\ shares_sum = calculated.pending
        /\ (\A i \in DOMAIN ops : fits(calculated.pending * unchallenged[i])) =>
            \A i \in DOMAIN ops :
                LET excess == operator_shares[i].fee_share * total - calculated.pending * unchallenged[i]
                IN  excess > -total /\ excess < (IF i = 1 THEN Len(ops) * total ELSE 1)

\* fee_distribution.rs:169 says of mark_operator_challenged that it "reduces
\* their fee share".  It only counts the challenge, for a later calculation whose
\* caller hands the count back: the share that distribute_fees pays stays.
ChallengedShareReduced ==
    [][\A i \in DOMAIN operator_shares \cap DOMAIN operator_shares' :
         LET before == operator_shares[i]
             after == operator_shares'[i]
         IN  /\ calculated' = calculated /\ before.fee_share > 0
             /\ after.batches_challenged > before.batches_challenged
             => after.fee_share < before.fee_share]_fee_vars
=============================================================================
