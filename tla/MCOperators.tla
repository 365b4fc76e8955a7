----------------------------- MODULE MCOperators ----------------------------
(* Three operators compete for two places.  With 44 as the largest u64, the *)
(* indexer's part of a fee of 7 overflows and of 6 does not, and three      *)
(* batches of one operator overflow against 15 pending.                     *)
EXTENDS Operators, TLC

CONSTANTS p1, p2, p3

ASSUME AmountsFit == BondsFit /\ FeesFit

\* Fees and the registry meet in the batches of the active operators only:
\* while fees are accounted, the registry stays at one height, with equal
\* bonds and no missed batches.
RegistryOrFees ==
    \/ envelopes = 0 /\ operator_shares = <<>>
    \/ /\ block_height = 0 /\ total_tvl = 0
       /\ \A i \in DOMAIN operators :
             operators[i].bond_amount = min_bond /\ operators[i].missed_batches = 0

PubkeySymmetry == Permutations({p1, p2, p3})
=============================================================================
