----------------------------- MODULE OperatorSet ----------------------------
(***************************************************************************)
(* The registry of bonded operators (consensus/operator_set.rs).  A call   *)
(* that the source refuses with an error changes nothing and is not a      *)
(* step.  Addresses, bond outpoints, batch roots and the uptime percentage *)
(* decide nothing and are left out.                                        *)
(***************************************************************************)
EXTENDS U64, Sequences, FiniteSetsExt

CONSTANTS
    Pubkeys,            \* operator keys
    BondAmounts,        \* bonds that operators offer
    Tvls,               \* values locked in the system that are reported
    min_bond, max_operators, honest_threshold, unbond_delay,
    MaxHeight,          \* bound on the block height
    MaxBatches          \* bound on the batches of all operators

ASSUME OperatorAssumption ==
    /\ BondAmounts \subseteq Nat /\ Tvls \subseteq Nat
    /\ min_bond \in Nat /\ max_operators \in Nat
    /\ honest_threshold \in Nat /\ unbond_delay \in Nat
    /\ MaxHeight \in Nat /\ MaxBatches \in Nat

\* The bonds of a full registry fit in a u64: total_bond is added unchecked.
BondsFit == \E b \in 0..U64Max : max_operators * b <= U64Max /\ \A a \in BondAmounts : a <= b

VARIABLES
    operators,          \* in order of registration; never removed
    total_bond,
    total_tvl,
    block_height        \* the height callers pass

operator_vars == <<operators, total_bond, total_tvl, block_height>>

OperatorStatus == {"Active", "Unbonding", "Slashed", "Exited"}
Never == -1

registered == {operators[i].pubkey : i \in DOMAIN operators}
find(p) == CHOOSE i \in DOMAIN operators : operators[i].pubkey = p
with_status(s) == {i \in DOMAIN operators : operators[i].status = s}

active_operators == with_status("Active")
has_quorum == Cardinality(active_operators) >= honest_threshold

\* checked_mul: ten times the value must fit.
is_bond_adequate ==
    \/ total_tvl = 0
    \/ fits(total_tvl * 10) /\ total_bond >= total_tvl * 10

-----------------------------------------------------------------------------
has_room == Len(operators) < max_operators

register_operator(p, bond) ==
    /\ bond >= min_bond
    /\ p \notin registered
    /\ has_room
    /\ operators' = Append(operators,
            [pubkey |-> p, bond_amount |-> bond, status |-> "Active", registered_at |-> block_height,
             unbond_started_at |-> Never, last_batch_block |-> Never, total_batches |-> 0,
             missed_batches |-> 0])
    /\ total_bond' = total_bond + bond
    /\ UNCHANGED <<total_tvl, block_height>>

\* Mutant: the start of the delay is not recorded.
unbond_operator_undated(p) ==
    /\ p \in registered /\ find(p) \in active_operators
    /\ operators' = [operators EXCEPT ![find(p)].status = "Unbonding",
                                      ![find(p)].unbond_started_at = operators[find(p)].registered_at]
    /\ UNCHANGED <<total_bond, total_tvl, block_height>>

unbond_operator(p) ==
    /\ p \in registered /\ find(p) \in active_operators
    /\ operators' = [operators EXCEPT ![find(p)].status = "Unbonding",
                                      ![find(p)].unbond_started_at = block_height]
    /\ UNCHANGED <<total_bond, total_tvl, block_height>>

\* Mutant: the bond stays in the total.
exit_operator_uncounted(p) ==
    /\ p \in registered /\ find(p) \in with_status("Unbonding")
    /\ block_height >= operators[find(p)].unbond_started_at + unbond_delay
    /\ operators' = [operators EXCEPT ![find(p)].status = "Exited"]
    /\ UNCHANGED <<total_bond, total_tvl, block_height>>

\* The unbond_started_at of an Unbonding operator is always recorded.
exit_operator(p) ==
    /\ p \in registered /\ find(p) \in with_status("Unbonding")
    /\ block_height >= operators[find(p)].unbond_started_at + unbond_delay
    /\ operators' = [operators EXCEPT ![find(p)].status = "Exited"]
    /\ total_bond' = total_bond - operators[find(p)].bond_amount
    /\ UNCHANGED <<total_tvl, block_height>>

\* Only active operators can be slashed.
slash_operator(p) ==
    /\ p \in registered /\ find(p) \in active_operators
    /\ operators' = [operators EXCEPT ![find(p)].status = "Slashed"]
    /\ total_bond' = total_bond - operators[find(p)].bond_amount
    /\ UNCHANGED <<total_tvl, block_height>>

batches == SumFunction([i \in DOMAIN operators |->
                            operators[i].total_batches + operators[i].missed_batches])

record_batch(p) ==
    /\ p \in registered /\ find(p) \in active_operators
    /\ batches < MaxBatches
    /\ operators' = [operators EXCEPT ![find(p)].total_batches = @ + 1,
                                      ![find(p)].last_batch_block = block_height]
    /\ UNCHANGED <<total_bond, total_tvl, block_height>>

record_missed_batch(p) ==
    /\ p \in registered
    /\ batches < MaxBatches
    /\ operators' = [operators EXCEPT ![find(p)].missed_batches = @ + 1]
    /\ UNCHANGED <<total_bond, total_tvl, block_height>>

update_tvl(tvl) ==
    /\ total_tvl' = tvl
    /\ UNCHANGED <<operators, total_bond, block_height>>

\* A block is added to the chain.
next_block ==
    /\ block_height < MaxHeight
    /\ block_height' = block_height + 1
    /\ UNCHANGED <<operators, total_bond, total_tvl>>

OperatorInit ==
    /\ operators = <<>>
    /\ total_bond = 0 /\ total_tvl = 0
    /\ block_height = 0

OperatorNext ==
    \/ \E p \in Pubkeys :
          \/ \E bond \in BondAmounts : register_operator(p, bond)
          \/ unbond_operator(p) \/ exit_operator(p) \/ slash_operator(p)
          \/ record_batch(p) \/ record_missed_batch(p)
    \/ \E tvl \in Tvls : update_tvl(tvl)
    \/ next_block

-----------------------------------------------------------------------------
(* Properties.                                                             *)

\* Types of the registry; no key is registered twice.
OperatorTypeOK ==
    /\ operators \in Seq([pubkey : Pubkeys, bond_amount : BondAmounts, status : OperatorStatus,
                          registered_at : 0..MaxHeight, unbond_started_at : Never..MaxHeight,
                          last_batch_block : Never..MaxHeight,
                          total_batches : 0..MaxBatches, missed_batches : 0..MaxBatches])
    /\ Cardinality(registered) = Len(operators)
    /\ total_bond \in 0..U64Max
    /\ total_tvl \in Tvls \cup {0}
    /\ block_height \in 0..MaxHeight

\* total_bond is the sum of the bonds the registry still holds, of active and of
\* unbonding operators (slash_operator takes only those of the active ones): no
\* sequence of unbond, exit and slash takes a bond out twice or leaves one behind.
TotalBondBacked ==
    /\ OperatorTypeOK
    /\ total_bond = SumFunctionOnSet([i \in DOMAIN operators |-> operators[i].bond_amount],
                                     with_status("Active") \cup with_status("Unbonding"))

\* An operator that leaves with its bond posted its last batch at least
\* unbond_delay blocks before.  The registry itself slashes it only until it
\* starts to unbond.
ExitAfterDelay ==
    [][\A i \in DOMAIN operators :
          operators'[i].status = "Exited" /\ operators[i].status # "Exited" /\ operators[i].total_batches > 0 =>
              block_height - operators[i].last_batch_block >= unbond_delay]_operator_vars
=============================================================================
