-------------------------- MODULE SparseMerkleTree --------------------------
(***************************************************************************)
(* The fixed-depth sparse Merkle tree that the state root comes from       *)
(* (storage/smt.rs).  A key is its sequence of bits, most significant      *)
(* first; a node is named by the bits on its path, so that the level and   *)
(* the zero-padded prefix of the source are one sequence.  SHA-256 with    *)
(* its domain tags is a constructor: equal hashes have equal arguments.    *)
(***************************************************************************)
EXTENDS Integers, Sequences, SequencesExt

CONSTANTS
    TREE_DEPTH,     \* 256 in the source
    Keys,           \* keys in use
    Values,         \* leaf values other than zero
    ZeroValue       \* [0u8; 32]

ASSUME SmtAssumption ==
    /\ TREE_DEPTH \in Nat \ {0}
    /\ Keys \subseteq [1..TREE_DEPTH -> {0, 1}]
    /\ ZeroValue \notin Values

VARIABLES
    leaves,         \* values of the present keys
    nodes,          \* hashes of the internal nodes that are not empty
    cached_root,
    dirty

vars == <<leaves, nodes, cached_root, dirty>>

-----------------------------------------------------------------------------
(* Hashes and paths.                                                       *)

hash_node(left, right) == <<"node", left, right>>
hash_leaf(k, v) == <<"leaf", k, v>>

\* By distance from the leaves.
empty_hashes[d \in 0..TREE_DEPTH] ==
    IF d = 0 THEN <<"zero">> ELSE hash_node(empty_hashes[d - 1], empty_hashes[d - 1])

empty_hash_at_level(level) == empty_hashes[TREE_DEPTH - level]

\* bit_idx counts from 0.
bit_at(k, bit_idx) == k[bit_idx + 1]
path_prefix(k, bit_idx) == SubSeq(k, 1, bit_idx)
flip_bit(k, bit_idx) == [k EXCEPT ![bit_idx + 1] = 1 - @]

lookup(f, x, default) == IF x \in DOMAIN f THEN f[x] ELSE default

leaf_hash(lv, k) == IF k \in DOMAIN lv THEN hash_leaf(k, lv[k]) ELSE empty_hashes[0]

\* Mutant: the sibling of a leaf is looked up among the internal nodes.
get_sibling_hash_in_nodes(lv, k, bit_idx) ==
    lookup(nodes, flip_bit(path_prefix(k, bit_idx + 1), bit_idx), empty_hash_at_level(bit_idx + 1))

\* The sibling at level bit_idx + 1 of the path to k; a leaf is not in nodes.
get_sibling_hash(lv, k, bit_idx) ==
    IF bit_idx = TREE_DEPTH - 1
    THEN leaf_hash(lv, flip_bit(k, bit_idx))
    ELSE lookup(nodes, flip_bit(path_prefix(k, bit_idx + 1), bit_idx), empty_hash_at_level(bit_idx + 1))

parent(k, bit_idx, current, sibling) ==
    IF bit_at(k, bit_idx) = 0 THEN hash_node(current, sibling) ELSE hash_node(sibling, current)

\* The hashes on the path to k, by level, computed from the leaf upwards.
path_hashes(lv, k) ==
    LET h[level \in 0..TREE_DEPTH] ==
            IF level = TREE_DEPTH THEN leaf_hash(lv, k)
            ELSE parent(k, level, h[level + 1], get_sibling_hash(lv, k, level))
    IN  h

-----------------------------------------------------------------------------
(* Operations.                                                             *)

stored(level, hash) == hash # empty_hash_at_level(level)

leaves_after(k, v) ==
    IF v = ZeroValue
    THEN [j \in DOMAIN leaves \ {k} |-> leaves[j]]
    ELSE [j \in DOMAIN leaves \cup {k} |-> IF j = k THEN v ELSE leaves[j]]

\* Deleting an absent key returns early.
update(k, v) ==
    /\ v = ZeroValue => k \in DOMAIN leaves
    /\ LET lv == leaves_after(k, v)
           h == path_hashes(lv, k)
           kept == {level \in 0..(TREE_DEPTH - 1) : stored(level, h[level])}
           path == {path_prefix(k, level) : level \in 0..(TREE_DEPTH - 1)}
       IN  /\ leaves' = lv
           /\ nodes' = [p \in (DOMAIN nodes \ path) \cup {path_prefix(k, level) : level \in kept} |->
                            IF p \in path THEN h[Len(p)] ELSE nodes[p]]
    /\ dirty' = TRUE
    /\ UNCHANGED cached_root

\* Mutant: the root of an emptied tree is not reset.
root_stale ==
    /\ cached_root' = IF dirty THEN lookup(nodes, <<>>, cached_root) ELSE cached_root
    /\ dirty' = FALSE
    /\ UNCHANGED <<leaves, nodes>>

root ==
    /\ cached_root' = IF dirty THEN lookup(nodes, <<>>, empty_hashes[TREE_DEPTH]) ELSE cached_root
    /\ dirty' = FALSE
    /\ UNCHANGED <<leaves, nodes>>

\* Mutant: the position is that of the key and not of its sibling.
proof_path_flipped(k) ==
    [i \in 1..TREE_DEPTH |->
        LET bit_idx == TREE_DEPTH - i
        IN  [left |-> bit_at(k, bit_idx) = 0, hash |-> get_sibling_hash(leaves, k, bit_idx)]]

\* The siblings of the path to k, leaf first.
proof_path(k) ==
    [i \in 1..TREE_DEPTH |->
        LET bit_idx == TREE_DEPTH - i
        IN  [left |-> bit_at(k, bit_idx) = 1, hash |-> get_sibling_hash(leaves, k, bit_idx)]]

compute_root_for_key(k) == path_hashes(leaves, k)[0]

verify_proof_static(r, k, v, path) ==
    LET step(current, node) ==
            IF node.left THEN hash_node(node.hash, current) ELSE hash_node(current, node.hash)
    IN  FoldLeft(step, hash_leaf(k, v), path) = r

get_proof(k) ==
    [key |-> k, value |-> leaves[k], root |-> compute_root_for_key(k), path |-> proof_path(k),
     verified |-> verify_proof_static(compute_root_for_key(k), k, leaves[k], proof_path(k))]

Init ==
    /\ leaves = <<>>
    /\ nodes = <<>>
    /\ cached_root = empty_hashes[TREE_DEPTH]
    /\ dirty = FALSE

Next == root \/ \E k \in Keys, v \in Values \cup {ZeroValue} : update(k, v)

Spec == Init /\ [][Next]_vars

-----------------------------------------------------------------------------
(* Properties.                                                             *)

Prefix == UNION {[1..n -> {0, 1}] : n \in 0..TREE_DEPTH}

\* Reference: the hash of every subtree of the full tree over a set of leaves.
subtrees(lv) ==
    LET t[p \in Prefix] ==
            IF Len(p) = TREE_DEPTH THEN leaf_hash(lv, p)
            ELSE hash_node(t[Append(p, 0)], t[Append(p, 1)])
    IN  t

reference_root(lv) == subtrees(lv)[<<>>]

\* Type invariant: only internal nodes are in nodes.
SmtTypeOK ==
    /\ DOMAIN leaves \subseteq Keys
    /\ \A k \in DOMAIN leaves : leaves[k] \in Values
    /\ \A p \in DOMAIN nodes : p \in Prefix /\ Len(p) < TREE_DEPTH
    /\ dirty \in BOOLEAN

Abstract == INSTANCE Commitment WITH
    Zero <- ZeroValue, Digest <- reference_root,
    map <- leaves, published <- cached_root, current <- ~dirty

\* The tree implements the abstract commitment: root() returns a function of
\* the leaves alone, whatever updates, overwrites and deletions led to them.
ImplementsCommitment == Abstract!Spec

\* nodes holds the subtrees that have a leaf, and no others: what one update
\* writes on its path is what the full tree has there, and a deletion leaves
\* nothing behind.
NodesAreSubtrees ==
    LET t == subtrees(leaves)
    IN  /\ SmtTypeOK
        /\ DOMAIN nodes =
            {p \in Prefix : Len(p) < TREE_DEPTH /\ \E k \in DOMAIN leaves : SubSeq(k, 1, Len(p)) = p}
        /\ \A p \in DOMAIN nodes : nodes[p] = t[p]

\* A proof that get_proof gives verifies against the root that root() would
\* return now, for its own key and value and for no other.
ProofsExact ==
    \A k \in DOMAIN leaves :
        LET p == get_proof(k)
        IN  /\ p.verified
            /\ p.root = reference_root(leaves)
            /\ \A j \in Keys, v \in Values :
                  verify_proof_static(p.root, j, v, p.path) => j = k /\ v = leaves[k]
=============================================================================
