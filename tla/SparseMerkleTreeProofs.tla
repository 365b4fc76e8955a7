----------------------- MODULE SparseMerkleTreeProofs -----------------------
(***************************************************************************)
(* Proofs about the sparse Merkle tree, for any depth (256 in the source), *)
(* any keys and any values: the nodes kept are the subtrees of the full    *)
(* tree that have a leaf, the tree implements the abstract commitment, and *)
(* proofs of inclusion are exact.                                          *)
(*                                                                         *)
(* The model's hashes are recursive functions.  That each of them exists   *)
(* is shown by extending a partial one level by level; from then on only   *)
(* the equations they obey are used.                                       *)
(***************************************************************************)
EXTENDS SparseMerkleTree, SequenceTheorems, WellFoundedInduction, TLAPS

-----------------------------------------------------------------------------
(* Paths.                                                                  *)

D == TREE_DEPTH
Full == [1..D -> {0, 1}]

\* The leaves under the node at p.
Below(p) == {k \in Full : \A i \in 1..Len(p) : k[i] = p[i]}

\* A set of numbers has a least one.
LEMMA LeastOf ==
    ASSUME NEW S \in SUBSET Nat, S # {}
    PROVE  \E x \in S : \A y \in S : x <= y
<1> DEFINE R == OpToRel(<, Nat)
<1>1. \A x, y \in Nat : x < y => <<x, y>> \in R
  BY DEF OpToRel
<1>2. IsWellFoundedOn(R, Nat)
  BY NatLessThanWellFounded
<1> HIDE DEF R
<1>3. PICK x \in S : \A y \in S : ~(<<y, x>> \in R)
  BY <1>2, WFMin
<1>4. ASSUME NEW y \in S PROVE x <= y
  <2>1. x \in Nat /\ y \in Nat /\ ~(y < x)
    BY <1>1, <1>3, Zenon
  <2> QED  BY <2>1
<1> QED  BY <1>3, <1>4

\* Nodes are named by the sequences of at most TREE_DEPTH bits.
LEMMA PrefixIs ==
    /\ D \in Nat \ {0}
    /\ \A p : p \in Prefix <=> p \in Seq({0, 1}) /\ Len(p) <= D
    /\ \A k : k \in Full <=> k \in Seq({0, 1}) /\ Len(k) = D
<1>1. D \in Nat \ {0}
  BY SmtAssumption DEF D
<1>2. ASSUME NEW p PROVE p \in Prefix => p \in Seq({0, 1}) /\ Len(p) <= D
  <2> SUFFICES ASSUME NEW n \in 0..D, p \in [1..n -> {0, 1}] PROVE p \in Seq({0, 1}) /\ Len(p) <= D
    BY DEF Prefix, D
  <2> QED  BY <1>1
<1>3. ASSUME NEW p \in Seq({0, 1}), Len(p) <= D PROVE p \in Prefix
  <2>1. Len(p) \in 0..D /\ p \in [1..Len(p) -> {0, 1}]
    BY <1>1, <1>3, LenProperties
  <2> QED  BY <2>1 DEF Prefix, D
<1>4. ASSUME NEW k PROVE k \in Full <=> k \in Seq({0, 1}) /\ Len(k) = D
  BY <1>1, LenProperties DEF Full
<1> QED  BY <1>1, <1>2, <1>3, <1>4

\* The two children of an internal node.
LEMMA ChildIs ==
    ASSUME NEW p \in Prefix, Len(p) < D, NEW b \in {0, 1}
    PROVE  /\ Append(p, b) \in Prefix /\ Len(p) \in Nat /\ Len(Append(p, b)) = Len(p) + 1
           /\ \A i \in 1..Len(p) : Append(p, b)[i] = p[i]
           /\ Append(p, b)[Len(p) + 1] = b
<1>1. p \in Seq({0, 1}) /\ Len(p) \in Nat
  BY PrefixIs
<1>2. /\ Append(p, b) \in Seq({0, 1}) /\ Len(Append(p, b)) = Len(p) + 1
      /\ \A i \in 1..Len(p) : Append(p, b)[i] = p[i]
      /\ Append(p, b)[Len(p) + 1] = b
  BY <1>1, AppendProperties
<1>3. Len(Append(p, b)) <= D
  BY <1>1, <1>2, PrefixIs
<1>4. Append(p, b) \in Prefix
  BY <1>2, <1>3, PrefixIs, Zenon
<1> QED  BY <1>1, <1>2, <1>4

\* The nodes on the path to a leaf, and the ones next to it.
LEMMA PathIs ==
    ASSUME NEW k \in Full, NEW n \in 0..D
    PROVE  /\ path_prefix(k, n) \in Prefix /\ Len(path_prefix(k, n)) = n
           /\ \A i \in 1..n : path_prefix(k, n)[i] = k[i]
<1>1. k \in Seq({0, 1}) /\ Len(k) = D /\ D \in Nat \ {0}
  BY PrefixIs
<1>2. \A i \in 1..n : k[i] \in {0, 1}
  BY <1>1
<1>3. /\ SubSeq(k, 1, n) \in Seq({0, 1}) /\ Len(SubSeq(k, 1, n)) = n
      /\ \A i \in 1..n : SubSeq(k, 1, n)[i] = k[i]
  <2>1. 1 \in Int /\ n \in Int
    OBVIOUS
  <2>2. /\ SubSeq(k, 1, n) \in Seq({0, 1})
        /\ Len(SubSeq(k, 1, n)) = IF 1 <= n THEN n - 1 + 1 ELSE 0
        /\ \A i \in 1..(n - 1 + 1) : SubSeq(k, 1, n)[i] = k[1 + i - 1]
    BY <1>2, <2>1, SubSeqProperties
  <2>3. \A i \in 1..n : i \in 1..(n - 1 + 1) /\ 1 + i - 1 = i
    BY <1>1
  <2> QED  BY <1>1, <2>2, <2>3
<1>4. Len(SubSeq(k, 1, n)) <= D
  BY <1>1, <1>3
<1>5. SubSeq(k, 1, n) \in Prefix
  BY <1>3, <1>4, PrefixIs, Zenon
<1> QED  BY <1>3, <1>5 DEF path_prefix

LEMMA PathEnd ==
    ASSUME NEW k \in Full
    PROVE  path_prefix(k, D) = k /\ path_prefix(k, 0) = <<>>
<1>1. k \in Seq({0, 1}) /\ Len(k) = D /\ D \in Nat
  BY PrefixIs
<1>2. SubSeq(k, 1, D) = k
  BY <1>1, SubSeqFull
<1>3. SubSeq(k, 1, 0) = <<>>
  BY SubSeqEmpty
<1> QED  BY <1>2, <1>3 DEF path_prefix

LEMMA PathStep ==
    ASSUME NEW k \in Full, NEW n \in 0..(D - 1)
    PROVE  /\ k[n + 1] \in {0, 1} /\ 1 - k[n + 1] \in {0, 1} /\ 1 - k[n + 1] # k[n + 1]
           /\ path_prefix(k, n + 1) = Append(path_prefix(k, n), k[n + 1])
           /\ flip_bit(path_prefix(k, n + 1), n) = Append(path_prefix(k, n), 1 - k[n + 1])
<1>1. D \in Nat /\ n \in 0..D /\ n + 1 \in 0..D /\ n + 1 \in 1..D
  BY PrefixIs
<1>2. k[n + 1] \in {0, 1} /\ 1 - k[n + 1] \in {0, 1} /\ 1 - k[n + 1] # k[n + 1]
  BY <1>1 DEF Full
<1> DEFINE p == path_prefix(k, n)
           q == path_prefix(k, n + 1)
<1>3. /\ p \in Seq({0, 1}) /\ Len(p) = n /\ \A i \in 1..n : p[i] = k[i]
      /\ q \in Seq({0, 1}) /\ Len(q) = n + 1 /\ \A i \in 1..(n + 1) : q[i] = k[i]
  BY <1>1, PathIs, PrefixIs
<1> HIDE DEF p, q
<1>4. ASSUME NEW b \in {0, 1}
      PROVE  /\ Append(p, b) \in Seq({0, 1}) /\ Len(Append(p, b)) = n + 1
             /\ \A i \in 1..n : Append(p, b)[i] = k[i]
             /\ Append(p, b)[n + 1] = b
  BY <1>1, <1>3, AppendProperties
<1>5. q = Append(p, k[n + 1])
  <2>1. \A i \in 1..(n + 1) : q[i] = Append(p, k[n + 1])[i]
    BY <1>1, <1>2, <1>3, <1>4
  <2> QED  BY <1>2, <1>3, <1>4, <2>1, SeqEqual
<1>6. [q EXCEPT ![n + 1] = 1 - @] = Append(p, 1 - k[n + 1])
  <2>1. PICK b \in {0, 1} : b = 1 - k[n + 1]
    BY <1>2
  <2>2. [q EXCEPT ![n + 1] = 1 - @] = [q EXCEPT ![n + 1] = b]
    <3>1. q[n + 1] = k[n + 1]
      BY <1>1, <1>3
    <3> QED  BY <2>1, <3>1
  <2>3. /\ [q EXCEPT ![n + 1] = b] \in Seq({0, 1}) /\ Len([q EXCEPT ![n + 1] = b]) = n + 1
        /\ \A i \in 1..(n + 1) : [q EXCEPT ![n + 1] = b][i] = IF i = n + 1 THEN b ELSE q[i]
    BY <1>1, <1>3, ExceptSeq
  <2>4. \A i \in 1..(n + 1) : [q EXCEPT ![n + 1] = b][i] = Append(p, b)[i]
    BY <1>1, <1>3, <1>4, <2>3
  <2>5. [q EXCEPT ![n + 1] = b] = Append(p, b)
    <3>1. PICK x \in Seq({0, 1}) : x = [q EXCEPT ![n + 1] = b] /\ Len(x) = n + 1
      BY <2>3
    <3>2. PICK y \in Seq({0, 1}) : y = Append(p, b) /\ Len(y) = n + 1
      BY <1>4
    <3>3. \A i \in 1..(n + 1) : x[i] = y[i]
      BY <2>4, <3>1, <3>2
    <3>4. x = y
      BY <3>1, <3>2, <3>3, SeqEqual
    <3> QED  BY <3>1, <3>2, <3>4
  <2> QED  BY <2>1, <2>2, <2>5
<1> QED  BY <1>2, <1>5, <1>6 DEF p, q, flip_bit

-----------------------------------------------------------------------------
(* The leaves under a node.                                                *)

\* They are the ones whose path goes through it.
LEMMA BelowIs ==
    ASSUME NEW p \in Prefix, NEW k \in Full
    PROVE  /\ Len(p) \in 0..D
           /\ k \in Below(p) <=> path_prefix(k, Len(p)) = p
           /\ path_prefix(k, Len(p)) = SubSeq(k, 1, Len(p))
<1>1. p \in Seq({0, 1}) /\ Len(p) \in 0..D
  BY PrefixIs
<1>2. /\ path_prefix(k, Len(p)) \in Seq({0, 1}) /\ Len(path_prefix(k, Len(p))) = Len(p)
      /\ \A i \in 1..Len(p) : path_prefix(k, Len(p))[i] = k[i]
  BY <1>1, PathIs, PrefixIs
<1>3. ASSUME k \in Below(p) PROVE path_prefix(k, Len(p)) = p
  <2>1. \A i \in 1..Len(p) : path_prefix(k, Len(p))[i] = p[i]
    BY <1>2, <1>3 DEF Below
  <2> QED  BY <1>1, <1>2, <2>1, SeqEqual
<1>4. ASSUME path_prefix(k, Len(p)) = p PROVE k \in Below(p)
  BY <1>2, <1>4 DEF Below
<1> QED  BY <1>1, <1>3, <1>4 DEF path_prefix

\* The leaf itself, at the bottom; one of the children further up.
LEMMA BelowLeaf ==
    ASSUME NEW p \in Prefix, Len(p) = D
    PROVE  p \in Full /\ Below(p) = {p}
<1>1. p \in Full
  BY PrefixIs
<1>2. \A k \in Full : k \in Below(p) <=> k = p
  BY <1>1, BelowIs, PathEnd
<1> QED  BY <1>1, <1>2 DEF Below

LEMMA BelowChild ==
    ASSUME NEW p \in Prefix, Len(p) < D
    PROVE  /\ \A k \in Below(p) : /\ k[Len(p) + 1] \in {0, 1}
                                  /\ k \in Below(Append(p, k[Len(p) + 1]))
           /\ \A b \in {0, 1} : \A k \in Below(Append(p, b)) : k \in Below(p) /\ k[Len(p) + 1] = b
<1>1. Len(p) \in Nat /\ D \in Nat
  BY PrefixIs
<1>2. ASSUME NEW k \in Below(p)
      PROVE  k[Len(p) + 1] \in {0, 1} /\ k \in Below(Append(p, k[Len(p) + 1]))
  <2>1. k \in Full /\ \A i \in 1..Len(p) : k[i] = p[i]
    BY DEF Below
  <2>2. k[Len(p) + 1] \in {0, 1}
    BY <1>1, <2>1 DEF Full
  <2>3. PICK b \in {0, 1} : b = k[Len(p) + 1]
    BY <2>2
  <2>4. \A i \in 1..Len(Append(p, b)) : k[i] = Append(p, b)[i]
    BY <1>1, <2>1, <2>3, ChildIs
  <2> QED  BY <2>1, <2>3, <2>4 DEF Below
<1>3. ASSUME NEW b \in {0, 1}, NEW k \in Below(Append(p, b))
      PROVE  k \in Below(p) /\ k[Len(p) + 1] = b
  <2>1. k \in Full /\ \A i \in 1..(Len(p) + 1) : k[i] = Append(p, b)[i]
    BY ChildIs DEF Below
  <2>2. k[Len(p) + 1] = b /\ \A i \in 1..Len(p) : k[i] = p[i]
    BY <1>1, <2>1, ChildIs
  <2> QED  BY <2>1, <2>2 DEF Below
<1> QED  BY <1>2, <1>3

\* The sibling of a node on the path to a leaf is not above that leaf.
LEMMA BelowPath ==
    ASSUME NEW k \in Full, NEW n \in 0..(D - 1)
    PROVE  /\ flip_bit(path_prefix(k, n + 1), n) \in Prefix
           /\ Len(flip_bit(path_prefix(k, n + 1), n)) = n + 1
           /\ k \notin Below(flip_bit(path_prefix(k, n + 1), n))
<1>1. PICK b \in {0, 1} : b # k[n + 1] /\ flip_bit(path_prefix(k, n + 1), n) = Append(path_prefix(k, n), b)
  BY PathStep
<1>2. path_prefix(k, n) \in Prefix /\ Len(path_prefix(k, n)) = n /\ n < D
  <2>1. n \in 0..D /\ n < D
    BY PrefixIs
  <2> QED  BY <2>1, PathIs
<1>3. \A j \in Below(Append(path_prefix(k, n), b)) : j[n + 1] = b
  BY <1>2, BelowChild
<1>4. Append(path_prefix(k, n), b) \in Prefix /\ Len(Append(path_prefix(k, n), b)) = n + 1
  BY <1>2, ChildIs
<1> QED  BY <1>1, <1>3, <1>4

-----------------------------------------------------------------------------
(* The recursive functions exist, and obey their equations.                *)

LEMMA EmptyHashes ==
    /\ empty_hashes[0] = <<"zero">>
    /\ \A d \in 1..D : empty_hashes[d] = hash_node(empty_hashes[d - 1], empty_hashes[d - 1])
<1> DEFINE Obeys(f, n) == f = [d \in 0..n |->
                IF d = 0 THEN <<"zero">> ELSE hash_node(f[d - 1], f[d - 1])]
           Bad == {n \in 0..D : ~ \E f : Obeys(f, n)}
<1>1. D \in Nat /\ D = TREE_DEPTH
  BY PrefixIs DEF D
<1>2. Bad = {}
  <2> SUFFICES ASSUME Bad # {} PROVE FALSE
    OBVIOUS
  <2>1. PICK m \in Bad : \A y \in Bad : m <= y
    <3>1. Bad \in SUBSET Nat
      BY <1>1
    <3> HIDE DEF Bad
    <3> QED  BY <3>1, LeastOf
  <2>2. m # 0
    <3>1. Obeys([d \in 0..0 |-> <<"zero">>], 0)
      OBVIOUS
    <3> HIDE DEF Obeys
    <3> QED  BY <2>1, <3>1
  <2>3. m \in Nat /\ m - 1 \in 0..D /\ m - 1 \notin Bad
    <3>1. m \in 0..D
      BY <2>1
    <3>2. m \in Nat /\ m - 1 \in 0..D /\ ~(m <= m - 1)
      BY <1>1, <2>2, <3>1
    <3> HIDE DEF Bad
    <3> QED  BY <2>1, <3>2
  <2>4. PICK f : Obeys(f, m - 1)
    BY <2>3
  <2> DEFINE g == [d \in 0..m |-> IF d = m THEN hash_node(f[m - 1], f[m - 1]) ELSE f[d]]
  <2>5. ASSUME NEW d \in 0..m
        PROVE  g[d] = IF d = 0 THEN <<"zero">> ELSE hash_node(g[d - 1], g[d - 1])
    <3>1. CASE d = m
      BY <2>2, <2>3, <3>1
    <3>2. CASE d # m
      <4>1. d \in 0..(m - 1) /\ (d # 0 => d - 1 \in 0..m /\ d - 1 # m)
        BY <2>3, <3>2
      <4>2. g[d] = f[d] /\ (d # 0 => g[d - 1] = f[d - 1])
        BY <3>2, <4>1
      <4> HIDE DEF g
      <4> QED  BY <2>4, <4>1, <4>2
    <3> QED  BY <3>1, <3>2
  <2>6. Obeys(g, m)
    <3>1. g = [d \in 0..m |-> g[d]]
      OBVIOUS
    <3> HIDE DEF g
    <3> QED  BY <2>5, <3>1
  <2> HIDE DEF Obeys
  <2> QED  BY <2>1, <2>6
<1>3. \E f : Obeys(f, D)
  BY <1>1, <1>2
<1>4. Obeys(empty_hashes, D)
  BY <1>1, <1>3 DEF empty_hashes
<1>5. \A d \in 1..D : d \in 0..D /\ d # 0
  OBVIOUS
<1> QED  BY <1>1, <1>4, <1>5

LEMMA PathHashes ==
    ASSUME NEW lv, NEW k
    PROVE  /\ path_hashes(lv, k)[D] = leaf_hash(lv, k)
           /\ \A n \in 0..(D - 1) : path_hashes(lv, k)[n] =
                 parent(k, n, path_hashes(lv, k)[n + 1], get_sibling_hash(lv, k, n))
<1> DEFINE S(n) == get_sibling_hash(lv, k, n)
           Obeys(f, lo) == f = [n \in lo..D |->
                IF n = D THEN leaf_hash(lv, k) ELSE parent(k, n, f[n + 1], S(n))]
           Bad == {n \in 0..D : ~ \E f : Obeys(f, D - n)}
<1>1. D \in Nat /\ D = TREE_DEPTH
  BY PrefixIs DEF D
<1> HIDE DEF S
<1>2. Bad = {}
  <2> SUFFICES ASSUME Bad # {} PROVE FALSE
    OBVIOUS
  <2>1. PICK m \in Bad : \A y \in Bad : m <= y
    <3>1. Bad \in SUBSET Nat
      BY <1>1
    <3> HIDE DEF Bad
    <3> QED  BY <3>1, LeastOf
  <2>2. m # 0
    <3>1. Obeys([n \in D..D |-> leaf_hash(lv, k)], D)
      BY <1>1
    <3>2. D - 0 = D
      BY <1>1
    <3> HIDE DEF Obeys
    <3> QED  BY <2>1, <3>1, <3>2
  <2>3. m \in Nat /\ m <= D /\ m - 1 \in 0..D /\ m - 1 \notin Bad
    <3>1. m \in 0..D
      BY <2>1
    <3>2. m \in Nat /\ m <= D /\ m - 1 \in 0..D /\ ~(m <= m - 1)
      BY <1>1, <2>2, <3>1
    <3> HIDE DEF Bad
    <3> QED  BY <2>1, <3>2
  <2>4. PICK lo \in 0..D : lo = D - m
    BY <1>1, <2>3
  <2>5. lo < D /\ lo + 1 \in 0..D /\ D - (m - 1) = lo + 1
    BY <1>1, <2>2, <2>3, <2>4
  <2>6. PICK f : Obeys(f, lo + 1)
    BY <2>3, <2>5
  <2> DEFINE g == [n \in lo..D |-> IF n = lo THEN parent(k, lo, f[lo + 1], S(lo)) ELSE f[n]]
  <2>7. ASSUME NEW n \in lo..D
        PROVE  g[n] = IF n = D THEN leaf_hash(lv, k) ELSE parent(k, n, g[n + 1], S(n))
    <3>1. CASE n = lo
      <4>1. n + 1 \in lo..D /\ n + 1 # lo /\ n # D
        BY <1>1, <2>5, <3>1
      <4> QED  BY <3>1, <4>1
    <3>2. CASE n # lo
      <4>1. n \in (lo + 1)..D /\ (n # D => n + 1 \in lo..D /\ n + 1 # lo)
        BY <1>1, <2>5, <3>2
      <4>2. g[n] = f[n] /\ (n # D => g[n + 1] = f[n + 1])
        BY <3>2, <4>1
      <4> HIDE DEF g
      <4> QED  BY <2>6, <4>1, <4>2
    <3> QED  BY <3>1, <3>2
  <2>8. Obeys(g, lo)
    <3>1. g = [n \in lo..D |-> g[n]]
      OBVIOUS
    <3> HIDE DEF g
    <3> QED  BY <2>7, <3>1
  <2> HIDE DEF Obeys
  <2> QED  BY <2>1, <2>4, <2>8
<1>3. \E f : Obeys(f, 0)
  <2>1. D \in 0..D /\ D - D = 0
    BY <1>1
  <2> HIDE DEF Obeys
  <2>2. \E f : Obeys(f, D - D)
    BY <1>2, <2>1
  <2> QED  BY <2>1, <2>2
<1>4. Obeys(path_hashes(lv, k), 0)
  BY <1>1, <1>3 DEF path_hashes, S
<1>5. D \in 0..D /\ \A n \in 0..(D - 1) : n \in 0..D /\ n # D
  BY <1>1
<1> QED  BY <1>4, <1>5 DEF S

LEMMA Subtrees ==
    ASSUME NEW lv
    PROVE  \A p \in Prefix : subtrees(lv)[p] =
               IF Len(p) = D THEN leaf_hash(lv, p)
               ELSE hash_node(subtrees(lv)[Append(p, 0)], subtrees(lv)[Append(p, 1)])
<1> DEFINE From(lo) == {p \in Prefix : Len(p) >= lo}
           Obeys(f, lo) == f = [p \in From(lo) |->
                IF Len(p) = D THEN leaf_hash(lv, p) ELSE hash_node(f[Append(p, 0)], f[Append(p, 1)])]
           Bad == {n \in 0..D : ~ \E f : Obeys(f, D - n)}
<1>1. D \in Nat /\ D = TREE_DEPTH /\ \A p \in Prefix : Len(p) \in Nat /\ Len(p) <= D
  BY PrefixIs DEF D
<1>2. Bad = {}
  <2> SUFFICES ASSUME Bad # {} PROVE FALSE
    OBVIOUS
  <2>1. PICK m \in Bad : \A y \in Bad : m <= y
    <3>1. Bad \in SUBSET Nat
      BY <1>1
    <3> HIDE DEF Bad
    <3> QED  BY <3>1, LeastOf
  <2>2. m # 0
    <3>1. \A p \in From(D) : Len(p) = D
      BY <1>1
    <3>2. Obeys([p \in From(D) |-> leaf_hash(lv, p)], D)
      <4> HIDE DEF From
      <4> QED  BY <3>1
    <3>3. D - 0 = D
      BY <1>1
    <3> HIDE DEF Obeys
    <3> QED  BY <2>1, <3>2, <3>3
  <2>3. m \in Nat /\ m <= D /\ m - 1 \in 0..D /\ m - 1 \notin Bad
    <3>1. m \in 0..D
      BY <2>1
    <3>2. m \in Nat /\ m <= D /\ m - 1 \in 0..D /\ ~(m <= m - 1)
      BY <1>1, <2>2, <3>1
    <3> HIDE DEF Bad
    <3> QED  BY <2>1, <3>2
  <2>4. PICK lo \in 0..D : lo = D - m
    BY <1>1, <2>3
  <2>5. lo < D /\ lo + 1 \in 0..D /\ D - (m - 1) = lo + 1
    BY <1>1, <2>2, <2>3, <2>4
  <2>6. PICK f : Obeys(f, lo + 1)
    BY <2>3, <2>5
  <2>7. /\ From(lo + 1) \subseteq From(lo)
        /\ \A p \in From(lo) : Len(p) = lo \/ p \in From(lo + 1)
        /\ \A p \in From(lo + 1) : Len(p) # lo
    BY <1>1, <2>5
  <2>8. \A p \in From(lo), b \in {0, 1} : Len(p) # D => Append(p, b) \in From(lo + 1)
    <3> SUFFICES ASSUME NEW p \in Prefix, Len(p) >= lo, Len(p) # D, NEW b \in {0, 1}
                 PROVE  Append(p, b) \in From(lo + 1)
      OBVIOUS
    <3>1. Len(p) \in Nat /\ Len(p) < D
      BY <1>1
    <3>2. Append(p, b) \in Prefix /\ Len(Append(p, b)) = Len(p) + 1
      BY <3>1, ChildIs
    <3> QED  BY <2>5, <3>1, <3>2
  <2> HIDE DEF From
  <2> DEFINE g == [p \in From(lo) |-> IF p \in From(lo + 1) THEN f[p]
                                      ELSE hash_node(f[Append(p, 0)], f[Append(p, 1)])]
  <2>9. ASSUME NEW p \in From(lo)
        PROVE  g[p] = IF Len(p) = D THEN leaf_hash(lv, p)
                      ELSE hash_node(g[Append(p, 0)], g[Append(p, 1)])
    <3>1. Len(p) # D => g[Append(p, 0)] = f[Append(p, 0)] /\ g[Append(p, 1)] = f[Append(p, 1)]
      BY <2>7, <2>8
    <3>2. CASE p \in From(lo + 1)
      <4>1. g[p] = f[p]
        BY <3>2
      <4>2. f[p] = IF Len(p) = D THEN leaf_hash(lv, p) ELSE hash_node(f[Append(p, 0)], f[Append(p, 1)])
        BY <2>6, <3>2
      <4> HIDE DEF g
      <4> QED  BY <3>1, <4>1, <4>2
    <3>3. CASE p \notin From(lo + 1)
      <4>1. g[p] = hash_node(f[Append(p, 0)], f[Append(p, 1)])
        BY <3>3
      <4>2. Len(p) # D
        BY <2>5, <2>7, <3>3
      <4> HIDE DEF g
      <4> QED  BY <3>1, <4>1, <4>2
    <3> QED  BY <3>2, <3>3
  <2>10. Obeys(g, lo)
    <3>1. g = [p \in From(lo) |-> g[p]]
      OBVIOUS
    <3> HIDE DEF g
    <3> QED  BY <2>9, <3>1
  <2> HIDE DEF Obeys
  <2> QED  BY <2>1, <2>4, <2>10
<1>3. \E f : Obeys(f, 0)
  <2>1. D \in 0..D /\ D - D = 0
    BY <1>1
  <2> HIDE DEF Obeys
  <2>2. \E f : Obeys(f, D - D)
    BY <1>2, <2>1
  <2> QED  BY <2>1, <2>2
<1>4. From(0) = Prefix
  BY <1>1
<1> HIDE DEF From
<1>5. Obeys(subtrees(lv), 0)
  BY <1>1, <1>3, <1>4 DEF subtrees
<1> QED  BY <1>4, <1>5

-----------------------------------------------------------------------------
(* What the hash of a subtree depends on.                                  *)

\* A set of nodes that has, with any internal node, one of its children, has a
\* leaf: the way an argument from the leaves upwards is stated here.
LEMMA Descend ==
    ASSUME NEW N \in SUBSET Prefix, N # {},
           \A p \in N : Len(p) # D => \E b \in {0, 1} : Append(p, b) \in N
    PROVE  \E p \in N : Len(p) = D
<1> DEFINE Up == {D - Len(p) : p \in N}
<1>1. D \in Nat /\ \A p \in N : Len(p) \in Nat /\ Len(p) <= D
  BY PrefixIs
<1>2. Up \in SUBSET Nat /\ Up # {}
  BY <1>1
<1>3. PICK m \in Up : \A y \in Up : m <= y
  <2> HIDE DEF Up
  <2> QED  BY <1>2, LeastOf
<1>4. PICK p \in N : m = D - Len(p)
  BY <1>3
<1>5. ASSUME Len(p) # D PROVE FALSE
  <2>1. PICK b \in {0, 1} : Append(p, b) \in N
    BY <1>5
  <2>2. Len(Append(p, b)) = Len(p) + 1
    BY <1>1, <1>5, ChildIs
  <2>3. D - (Len(p) + 1) \in Up
    BY <2>1, <2>2
  <2>4. m <= D - (Len(p) + 1)
    BY <1>3, <2>3
  <2> HIDE DEF Up
  <2> QED  BY <1>1, <1>4, <2>4
<1> QED  BY <1>5

\* An empty subtree has two empty halves.
LEMMA EmptyLevel ==
    ASSUME NEW n \in 0..(D - 1)
    PROVE  empty_hash_at_level(n) = hash_node(empty_hash_at_level(n + 1), empty_hash_at_level(n + 1))
<1>1. D - n \in 1..D /\ D - (n + 1) = (D - n) - 1
  BY PrefixIs
<1> QED  BY <1>1, EmptyHashes DEF empty_hash_at_level, D

\* Only on the leaves under it.
LEMMA SubtreeLocal ==
    ASSUME NEW lv, NEW mv, NEW p \in Prefix, \A k \in Below(p) : leaf_hash(lv, k) = leaf_hash(mv, k)
    PROVE  subtrees(lv)[p] = subtrees(mv)[p]
<1> DEFINE t == subtrees(lv)
           u == subtrees(mv)
           N == {q \in Prefix : Below(q) \subseteq Below(p) /\ t[q] # u[q]}
<1> SUFFICES ASSUME t[p] # u[p] PROVE FALSE
  OBVIOUS
<1>1. /\ \A q \in Prefix : t[q] = IF Len(q) = D THEN leaf_hash(lv, q)
                                  ELSE hash_node(t[Append(q, 0)], t[Append(q, 1)])
      /\ \A q \in Prefix : u[q] = IF Len(q) = D THEN leaf_hash(mv, q)
                                  ELSE hash_node(u[Append(q, 0)], u[Append(q, 1)])
  BY Subtrees
<1> HIDE DEF t, u
<1>2. N \in SUBSET Prefix /\ p \in N
  OBVIOUS
<1>3. ASSUME NEW q \in N, Len(q) # D PROVE \E b \in {0, 1} : Append(q, b) \in N
  <2>1. q \in Prefix /\ Len(q) < D
    BY <1>3, PrefixIs
  <2>2. t[Append(q, 0)] # u[Append(q, 0)] \/ t[Append(q, 1)] # u[Append(q, 1)]
    BY <1>1, <1>3
  <2>3. \A b \in {0, 1} : Append(q, b) \in Prefix /\ Below(Append(q, b)) \subseteq Below(q)
    BY <2>1, BelowChild, ChildIs
  <2> QED  BY <1>3, <2>2, <2>3
<1>4. PICK q \in N : Len(q) = D
  <2> HIDE DEF N
  <2> QED  BY <1>2, <1>3, Descend
<1>5. q \in Below(p)
  BY <1>4, BelowLeaf
<1> QED  BY <1>1, <1>4, <1>5

\* It is the hash of an empty subtree if there is none there,
LEMMA SubtreeEmpty ==
    ASSUME NEW lv, NEW p \in Prefix, \A k \in Below(p) : k \notin DOMAIN lv
    PROVE  subtrees(lv)[p] = empty_hash_at_level(Len(p))
<1> DEFINE t == subtrees(lv)
           E(q) == empty_hash_at_level(Len(q))
           N == {q \in Prefix : Below(q) \subseteq Below(p) /\ t[q] # E(q)}
<1> SUFFICES ASSUME t[p] # E(p) PROVE FALSE
  OBVIOUS
<1>1. \A q \in Prefix : t[q] = IF Len(q) = D THEN leaf_hash(lv, q)
                               ELSE hash_node(t[Append(q, 0)], t[Append(q, 1)])
  BY Subtrees
<1> HIDE DEF t
<1>2. N \in SUBSET Prefix /\ p \in N
  OBVIOUS
<1>3. ASSUME NEW q \in N, Len(q) # D PROVE \E b \in {0, 1} : Append(q, b) \in N
  <2>1. q \in Prefix /\ Len(q) \in Nat /\ Len(q) < D /\ D \in Nat
    BY <1>3, PrefixIs
  <2>2. \A b \in {0, 1} : Append(q, b) \in Prefix /\ Below(Append(q, b)) \subseteq Below(q)
                          /\ Len(Append(q, b)) = Len(q) + 1
    BY <2>1, BelowChild, ChildIs
  <2>3. E(q) = hash_node(E(Append(q, 0)), E(Append(q, 1)))
    BY <2>1, <2>2, EmptyLevel
  <2> HIDE DEF E
  <2>4. t[Append(q, 0)] # E(Append(q, 0)) \/ t[Append(q, 1)] # E(Append(q, 1))
    BY <1>1, <1>3, <2>3
  <2> QED  BY <1>3, <2>2, <2>4
<1>4. PICK q \in N : Len(q) = D
  <2> HIDE DEF N, E
  <2> QED  BY <1>2, <1>3, Descend
<1>5. q \in Below(p)
  BY <1>4, BelowLeaf
<1>6. D - D = 0 /\ D = TREE_DEPTH
  BY PrefixIs DEF D
<1> QED  BY <1>1, <1>4, <1>5, <1>6 DEF leaf_hash, empty_hash_at_level

\* and of no empty subtree otherwise.
LEMMA SubtreeNotEmpty ==
    ASSUME NEW lv, NEW p \in Prefix, NEW k \in Below(p), k \in DOMAIN lv
    PROVE  subtrees(lv)[p] # empty_hash_at_level(Len(p))
<1> DEFINE t == subtrees(lv)
           E(q) == empty_hash_at_level(Len(q))
           N == {q \in Prefix : k \in Below(q) /\ t[q] = E(q)}
<1> SUFFICES ASSUME t[p] = E(p) PROVE FALSE
  OBVIOUS
<1>1. \A q \in Prefix : t[q] = IF Len(q) = D THEN leaf_hash(lv, q)
                               ELSE hash_node(t[Append(q, 0)], t[Append(q, 1)])
  BY Subtrees
<1> HIDE DEF t
<1>2. N \in SUBSET Prefix /\ p \in N
  OBVIOUS
<1>3. ASSUME NEW q \in N, Len(q) # D PROVE \E b \in {0, 1} : Append(q, b) \in N
  <2>1. q \in Prefix /\ Len(q) \in Nat /\ Len(q) < D /\ D \in Nat /\ k \in Below(q)
    BY <1>3, PrefixIs
  <2>2. \A b \in {0, 1} : Append(q, b) \in Prefix /\ Len(Append(q, b)) = Len(q) + 1
    BY <2>1, ChildIs
  <2>3. PICK c \in {0, 1} : k \in Below(Append(q, c))
    BY <2>1, BelowChild
  <2>4. \A b \in {0, 1} : E(q) = hash_node(E(Append(q, b)), E(Append(q, b)))
    BY <2>1, <2>2, EmptyLevel
  <2> HIDE DEF E
  <2>5. hash_node(t[Append(q, 0)], t[Append(q, 1)]) = hash_node(E(Append(q, c)), E(Append(q, c)))
    BY <1>1, <1>3, <2>4
  <2>6. t[Append(q, 0)] = E(Append(q, c)) /\ t[Append(q, 1)] = E(Append(q, c))
    BY <2>5 DEF hash_node
  <2> QED  BY <2>2, <2>3, <2>6
<1>4. PICK q \in N : Len(q) = D
  <2> HIDE DEF N, E
  <2> QED  BY <1>2, <1>3, Descend
<1>5. q = k
  BY <1>4, BelowLeaf
<1>6. D - D = 0 /\ D = TREE_DEPTH
  BY PrefixIs DEF D
<1>7. hash_leaf(k, lv[k]) = <<"zero">>
  BY <1>1, <1>4, <1>5, <1>6, EmptyHashes DEF leaf_hash, empty_hash_at_level
<1>8. hash_leaf(k, lv[k])[1] = "leaf" /\ <<"zero">>[1] = "zero"
  BY DEF hash_leaf
<1>9. "leaf" = "zero"
  BY <1>7, <1>8
<1> QED  BY <1>9

-----------------------------------------------------------------------------
(* The nodes kept.                                                         *)

\* A node that is looked up has the hash of its subtree, kept or not.
LEMMA NodesAre ==
    ASSUME NodesAreSubtrees, NEW p \in Prefix, Len(p) < D
    PROVE  /\ p \in DOMAIN nodes <=> \E k \in DOMAIN leaves : k \in Below(p)
           /\ lookup(nodes, p, empty_hash_at_level(Len(p))) = subtrees(leaves)[p]
<1>1. DOMAIN leaves \subseteq Full
  BY SmtAssumption DEF NodesAreSubtrees, SmtTypeOK, Full, D
<1>2. p \in DOMAIN nodes <=> \E k \in DOMAIN leaves : SubSeq(k, 1, Len(p)) = p
  BY DEF NodesAreSubtrees, D
<1>3. p \in DOMAIN nodes <=> \E k \in DOMAIN leaves : k \in Below(p)
  BY <1>1, <1>2, BelowIs
<1>4. CASE p \in DOMAIN nodes
  BY <1>3, <1>4 DEF NodesAreSubtrees, lookup
<1>5. CASE p \notin DOMAIN nodes
  BY <1>3, <1>5, SubtreeEmpty DEF lookup
<1> QED  BY <1>3, <1>4, <1>5

\* get_sibling_hash: the hash of the sibling in the tree over lv, where lv
\* differs from the leaves at k at most.
LEMMA SiblingIs ==
    ASSUME NodesAreSubtrees, NEW k \in Full, NEW lv,
           \A j \in Full \ {k} : leaf_hash(lv, j) = leaf_hash(leaves, j),
           NEW n \in 0..(D - 1)
    PROVE  get_sibling_hash(lv, k, n) = subtrees(lv)[flip_bit(path_prefix(k, n + 1), n)]
<1> DEFINE q == flip_bit(path_prefix(k, n + 1), n)
<1>1. q \in Prefix /\ Len(q) = n + 1 /\ k \notin Below(q)
  BY BelowPath
<1>2. D \in Nat /\ D = TREE_DEPTH
  BY PrefixIs DEF D
<1>3. CASE n = D - 1
  <2>1. flip_bit(k, n) = q
    BY <1>2, <1>3, PathEnd
  <2>2. get_sibling_hash(lv, k, n) = leaf_hash(lv, q)
    BY <1>2, <1>3, <2>1 DEF get_sibling_hash
  <2> HIDE DEF q
  <2>3. subtrees(lv)[q] = leaf_hash(lv, q)
    BY <1>1, <1>2, <1>3, Subtrees
  <2> QED  BY <2>2, <2>3 DEF q
<1>4. CASE n # D - 1
  <2>1. get_sibling_hash(lv, k, n) = lookup(nodes, q, empty_hash_at_level(n + 1))
    BY <1>2, <1>4 DEF get_sibling_hash
  <2> HIDE DEF q
  <2>2. lookup(nodes, q, empty_hash_at_level(n + 1)) = subtrees(leaves)[q]
    BY <1>1, <1>2, <1>4, NodesAre
  <2>3. \A j \in Below(q) : leaf_hash(lv, j) = leaf_hash(leaves, j)
    BY <1>1 DEF Below
  <2>4. subtrees(lv)[q] = subtrees(leaves)[q]
    BY <1>1, <2>3, SubtreeLocal
  <2> QED  BY <2>1, <2>2, <2>4 DEF q
<1> QED  BY <1>3, <1>4

\* So the hashes computed along a path are those of the tree over lv.
LEMMA PathHashesAre ==
    ASSUME NodesAreSubtrees, NEW k \in Full, NEW lv,
           \A j \in Full \ {k} : leaf_hash(lv, j) = leaf_hash(leaves, j),
           NEW n \in 0..D
    PROVE  path_hashes(lv, k)[n] = subtrees(lv)[path_prefix(k, n)]
<1> DEFINE h == path_hashes(lv, k)
           t == subtrees(lv)
           P(i) == path_prefix(k, i)
           N == {P(i) : i \in {i \in 0..D : h[i] # t[P(i)]}}
<1>0. D \in Nat \ {0}
  BY PrefixIs
<1>1. /\ h[D] = leaf_hash(lv, k)
      /\ \A i \in 0..(D - 1) : h[i] = parent(k, i, h[i + 1], get_sibling_hash(lv, k, i))
  BY PathHashes
<1>2. \A i \in 0..(D - 1) : get_sibling_hash(lv, k, i) = t[flip_bit(P(i + 1), i)]
  BY SiblingIs
<1>3. \A p \in Prefix : t[p] = IF Len(p) = D THEN leaf_hash(lv, p)
                               ELSE hash_node(t[Append(p, 0)], t[Append(p, 1)])
  BY Subtrees
<1>4. /\ \A i \in 0..D : P(i) \in Prefix /\ Len(P(i)) = i
      /\ \A i \in 0..(D - 1) : /\ k[i + 1] \in {0, 1}
                               /\ P(i + 1) = Append(P(i), k[i + 1])
                               /\ flip_bit(P(i + 1), i) = Append(P(i), 1 - k[i + 1])
      /\ P(D) = k
  BY PathIs, PathStep, PathEnd
<1> HIDE DEF h, t, P
<1> SUFFICES ASSUME N # {} PROVE FALSE
  BY DEF h, t, P
<1>5. N \in SUBSET Prefix
  BY <1>4
<1>6. ASSUME NEW p \in N, Len(p) # D PROVE \E b \in {0, 1} : Append(p, b) \in N
  <2>1. PICK i \in 0..D : p = P(i) /\ h[i] # t[P(i)]
    OBVIOUS
  <2>2. i \in 0..(D - 1) /\ i + 1 \in 0..D /\ Len(P(i)) # D
    BY <1>0, <1>4, <1>6, <2>1
  <2>3. PICK b \in {0, 1} : b = k[i + 1] /\ P(i + 1) = Append(P(i), b)
                            /\ flip_bit(P(i + 1), i) = Append(P(i), 1 - b)
    BY <1>4, <2>2
  <2>4. h[i] = IF b = 0 THEN hash_node(h[i + 1], t[Append(P(i), 1)])
               ELSE hash_node(t[Append(P(i), 0)], h[i + 1])
    <3>1. h[i] = parent(k, i, h[i + 1], t[Append(P(i), 1 - b)])
      BY <1>1, <1>2, <2>2, <2>3
    <3>2. b = 0 => 1 - b = 1
      OBVIOUS
    <3>3. b # 0 => 1 - b = 0
      OBVIOUS
    <3> QED  BY <2>3, <3>1, <3>2, <3>3 DEF parent, bit_at
  <2>5. t[P(i)] = hash_node(t[Append(P(i), 0)], t[Append(P(i), 1)])
    BY <1>3, <1>4, <2>2
  <2>6. h[i + 1] # t[P(i + 1)]
    BY <2>1, <2>3, <2>4, <2>5
  <2>7. P(i + 1) \in N
    BY <2>2, <2>6
  <2> QED  BY <2>1, <2>3, <2>7
<1>7. PICK p \in N : Len(p) = D
  <2> HIDE DEF N
  <2> QED  BY <1>5, <1>6, Descend
<1>8. PICK i \in 0..D : p = P(i) /\ h[i] # t[P(i)]
  BY <1>7
<1>9. i = D /\ p = k
  BY <1>4, <1>7, <1>8
<1> QED  BY <1>0, <1>1, <1>3, <1>4, <1>8, <1>9

\* update keeps the nodes what they are.
LEMMA UpdateKeeps ==
    ASSUME NodesAreSubtrees, NEW k \in Keys, NEW v \in Values \cup {ZeroValue}, update(k, v)
    PROVE  NodesAreSubtrees'
<1> DEFINE lv == leaves_after(k, v)
           h == path_hashes(lv, k)
           kept == {level \in 0..(TREE_DEPTH - 1) : stored(level, h[level])}
           path == {path_prefix(k, level) : level \in 0..(TREE_DEPTH - 1)}
           t == subtrees(lv)
<1>1. /\ leaves' = lv /\ dirty' = TRUE
      /\ nodes' = [p \in (DOMAIN nodes \ path) \cup {path_prefix(k, level) : level \in kept} |->
                            IF p \in path THEN h[Len(p)] ELSE nodes[p]]
  BY DEF update
<1>2. /\ D \in Nat \ {0} /\ D = TREE_DEPTH /\ k \in Full /\ Keys \subseteq Full
      /\ DOMAIN leaves \subseteq Keys /\ \A j \in DOMAIN leaves : leaves[j] \in Values
      /\ \A p \in DOMAIN nodes : p \in Prefix /\ Len(p) < D
  BY SmtAssumption DEF NodesAreSubtrees, SmtTypeOK, Full, D
<1>3. /\ DOMAIN lv \subseteq Keys /\ \A j \in DOMAIN lv : lv[j] \in Values
      /\ \A j \in Full \ {k} : /\ j \in DOMAIN lv <=> j \in DOMAIN leaves
                               /\ leaf_hash(lv, j) = leaf_hash(leaves, j)
  BY <1>2 DEF leaves_after, leaf_hash
<1>4. \A n \in 0..D : h[n] = t[path_prefix(k, n)]
  BY <1>2, <1>3, PathHashesAre
<1>5. \A n \in 0..(D - 1) : path_prefix(k, n) \in Prefix /\ Len(path_prefix(k, n)) = n
  BY <1>2, PathIs
<1>6. \A p \in Prefix : Len(p) < D => (p \in path <=> k \in Below(p))
  <2> SUFFICES ASSUME NEW p \in Prefix, Len(p) < D PROVE p \in path <=> k \in Below(p)
    OBVIOUS
  <2>1. Len(p) \in 0..(TREE_DEPTH - 1)
    BY <1>2, PrefixIs
  <2>2. k \in Below(p) <=> path_prefix(k, Len(p)) = p
    BY <1>2, BelowIs
  <2>3. p \in path => path_prefix(k, Len(p)) = p
    BY <1>2, <1>5
  <2> QED  BY <2>1, <2>2, <2>3
<1> HIDE DEF lv, h, t
\* On the path the nodes kept are the ones that are not empty.
<1>7. ASSUME NEW p \in path
      PROVE  /\ p \in Prefix /\ Len(p) < D /\ h[Len(p)] = t[p]
             /\ p \in DOMAIN nodes' <=> \E j \in DOMAIN lv : j \in Below(p)
  <2>1. PICK n \in 0..(D - 1) : p = path_prefix(k, n)
    BY <1>2
  <2>2. p \in Prefix /\ Len(p) = n /\ n < D /\ n \in 0..D
    BY <1>2, <1>5, <2>1
  <2>3. h[n] = t[p]
    BY <1>4, <2>1, <2>2
  <2>4. p \in DOMAIN nodes' <=> n \in kept
    <3>1. DOMAIN nodes' = (DOMAIN nodes \ path) \cup {path_prefix(k, level) : level \in kept}
      BY <1>1
    <3>2. \A m \in kept : m \in 0..(D - 1)
      BY <1>2
    <3>3. p \in {path_prefix(k, level) : level \in kept} <=> n \in kept
      BY <1>5, <2>1, <2>2, <3>2
    <3> QED  BY <3>1, <3>3
  <2>5. n \in kept <=> t[p] # empty_hash_at_level(Len(p))
    BY <1>2, <2>2, <2>3 DEF stored
  <2>6. t[p] # empty_hash_at_level(Len(p)) <=> \E j \in DOMAIN lv : j \in Below(p)
    BY <2>2, SubtreeEmpty, SubtreeNotEmpty DEF t
  <2> QED  BY <2>2, <2>3, <2>4, <2>5, <2>6
\* Off the path nothing changes.
<1>8. ASSUME NEW p \in Prefix, Len(p) < D, p \notin path
      PROVE  /\ p \in DOMAIN nodes' <=> \E j \in DOMAIN lv : j \in Below(p)
             /\ p \in DOMAIN nodes => nodes[p] = t[p]
  <2>1. \A j \in Below(p) : j \in Full \ {k}
    BY <1>6, <1>8 DEF Below
  <2>2. p \in DOMAIN nodes' <=> p \in DOMAIN nodes
    BY <1>1, <1>2, <1>8
  <2>3. p \in DOMAIN nodes <=> \E j \in DOMAIN leaves : j \in Below(p)
    BY <1>8, NodesAre
  <2>4. subtrees(lv)[p] = subtrees(leaves)[p]
    BY <1>3, <2>1, SubtreeLocal
  <2>5. p \in DOMAIN nodes => nodes[p] = subtrees(leaves)[p]
    BY DEF NodesAreSubtrees
  <2> QED  BY <1>3, <2>1, <2>2, <2>3, <2>4, <2>5 DEF t
<1>9. \A p \in DOMAIN nodes' : p \in Prefix /\ Len(p) < D
  <2> SUFFICES ASSUME NEW p \in DOMAIN nodes' PROVE p \in Prefix /\ Len(p) < D
    OBVIOUS
  <2>1. p \in DOMAIN nodes \/ p \in path
    BY <1>1
  <2> QED  BY <1>2, <1>7, <2>1
<1>10. SmtTypeOK'
  BY <1>1, <1>2, <1>3, <1>9 DEF SmtTypeOK
<1>11. ASSUME NEW p \in Prefix, Len(p) < D
       PROVE  p \in DOMAIN nodes' <=> \E j \in DOMAIN leaves' : SubSeq(j, 1, Len(p)) = p
  <2>1. p \in DOMAIN nodes' <=> \E j \in DOMAIN lv : j \in Below(p)
    BY <1>7, <1>8, <1>11
  <2>2. \A j \in DOMAIN lv : j \in Below(p) <=> SubSeq(j, 1, Len(p)) = p
    BY <1>2, <1>3, BelowIs
  <2> QED  BY <1>1, <2>1, <2>2
<1>12. DOMAIN nodes' = {p \in Prefix : Len(p) < D /\ \E j \in DOMAIN leaves' : SubSeq(j, 1, Len(p)) = p}
  BY <1>9, <1>11
<1>13. \A p \in DOMAIN nodes' : nodes'[p] = t[p]
  <2> SUFFICES ASSUME NEW p \in DOMAIN nodes' PROVE nodes'[p] = t[p]
    OBVIOUS
  <2>1. nodes'[p] = IF p \in path THEN h[Len(p)] ELSE nodes[p]
    BY <1>1
  <2>2. p \notin path => p \in DOMAIN nodes
    BY <1>1
  <2> QED  BY <1>7, <1>8, <1>9, <2>1, <2>2
<1>14. t = subtrees(leaves')
  BY <1>1 DEF t
<1> QED  BY <1>2, <1>10, <1>12, <1>13, <1>14 DEF NodesAreSubtrees

LEMMA RootPath ==
    <<>> \in Prefix /\ Len(<<>>) < D /\ empty_hash_at_level(Len(<<>>)) = empty_hashes[TREE_DEPTH]
<1>1. <<>> \in Seq({0, 1}) /\ Len(<<>>) = 0
  BY EmptySeq
<1>2. Len(<<>>) <= D /\ Len(<<>>) < D /\ TREE_DEPTH - Len(<<>>) = TREE_DEPTH
  BY <1>1, PrefixIs DEF D
<1>3. <<>> \in Prefix
  BY <1>1, <1>2, PrefixIs, Zenon
<1> QED  BY <1>2, <1>3 DEF empty_hash_at_level

\* What root() looks up is the reference root, and the initial root is that of
\* no leaves.
LEMMA RootIs ==
    ASSUME NodesAreSubtrees
    PROVE  lookup(nodes, <<>>, empty_hashes[TREE_DEPTH]) = reference_root(leaves)
BY RootPath, NodesAre DEF reference_root

LEMMA EmptyRoot ==
    ASSUME NEW lv, DOMAIN lv = {}
    PROVE  reference_root(lv) = empty_hashes[TREE_DEPTH]
<1>1. subtrees(lv)[<<>>] = empty_hash_at_level(Len(<<>>))
  BY RootPath, SubtreeEmpty
<1> QED  BY <1>1, RootPath DEF reference_root

\* smt.rs, update and root: after any sequence of updates, overwrites and
\* deletions of any keys, `nodes' holds exactly the subtrees of the full tree
\* that have a leaf, with their hashes.
THEOREM NodesCorrect == Spec => []NodesAreSubtrees
<1>1. Init => NodesAreSubtrees
  <2> SUFFICES ASSUME Init PROVE NodesAreSubtrees
    OBVIOUS
  <2>1. DOMAIN leaves = {} /\ DOMAIN nodes = {} /\ dirty = FALSE
    BY DEF Init
  <2> QED  BY <2>1 DEF NodesAreSubtrees, SmtTypeOK
<1>2. NodesAreSubtrees /\ [Next]_vars => NodesAreSubtrees'
  <2> SUFFICES ASSUME NodesAreSubtrees, [Next]_vars PROVE NodesAreSubtrees'
    OBVIOUS
  <2>1. CASE root
    BY <2>1 DEF root, NodesAreSubtrees, SmtTypeOK
  <2>2. CASE \E k \in Keys, v \in Values \cup {ZeroValue} : update(k, v)
    BY <2>2, UpdateKeeps
  <2>3. CASE UNCHANGED vars
    BY <2>3 DEF vars, NodesAreSubtrees, SmtTypeOK
  <2> QED  BY <2>1, <2>2, <2>3 DEF Next
<1> QED  BY <1>1, <1>2, PTL DEF Spec

-----------------------------------------------------------------------------
(* The refinement of the abstract commitment.                              *)

\* A root that is not stale is the root of the leaves.
RootFresh == ~dirty => cached_root = reference_root(leaves)

LEMMA RootFreshInvariant == Spec => [](NodesAreSubtrees /\ RootFresh)
<1>1. Init => RootFresh
  <2> SUFFICES ASSUME Init PROVE RootFresh
    OBVIOUS
  <2>1. DOMAIN leaves = {} /\ cached_root = empty_hashes[TREE_DEPTH]
    BY DEF Init
  <2> QED  BY <2>1, EmptyRoot DEF RootFresh
<1>2. NodesAreSubtrees /\ RootFresh /\ [Next]_vars => RootFresh'
  <2> SUFFICES ASSUME NodesAreSubtrees, RootFresh, [Next]_vars PROVE RootFresh'
    OBVIOUS
  <2>1. CASE root
    <3>1. leaves' = leaves /\ cached_root' = reference_root(leaves)
      BY <2>1, RootIs DEF root, RootFresh
    <3> QED  BY <3>1 DEF RootFresh
  <2>2. CASE \E k \in Keys, v \in Values \cup {ZeroValue} : update(k, v)
    BY <2>2 DEF update, RootFresh
  <2>3. CASE UNCHANGED vars
    BY <2>3 DEF vars, RootFresh
  <2> QED  BY <2>1, <2>2, <2>3 DEF Next
<1> QED  BY <1>1, <1>2, NodesCorrect, PTL DEF Spec

\* The tree implements the commitment: whatever sequence of updates led to the
\* leaves, root() returns the root of the full tree over them, so that two nodes
\* with the same objects attest the same root.
THEOREM CommitmentCorrect == Spec => ImplementsCommitment
<1>1. Init => Abstract!Init
  <2> SUFFICES ASSUME Init PROVE Abstract!Init
    OBVIOUS
  <2>1. leaves = <<>> /\ DOMAIN leaves = {} /\ cached_root = empty_hashes[TREE_DEPTH] /\ dirty = FALSE
    BY DEF Init
  <2> QED  BY <2>1, EmptyRoot DEF Abstract!Init
<1>2. NodesAreSubtrees /\ RootFresh /\ [Next]_vars
        => [Abstract!Next]_<<leaves, cached_root, ~dirty>>
  <2> SUFFICES ASSUME NodesAreSubtrees, RootFresh, [Next]_vars
               PROVE  [Abstract!Next]_<<leaves, cached_root, ~dirty>>
    OBVIOUS
  <2>1. CASE root
    <3>1. leaves' = leaves /\ cached_root' = reference_root(leaves) /\ dirty' = FALSE
      BY <2>1, RootIs DEF root, RootFresh
    <3> QED  BY <3>1 DEF Abstract!Next, Abstract!Publish
  <2>2. ASSUME NEW k \in Keys, NEW v \in Values \cup {ZeroValue}, update(k, v)
        PROVE  Abstract!Next
    <3>1. Abstract!Put(k, v)
      BY <2>2 DEF update, leaves_after, Abstract!Put
    <3> QED  BY <3>1 DEF Abstract!Next
  <2>3. CASE UNCHANGED vars
    BY <2>3 DEF vars
  <2> QED  BY <2>1, <2>2, <2>3 DEF Next
<1> QED  BY <1>1, <1>2, RootFreshInvariant, PTL DEF Spec, ImplementsCommitment, Abstract!Spec

-----------------------------------------------------------------------------
(* Proofs of inclusion.                                                    *)

\* One step of a verification, from a node to its parent.
Climb(current, node) ==
    IF node.left THEN hash_node(node.hash, current) ELSE hash_node(current, node.hash)

\* What a verification computes: the hashes it passes, by entries used.
Verifies(F, k, v, path) ==
    /\ F[0] = hash_leaf(k, v)
    /\ \A n \in 1..D : F[n] = Climb(F[n - 1], path[n])
    /\ \A r : verify_proof_static(r, k, v, path) <=> F[D] = r

LEMMA MaxIs ==
    ASSUME NEW n \in Nat, NEW s \in SUBSET (1..n), s # {}
    PROVE  Max(s) \in s /\ \A y \in s : Max(s) >= y
<1> DEFINE Down == {n - x : x \in s}
<1>1. \A x \in s : x \in Nat /\ x <= n
  OBVIOUS
<1>2. Down \in SUBSET Nat /\ Down # {}
  <2>1. \A x \in s : n - x \in Nat
    BY <1>1
  <2>2. \A y \in Down : y \in Nat
    BY <2>1
  <2>3. PICK x \in s : TRUE
    OBVIOUS
  <2>4. n - x \in Down
    BY <2>3
  <2> HIDE DEF Down
  <2> QED  BY <2>2, <2>4
<1>3. PICK m \in Down : \A y \in Down : m <= y
  <2> HIDE DEF Down
  <2> QED  BY <1>2, LeastOf
<1>4. PICK x \in s : m = n - x
  BY <1>3
<1>5. ASSUME NEW y \in s PROVE x >= y
  <2>1. n - y \in Down
    OBVIOUS
  <2>2. m <= n - y
    BY <1>3, <2>1
  <2> HIDE DEF Down
  <2> QED  BY <1>1, <1>4, <2>2
<1>6. \E z \in s : \A y \in s : z >= y
  BY <1>5
<1> QED  BY <1>6 DEF Max

\* verify_proof_static climbs from the leaf along the path, entry by entry, and
\* compares what it ends with.
LEMMA Verification ==
    ASSUME NEW k, NEW v, NEW path, DOMAIN path = 1..D
    PROVE  \E F : Verifies(F, k, v, path)
<1> DEFINE base == hash_leaf(k, v)
           Obeys(f, n) == f = [s \in SUBSET (1..n) |->
                IF s = {} THEN base ELSE Climb(f[s \ {Max(s)}], path[Max(s)])]
           Bad == {n \in 0..D : ~ \E f : Obeys(f, n)}
<1> HIDE DEF base
<1>1. D \in Nat
  BY PrefixIs
<1>2. Bad = {}
  <2> SUFFICES ASSUME Bad # {} PROVE FALSE
    OBVIOUS
  <2>1. PICK m \in Bad : \A y \in Bad : m <= y
    <3>1. Bad \in SUBSET Nat
      BY <1>1
    <3> HIDE DEF Bad
    <3> QED  BY <3>1, LeastOf
  <2>2. m # 0
    <3>1. SUBSET (1..0) = {{}}
      OBVIOUS
    <3>2. Obeys([s \in SUBSET (1..0) |-> base], 0)
      BY <3>1
    <3> HIDE DEF Obeys
    <3> QED  BY <2>1, <3>2
  <2>3. m \in Nat /\ m - 1 \in 0..D /\ m - 1 \notin Bad
    <3>1. m \in 0..D
      BY <2>1
    <3>2. m \in Nat /\ m - 1 \in 0..D /\ ~(m <= m - 1)
      BY <1>1, <2>2, <3>1
    <3> HIDE DEF Bad
    <3> QED  BY <2>1, <3>2
  <2>4. PICK f : Obeys(f, m - 1)
    BY <2>3
  <2>5. /\ \A s \in SUBSET (1..(m - 1)) : s \in SUBSET (1..m) /\ m \notin s
        /\ \A s \in SUBSET (1..m) : m \notin s => s \in SUBSET (1..(m - 1))
        /\ \A s \in SUBSET (1..m) : s \ {m} \in SUBSET (1..(m - 1))
    BY <2>2, <2>3
  <2> DEFINE g == [s \in SUBSET (1..m) |-> IF m \in s THEN Climb(f[s \ {m}], path[m]) ELSE f[s]]
  <2>6. ASSUME NEW s \in SUBSET (1..m)
        PROVE  g[s] = IF s = {} THEN base ELSE Climb(g[s \ {Max(s)}], path[Max(s)])
    <3>1. s # {} => Max(s) \in s /\ \A y \in s : Max(s) >= y
      BY <2>3, MaxIs
    <3>2. \A x \in SUBSET (1..(m - 1)) : g[x] = f[x]
      BY <2>5
    <3>3. CASE m \in s
      <4>1. Max(s) = m
        <5>1. Max(s) \in 1..m /\ Max(s) >= m
          BY <3>1, <3>3
        <5> HIDE DEF Bad
        <5> QED  BY <2>3, <5>1
      <4>2. g[s] = Climb(f[s \ {m}], path[m])
        BY <3>3
      <4>3. g[s \ {m}] = f[s \ {m}]
        BY <2>5, <3>2
      <4> HIDE DEF g
      <4> QED  BY <3>3, <4>1, <4>2, <4>3
    <3>4. CASE m \notin s
      <4>1. s \in SUBSET (1..(m - 1)) /\ s \ {Max(s)} \in SUBSET (1..(m - 1))
        BY <2>5, <3>4
      <4>2. g[s] = f[s] /\ g[s \ {Max(s)}] = f[s \ {Max(s)}]
        BY <3>2, <4>1
      <4> HIDE DEF g
      <4> QED  BY <2>4, <4>1, <4>2
    <3> QED  BY <3>3, <3>4
  <2>7. Obeys(g, m)
    <3>1. g = [s \in SUBSET (1..m) |-> g[s]]
      OBVIOUS
    <3> HIDE DEF g
    <3> QED  BY <2>6, <3>1
  <2> HIDE DEF Obeys
  <2> QED  BY <2>1, <2>7
<1>3. \E f : Obeys(f, D)
  <2>1. D \in 0..D
    BY <1>1
  <2> HIDE DEF Obeys
  <2> QED  BY <1>2, <2>1
<1> DEFINE iter == CHOOSE f : Obeys(f, D)
<1>4. Obeys(iter, D)
  BY <1>3
<1>5. \A r : verify_proof_static(r, k, v, path) <=> iter[1..D] = r
  BY DEF verify_proof_static, FoldLeft, MapThenFoldSet, Climb, base
<1> HIDE DEF iter
<1> DEFINE F == [n \in 0..D |-> iter[1..n]]
<1>6. F[0] = base
  <2>1. 1..0 = {} /\ 0 \in 0..D /\ {} \in SUBSET (1..D)
    BY <1>1
  <2>2. iter[{}] = base
    BY <1>4, <2>1
  <2> QED  BY <2>1, <2>2
<1>7. ASSUME NEW n \in 1..D PROVE F[n] = Climb(F[n - 1], path[n])
  <2>1. n \in Nat /\ n \in 0..D /\ n - 1 \in 0..D /\ 1..n \in SUBSET (1..D) /\ 1..n # {} /\ n \in 1..n
        /\ (1..n) \ {n} = 1..(n - 1)
    <3>1. n \in Nat /\ n \in 0..D /\ n - 1 \in 0..D /\ n \in 1..n
      BY <1>1
    <3>2. \A i \in 1..n : i \in 1..D
      BY <1>1
    <3>3. \A i \in 1..n : i # n <=> i \in 1..(n - 1)
      BY <3>1
    <3>4. \A i \in 1..(n - 1) : i \in 1..n
      BY <3>1
    <3> QED  BY <3>1, <3>2, <3>3, <3>4
  <2>2. Max(1..n) = n
    <3>1. Max(1..n) \in 1..n /\ Max(1..n) >= n
      BY <2>1, MaxIs
    <3> QED  BY <2>1, <3>1
  <2>3. iter[1..n] = Climb(iter[(1..n) \ {n}], path[n])
    BY <1>4, <2>1, <2>2
  <2> QED  BY <2>1, <2>3
<1>8. F[D] = iter[1..D]
  BY <1>1
<1> HIDE DEF F
<1> QED  BY <1>5, <1>6, <1>7, <1>8 DEF base, Verifies

\* Two verifications along the same path that end with the same hash began with
\* the same leaf.
LEMMA ClimbInjective ==
    ASSUME NEW path, NEW F, NEW G, F[D] = G[D],
           \A n \in 1..D : F[n] = Climb(F[n - 1], path[n]),
           \A n \in 1..D : G[n] = Climb(G[n - 1], path[n])
    PROVE  F[0] = G[0]
<1> DEFINE Bad == {n \in 0..D : F[D - n] # G[D - n]}
<1>1. D \in Nat
  BY PrefixIs
<1> SUFFICES ASSUME F[0] # G[0] PROVE FALSE
  OBVIOUS
<1>2. Bad \in SUBSET Nat /\ D \in Bad
  BY <1>1
<1>3. PICK m \in Bad : \A y \in Bad : m <= y
  <2> HIDE DEF Bad
  <2> QED  BY <1>2, LeastOf
<1>4. m \in 0..D /\ F[D - m] # G[D - m]
  BY <1>3
<1>5. m # 0
  BY <1>1, <1>4
<1>6. m - 1 \in 0..D /\ ~(m <= m - 1) /\ D - (m - 1) \in 1..D /\ (D - (m - 1)) - 1 = D - m
  BY <1>1, <1>4, <1>5
<1>7. F[D - (m - 1)] = G[D - (m - 1)]
  BY <1>3, <1>6
<1>8. PICK a \in 1..D : a = D - (m - 1) /\ a - 1 = D - m
  BY <1>6
<1>9. Climb(F[a - 1], path[a]) = Climb(G[a - 1], path[a])
  BY <1>7, <1>8
<1>10. F[a - 1] = G[a - 1]
  BY <1>9 DEF Climb, hash_node
<1> QED  BY <1>4, <1>8, <1>10

\* A verification along the path that get_proof gives meets the hashes on it.
LEMMA ClimbMeetsPath ==
    ASSUME NEW k \in Full, NEW F, F[0] = leaf_hash(leaves, k),
           \A n \in 1..D : F[n] = Climb(F[n - 1], proof_path(k)[n])
    PROVE  F[D] = path_hashes(leaves, k)[0]
<1> DEFINE h == path_hashes(leaves, k)
           Bad == {n \in 0..D : F[n] # h[D - n]}
<1>1. D \in Nat \ {0} /\ D = TREE_DEPTH
  BY PrefixIs DEF D
<1>2. /\ h[D] = leaf_hash(leaves, k)
      /\ \A n \in 0..(D - 1) : h[n] = parent(k, n, h[n + 1], get_sibling_hash(leaves, k, n))
  BY PathHashes
<1> HIDE DEF h
<1>3. ASSUME NEW n \in 0..(D - 1), F[D - (n + 1)] = h[n + 1]
      PROVE  F[D - n] = h[n]
  <2>1. PICK a \in 1..D : a = D - n /\ a - 1 = D - (n + 1) /\ D - a = n
    BY <1>1
  <2>2. k[n + 1] \in {0, 1}
    BY PathStep
  <2>3. proof_path(k)[a] = [left |-> bit_at(k, n) = 1, hash |-> get_sibling_hash(leaves, k, n)]
    BY <1>1, <2>1 DEF proof_path
  <2>4. F[a] = Climb(h[n + 1], proof_path(k)[a])
    BY <1>3, <2>1
  <2>5. Climb(h[n + 1], proof_path(k)[a]) = parent(k, n, h[n + 1], get_sibling_hash(leaves, k, n))
    <3>1. proof_path(k)[a].hash = get_sibling_hash(leaves, k, n)
          /\ proof_path(k)[a].left = (k[n + 1] = 1)
      BY <2>3 DEF bit_at
    <3>2. CASE k[n + 1] = 0
      <4>1. ~ proof_path(k)[a].left
        <5>1. ~ (k[n + 1] = 1)
          BY <3>2
        <5> QED  BY <3>1, <5>1, Zenon
      <4> QED  BY <3>1, <3>2, <4>1, Zenon DEF Climb, parent, bit_at
    <3>3. CASE k[n + 1] = 1
      <4>1. ~ (k[n + 1] = 0)
        BY <3>3
      <4> QED  BY <3>1, <3>3, <4>1, Zenon DEF Climb, parent, bit_at
    <3> QED  BY <2>2, <3>2, <3>3
  <2> QED  BY <1>2, <2>1, <2>4, <2>5
<1> SUFFICES ASSUME F[D] # h[0] PROVE FALSE
  BY DEF h
<1>4. Bad \in SUBSET Nat /\ D \in Bad
  BY <1>1
<1>5. PICK m \in Bad : \A y \in Bad : m <= y
  <2> HIDE DEF Bad
  <2> QED  BY <1>4, LeastOf
<1>6. m \in 0..D /\ F[m] # h[D - m]
  BY <1>5
<1>7. m # 0
  BY <1>1, <1>2, <1>6
<1>8. m - 1 \in 0..D /\ ~(m <= m - 1)
  BY <1>1, <1>6, <1>7
<1>9. F[m - 1] = h[D - (m - 1)]
  BY <1>5, <1>8
<1>10. PICK n \in 0..(D - 1) : n = D - m /\ n + 1 = D - (m - 1) /\ D - (n + 1) = m - 1 /\ D - n = m
  BY <1>1, <1>6, <1>7
<1> QED  BY <1>3, <1>6, <1>9, <1>10

\* smt.rs, get_proof and verify_proof_static: a proof verifies against the root
\* of the leaves, and, hashes being injective, against no other key or value.
THEOREM ProofsCorrect == Spec => []ProofsExact
<1>1. ASSUME NodesAreSubtrees PROVE ProofsExact
  <2> SUFFICES ASSUME NEW k \in DOMAIN leaves
               PROVE  /\ get_proof(k).verified
                      /\ get_proof(k).root = reference_root(leaves)
                      /\ \A j \in Keys, v \in Values :
                            verify_proof_static(get_proof(k).root, j, v, get_proof(k).path)
                               => j = k /\ v = leaves[k]
    BY DEF ProofsExact
  <2> DEFINE path == proof_path(k)
             r == compute_root_for_key(k)
  <2>1. /\ get_proof(k).verified = verify_proof_static(r, k, leaves[k], path)
        /\ get_proof(k).root = r /\ get_proof(k).path = path
    BY DEF get_proof
  <2>2. k \in Full /\ leaf_hash(leaves, k) = hash_leaf(k, leaves[k])
    BY <1>1, SmtAssumption DEF NodesAreSubtrees, SmtTypeOK, Full, D, leaf_hash
  <2>3. DOMAIN path = 1..D
    BY DEF proof_path, D
  <2>4. r = path_hashes(leaves, k)[0]
    BY DEF compute_root_for_key
  <2>5. r = reference_root(leaves)
    <3>1. 0 \in 0..D
      BY PrefixIs
    <3>2. path_hashes(leaves, k)[0] = subtrees(leaves)[path_prefix(k, 0)]
      BY <1>1, <2>2, <3>1, PathHashesAre
    <3> QED  BY <2>2, <2>4, <3>2, PathEnd DEF reference_root
  <2>6. PICK F : Verifies(F, k, leaves[k], path)
    <3> HIDE DEF path
    <3> QED  BY <2>3, Verification
  <2>7. F[D] = r
    BY <2>2, <2>4, <2>6, ClimbMeetsPath DEF Verifies
  <2>8. ASSUME NEW j \in Keys, NEW v \in Values, verify_proof_static(r, j, v, path)
        PROVE  j = k /\ v = leaves[k]
    <3> HIDE DEF path, r
    <3>1. PICK G : Verifies(G, j, v, path)
      BY <2>3, Verification
    <3>2. F[D] = G[D]
      BY <2>7, <2>8, <3>1 DEF Verifies
    <3>3. F[0] = G[0]
      BY <2>6, <3>1, <3>2, ClimbInjective DEF Verifies
    <3>4. hash_leaf(k, leaves[k]) = hash_leaf(j, v)
      BY <2>6, <3>1, <3>3 DEF Verifies
    <3> QED  BY <3>4 DEF hash_leaf
  <2>9. verify_proof_static(r, k, leaves[k], path)
    BY <2>6, <2>7 DEF Verifies
  <2> HIDE DEF path, r
  <2> QED  BY <2>1, <2>5, <2>8, <2>9
<1> QED  BY <1>1, NodesCorrect, PTL
=============================================================================
