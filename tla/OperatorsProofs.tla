--------------------------- MODULE OperatorsProofs --------------------------
(***************************************************************************)
(* Proofs about the operator set and the fee accounting, for any           *)
(* operators, bonds, batches, fees and delays: the total bond is the sum   *)
(* of the bonds at stake, nobody leaves before the delay, and fees are     *)
(* neither lost nor invented, and shared in proportion.                    *)
(*                                                                         *)
(* All of it rests on sums over finite sets.  The library defines them by  *)
(* taking out one chosen element after the other; the lemmas of the first  *)
(* parts show that such a sum counts units, and so does not depend on the  *)
(* choices.                                                                *)
(***************************************************************************)
EXTENDS Operators, FiniteSetTheorems, WellFoundedInduction, TLAPS

-----------------------------------------------------------------------------
(* Sums.  A sum of weights over a finite set is computed by taking out one *)
(* element after the other; whatever obeys that recursion is the sum.      *)

pick(s) == CHOOSE x \in s : TRUE
Sums(F, w, S) ==
    F = [s \in SUBSET S |-> IF s = {} THEN 0 ELSE w[pick(s)] + F[s \ {pick(s)}]]

\* A set of numbers has a least one.
LEMMA LeastNumber ==
    ASSUME NEW S \in SUBSET Nat, S # {}
    PROVE  \E x \in S : \A y \in S : x <= y
<1> DEFINE R == OpToRel(<, Nat)
<1>1. IsWellFoundedOn(R, Nat)
  BY NatLessThanWellFounded
<1>2. \A x, y \in Nat : x < y => <<x, y>> \in R
  BY DEF OpToRel
<1> HIDE DEF R
<1>3. PICK x \in S : \A y \in S : ~(<<y, x>> \in R)
  BY <1>1, WFMin
<1>4. \A y \in S : x <= y
  <2> SUFFICES ASSUME NEW y \in S PROVE x <= y
    OBVIOUS
  <2>1. x \in Nat /\ y \in Nat
    BY <1>3
  <2>2. ~(y < x)
    BY <1>2, <1>3, <2>1, Zenon
  <2> QED  BY <2>1, <2>2
<1> QED  BY <1>3, <1>4

\* At most one function obeys the recursion.
LEMMA SumsUnique ==
    ASSUME NEW w, NEW S, IsFiniteSet(S), NEW F, NEW G, Sums(F, w, S), Sums(G, w, S)
    PROVE  F[S] = G[S]
<1> DEFINE Bad == {s \in SUBSET S : F[s] # G[s]}
           Sizes == {Cardinality(s) : s \in Bad}
<1> SUFFICES ASSUME S \in Bad PROVE FALSE
  OBVIOUS
<1>1. \A s \in SUBSET S : IsFiniteSet(s) /\ Cardinality(s) \in Nat
  BY FS_Subset, FS_CardinalityType
<1>2. Sizes \in SUBSET Nat /\ Sizes # {}
  BY <1>1
<1>3. PICK n \in Sizes : \A m \in Sizes : n <= m
  BY <1>2, LeastNumber
<1>4. PICK s \in Bad : Cardinality(s) = n
  BY <1>3
<1>5. F[s] = (IF s = {} THEN 0 ELSE w[pick(s)] + F[s \ {pick(s)}])
  BY <1>4 DEF Sums
<1>6. G[s] = (IF s = {} THEN 0 ELSE w[pick(s)] + G[s \ {pick(s)}])
  BY <1>4 DEF Sums
<1>7. s # {} /\ pick(s) \in s
  BY <1>4, <1>5, <1>6 DEF pick
<1>8. F[s \ {pick(s)}] # G[s \ {pick(s)}]
  BY <1>4, <1>5, <1>6, <1>7
<1>9. s \ {pick(s)} \in Bad
  BY <1>4, <1>8
<1>10. Cardinality(s \ {pick(s)}) = Cardinality(s) - 1
  BY <1>1, <1>4, <1>7, FS_RemoveElement
<1>11. Cardinality(s \ {pick(s)}) \in Sizes
  BY <1>9
<1>12. n <= Cardinality(s \ {pick(s)})
  BY <1>3, <1>11
<1>13. Cardinality(s) \in Nat
  BY <1>1, <1>4
<1> HIDE DEF Bad, Sizes
<1> QED  BY <1>4, <1>10, <1>12, <1>13

\* The library's sum is what obeys the recursion.
LEMMA SumIs ==
    ASSUME NEW w, NEW S, IsFiniteSet(S), NEW F, Sums(F, w, S)
    PROVE  SumFunctionOnSet(w, S) = F[S]
<1> DEFINE I == CHOOSE iter : iter = [s \in SUBSET S |->
                    IF s = {} THEN 0 ELSE w[CHOOSE x \in s : TRUE] + iter[s \ {CHOOSE x \in s : TRUE}]]
<1>1. SumFunctionOnSet(w, S) = I[S]
  BY DEF SumFunctionOnSet, FoldFunctionOnSet, MapThenFoldSet
<1>2. Sums(I, w, S)
  BY DEF Sums, pick
<1> HIDE DEF I
<1> QED  BY <1>1, <1>2, SumsUnique
-----------------------------------------------------------------------------
(* A sum of natural numbers counts the units of its terms.                 *)

Units(w, S) == {u \in S \X Nat : u[2] \in 1..w[u[1]]}

\* Taking out an element takes out its units.
LEMMA UnitsStep ==
    ASSUME NEW S, NEW w, \A i \in S : w[i] \in Nat, NEW x \in S, IsFiniteSet(Units(w, S \ {x}))
    PROVE  /\ IsFiniteSet(Units(w, S))
           /\ Cardinality(Units(w, S)) = w[x] + Cardinality(Units(w, S \ {x}))
<1> DEFINE A == {x} \X (1..w[x])
           B == Units(w, S \ {x})
<1>1. Units(w, S) = A \cup B
  BY DEF Units
<1>2. A \cap B = {}
  <2>1. \A u \in A : u[1] = x
    OBVIOUS
  <2>2. \A u \in B : u[1] # x
    BY DEF Units
  <2> HIDE DEF A, B
  <2> QED  BY <2>1, <2>2
<1>3. IsFiniteSet(1..w[x]) /\ Cardinality(1..w[x]) = w[x]
  <2>1. 1 \in Int /\ w[x] \in Int /\ w[x] \in Nat
    OBVIOUS
  <2>2. IsFiniteSet(1..w[x]) /\ Cardinality(1..w[x]) = IF 1 > w[x] THEN 0 ELSE w[x] - 1 + 1
    BY <2>1, FS_Interval
  <2> QED  BY <2>1, <2>2
<1>4. IsFiniteSet(A) /\ Cardinality(A) = w[x]
  <2>1. IsFiniteSet({x}) /\ Cardinality({x}) = 1
    BY FS_Singleton
  <2>2. IsFiniteSet(A) /\ Cardinality(A) = Cardinality({x}) * Cardinality(1..w[x])
    BY <1>3, <2>1, FS_Product
  <2> QED  BY <1>3, <2>1, <2>2
<1>5. /\ IsFiniteSet(A \cup B)
      /\ Cardinality(A \cup B) = Cardinality(A) + Cardinality(B) - Cardinality(A \cap B)
  BY <1>4, FS_Union
<1>6. Cardinality(A \cap B) = 0 /\ Cardinality(B) \in Nat
  BY <1>2, FS_EmptySet, FS_CardinalityType
<1>7. w[x] \in Nat
  OBVIOUS
<1>8. Units(w, S \ {x}) = B
  OBVIOUS
<1> HIDE DEF A, B
<1> QED  BY <1>1, <1>4, <1>5, <1>6, <1>7, <1>8

\* Finitely many numbers have finitely many units.
LEMMA UnitsFinite ==
    ASSUME NEW S, IsFiniteSet(S), NEW w, \A i \in S : w[i] \in Nat
    PROVE  IsFiniteSet(Units(w, S))
<1> DEFINE Bad == {s \in SUBSET S : ~IsFiniteSet(Units(w, s))}
           Sizes == {Cardinality(s) : s \in Bad}
<1> SUFFICES ASSUME S \in Bad PROVE FALSE
  OBVIOUS
<1>1. \A s \in SUBSET S : IsFiniteSet(s) /\ Cardinality(s) \in Nat
  BY FS_Subset, FS_CardinalityType
<1>2. Sizes \in SUBSET Nat /\ Sizes # {}
  BY <1>1
<1>3. PICK n \in Sizes : \A m \in Sizes : n <= m
  BY <1>2, LeastNumber
<1>4. PICK s \in Bad : Cardinality(s) = n
  BY <1>3
<1>5. s # {}
  <2>1. Units(w, {}) = {}
    BY DEF Units
  <2> QED  BY <1>4, <2>1, FS_EmptySet
<1>6. PICK x \in s : TRUE
  BY <1>5
<1>7. ~IsFiniteSet(Units(w, s \ {x}))
  <2>1. \A i \in s : w[i] \in Nat
    BY <1>4
  <2> QED  BY <1>4, <1>6, <2>1, UnitsStep
<1>8. s \ {x} \in Bad
  BY <1>4, <1>7
<1>9. Cardinality(s \ {x}) = Cardinality(s) - 1
  BY <1>1, <1>4, <1>6, FS_RemoveElement
<1>10. n <= Cardinality(s \ {x})
  BY <1>3, <1>8
<1>11. Cardinality(s) \in Nat
  BY <1>1, <1>4
<1> HIDE DEF Bad, Sizes
<1> QED  BY <1>4, <1>9, <1>10, <1>11

\* The sum is the number of units.
LEMMA SumCounts ==
    ASSUME NEW S, IsFiniteSet(S), NEW w, \A i \in S : w[i] \in Nat
    PROVE  /\ IsFiniteSet(Units(w, S))
           /\ SumFunctionOnSet(w, S) = Cardinality(Units(w, S))
<1> DEFINE F == [s \in SUBSET S |-> Cardinality(Units(w, s))]
<1>1. \A s \in SUBSET S : IsFiniteSet(s) /\ IsFiniteSet(Units(w, s))
  BY FS_Subset, UnitsFinite
<1>2. ASSUME NEW s \in SUBSET S
      PROVE  F[s] = IF s = {} THEN 0 ELSE w[pick(s)] + F[s \ {pick(s)}]
  <2>1. CASE s = {}
    <3>1. Units(w, s) = {}
      BY <2>1 DEF Units
    <3> QED  BY <2>1, <3>1, FS_EmptySet
  <2>2. CASE s # {}
    <3>1. pick(s) \in s
      BY <2>2 DEF pick
    <3>2. \A i \in s : w[i] \in Nat
      OBVIOUS
    <3>3. IsFiniteSet(Units(w, s \ {pick(s)}))
      BY <1>1
    <3>4. Cardinality(Units(w, s)) = w[pick(s)] + Cardinality(Units(w, s \ {pick(s)}))
      BY <3>1, <3>2, <3>3, UnitsStep
    <3> QED  BY <2>2, <3>1, <3>4
  <2> QED  BY <2>1, <2>2
<1>3. Sums(F, w, S)
  BY <1>2 DEF Sums
<1>4. F[S] = Cardinality(Units(w, S))
  OBVIOUS
<1> HIDE DEF F
<1> QED  BY <1>1, <1>3, <1>4, SumIs

-----------------------------------------------------------------------------
(* What the other proofs use of sums of natural numbers.                   *)

Weights(w, S) == IsFiniteSet(S) /\ \A i \in S : w[i] \in Nat

LEMMA SumType ==
    ASSUME NEW S, NEW w, Weights(w, S)
    PROVE  SumFunctionOnSet(w, S) \in Nat
BY SumCounts, FS_CardinalityType DEF Weights

LEMMA SumEmpty ==
    ASSUME NEW w
    PROVE  SumFunctionOnSet(w, {}) = 0
<1>1. Units(w, {}) = {}
  BY DEF Units
<1> QED  BY <1>1, SumCounts, FS_EmptySet

\* Any term may be taken out.
LEMMA SumStep ==
    ASSUME NEW S, NEW w, Weights(w, S), NEW x \in S
    PROVE  /\ Weights(w, S \ {x})
           /\ SumFunctionOnSet(w, S) = w[x] + SumFunctionOnSet(w, S \ {x})
<1>1. Weights(w, S \ {x})
  BY FS_RemoveElement DEF Weights
<1>2. /\ IsFiniteSet(Units(w, S \ {x}))
      /\ SumFunctionOnSet(w, S \ {x}) = Cardinality(Units(w, S \ {x}))
  BY <1>1, SumCounts DEF Weights
<1>3. SumFunctionOnSet(w, S) = Cardinality(Units(w, S))
  BY SumCounts DEF Weights
<1>4. Cardinality(Units(w, S)) = w[x] + Cardinality(Units(w, S \ {x}))
  BY <1>2, UnitsStep DEF Weights
<1> QED  BY <1>1, <1>2, <1>3, <1>4

\* Any term may be added.
LEMMA SumAdd ==
    ASSUME NEW S, NEW w, Weights(w, S), NEW x, x \notin S, w[x] \in Nat
    PROVE  /\ Weights(w, S \cup {x})
           /\ SumFunctionOnSet(w, S \cup {x}) = w[x] + SumFunctionOnSet(w, S)
<1>1. Weights(w, S \cup {x})
  BY FS_AddElement DEF Weights
<1>2. (S \cup {x}) \ {x} = S /\ x \in S \cup {x}
  OBVIOUS
<1>3. SumFunctionOnSet(w, S \cup {x}) = w[x] + SumFunctionOnSet(w, (S \cup {x}) \ {x})
  BY <1>1, <1>2, SumStep
<1> QED  BY <1>1, <1>2, <1>3

\* Only the weights of the set count.
LEMMA SumSame ==
    ASSUME NEW S, NEW w, NEW v, Weights(w, S), \A i \in S : v[i] = w[i]
    PROVE  Weights(v, S) /\ SumFunctionOnSet(v, S) = SumFunctionOnSet(w, S)
<1>1. Weights(v, S)
  BY DEF Weights
<1>2. Units(v, S) = Units(w, S)
  BY DEF Units, Weights
<1> QED  BY <1>1, <1>2, SumCounts DEF Weights

\* Smaller terms have a smaller sum.
LEMMA SumLeq ==
    ASSUME NEW S, NEW w, NEW v, Weights(w, S), Weights(v, S), \A i \in S : v[i] <= w[i]
    PROVE  SumFunctionOnSet(v, S) <= SumFunctionOnSet(w, S)
<1>1. Units(v, S) \subseteq Units(w, S)
  <2> SUFFICES ASSUME NEW u \in Units(v, S) PROVE u \in Units(w, S)
    OBVIOUS
  <2>1. u \in S \X Nat /\ u[2] \in 1..v[u[1]] /\ u[1] \in S /\ u[2] \in Nat
    BY DEF Units
  <2>2. v[u[1]] \in Nat /\ w[u[1]] \in Nat /\ v[u[1]] <= w[u[1]]
    BY <2>1 DEF Weights
  <2>3. u[2] \in 1..w[u[1]]
    BY <2>1, <2>2
  <2> QED  BY <2>1, <2>3 DEF Units
<1>2. Cardinality(Units(v, S)) <= Cardinality(Units(w, S))
  BY <1>1, SumCounts, FS_Subset DEF Weights
<1> QED  BY <1>2, SumCounts DEF Weights

\* A term is no more than the sum.
LEMMA SumTerm ==
    ASSUME NEW S, NEW w, Weights(w, S), NEW x \in S
    PROVE  w[x] <= SumFunctionOnSet(w, S)
<1>1. SumFunctionOnSet(w, S \ {x}) \in Nat /\ w[x] \in Nat
  BY SumStep, SumType DEF Weights
<1>2. SumFunctionOnSet(w, S) = w[x] + SumFunctionOnSet(w, S \ {x})
  BY SumStep
<1> QED  BY <1>1, <1>2

\* Terms up to b have a sum up to b times their number.
LEMMA SumBound ==
    ASSUME NEW S, NEW w, Weights(w, S), NEW b \in Nat, \A i \in S : w[i] <= b
    PROVE  SumFunctionOnSet(w, S) <= Cardinality(S) * b
<1>1. Units(w, S) \subseteq S \X (1..b)
  <2> SUFFICES ASSUME NEW u \in Units(w, S) PROVE u \in S \X (1..b)
    OBVIOUS
  <2>1. u \in S \X Nat /\ u[2] \in 1..w[u[1]] /\ u[1] \in S /\ u[2] \in Nat
    BY DEF Units
  <2>2. w[u[1]] \in Nat /\ w[u[1]] <= b
    BY <2>1 DEF Weights
  <2>3. u[2] \in 1..b
    BY <2>1, <2>2
  <2> QED  BY <2>1, <2>3
<1>2. IsFiniteSet(1..b) /\ Cardinality(1..b) = b
  <2>1. 0 \in Int /\ 1 \in Int /\ b \in Int
    OBVIOUS
  <2>2. IsFiniteSet(1..b) /\ Cardinality(1..b) = IF 1 > b THEN 0 ELSE b - 1 + 1
    BY <2>1, FS_Interval
  <2> QED  BY <2>2
<1>3. IsFiniteSet(S \X (1..b)) /\ Cardinality(S \X (1..b)) = Cardinality(S) * b
  BY <1>2, FS_Product DEF Weights
<1>4. Cardinality(Units(w, S)) <= Cardinality(S \X (1..b))
  BY <1>1, <1>3, FS_Subset
<1> QED  BY <1>3, <1>4, SumCounts DEF Weights

\* A sum of sums.
LEMMA SumPlus ==
    ASSUME NEW S, NEW w, NEW v, NEW u, Weights(w, S), Weights(v, S), \A i \in S : u[i] = w[i] + v[i]
    PROVE  SumFunctionOnSet(u, S) = SumFunctionOnSet(w, S) + SumFunctionOnSet(v, S)
<1> DEFINE W(s) == SumFunctionOnSet(w, s)
           V(s) == SumFunctionOnSet(v, s)
           F == [s \in SUBSET S |-> W(s) + V(s)]
<1>1. ASSUME NEW s \in SUBSET S
      PROVE  F[s] = IF s = {} THEN 0 ELSE u[pick(s)] + F[s \ {pick(s)}]
  <2>1. CASE s = {}
    BY <2>1, SumEmpty
  <2>2. CASE s # {}
    <3>1. pick(s) \in s /\ pick(s) \in S
      BY <2>2 DEF pick
    <3>2. Weights(w, s) /\ Weights(v, s)
      BY FS_Subset DEF Weights
    <3>3. W(s) = w[pick(s)] + W(s \ {pick(s)}) /\ V(s) = v[pick(s)] + V(s \ {pick(s)})
      BY <3>1, <3>2, SumStep
    <3>4. W(s \ {pick(s)}) \in Nat /\ V(s \ {pick(s)}) \in Nat
      BY <3>1, <3>2, SumStep, SumType
    <3>5. w[pick(s)] \in Nat /\ v[pick(s)] \in Nat /\ u[pick(s)] = w[pick(s)] + v[pick(s)]
      BY <3>1 DEF Weights
    <3>6. F[s] = W(s) + V(s) /\ F[s \ {pick(s)}] = W(s \ {pick(s)}) + V(s \ {pick(s)})
      OBVIOUS
    <3> HIDE DEF F, W, V
    <3> QED  BY <2>2, <3>3, <3>4, <3>5, <3>6
  <2> QED  BY <2>1, <2>2
<1>2. Sums(F, u, S)
  BY <1>1 DEF Sums
<1>3. F[S] = W(S) + V(S)
  OBVIOUS
<1> HIDE DEF F
<1> QED  BY <1>2, <1>3, SumIs DEF Weights

\* A common factor may be taken out.
LEMMA SumScaled ==
    ASSUME NEW S, NEW w, NEW u, NEW c \in Nat, Weights(w, S), \A i \in S : u[i] = c * w[i]
    PROVE  SumFunctionOnSet(u, S) = c * SumFunctionOnSet(w, S)
<1> DEFINE W(s) == SumFunctionOnSet(w, s)
           F == [s \in SUBSET S |-> c * W(s)]
<1>1. ASSUME NEW s \in SUBSET S
      PROVE  F[s] = IF s = {} THEN 0 ELSE u[pick(s)] + F[s \ {pick(s)}]
  <2>1. CASE s = {}
    BY <2>1, SumEmpty
  <2>2. CASE s # {}
    <3>1. pick(s) \in s /\ pick(s) \in S
      BY <2>2 DEF pick
    <3>2. Weights(w, s)
      BY FS_Subset DEF Weights
    <3>3. W(s) = w[pick(s)] + W(s \ {pick(s)})
      BY <3>1, <3>2, SumStep
    <3>4. W(s \ {pick(s)}) \in Nat
      BY <3>1, <3>2, SumStep, SumType
    <3>5. w[pick(s)] \in Nat /\ u[pick(s)] = c * w[pick(s)]
      BY <3>1 DEF Weights
    <3>6. F[s] = c * W(s) /\ F[s \ {pick(s)}] = c * W(s \ {pick(s)})
      OBVIOUS
    <3>7. \A m, n \in Nat : c * (m + n) = c * m + c * n
      OBVIOUS
    <3> HIDE DEF F, W
    <3> QED  BY <2>2, <3>3, <3>4, <3>5, <3>6, <3>7
  <2> QED  BY <2>1, <2>2
<1>2. Sums(F, u, S)
  BY <1>1 DEF Sums
<1>3. F[S] = c * W(S)
  OBVIOUS
<1> HIDE DEF F
<1> QED  BY <1>2, <1>3, SumIs DEF Weights

-----------------------------------------------------------------------------
(* The registry.                                                           *)

Op == [pubkey : Pubkeys, bond_amount : BondAmounts, status : OperatorStatus,
       registered_at : 0..MaxHeight, unbond_started_at : Never..MaxHeight,
       last_batch_block : Never..MaxHeight, total_batches : Nat, missed_batches : Nat]

bonds == [i \in DOMAIN operators |-> operators[i].bond_amount]
bonded == with_status("Active") \cup with_status("Unbonding")
counts == [i \in DOMAIN operators |-> operators[i].total_batches + operators[i].missed_batches]

RegistryTypes ==
    /\ operators \in Seq(Op)
    /\ Len(operators) <= max_operators
    /\ total_bond \in Nat
    /\ total_tvl \in Tvls \cup {0}
    /\ block_height \in 0..MaxHeight

\* A key is registered once.
KeysUnique ==
    \A i, j \in DOMAIN operators : operators[i].pubkey = operators[j].pubkey => i = j

\* Batches are posted before now, and none once an operator unbonds.
Dated ==
    \A i \in DOMAIN operators :
        /\ operators[i].last_batch_block <= block_height
        /\ operators[i].status = "Unbonding" =>
              operators[i].last_batch_block <= operators[i].unbond_started_at

RegistryInv ==
    /\ RegistryTypes /\ KeysUnique /\ Dated
    /\ total_bond = SumFunctionOnSet(bonds, bonded)
    /\ SumFunctionOnSet(counts, DOMAIN operators) <= MaxBatches

\* The operator a call names is the one that has its key.
LEMMA Found ==
    ASSUME NEW p \in registered
    PROVE  find(p) \in DOMAIN operators /\ operators[find(p)].pubkey = p
BY DEF registered, find

\* The sums over the registry are sums of natural numbers.
LEMMA RegistryWeights ==
    ASSUME RegistryTypes
    PROVE  /\ IsFiniteSet(DOMAIN operators)
           /\ Cardinality(DOMAIN operators) = Len(operators)
           /\ Weights(bonds, bonded)
           /\ Weights(counts, DOMAIN operators)
           /\ bonded \subseteq DOMAIN operators
<1>1. Len(operators) \in Nat /\ DOMAIN operators = 1..Len(operators)
  BY DEF RegistryTypes
<1>2. IsFiniteSet(DOMAIN operators) /\ Cardinality(DOMAIN operators) = Len(operators)
  <2>1. IsFiniteSet(1..Len(operators))
        /\ Cardinality(1..Len(operators)) = IF 1 > Len(operators) THEN 0 ELSE Len(operators) - 1 + 1
    BY <1>1, FS_Interval, SMTT(30)
  <2> QED  BY <1>1, <2>1
<1>3. bonded \subseteq DOMAIN operators
  BY DEF bonded, with_status
<1>4. IsFiniteSet(bonded)
  BY <1>2, <1>3, FS_Subset
<1>5. \A i \in DOMAIN operators : operators[i] \in Op
  BY DEF RegistryTypes
<1>6. \A i \in bonded : bonds[i] \in Nat
  BY <1>3, <1>5, OperatorAssumption DEF bonds, Op
<1>7. \A i \in DOMAIN operators : counts[i] \in Nat
  BY <1>5 DEF counts, Op
<1> QED  BY <1>2, <1>3, <1>4, <1>6, <1>7 DEF Weights

\* A call on one operator replaces its record by one of the same key and bond.
Replaces(k, r) ==
    /\ k \in DOMAIN operators /\ r \in Op
    /\ operators' = [operators EXCEPT ![k] = r]
    /\ r.pubkey = operators[k].pubkey /\ r.bond_amount = operators[k].bond_amount

LEMMA ReplaceKeeps ==
    ASSUME RegistryTypes, KeysUnique, NEW k, NEW r, Replaces(k, r)
    PROVE  /\ operators' \in Seq(Op) /\ Len(operators') = Len(operators)
           /\ DOMAIN operators' = DOMAIN operators
           /\ operators'[k] = r
           /\ \A i \in DOMAIN operators : i # k => operators'[i] = operators[i]
           /\ KeysUnique'
           /\ bonds' = bonds
<1>1. /\ operators' \in Seq(Op) /\ Len(operators') = Len(operators)
      /\ DOMAIN operators' = DOMAIN operators
      /\ operators'[k] = r
      /\ \A i \in DOMAIN operators : i # k => operators'[i] = operators[i]
  BY DEF Replaces, RegistryTypes
<1>2. \A i \in DOMAIN operators : /\ operators'[i].pubkey = operators[i].pubkey
                                  /\ operators'[i].bond_amount = operators[i].bond_amount
  BY <1>1 DEF Replaces
<1> QED  BY <1>1, <1>2 DEF KeysUnique, bonds

\* A new operator adds its bond, and no batch.
LEMMA RegisterKeeps ==
    ASSUME RegistryInv, NEW p \in Pubkeys, NEW bond \in BondAmounts, register_operator(p, bond)
    PROVE  RegistryInv'
<1> DEFINE n == Len(operators) + 1
           r == [pubkey |-> p, bond_amount |-> bond, status |-> "Active", registered_at |-> block_height,
                 unbond_started_at |-> Never, last_batch_block |-> Never, total_batches |-> 0,
                 missed_batches |-> 0]
<1>1. r \in Op /\ r.pubkey = p /\ r.bond_amount = bond /\ r.status = "Active"
      /\ r.last_batch_block = -1 /\ r.total_batches = 0 /\ r.missed_batches = 0
  BY OperatorAssumption DEF RegistryInv, RegistryTypes, Op, OperatorStatus, Never
<1>2. operators' = Append(operators, r)
  BY DEF register_operator
<1> HIDE DEF r
<1>3. /\ operators' \in Seq(Op) /\ Len(operators') = n
      /\ DOMAIN operators' = DOMAIN operators \cup {n} /\ n \notin DOMAIN operators
      /\ operators'[n] = r
      /\ \A i \in DOMAIN operators : operators'[i] = operators[i]
      /\ n \in Nat
  BY <1>1, <1>2 DEF RegistryInv, RegistryTypes
<1> HIDE DEF n
<1>4. RegistryTypes'
  <2>1. Len(operators) < max_operators /\ Len(operators) \in Nat /\ n = Len(operators) + 1
    BY DEF register_operator, has_room, RegistryInv, RegistryTypes, n
  <2>2. Len(operators') <= max_operators
    BY <1>3, <2>1, OperatorAssumption
  <2>3. total_bond' \in Nat
    BY OperatorAssumption DEF register_operator, RegistryInv, RegistryTypes
  <2> QED  BY <1>3, <2>2, <2>3 DEF register_operator, RegistryInv, RegistryTypes
<1>5. KeysUnique'
  <2>1. \A i \in DOMAIN operators : operators[i].pubkey # p
    BY DEF register_operator, registered
  <2> QED  BY <1>1, <1>3, <2>1 DEF RegistryInv, KeysUnique
<1>6. Dated'
  <2>1. block_height' = block_height /\ -1 <= block_height
    BY DEF register_operator, RegistryInv, RegistryTypes
  <2>2. \A i \in DOMAIN operators' : i = n \/ i \in DOMAIN operators
    BY <1>3
  <2> QED  BY <1>1, <1>3, <2>1, <2>2 DEF RegistryInv, Dated
<1>7. total_bond' = SumFunctionOnSet(bonds', bonded')
  <2>1. bonded' = bonded \cup {n} /\ n \notin bonded
    BY <1>1, <1>3 DEF bonded, with_status
  <2>2. bonds'[n] = bond /\ \A i \in bonded : bonds'[i] = bonds[i]
    BY <1>1, <1>3, RegistryWeights DEF bonds, RegistryInv
  <2>3. Weights(bonds', bonded) /\ SumFunctionOnSet(bonds', bonded) = SumFunctionOnSet(bonds, bonded)
    BY <2>2, RegistryWeights, SumSame DEF RegistryInv
  <2>4. bonds'[n] \in Nat
    BY <2>2, OperatorAssumption
  <2>5. SumFunctionOnSet(bonds', bonded \cup {n}) = bonds'[n] + SumFunctionOnSet(bonds', bonded)
    BY <2>1, <2>3, <2>4, SumAdd
  <2>6. total_bond' = total_bond + bond /\ total_bond \in Nat /\ bond \in Nat
    BY OperatorAssumption DEF register_operator, RegistryInv, RegistryTypes
  <2> QED  BY <2>1, <2>2, <2>3, <2>5, <2>6 DEF RegistryInv
<1>8. SumFunctionOnSet(counts', DOMAIN operators') <= MaxBatches
  <2>1. counts'[n] = 0 /\ \A i \in DOMAIN operators : counts'[i] = counts[i]
    BY <1>1, <1>3 DEF counts
  <2>2. /\ Weights(counts', DOMAIN operators)
        /\ SumFunctionOnSet(counts', DOMAIN operators) = SumFunctionOnSet(counts, DOMAIN operators)
    BY <2>1, RegistryWeights, SumSame DEF RegistryInv
  <2>3. SumFunctionOnSet(counts', DOMAIN operators \cup {n})
           = counts'[n] + SumFunctionOnSet(counts', DOMAIN operators)
    BY <1>3, <2>1, <2>2, SumAdd
  <2>4. SumFunctionOnSet(counts, DOMAIN operators) \in Nat
    BY RegistryWeights, SumType DEF RegistryInv
  <2> QED  BY <1>3, <2>1, <2>2, <2>3, <2>4 DEF RegistryInv
<1> QED  BY <1>4, <1>5, <1>6, <1>7, <1>8 DEF RegistryInv

\* What a change of one record does to the two sums.
LEMMA ReplaceSums ==
    ASSUME RegistryInv, NEW k, NEW r, Replaces(k, r), RegistryTypes'
    PROVE  /\ k \in bonded /\ k \in bonded' =>
                 SumFunctionOnSet(bonds', bonded') = SumFunctionOnSet(bonds, bonded)
           /\ k \notin bonded /\ k \notin bonded' =>
                 SumFunctionOnSet(bonds', bonded') = SumFunctionOnSet(bonds, bonded)
           /\ k \in bonded /\ k \notin bonded' =>
                 SumFunctionOnSet(bonds, bonded)
                     = operators[k].bond_amount + SumFunctionOnSet(bonds', bonded')
           /\ counts'[k] = counts[k] =>
                 SumFunctionOnSet(counts', DOMAIN operators') = SumFunctionOnSet(counts, DOMAIN operators)
           /\ counts'[k] = counts[k] + 1 =>
                 SumFunctionOnSet(counts', DOMAIN operators')
                     = SumFunctionOnSet(counts, DOMAIN operators) + 1
<1>1. /\ DOMAIN operators' = DOMAIN operators
      /\ \A i \in DOMAIN operators : i # k => operators'[i] = operators[i]
      /\ bonds' = bonds
      /\ k \in DOMAIN operators
  BY ReplaceKeeps DEF RegistryInv, Replaces
<1>2. \A i \in DOMAIN operators : i # k => (i \in bonded' <=> i \in bonded)
  BY <1>1 DEF bonded, with_status
<1>3. Weights(bonds, bonded) /\ Weights(counts, DOMAIN operators) /\ bonded \subseteq DOMAIN operators
  BY RegistryWeights DEF RegistryInv
<1>4. Weights(counts', DOMAIN operators) /\ bonded' \subseteq DOMAIN operators
  <2>1. bonded' \subseteq DOMAIN operators'
    BY DEF bonded, with_status
  <2>2. \A i \in DOMAIN operators : operators'[i] \in Op
    BY <1>1 DEF RegistryTypes
  <2>3. \A i \in DOMAIN operators : counts'[i] \in Nat
    BY <1>1, <2>2 DEF counts, Op
  <2> QED  BY <1>1, <1>3, <2>1, <2>3 DEF Weights
<1>5. ASSUME k \in bonded <=> k \in bonded'
      PROVE  bonded' = bonded
  BY <1>2, <1>3, <1>4, <1>5
<1>6. ASSUME k \in bonded, k \notin bonded'
      PROVE  SumFunctionOnSet(bonds, bonded)
                     = operators[k].bond_amount + SumFunctionOnSet(bonds', bonded')
  <2>1. bonded' = bonded \ {k}
    BY <1>2, <1>3, <1>4, <1>6
  <2>2. SumFunctionOnSet(bonds, bonded) = bonds[k] + SumFunctionOnSet(bonds, bonded \ {k})
    BY <1>3, <1>6, SumStep
  <2>3. bonds[k] = operators[k].bond_amount
    BY <1>1 DEF bonds
  <2> QED  BY <1>1, <2>1, <2>2, <2>3
<1>7. \A i \in DOMAIN operators \ {k} : counts'[i] = counts[i]
  BY <1>1 DEF counts
<1>8. Weights(counts, DOMAIN operators \ {k}) /\ Weights(counts', DOMAIN operators \ {k})
  BY <1>1, <1>3, <1>4, SumStep
<1>9. SumFunctionOnSet(counts', DOMAIN operators \ {k}) = SumFunctionOnSet(counts, DOMAIN operators \ {k})
  BY <1>7, <1>8, SumSame
<1>10. /\ SumFunctionOnSet(counts, DOMAIN operators)
             = counts[k] + SumFunctionOnSet(counts, DOMAIN operators \ {k})
       /\ SumFunctionOnSet(counts', DOMAIN operators)
             = counts'[k] + SumFunctionOnSet(counts', DOMAIN operators \ {k})
  BY <1>1, <1>3, <1>4, SumStep
<1>11. SumFunctionOnSet(counts, DOMAIN operators \ {k}) \in Nat /\ counts[k] \in Nat /\ counts'[k] \in Nat
  BY <1>1, <1>3, <1>4, <1>8, SumType DEF Weights
<1>12. counts'[k] = counts[k] =>
         SumFunctionOnSet(counts', DOMAIN operators) = SumFunctionOnSet(counts, DOMAIN operators)
  BY <1>9, <1>10, <1>11
<1>13. counts'[k] = counts[k] + 1 =>
         SumFunctionOnSet(counts', DOMAIN operators) = SumFunctionOnSet(counts, DOMAIN operators) + 1
  BY <1>9, <1>10, <1>11
<1> QED  BY <1>1, <1>5, <1>6, <1>12, <1>13

\* A change of one record that keeps the dates keeps the invariant, as long as
\* the total follows the bonds and a batch more is within the bound.
LEMMA ReplaceInv ==
    ASSUME RegistryInv, NEW k, NEW r, Replaces(k, r),
           UNCHANGED <<total_tvl, block_height>>,
           r.last_batch_block <= block_height,
           r.status = "Unbonding" => r.last_batch_block <= r.unbond_started_at,
           \/ total_bond' = total_bond /\ (k \in bonded <=> k \in bonded')
           \/ total_bond' = total_bond - operators[k].bond_amount /\ k \in bonded /\ k \notin bonded',
           \/ counts'[k] = counts[k]
           \/ counts'[k] = counts[k] + 1 /\ SumFunctionOnSet(counts, DOMAIN operators) < MaxBatches
    PROVE  RegistryInv'
<1>1. /\ operators' \in Seq(Op) /\ Len(operators') = Len(operators)
      /\ DOMAIN operators' = DOMAIN operators
      /\ operators'[k] = r
      /\ \A i \in DOMAIN operators : i # k => operators'[i] = operators[i]
      /\ KeysUnique'
      /\ k \in DOMAIN operators
  BY ReplaceKeeps DEF RegistryInv, Replaces
<1>2. RegistryTypes'
  <2>1. total_bond \in Nat /\ operators[k].bond_amount \in Nat
    <3>1. operators[k] \in Op /\ total_bond \in Nat
      BY <1>1 DEF RegistryInv, RegistryTypes
    <3> QED  BY <3>1, OperatorAssumption DEF Op
  <2>2. k \in bonded => operators[k].bond_amount <= total_bond
    <3>1. bonds[k] = operators[k].bond_amount
      BY <1>1 DEF bonds
    <3>2. k \in bonded => bonds[k] <= SumFunctionOnSet(bonds, bonded)
      BY RegistryWeights, SumTerm DEF RegistryInv
    <3> QED  BY <3>1, <3>2 DEF RegistryInv
  <2>3. total_bond' \in Nat
    BY <2>1, <2>2
  <2> QED  BY <1>1, <2>3 DEF RegistryInv, RegistryTypes
<1>3. Dated'
  BY <1>1 DEF RegistryInv, Dated
<1>4. total_bond' = SumFunctionOnSet(bonds', bonded')
  <2>1. total_bond = SumFunctionOnSet(bonds, bonded)
    BY DEF RegistryInv
  <2>2. SumFunctionOnSet(bonds', bonded') \in Nat
    <3>1. bonded' \subseteq DOMAIN operators /\ bonds' = bonds
      BY <1>1, ReplaceKeeps DEF RegistryInv, bonded, with_status
    <3>2. \A i \in DOMAIN operators : operators[i] \in Op
      BY DEF RegistryInv, RegistryTypes
    <3>3. \A i \in DOMAIN operators : bonds[i] \in Nat
      BY <3>2, OperatorAssumption DEF bonds, Op
    <3>4. IsFiniteSet(bonded')
      BY <3>1, RegistryWeights, FS_Subset DEF RegistryInv
    <3>5. Weights(bonds', bonded')
      BY <3>1, <3>3, <3>4 DEF Weights
    <3> QED  BY <3>5, SumType
  <2>3. operators[k].bond_amount \in Nat
    <3>1. operators[k] \in Op
      BY <1>1 DEF RegistryInv, RegistryTypes
    <3> QED  BY <3>1, OperatorAssumption DEF Op
  <2>4. CASE total_bond' = total_bond /\ (k \in bonded <=> k \in bonded')
    BY <1>2, <2>1, <2>4, ReplaceSums
  <2>5. CASE total_bond' = total_bond - operators[k].bond_amount /\ k \in bonded /\ k \notin bonded'
    <3>1. total_bond = operators[k].bond_amount + SumFunctionOnSet(bonds', bonded')
      BY <1>2, <2>1, <2>5, ReplaceSums
    <3> QED  BY <2>2, <2>3, <2>5, <3>1
  <2> QED  BY <2>4, <2>5
<1>5. SumFunctionOnSet(counts', DOMAIN operators') <= MaxBatches
  <2>1. SumFunctionOnSet(counts, DOMAIN operators) \in Nat
    BY RegistryWeights, SumType DEF RegistryInv
  <2>2. CASE counts'[k] = counts[k]
    BY <1>2, <2>2, ReplaceSums DEF RegistryInv
  <2>3. CASE counts'[k] = counts[k] + 1 /\ SumFunctionOnSet(counts, DOMAIN operators) < MaxBatches
    <3>1. SumFunctionOnSet(counts', DOMAIN operators') = SumFunctionOnSet(counts, DOMAIN operators) + 1
      BY <1>2, <2>3, ReplaceSums
    <3> QED  BY <2>1, <2>3, <3>1, OperatorAssumption
  <2> QED  BY <2>2, <2>3
<1> QED  BY <1>1, <1>2, <1>3, <1>4, <1>5 DEF RegistryInv

\* The calls that change one record.
LEMMA CallKeeps ==
    ASSUME RegistryInv, NEW p \in Pubkeys,
           \/ unbond_operator(p) \/ exit_operator(p) \/ slash_operator(p)
           \/ record_batch(p) \/ record_missed_batch(p)
    PROVE  RegistryInv'
<1> DEFINE k == find(p)
           o == operators[k]
<1>1. p \in registered
  BY DEF unbond_operator, exit_operator, slash_operator, record_batch, record_missed_batch
<1>2. k \in DOMAIN operators
  BY <1>1, Found
<1>3. o \in Op /\ block_height \in 0..MaxHeight
  BY <1>2 DEF RegistryInv, RegistryTypes
<1>4. /\ o.last_batch_block <= block_height
      /\ o.status = "Unbonding" => o.last_batch_block <= o.unbond_started_at
  BY <1>2 DEF RegistryInv, Dated
<1>5. k \in bonded <=> o.status \in {"Active", "Unbonding"}
  BY <1>2 DEF bonded, with_status
<1>6. ASSUME NEW r, Replaces(k, r)
      PROVE  /\ k \in bonded' <=> r.status \in {"Active", "Unbonding"}
             /\ counts'[k] = r.total_batches + r.missed_batches
             /\ counts[k] = o.total_batches + o.missed_batches
  <2>1. operators'[k] = r /\ k \in DOMAIN operators'
    BY <1>2, <1>6, ReplaceKeeps DEF RegistryInv
  <2> QED  BY <1>2, <2>1 DEF bonded, with_status, counts
<1>7. SumFunctionOnSet(counts, DOMAIN operators) = batches
  BY DEF batches, counts, SumFunction
<1> SUFFICES RegistryInv'
  OBVIOUS
<1>8. CASE unbond_operator(p)
  <2> DEFINE r == [o EXCEPT !.status = "Unbonding", !.unbond_started_at = block_height]
  <2>1. Replaces(k, r)
    <3>1. r \in Op /\ r.pubkey = o.pubkey /\ r.bond_amount = o.bond_amount
      <4>1. block_height \in Never..MaxHeight
        BY <1>3, OperatorAssumption DEF Never
      <4> HIDE DEF o
      <4> QED  BY <1>3, <4>1 DEF Op, OperatorStatus
    <3>2. operators' = [operators EXCEPT ![k] = r]
      BY <1>2, <1>8 DEF unbond_operator, RegistryInv, RegistryTypes
    <3> QED  BY <1>2, <3>1, <3>2 DEF Replaces
  <2>2. /\ r.status = "Unbonding" /\ r.unbond_started_at = block_height
        /\ r.last_batch_block = o.last_batch_block
        /\ r.total_batches = o.total_batches /\ r.missed_batches = o.missed_batches
    BY <1>3 DEF Op
  <2>3. o.status = "Active" /\ UNCHANGED <<total_bond, total_tvl, block_height>>
    BY <1>8 DEF unbond_operator, active_operators, with_status
  <2> HIDE DEF k, o, r
  <2> QED  BY <1>4, <1>5, <1>6, <2>1, <2>2, <2>3, ReplaceInv
<1>9. CASE exit_operator(p) \/ slash_operator(p)
  <2>1. PICK s \in {"Exited", "Slashed"} : operators' = [operators EXCEPT ![k].status = s]
    BY <1>9 DEF exit_operator, slash_operator
  <2> DEFINE r == [o EXCEPT !.status = s]
  <2>2. Replaces(k, r)
    BY <1>2, <1>3, <2>1 DEF Replaces, Op, OperatorStatus
  <2>3. /\ r.status = s /\ r.last_batch_block = o.last_batch_block
        /\ r.total_batches = o.total_batches /\ r.missed_batches = o.missed_batches
    BY <1>3 DEF Op
  <2>4. /\ o.status \in {"Active", "Unbonding"}
        /\ total_bond' = total_bond - o.bond_amount /\ UNCHANGED <<total_tvl, block_height>>
    BY <1>9 DEF exit_operator, slash_operator, active_operators, with_status
  <2>5. k \in bonded /\ k \notin bonded' /\ counts'[k] = counts[k]
    <3>1. k \notin bonded' /\ counts'[k] = r.total_batches + r.missed_batches
          /\ counts[k] = o.total_batches + o.missed_batches
      <4> HIDE DEF r, k, o
      <4> QED  BY <1>6, <2>2, <2>3
    <3> HIDE DEF r, k, o
    <3> QED  BY <1>5, <2>3, <2>4, <3>1
  <2>6. operators[k].bond_amount = o.bond_amount
    OBVIOUS
  <2> HIDE DEF k, o, r
  <2> QED  BY <1>4, <2>1, <2>2, <2>3, <2>4, <2>5, <2>6, ReplaceInv
<1>10. CASE record_batch(p)
  <2> DEFINE r == [o EXCEPT !.total_batches = @ + 1, !.last_batch_block = block_height]
  <2>1. Replaces(k, r)
    <3>1. r \in Op /\ r.pubkey = o.pubkey /\ r.bond_amount = o.bond_amount
      <4>1. block_height \in Never..MaxHeight
        BY <1>3, OperatorAssumption DEF Never
      <4>2. PICK n \in Nat : n = o.total_batches + 1
        BY <1>3 DEF Op
      <4>3. r = [o EXCEPT !.total_batches = n, !.last_batch_block = block_height]
        BY <4>2
      <4> HIDE DEF o, r
      <4> QED  BY <1>3, <4>1, <4>3 DEF Op
    <3>2. operators' = [operators EXCEPT ![k] = r]
      BY <1>2, <1>10 DEF record_batch, RegistryInv, RegistryTypes
    <3> QED  BY <1>2, <3>1, <3>2 DEF Replaces
  <2>2. /\ r.status = o.status /\ r.last_batch_block = block_height
        /\ r.total_batches = o.total_batches + 1 /\ r.missed_batches = o.missed_batches
        /\ o.total_batches \in Nat /\ o.missed_batches \in Nat
    BY <1>3 DEF Op
  <2>3. /\ o.status = "Active" /\ UNCHANGED <<total_bond, total_tvl, block_height>>
        /\ batches < MaxBatches
    BY <1>10 DEF record_batch, active_operators, with_status
  <2> HIDE DEF k, o, r
  <2>4. counts'[k] = counts[k] + 1
    BY <1>6, <2>1, <2>2
  <2> QED  BY <1>3, <1>5, <1>6, <1>7, <2>1, <2>2, <2>3, <2>4, ReplaceInv
<1>11. CASE record_missed_batch(p)
  <2> DEFINE r == [o EXCEPT !.missed_batches = @ + 1]
  <2>1. Replaces(k, r)
    BY <1>2, <1>3, <1>11 DEF Replaces, record_missed_batch, Op
  <2>2. /\ r.status = o.status /\ r.last_batch_block = o.last_batch_block
        /\ r.unbond_started_at = o.unbond_started_at
        /\ r.total_batches = o.total_batches /\ r.missed_batches = o.missed_batches + 1
        /\ o.total_batches \in Nat /\ o.missed_batches \in Nat
    BY <1>3 DEF Op
  <2>3. UNCHANGED <<total_bond, total_tvl, block_height>> /\ batches < MaxBatches
    BY <1>11 DEF record_missed_batch
  <2> HIDE DEF k, o, r
  <2>4. counts'[k] = counts[k] + 1
    BY <1>6, <2>1, <2>2
  <2> QED  BY <1>4, <1>5, <1>6, <1>7, <2>1, <2>2, <2>3, <2>4, ReplaceInv
<1> QED  BY <1>8, <1>9, <1>10, <1>11

LEMMA RegistryInductive ==
    ASSUME RegistryInv, [OperatorNext]_operator_vars
    PROVE  RegistryInv'
<1>1. ASSUME UNCHANGED <<operators, total_bond>>, RegistryTypes', Dated'
      PROVE  RegistryInv'
  <2>1. bonds' = bonds /\ bonded' = bonded /\ counts' = counts /\ DOMAIN operators' = DOMAIN operators
    BY <1>1 DEF bonds, bonded, with_status, counts
  <2> QED  BY <1>1, <2>1 DEF RegistryInv, KeysUnique
<1>2. ASSUME NEW tvl \in Tvls, update_tvl(tvl)
      PROVE  RegistryInv'
  <2>1. RegistryTypes' /\ Dated' /\ UNCHANGED <<operators, total_bond>>
    BY <1>2 DEF update_tvl, RegistryInv, RegistryTypes, Dated
  <2> QED  BY <1>1, <2>1
<1>3. ASSUME next_block
      PROVE  RegistryInv'
  <2>1. block_height' = block_height + 1 /\ block_height \in 0..MaxHeight /\ block_height < MaxHeight
    BY <1>3 DEF next_block, RegistryInv, RegistryTypes
  <2>2. block_height' \in 0..MaxHeight
    BY <2>1, OperatorAssumption
  <2>3. RegistryTypes'
    BY <1>3, <2>2 DEF next_block, RegistryInv, RegistryTypes
  <2>4. \A i \in DOMAIN operators : operators[i].last_batch_block \in Int
    <3>1. \A i \in DOMAIN operators : operators[i] \in Op
      BY DEF RegistryInv, RegistryTypes
    <3> QED  BY <3>1, OperatorAssumption DEF Op, Never
  <2>5. Dated'
    BY <1>3, <2>1, <2>4 DEF next_block, RegistryInv, Dated
  <2>6. UNCHANGED <<operators, total_bond>>
    BY <1>3 DEF next_block
  <2> QED  BY <1>1, <2>3, <2>5, <2>6
<1>4. ASSUME UNCHANGED operator_vars
      PROVE  RegistryInv'
  <2>1. RegistryTypes' /\ Dated' /\ UNCHANGED <<operators, total_bond>>
    BY <1>4 DEF operator_vars, RegistryInv, RegistryTypes, Dated
  <2> QED  BY <1>1, <2>1
<1> QED  BY <1>2, <1>3, <1>4, RegisterKeeps, CallKeeps DEF OperatorNext

LEMMA RegistryInitial ==
    ASSUME OperatorInit
    PROVE  RegistryInv
<1>1. operators = <<>> /\ operators \in Seq(Op) /\ Len(operators) = 0 /\ DOMAIN operators = {}
  BY DEF OperatorInit
<1>2. RegistryTypes
  BY <1>1, OperatorAssumption DEF OperatorInit, RegistryTypes
<1>3. bonded = {}
  BY <1>1 DEF bonded, with_status
<1>4. SumFunctionOnSet(bonds, bonded) = 0 /\ SumFunctionOnSet(counts, DOMAIN operators) = 0
  BY <1>1, <1>3, SumEmpty
<1> QED  BY <1>1, <1>2, <1>4, OperatorAssumption DEF OperatorInit, RegistryInv, KeysUnique, Dated

LEMMA RegistryAlways == Spec => []RegistryInv
<1>1. Init => RegistryInv
  BY RegistryInitial DEF Init
<1>2. ASSUME RegistryInv, [Next]_all_vars
      PROVE  RegistryInv'
  <2>1. [OperatorNext]_operator_vars
    BY <1>2 DEF Next, all_vars
  <2> QED  BY <1>2, <2>1, RegistryInductive
<1> QED  BY <1>1, <1>2, PTL DEF Spec

\* The registry has its types, with u64 totals, when the bonds of a full
\* registry fit.
LEMMA RegistryTyped ==
    ASSUME BondsFit, RegistryInv
    PROVE  OperatorTypeOK
<1>1. \A i \in DOMAIN operators : operators[i] \in Op
  BY DEF RegistryInv, RegistryTypes
<1>2. /\ IsFiniteSet(DOMAIN operators) /\ Cardinality(DOMAIN operators) = Len(operators)
      /\ Weights(bonds, bonded) /\ Weights(counts, DOMAIN operators) /\ bonded \subseteq DOMAIN operators
  BY RegistryWeights DEF RegistryInv
<1>3. Cardinality(registered) = Len(operators)
  <2> DEFINE f == [i \in DOMAIN operators |-> operators[i].pubkey]
  <2>1. f \in Surjection(DOMAIN operators, registered)
    BY DEF Surjection, registered
  <2>2. f \in [DOMAIN operators -> registered]
    BY DEF registered
  <2>3. \A i, j \in DOMAIN operators : i # j => f[i] # f[j]
    BY DEF RegistryInv, KeysUnique
  <2>4. f \in Injection(DOMAIN operators, registered)
    <3> HIDE DEF f
    <3> QED  BY <2>2, <2>3 DEF Injection, IsInjective
  <2> HIDE DEF f
  <2> QED  BY <1>2, <2>1, <2>4, FS_Surjection
<1>4. \A i \in DOMAIN operators : operators[i].total_batches \in 0..MaxBatches
                                  /\ operators[i].missed_batches \in 0..MaxBatches
  <2> SUFFICES ASSUME NEW i \in DOMAIN operators
               PROVE  operators[i].total_batches \in 0..MaxBatches
                      /\ operators[i].missed_batches \in 0..MaxBatches
    OBVIOUS
  <2>1. counts[i] <= SumFunctionOnSet(counts, DOMAIN operators)
    BY <1>2, SumTerm
  <2>2. SumFunctionOnSet(counts, DOMAIN operators) \in Nat
    BY <1>2, SumType
  <2>3. SumFunctionOnSet(counts, DOMAIN operators) <= MaxBatches
    BY DEF RegistryInv
  <2>4. counts[i] = operators[i].total_batches + operators[i].missed_batches
    BY DEF counts
  <2>5. operators[i].total_batches \in Nat /\ operators[i].missed_batches \in Nat
    BY <1>1 DEF Op
  <2> QED  BY <2>1, <2>2, <2>3, <2>4, <2>5, OperatorAssumption
<1>5. total_bond \in 0..U64Max
  <2>1. PICK b \in 0..U64Max : max_operators * b <= U64Max /\ \A a \in BondAmounts : a <= b
    BY DEF BondsFit
  <2>2. \A i \in bonded : bonds[i] <= b
    BY <1>1, <1>2, <2>1 DEF bonds, Op
  <2>3. SumFunctionOnSet(bonds, bonded) <= Cardinality(bonded) * b
    BY <1>2, <2>1, <2>2, SumBound, U64Assumption
  <2>4. Cardinality(bonded) <= max_operators /\ Cardinality(bonded) \in Nat
    <3>1. Cardinality(bonded) <= Cardinality(DOMAIN operators) /\ IsFiniteSet(bonded)
      BY <1>2, FS_Subset
    <3>2. Cardinality(bonded) \in Nat
      BY <3>1, FS_CardinalityType
    <3>3. Len(operators) \in Nat /\ Len(operators) <= max_operators
      BY DEF RegistryInv, RegistryTypes
    <3> QED  BY <1>2, <3>1, <3>2, <3>3, OperatorAssumption
  <2>5. \A m, n, c \in Nat : m <= n => m * c <= n * c
    OBVIOUS
  <2>6. Cardinality(bonded) * b <= max_operators * b
    BY <2>1, <2>4, <2>5, OperatorAssumption, U64Assumption
  <2>7. total_bond \in Nat /\ total_bond = SumFunctionOnSet(bonds, bonded)
    BY DEF RegistryInv, RegistryTypes
  <2>8. Cardinality(bonded) * b \in Nat /\ max_operators * b \in Nat
    BY <2>1, <2>4, OperatorAssumption, U64Assumption
  <2> QED  BY <2>1, <2>3, <2>6, <2>7, <2>8, U64Assumption
<1> DEFINE Typed == [pubkey : Pubkeys, bond_amount : BondAmounts, status : OperatorStatus,
                     registered_at : 0..MaxHeight, unbond_started_at : Never..MaxHeight,
                     last_batch_block : Never..MaxHeight,
                     total_batches : 0..MaxBatches, missed_batches : 0..MaxBatches]
<1>6. \A i \in DOMAIN operators : operators[i] \in Typed
  BY <1>1, <1>4 DEF Op
<1>7. operators \in Seq(Typed)
  <2>1. DOMAIN operators = 1..Len(operators) /\ Len(operators) \in Nat /\ operators \in Seq(Op)
    BY DEF RegistryInv, RegistryTypes
  <2> HIDE DEF Typed
  <2> QED  BY <1>6, <2>1
<1> QED  BY <1>3, <1>5, <1>7 DEF OperatorTypeOK, RegistryInv, RegistryTypes

\* For bonds that fit a u64, total_bond is at any time the sum of the bonds that
\* can still be lost, in any order of register, unbond, exit and slash calls
\* (operator_set.rs), and the registry is well typed.
THEOREM BondsCorrect ==
    ASSUME BondsFit
    PROVE  Spec => []TotalBondBacked
<1>1. RegistryInv => TotalBondBacked
  BY RegistryTyped DEF RegistryInv, TotalBondBacked, bonds, bonded
<1> QED  BY <1>1, RegistryAlways, PTL

\* An operator that leaves posted its last batch at least unbond_delay blocks
\* before, for any delay and any heights (unbond_operator, exit_operator).
THEOREM ExitsCorrect == Spec => ExitAfterDelay
<1> DEFINE A == \A i \in DOMAIN operators :
                   operators'[i].status = "Exited" /\ operators[i].status # "Exited"
                   /\ operators[i].total_batches > 0 =>
                       block_height - operators[i].last_batch_block >= unbond_delay
<1>1. ASSUME RegistryInv, [Next]_all_vars
      PROVE  [A]_operator_vars
  <2>1. [OperatorNext]_operator_vars
    BY <1>1 DEF Next, all_vars
  <2>2. ASSUME NEW i \in DOMAIN operators, OperatorNext,
               operators'[i].status = "Exited", operators[i].status # "Exited"
        PROVE  /\ operators[i].status = "Unbonding"
               /\ block_height >= operators[i].unbond_started_at + unbond_delay
    <3>1. operators \in Seq(Op) /\ \A j \in DOMAIN operators : operators[j] \in Op
      BY <1>1 DEF RegistryInv, RegistryTypes
    <3>2. ASSUME NEW p \in Pubkeys, NEW bond \in BondAmounts, register_operator(p, bond)
          PROVE  FALSE
      BY <2>2, <3>1, <3>2 DEF register_operator
    <3>3. ASSUME UNCHANGED operators
          PROVE  FALSE
      BY <2>2, <3>3
    <3>4. ASSUME NEW p \in Pubkeys, unbond_operator(p)
          PROVE  FALSE
      <4>1. \/ operators'[i] = operators[i]
            \/ operators'[i] = [operators[i] EXCEPT !.status = "Unbonding", !.unbond_started_at = block_height]
        BY <2>2, <3>1, <3>4 DEF unbond_operator
      <4>2. operators[i] \in Op
        BY <2>2, <3>1
      <4>3. \A o \in Op : [o EXCEPT !.status = "Unbonding", !.unbond_started_at = block_height].status
                              = "Unbonding"
        BY DEF Op
      <4> QED  BY <2>2, <4>1, <4>2, <4>3
    <3>5. ASSUME NEW p \in Pubkeys, slash_operator(p)
          PROVE  FALSE
      <4>1. \/ operators'[i] = operators[i]
            \/ operators'[i] = [operators[i] EXCEPT !.status = "Slashed"]
        BY <2>2, <3>1, <3>5 DEF slash_operator
      <4> QED  BY <2>2, <3>1, <4>1 DEF Op
    <3>6. ASSUME NEW p \in Pubkeys, record_batch(p) \/ record_missed_batch(p)
          PROVE  FALSE
      <4>1. \/ operators'[i] = operators[i]
            \/ operators'[i] = [operators[i] EXCEPT !.total_batches = @ + 1, !.last_batch_block = block_height]
            \/ operators'[i] = [operators[i] EXCEPT !.missed_batches = @ + 1]
        BY <2>2, <3>1, <3>6 DEF record_batch, record_missed_batch
      <4>2. operators[i] \in Op
        BY <2>2, <3>1
      <4>3. \A o \in Op : \A n :
               /\ [o EXCEPT !.total_batches = n, !.last_batch_block = block_height].status = o.status
               /\ [o EXCEPT !.missed_batches = n].status = o.status
        BY DEF Op
      <4>4. operators'[i].status = operators[i].status
        <5> DEFINE m == operators[i].total_batches + 1
                   n == operators[i].missed_batches + 1
        <5>1. /\ [operators[i] EXCEPT !.total_batches = m, !.last_batch_block = block_height].status
                    = operators[i].status
              /\ [operators[i] EXCEPT !.missed_batches = n].status = operators[i].status
          BY <4>2, <4>3, Zenon
        <5> QED  BY <4>1, <5>1
      <4> QED  BY <2>2, <4>4
    <3>7. ASSUME NEW p \in Pubkeys, exit_operator(p)
          PROVE  i = find(p)
      BY <2>2, <3>1, <3>7 DEF exit_operator
    <3>8. PICK p \in Pubkeys : exit_operator(p)
      BY <2>2, <3>2, <3>3, <3>4, <3>5, <3>6 DEF OperatorNext, update_tvl, next_block
    <3> QED  BY <3>7, <3>8 DEF exit_operator, with_status
  <2>3. \A i \in DOMAIN operators : /\ operators[i].unbond_started_at \in Int
                                    /\ operators[i].last_batch_block \in Int
    <3>1. \A j \in DOMAIN operators : operators[j] \in Op
      BY <1>1 DEF RegistryInv, RegistryTypes
    <3> QED  BY <3>1, OperatorAssumption DEF Op, Never
  <2>4. block_height \in Int
    BY <1>1, OperatorAssumption DEF RegistryInv, RegistryTypes
  <2>5. ASSUME OperatorNext PROVE A
    BY <1>1, <2>2, <2>3, <2>4, <2>5, OperatorAssumption DEF RegistryInv, Dated
  <2> QED  BY <2>1, <2>5
<1> QED  BY <1>1, RegistryAlways, PTL DEF Spec, ExitAfterDelay

-----------------------------------------------------------------------------
(* The list of active operators.                                           *)

\* Ranks number the active operators without gaps, so that every entry of the
\* list is the record of an operator.
LEMMA ActiveTyped ==
    ASSUME RegistryTypes
    PROVE  /\ Cardinality(active_operators) \in Nat
           /\ DOMAIN active_seq = 1..Cardinality(active_operators)
           /\ \A n \in DOMAIN active_seq : active_seq[n] \in Op
<1> DEFINE S == active_operators
           N == Cardinality(S)
           r == [i \in S |-> rank(i)]
<1>1. S \subseteq DOMAIN operators /\ DOMAIN operators \subseteq Nat
  BY DEF active_operators, with_status, RegistryTypes
<1>2. IsFiniteSet(S) /\ N \in Nat
  BY <1>1, RegistryWeights, FS_Subset, FS_CardinalityType
<1>3. ASSUME NEW i \in S
      PROVE  rank(i) \in 1..N
  <2> DEFINE U == {j \in S : j <= i}
  <2>1. U \subseteq S /\ i \in U
    BY <1>1
  <2>2. IsFiniteSet(U) /\ Cardinality(U) <= N
    BY <1>2, <2>1, FS_Subset
  <2>3. Cardinality(U) \in Nat /\ Cardinality(U) # 0
    BY <2>1, <2>2, FS_CardinalityType, FS_EmptySet
  <2> QED  BY <1>2, <2>2, <2>3 DEF rank
<1>4. ASSUME NEW i \in S, NEW j \in S, i < j
      PROVE  rank(i) # rank(j)
  <2> DEFINE U == {m \in S : m <= i}
             V == {m \in S : m <= j}
  <2>1. i \in Nat /\ j \in Nat
    BY <1>1
  <2>2. U \subseteq V /\ j \in V /\ j \notin U /\ V \subseteq S
    <3>1. S \subseteq Nat
      BY <1>1
    <3>2. i < j
      BY <1>4
    <3>3. U \subseteq V
      <4> SUFFICES ASSUME NEW m \in S, m <= i PROVE m <= j
        OBVIOUS
      <4> QED  BY <2>1, <3>1, <3>2
    <3>4. j \in V /\ V \subseteq S
      BY <2>1
    <3>5. ~(j <= i)
      BY <2>1, <3>2
    <3> QED  BY <3>3, <3>4, <3>5
  <2>3. IsFiniteSet(V)
    BY <1>2, <2>2, FS_Subset
  <2>4. rank(i) = Cardinality(U) /\ rank(j) = Cardinality(V)
    BY DEF rank
  <2> HIDE DEF U, V
  <2>5. Cardinality(V) = Cardinality(U) => V = U
    BY <2>2, <2>3, FS_Subset
  <2> QED  BY <2>2, <2>4, <2>5
<1>5. r \in Injection(S, 1..N)
  <2>1. r \in [S -> 1..N]
    BY <1>3
  <2>2. \A i, j \in S : i # j => r[i] # r[j]
    BY <1>1, <1>4
  <2> HIDE DEF r
  <2> QED  BY <2>1, <2>2 DEF Injection, IsInjective
<1>6. IsFiniteSet(1..N) /\ Cardinality(1..N) = N
  <2>1. IsFiniteSet(1..N) /\ Cardinality(1..N) = IF 1 > N THEN 0 ELSE N - 1 + 1
    BY <1>2, FS_Interval
  <2> QED  BY <1>2, <2>1
<1>7. r \in Surjection(S, 1..N)
  BY <1>5, <1>6, FS_Injection
<1>8. \A n \in 1..N : \E i \in S : rank(i) = n
  BY <1>7 DEF Surjection
<1>9. ASSUME NEW n \in 1..N
      PROVE  operators[CHOOSE i \in S : rank(i) = n] \in Op
  <2>1. (CHOOSE i \in S : rank(i) = n) \in S
    BY <1>8
  <2> QED  BY <1>1, <2>1 DEF RegistryTypes
<1> QED  BY <1>2, <1>9 DEF active_seq

Listed == [pubkey : Pubkeys, batches_posted : Nat, batches_challenged : Nat]

LEMMA ListTyped ==
    ASSUME RegistryTypes, NEW challenged \in [DOMAIN active_seq -> Challenged]
    PROVE  fee_list(challenged) \in Seq(Listed)
<1>1. /\ Cardinality(active_operators) \in Nat
      /\ DOMAIN active_seq = 1..Cardinality(active_operators)
      /\ \A n \in DOMAIN active_seq : active_seq[n] \in Op
  BY ActiveTyped
<1>2. fee_list(challenged) \in [1..Cardinality(active_operators) -> Listed]
  BY <1>1, ChallengedAssumption DEF fee_list, Listed, Op
<1> QED  BY <1>1, <1>2

-----------------------------------------------------------------------------
(* Fees.                                                                   *)

\* Division rounds down.
LEMMA Division ==
    ASSUME NEW a \in Nat, NEW t \in Nat, t > 0
    PROVE  a \div t \in Nat /\ t * (a \div t) <= a /\ a < t * (a \div t) + t
OBVIOUS

LEMMA IndexerFee ==
    ASSUME NEW fee \in Nat
    PROVE  calculate_indexer_fee(fee) \in Nat /\ calculate_indexer_fee(fee) <= fee
<1> DEFINE part == IF fits(fee * indexer_fee_pct) THEN (fee * indexer_fee_pct) \div 100 ELSE U64Max
<1>1. part \in Nat
  <2>1. fee * indexer_fee_pct \in Nat
    BY FeeAssumption
  <2>2. (fee * indexer_fee_pct) \div 100 \in Nat
    BY <2>1, Division
  <2> QED  BY <2>2, U64Assumption
<1>2. calculate_indexer_fee(fee) = Min({Max({part, min_indexer_fee}), fee})
  BY DEF calculate_indexer_fee
<1> HIDE DEF part
<1>3. \A a, b \in Nat : Max({a, b}) \in Nat /\ Min({a, b}) \in Nat /\ Min({a, b}) <= b
  <2> SUFFICES ASSUME NEW a \in Nat, NEW b \in Nat
               PROVE  Max({a, b}) \in Nat /\ Min({a, b}) \in Nat /\ Min({a, b}) <= b
    OBVIOUS
  <2>1. \E x \in {a, b} : \A y \in {a, b} : x >= y
    OBVIOUS
  <2>2. \E x \in {a, b} : \A y \in {a, b} : x <= y
    OBVIOUS
  <2>3. Max({a, b}) \in {a, b}
    BY <2>1 DEF Max
  <2>4. Min({a, b}) \in {a, b} /\ \A y \in {a, b} : Min({a, b}) <= y
    BY <2>2 DEF Min
  <2> QED  BY <2>3, <2>4
<1> QED  BY <1>1, <1>2, <1>3, FeeAssumption, SMTT(30)

\* Products of natural numbers, stated once for the provers.
LEMMA Products ==
    /\ \A a, b \in Nat : a * b \in Nat
    /\ \A a, b, c \in Nat : (a + b) * c = a * c + b * c
    /\ \A a, b, c \in Nat : a * c <= b * c /\ c > 0 => a <= b
    /\ \A a, b, c \in Nat : a < b /\ c > 0 => a * c < b * c
    /\ \A a, b \in Nat : a * b = b * a
OBVIOUS

\* Parts rounded down add up to no more than the whole, and miss it by less
\* than one for each part.
LEMMA Rounding ==
    ASSUME NEW S, NEW e, NEW q, NEW P \in Nat, NEW T, Weights(e, S), Weights(q, S),
           T = SumFunctionOnSet(e, S), T > 0,
           \A i \in S : q[i] * T <= P * e[i]
    PROVE  /\ SumFunctionOnSet(q, S) <= P
           /\ (\A i \in S : P * e[i] < q[i] * T + T) /\ S # {} =>
                 (P - SumFunctionOnSet(q, S)) * T < Cardinality(S) * T
<1> DEFINE qT == [i \in S |-> T * q[i]]
           Pe == [i \in S |-> P * e[i]]
           Q == SumFunctionOnSet(q, S)
<1>1. T \in Nat /\ Q \in Nat
  BY SumType
<1>2. \A i \in S : e[i] \in Nat /\ q[i] \in Nat
  BY DEF Weights
<1>3. Weights(qT, S) /\ Weights(Pe, S)
  BY <1>1, <1>2, Products DEF Weights
<1>4. \A i \in S : qT[i] <= Pe[i]
  BY <1>1, <1>2, Products
<1>5. SumFunctionOnSet(qT, S) = T * Q /\ SumFunctionOnSet(Pe, S) = P * T
  <2>1. \A i \in S : qT[i] = T * q[i] /\ Pe[i] = P * e[i]
    OBVIOUS
  <2> HIDE DEF qT, Pe
  <2> QED  BY <1>1, <2>1, SumScaled
<1>6. T * Q <= P * T
  BY <1>3, <1>4, <1>5, SumLeq
<1>7. Q <= P
  BY <1>1, <1>6, Products
<1>8. ASSUME \A i \in S : P * e[i] < q[i] * T + T, S # {}
      PROVE  (P - Q) * T < Cardinality(S) * T
  <2> DEFINE one == [i \in S |-> T - 1]
             most == [i \in S |-> qT[i] + one[i]]
  <2>1. IsFiniteSet(S) /\ Cardinality(S) \in Nat /\ Cardinality(S) > 0
    BY <1>8, FS_CardinalityType, FS_EmptySet DEF Weights
  <2>2. T - 1 \in Nat
    BY <1>1
  <2>3. Weights(one, S) /\ \A i \in S : one[i] <= T - 1
    BY <2>1, <2>2 DEF Weights
  <2>4. \A i \in S : most[i] = qT[i] + one[i]
    OBVIOUS
  <2>5. Weights(most, S)
    BY <1>3, <2>3 DEF Weights
  <2>6. \A i \in S : Pe[i] <= most[i]
    <3> SUFFICES ASSUME NEW i \in S PROVE P * e[i] <= T * q[i] + (T - 1)
      OBVIOUS
    <3>1. P * e[i] \in Nat /\ q[i] * T \in Nat /\ q[i] * T = T * q[i] /\ P * e[i] < q[i] * T + T
      BY <1>1, <1>2, <1>8, Products
    <3> QED  BY <1>1, <3>1
  <2> HIDE DEF one, most, qT, Pe, Q
  <2>7. SumFunctionOnSet(most, S) = T * Q + SumFunctionOnSet(one, S)
    BY <1>3, <1>5, <2>3, <2>4, SumPlus
  <2>8. SumFunctionOnSet(one, S) <= Cardinality(S) * (T - 1) /\ SumFunctionOnSet(one, S) \in Nat
    BY <2>2, <2>3, SumBound, SumType
  <2>9. P * T <= SumFunctionOnSet(most, S)
    BY <1>3, <1>5, <2>5, <2>6, SumLeq
  <2>10. Cardinality(S) * (T - 1) \in Nat /\ Cardinality(S) * (T - 1) < Cardinality(S) * T
    <3>1. (T - 1) * Cardinality(S) < T * Cardinality(S)
      BY <1>1, <2>1, <2>2, Products
    <3> QED  BY <1>1, <2>1, <2>2, <3>1, Products
  <2>11. PICK d \in Nat : d = P - Q /\ P = Q + d
    BY <1>1, <1>7
  <2>12. P * T = Q * T + d * T /\ Q * T = T * Q
    BY <1>1, <2>11, Products
  <2>13. d * T \in Nat /\ T * Q \in Nat /\ P * T \in Nat /\ Cardinality(S) * T \in Nat
    BY <1>1, <2>1, <2>11, Products
  <2>14. d * T < Cardinality(S) * T
    BY <2>7, <2>8, <2>9, <2>10, <2>12, <2>13
  <2> QED  BY <2>11, <2>14
<1> QED  BY <1>7, <1>8

Share == [pubkey : Pubkeys, batches_posted : Nat, batches_challenged : Nat, fee_share : Nat]

shares == [i \in DOMAIN operator_shares |-> operator_shares[i].fee_share]
FeeUpTo(f) == \A size \in DataSizes, count \in BatchCounts : calculate_total_fee(size, count) <= f

FeeTypes ==
    /\ envelopes \in 0..MaxEnvelopes
    /\ indexer_fees \in Nat /\ total_fees_collected \in Nat
    /\ total_fees_distributed \in Nat /\ pending_fees \in Nat
    /\ operator_shares \in Seq(Share)
    /\ calculated \in [pending : Nat, ops : Seq(Listed)]
    /\ Len(operator_shares) = Len(calculated.ops)
    /\ open \in BOOLEAN /\ repeated \in BOOLEAN

\* Nothing exceeds what was collected, a payment made twice aside; what is
\* still to be paid out is pending.
FeeBounds ==
    /\ \A f \in Nat : FeeUpTo(f) => total_fees_collected <= envelopes * f
    /\ pending_fees <= total_fees_collected /\ indexer_fees <= total_fees_collected
    /\ calculated.pending <= total_fees_collected
    /\ total_fees_distributed <= 2 * total_fees_collected
    /\ open /\ ~repeated => calculated.pending <= pending_fees

Balanced ==
    ~repeated => total_fees_collected = indexer_fees + total_fees_distributed + pending_fees

FeeInv == FeeTypes /\ FeeBounds /\ Balanced /\ SharesProportional

LEMMA ShareWeights ==
    ASSUME FeeTypes
    PROVE  /\ DOMAIN operator_shares = DOMAIN calculated.ops
           /\ IsFiniteSet(DOMAIN operator_shares)
           /\ Weights(shares, DOMAIN operator_shares)
           /\ shares_sum = SumFunctionOnSet(shares, DOMAIN operator_shares)
           /\ shares_sum \in Nat
<1>1. /\ DOMAIN operator_shares = 1..Len(operator_shares) /\ Len(operator_shares) \in Nat
      /\ DOMAIN calculated.ops = 1..Len(calculated.ops)
      /\ \A i \in DOMAIN operator_shares : operator_shares[i] \in Share
  BY DEF FeeTypes
<1>2. IsFiniteSet(DOMAIN operator_shares)
  BY <1>1, FS_Interval
<1>3. \A i \in DOMAIN operator_shares : shares[i] \in Nat
  BY <1>1 DEF shares, Share
<1>4. Weights(shares, DOMAIN operator_shares)
  BY <1>2, <1>3 DEF Weights
<1>5. shares_sum = SumFunctionOnSet(shares, DOMAIN operator_shares)
  BY DEF shares_sum, shares, SumFunction
<1> QED  BY <1>1, <1>2, <1>4, <1>5, SumType DEF FeeTypes

\* The shares of a calculation: what is pending, divided in proportion.
LEMMA SharesOf ==
    ASSUME NEW ops \in Seq(Listed), pending_fees \in Nat, calculate_operator_shares(ops)
    PROVE  /\ operator_shares' \in Seq(Share) /\ Len(operator_shares') = Len(ops)
           /\ SharesProportional'
<1> DEFINE S == DOMAIN ops
           P == pending_fees
           e == [i \in S |-> effective(ops[i])]
           T == SumFunctionOnSet(e, S)
           q == [i \in S |-> share(ops[i], T)]
           R == P - SumFunctionOnSet(q, S)
           d == [i \in S |-> IF i = 1 THEN R ELSE 0]
           s == [i \in S |-> q[i] + d[i]]
<1>1. S = 1..Len(ops) /\ Len(ops) \in Nat /\ Len(ops) > 0 /\ 1 \in S
  <2>1. ops # <<>>
    BY DEF calculate_operator_shares
  <2> QED  BY <2>1
<1>2. IsFiniteSet(S) /\ Cardinality(S) = Len(ops)
  <2>1. IsFiniteSet(1..Len(ops)) /\ Cardinality(1..Len(ops)) = IF 1 > Len(ops) THEN 0 ELSE Len(ops) - 1 + 1
    BY <1>1, FS_Interval
  <2> QED  BY <1>1, <2>1
<1>3. \A i \in S : ops[i] \in Listed
  OBVIOUS
<1>4. \A i \in S : e[i] \in Nat
  BY <1>3 DEF effective, saturating_sub, Listed
<1>5. Weights(e, S) /\ T \in Nat /\ T = total_effective(ops) /\ T > 0
  <2>1. Weights(e, S)
    BY <1>2, <1>4 DEF Weights
  <2>2. T = total_effective(ops)
    BY DEF total_effective, SumFunction
  <2>3. total_effective(ops) > 0
    BY DEF calculate_operator_shares
  <2>4. T \in Nat
    BY <2>1, SumType
  <2> QED  BY <2>1, <2>2, <2>3, <2>4
<1> HIDE DEF T
<1>6. ASSUME NEW i \in S
      PROVE  /\ q[i] \in Nat /\ P * e[i] \in Nat /\ q[i] * T <= P * e[i]
             /\ fits(P * e[i]) => P * e[i] < q[i] * T + T
  <2>1. P * e[i] \in Nat
    BY <1>4, Products
  <2>2. q[i] = IF fits(P * e[i]) THEN (P * e[i]) \div T ELSE 0
    BY DEF share
  <2>3. /\ (P * e[i]) \div T \in Nat /\ T * ((P * e[i]) \div T) <= P * e[i]
        /\ P * e[i] < T * ((P * e[i]) \div T) + T
    BY <1>5, <2>1, Division
  <2>4. q[i] \in Nat
    BY <2>2, <2>3
  <2>5. q[i] * T = T * q[i]
    BY <1>5, <2>4, Products
  <2>6. CASE fits(P * e[i])
    BY <2>1, <2>2, <2>3, <2>4, <2>5, <2>6
  <2>7. CASE ~fits(P * e[i])
    <3>1. q[i] = 0 /\ 0 * T = 0
      BY <1>5, <2>2, <2>7
    <3> QED  BY <2>1, <2>4, <2>7, <3>1
  <2> QED  BY <2>6, <2>7
<1>7. Weights(q, S)
  BY <1>2, <1>6 DEF Weights
<1>8. SumFunctionOnSet(q, S) <= P /\ SumFunctionOnSet(q, S) \in Nat
  <2> HIDE DEF e, q
  <2> QED  BY <1>5, <1>6, <1>7, Rounding, SumType DEF T
<1>9. R \in Nat /\ P = SumFunctionOnSet(q, S) + R
  BY <1>8
<1>10. remainder(ops) = R
  BY <1>5 DEF remainder, SumFunction
<1>11. operator_shares' = [i \in S |->
            [pubkey |-> ops[i].pubkey, batches_posted |-> ops[i].batches_posted,
             batches_challenged |-> ops[i].batches_challenged, fee_share |-> s[i]]]
  BY <1>5, <1>10 DEF calculate_operator_shares
<1>12. calculated' = [pending |-> P, ops |-> ops]
  BY DEF calculate_operator_shares
<1> HIDE DEF R
<1>13. Weights(d, S) /\ SumFunctionOnSet(d, S) = R
  <2>1. Weights(d, S)
    BY <1>2, <1>9 DEF Weights
  <2>2. Weights(d, S \ {1}) /\ SumFunctionOnSet(d, S) = d[1] + SumFunctionOnSet(d, S \ {1})
    BY <1>1, <2>1, SumStep
  <2>3. \A i \in S \ {1} : d[i] <= 0
    OBVIOUS
  <2>4. d[1] = R
    BY <1>1
  <2> HIDE DEF d
  <2>5. SumFunctionOnSet(d, S \ {1}) <= Cardinality(S \ {1}) * 0 /\ SumFunctionOnSet(d, S \ {1}) \in Nat
    BY <2>2, <2>3, SumBound, SumType
  <2>6. Cardinality(S \ {1}) \in Nat
    BY <1>2, FS_RemoveElement, FS_CardinalityType
  <2> QED  BY <1>9, <2>1, <2>2, <2>4, <2>5, <2>6
<1>14. SumFunctionOnSet(s, S) = P
  <2>1. \A i \in S : s[i] = q[i] + d[i]
    OBVIOUS
  <2> HIDE DEF s, d, q
  <2> QED  BY <1>7, <1>9, <1>13, <2>1, SumPlus
<1>15. \A i \in S : s[i] \in Nat
  BY <1>6, <1>9
<1>16. operator_shares' \in Seq(Share) /\ Len(operator_shares') = Len(ops) /\ DOMAIN operator_shares' = S
  <2> HIDE DEF s
  <2>1. operator_shares' \in [1..Len(ops) -> Share]
    BY <1>1, <1>3, <1>11, <1>15 DEF Share, Listed
  <2> QED  BY <1>1, <2>1
<1>17. shares_sum' = P
  <2>1. [i \in DOMAIN operator_shares' |-> operator_shares'[i].fee_share] = s
    <3>1. \A i \in S : operator_shares'[i].fee_share = s[i]
      BY <1>11
    <3> QED  BY <1>16, <3>1
  <2>2. DOMAIN s = S
    OBVIOUS
  <2> HIDE DEF s
  <2> QED  BY <1>14, <2>1, <2>2 DEF shares_sum, SumFunction
<1>18. ASSUME \A i \in S : fits(P * e[i]), NEW i \in S
       PROVE  /\ s[i] * T - P * e[i] > -T
              /\ s[i] * T - P * e[i] < (IF i = 1 THEN Len(ops) * T ELSE 1)
  <2>1. /\ q[i] \in Nat /\ P * e[i] \in Nat /\ q[i] * T <= P * e[i] /\ P * e[i] < q[i] * T + T
    BY <1>6, <1>18
  <2>2. s[i] = q[i] + d[i] /\ d[i] = IF i = 1 THEN R ELSE 0
    OBVIOUS
  <2>3. R * T < Len(ops) * T
    <3>1. \A j \in S : P * e[j] < q[j] * T + T
      BY <1>6, <1>18
    <3> HIDE DEF e, q
    <3>2. (P - SumFunctionOnSet(q, S)) * T < Cardinality(S) * T
      BY <1>1, <1>5, <1>6, <1>7, <3>1, Rounding DEF T
    <3> QED  BY <1>2, <3>2 DEF R
  <2>4. d[i] \in Nat /\ s[i] * T = q[i] * T + d[i] * T
    BY <1>5, <1>9, <2>1, <2>2, Products, SMTT(30)
  <2>5. R * T \in Nat /\ Len(ops) * T \in Nat /\ q[i] * T \in Nat /\ 0 * T = 0
    <3>1. R * T \in Nat /\ q[i] * T \in Nat
      BY <1>5, <1>9, <2>1, Products, Zenon
    <3>2. Len(ops) * T \in Nat
      BY <1>1, <1>5, Products, Zenon
    <3>3. 0 * T = 0
      BY <1>5
    <3> QED  BY <3>1, <3>2, <3>3
  <2> HIDE DEF s, d, q, e
  <2>6. CASE i = 1
    <3>1. s[i] * T = q[i] * T + R * T
      BY <2>2, <2>4, <2>6
    <3>2. PICK a \in Nat, b \in Nat, c \in Nat, m \in Nat :
             a = q[i] * T /\ b = P * e[i] /\ c = R * T /\ m = Len(ops) * T
      BY <2>1, <2>5
    <3>3. a <= b /\ b < a + T /\ c < m /\ s[i] * T = a + c
      BY <2>1, <2>3, <3>1, <3>2
    <3>4. a + c - b > -T /\ a + c - b < m
      BY <1>5, <3>3
    <3> QED  BY <2>6, <3>2, <3>3, <3>4, SMTT(30)
  <2>7. CASE i # 1
    <3>1. s[i] * T = q[i] * T
      BY <2>2, <2>4, <2>5, <2>7
    <3> QED  BY <1>5, <2>1, <2>5, <2>7, <3>1, SMTT(30)
  <2> QED  BY <2>6, <2>7
<1>19. SharesProportional'
  <2>1. calculated'.ops = ops /\ calculated'.pending = P
    BY <1>12
  <2>2. [i \in DOMAIN ops |-> saturating_sub(ops[i].batches_posted, ops[i].batches_challenged)] = e
    BY DEF effective
  <2>3. SumFunction(e) = T
    BY DEF SumFunction, T
  <2>4. \A i \in S : operator_shares'[i].fee_share = s[i]
    BY <1>11
  <2> HIDE DEF s, e, d, q
  <2> QED  BY <1>17, <1>18, <2>1, <2>2, <2>3, <2>4 DEF SharesProportional
<1> QED  BY <1>16, <1>19

\* A share is changed only in its mark: amounts and proportions stay.
LEMMA SharesKept ==
    ASSUME SharesProportional, UNCHANGED calculated,
           DOMAIN operator_shares' = DOMAIN operator_shares,
           DOMAIN operator_shares = DOMAIN calculated.ops,
           \A i \in DOMAIN operator_shares : operator_shares'[i].fee_share = operator_shares[i].fee_share
    PROVE  SharesProportional' /\ shares_sum' = shares_sum
<1>1. [i \in DOMAIN operator_shares' |-> operator_shares'[i].fee_share]
        = [i \in DOMAIN operator_shares |-> operator_shares[i].fee_share]
  OBVIOUS
<1>2. shares_sum' = shares_sum
  BY <1>1 DEF shares_sum
<1> QED  BY <1>2 DEF SharesProportional

LEMMA EnvelopeKeeps ==
    ASSUME FeeInv, NEW size \in DataSizes, NEW count \in BatchCounts,
           create_fee_envelope(calculate_total_fee(size, count))
    PROVE  FeeInv'
<1> DEFINE fee == calculate_total_fee(size, count)
           part == calculate_indexer_fee(fee)
<1>1. fee \in Nat
  <2>1. size \in Nat /\ count \in Nat
    BY FeeAssumption
  <2>2. size * fee_per_byte \in Nat /\ count * min_operator_fee \in Nat
    BY <2>1, Products, FeeAssumption
  <2> QED  BY <2>2, FeeAssumption DEF calculate_total_fee
<1>2. part \in Nat /\ part <= fee
  BY <1>1, IndexerFee
<1>3. /\ indexer_fees' = indexer_fees + part
      /\ pending_fees' = pending_fees + (fee - part)
      /\ envelopes' = envelopes + 1 /\ envelopes < MaxEnvelopes
      /\ total_fees_collected' = total_fees_collected + fee
      /\ UNCHANGED <<operator_shares, total_fees_distributed, calculated, open, repeated>>
  BY <1>1, <1>2 DEF create_fee_envelope, saturating_sub
<1>4. ASSUME NEW f \in Nat, FeeUpTo(f)
      PROVE  total_fees_collected' <= envelopes' * f
  <2>1. fee <= f
    BY <1>4 DEF FeeUpTo
  <2> HIDE DEF fee, part
  <2>2. total_fees_collected <= envelopes * f /\ envelopes \in Nat /\ total_fees_collected \in Nat
    BY <1>4 DEF FeeInv, FeeBounds, FeeTypes
  <2>3. (envelopes + 1) * f = envelopes * f + f /\ envelopes * f \in Nat
    BY <2>2
  <2> QED  BY <1>1, <1>3, <2>1, <2>2, <2>3
<1> HIDE DEF fee, part
<1>5. FeeTypes'
  <2>1. envelopes' \in 0..MaxEnvelopes
    BY <1>3, FeeAssumption DEF FeeInv, FeeTypes
  <2> QED  BY <1>1, <1>2, <1>3, <2>1 DEF FeeInv, FeeTypes
<1>6. FeeBounds'
  <2>1. /\ pending_fees \in Nat /\ indexer_fees \in Nat /\ total_fees_collected \in Nat
        /\ total_fees_distributed \in Nat /\ calculated.pending \in Nat
    BY DEF FeeInv, FeeTypes
  <2> QED  BY <1>1, <1>2, <1>3, <1>4, <2>1 DEF FeeInv, FeeBounds
<1>7. Balanced'
  BY <1>1, <1>2, <1>3 DEF FeeInv, FeeTypes, Balanced
<1>8. SharesProportional'
  BY <1>3, ShareWeights, SharesKept DEF FeeInv
<1> QED  BY <1>5, <1>6, <1>7, <1>8 DEF FeeInv

LEMMA CalculateKeeps ==
    ASSUME FeeInv, NEW ops \in Seq(Listed), calculate_operator_shares(ops)
    PROVE  FeeInv'
<1>1. /\ operator_shares' \in Seq(Share) /\ Len(operator_shares') = Len(ops)
      /\ SharesProportional'
  BY SharesOf DEF FeeInv, FeeTypes
<1>2. /\ calculated' = [pending |-> pending_fees, ops |-> ops] /\ open' = TRUE
      /\ UNCHANGED <<envelopes, indexer_fees, total_fees_collected, total_fees_distributed,
                     pending_fees, repeated>>
  BY DEF calculate_operator_shares
<1>3. FeeTypes'
  BY <1>1, <1>2 DEF FeeInv, FeeTypes
<1>4. FeeBounds'
  BY <1>2 DEF FeeInv, FeeTypes, FeeBounds
<1>5. Balanced'
  BY <1>2 DEF FeeInv, Balanced
<1> QED  BY <1>1, <1>3, <1>4, <1>5 DEF FeeInv

LEMMA DistributeKeeps ==
    ASSUME FeeInv, distribute_fees
    PROVE  FeeInv'
<1> DEFINE s == calculated.pending
<1>1. shares_sum = s
  BY DEF FeeInv, SharesProportional
<1>2. /\ s \in Nat /\ pending_fees \in Nat /\ total_fees_distributed \in Nat
      /\ total_fees_collected \in Nat /\ indexer_fees \in Nat
  BY DEF FeeInv, FeeTypes
<1>3. /\ ~repeated
      /\ total_fees_distributed' = total_fees_distributed + s
      /\ pending_fees' = saturating_sub(pending_fees, s)
      /\ open' = FALSE /\ repeated' = (~open /\ s > 0)
      /\ UNCHANGED <<envelopes, indexer_fees, operator_shares, total_fees_collected, calculated>>
  BY <1>1 DEF distribute_fees
<1>4. /\ pending_fees <= total_fees_collected /\ s <= total_fees_collected
      /\ total_fees_collected = indexer_fees + total_fees_distributed + pending_fees
      /\ open => s <= pending_fees
  BY <1>3 DEF FeeInv, FeeBounds, Balanced
<1>5. pending_fees' \in Nat /\ pending_fees' <= pending_fees
  BY <1>2, <1>3 DEF saturating_sub
<1>6. FeeTypes'
  <2>1. total_fees_distributed' \in Nat
    BY <1>2, <1>3
  <2>2. open' \in BOOLEAN /\ repeated' \in BOOLEAN
    BY <1>3
  <2> QED  BY <1>3, <1>5, <2>1, <2>2 DEF FeeInv, FeeTypes
<1>7. FeeBounds'
  <2>1. /\ pending_fees' <= total_fees_collected'
        /\ total_fees_distributed' <= 2 * total_fees_collected'
    BY <1>2, <1>3, <1>4, <1>5
  <2> QED  BY <1>3, <2>1 DEF FeeInv, FeeBounds, FeeUpTo
<1>8. Balanced'
  <2>1. CASE repeated'
    BY <2>1 DEF Balanced
  <2>2. CASE ~repeated'
    <3>1. s <= pending_fees
      <4>1. open \/ s = 0
        <5>1. ~(~open /\ s > 0)
          BY <1>3, <2>2
        <5>2. ~(s > 0) => s = 0
          BY <1>2
        <5> QED  BY <5>1, <5>2
      <4> QED  BY <1>2, <1>4, <4>1
    <3>2. pending_fees' = pending_fees - s
      BY <1>2, <1>3, <3>1 DEF saturating_sub
    <3> QED  BY <1>2, <1>3, <1>4, <3>2 DEF Balanced
  <2> QED  BY <2>1, <2>2
<1>9. SharesProportional'
  BY <1>3, ShareWeights, SharesKept DEF FeeInv
<1> QED  BY <1>6, <1>7, <1>8, <1>9 DEF FeeInv

LEMMA MarkKeeps ==
    ASSUME FeeInv, NEW p \in Pubkeys, mark_operator_challenged(p)
    PROVE  FeeInv'
<1> DEFINE k == Min({i \in DOMAIN operator_shares : operator_shares[i].pubkey = p})
<1>1. /\ operator_shares' = [operator_shares EXCEPT ![k].batches_challenged = @ + 1]
      /\ UNCHANGED <<envelopes, indexer_fees, total_fees_collected, total_fees_distributed,
                     pending_fees, calculated, open, repeated>>
  BY DEF mark_operator_challenged
<1>2. operator_shares \in Seq(Share) /\ \A i \in DOMAIN operator_shares : operator_shares[i] \in Share
  BY DEF FeeInv, FeeTypes
<1> HIDE DEF k
<1>3. \A r \in Share : /\ [r EXCEPT !.batches_challenged = r.batches_challenged + 1] \in Share
                       /\ [r EXCEPT !.batches_challenged = r.batches_challenged + 1].fee_share = r.fee_share
  <2> SUFFICES ASSUME NEW r \in Share
               PROVE  /\ [r EXCEPT !.batches_challenged = r.batches_challenged + 1] \in Share
                      /\ [r EXCEPT !.batches_challenged = r.batches_challenged + 1].fee_share = r.fee_share
    OBVIOUS
  <2>1. PICK n \in Nat : n = r.batches_challenged + 1
    BY DEF Share
  <2>2. [r EXCEPT !.batches_challenged = n] \in Share /\ [r EXCEPT !.batches_challenged = n].fee_share = r.fee_share
    BY DEF Share
  <2> QED  BY <2>1, <2>2
<1>4. /\ operator_shares' \in Seq(Share) /\ Len(operator_shares') = Len(operator_shares)
      /\ DOMAIN operator_shares' = DOMAIN operator_shares
      /\ \A i \in DOMAIN operator_shares : operator_shares'[i].fee_share = operator_shares[i].fee_share
  <2>1. ASSUME NEW i \in DOMAIN operator_shares
        PROVE  \/ operator_shares'[i] = operator_shares[i]
               \/ operator_shares'[i] = [operator_shares[i] EXCEPT !.batches_challenged = operator_shares[i].batches_challenged + 1]
    BY <1>1, <1>2
  <2>2. DOMAIN operator_shares' = DOMAIN operator_shares
    BY <1>1, <1>2
  <2>3. \A i \in DOMAIN operator_shares :
           operator_shares'[i] \in Share /\ operator_shares'[i].fee_share = operator_shares[i].fee_share
    BY <1>2, <1>3, <2>1
  <2>4. Len(operator_shares) \in Nat /\ DOMAIN operator_shares = 1..Len(operator_shares)
    BY <1>2
  <2>5. operator_shares' = [i \in 1..Len(operator_shares) |-> operator_shares'[i]]
    BY <1>1, <1>2, <2>4
  <2>6. operator_shares' \in [1..Len(operator_shares) -> Share]
    BY <2>3, <2>4, <2>5
  <2> QED  BY <2>2, <2>3, <2>4, <2>6
<1>5. FeeTypes'
  BY <1>1, <1>4 DEF FeeInv, FeeTypes
<1>6. FeeBounds' /\ Balanced'
  BY <1>1 DEF FeeInv, FeeBounds, FeeUpTo, Balanced
<1>7. SharesProportional'
  BY <1>1, <1>4, ShareWeights, SharesKept DEF FeeInv
<1> QED  BY <1>5, <1>6, <1>7 DEF FeeInv

LEMMA FeeInductive ==
    ASSUME RegistryInv, FeeInv, [Next]_all_vars
    PROVE  FeeInv'
<1>1. ASSUME UNCHANGED fee_vars
      PROVE  FeeInv'
  <2>1. FeeTypes' /\ FeeBounds' /\ Balanced'
    BY <1>1 DEF fee_vars, FeeInv, FeeTypes, FeeBounds, FeeUpTo, Balanced
  <2>2. SharesProportional'
    BY <1>1, ShareWeights, SharesKept DEF fee_vars, FeeInv
  <2> QED  BY <2>1, <2>2 DEF FeeInv
<1>2. ASSUME NEW challenged \in [DOMAIN active_seq -> Challenged],
             calculate_operator_shares(fee_list(challenged))
      PROVE  FeeInv'
  <2>1. fee_list(challenged) \in Seq(Listed)
    BY ListTyped DEF RegistryInv
  <2> QED  BY <1>2, <2>1, CalculateKeeps
<1>3. ASSUME FeeNext
      PROVE  FeeInv'
  BY <1>2, <1>3, EnvelopeKeeps, DistributeKeeps, MarkKeeps DEF FeeNext
<1> QED  BY <1>1, <1>3 DEF Next, all_vars

LEMMA FeeInitial ==
    ASSUME FeeInit
    PROVE  FeeInv
<1>1. /\ operator_shares = <<>> /\ calculated = [pending |-> 0, ops |-> <<>>]
      /\ calculated.pending = 0 /\ calculated.ops = <<>>
  BY DEF FeeInit
<1>2. FeeTypes
  <2>1. operator_shares \in Seq(Share) /\ calculated.ops \in Seq(Listed)
    BY <1>1
  <2>2. calculated \in [pending : Nat, ops : Seq(Listed)]
    BY <1>1, <2>1
  <2>3. Len(operator_shares) = Len(calculated.ops)
    BY <1>1
  <2>4. open \in BOOLEAN /\ repeated \in BOOLEAN
    BY DEF FeeInit
  <2>5. /\ envelopes \in 0..MaxEnvelopes /\ indexer_fees \in Nat /\ total_fees_collected \in Nat
        /\ total_fees_distributed \in Nat /\ pending_fees \in Nat
    BY FeeAssumption DEF FeeInit
  <2> QED  BY <2>1, <2>2, <2>3, <2>4, <2>5 DEF FeeTypes
<1>3. FeeBounds /\ Balanced
  <2>1. \A f \in Nat : 0 * f = 0
    OBVIOUS
  <2> QED  BY <1>1, <2>1 DEF FeeInit, FeeBounds, Balanced
<1>4. SharesProportional
  <2>1. DOMAIN operator_shares = {} /\ DOMAIN calculated.ops = {}
    BY <1>1
  <2>2. shares_sum = 0
    BY <1>2, <2>1, ShareWeights, SumEmpty
  <2> QED  BY <1>1, <2>1, <2>2 DEF SharesProportional
<1> QED  BY <1>2, <1>3, <1>4 DEF FeeInv

LEMMA FeeAlways == Spec => []FeeInv
<1>1. Init => FeeInv
  BY FeeInitial DEF Init
<1>2. RegistryInv /\ FeeInv /\ [Next]_all_vars => FeeInv'
  BY FeeInductive
<1> QED  BY <1>1, <1>2, RegistryAlways, PTL DEF Spec

\* Every calculation gives out exactly what was pending, in proportion to the
\* unchallenged batches up to rounding, whatever products overflow, for any
\* operators, batches and fees (calculate_operator_shares).
THEOREM SharesCorrect == Spec => []SharesProportional
BY FeeAlways, PTL DEF FeeInv

\* For fees that fit a u64, every satoshi collected is the indexer's, paid out
\* or pending as long as no calculation is distributed twice, and no total
\* leaves the range of a u64 even after that (create_fee_envelope,
\* distribute_fees).
THEOREM FeesCorrect ==
    ASSUME FeesFit
    PROVE  Spec => []FeesConserved
<1>1. ASSUME FeeInv
      PROVE  FeesConserved
  <2>1. PICK f \in 0..U64Max : 2 * (MaxEnvelopes * f) <= U64Max /\ FeeUpTo(f)
    BY DEF FeesFit, FeeUpTo
  <2>2. f \in Nat /\ envelopes \in Nat /\ envelopes <= MaxEnvelopes
    BY <1>1, <2>1, U64Assumption, FeeAssumption DEF FeeInv, FeeTypes
  <2>3. /\ total_fees_collected \in Nat /\ indexer_fees \in Nat /\ total_fees_distributed \in Nat
        /\ pending_fees \in Nat /\ calculated.pending \in Nat
    BY <1>1 DEF FeeInv, FeeTypes
  <2>4. total_fees_collected <= envelopes * f
    BY <1>1, <2>1, <2>2 DEF FeeInv, FeeBounds
  <2>5. envelopes * f <= MaxEnvelopes * f /\ envelopes * f \in Nat /\ MaxEnvelopes * f \in Nat
    <3>1. \A a, b, c \in Nat : a <= b => a * c <= b * c
      OBVIOUS
    <3> QED  BY <2>2, <3>1, Products, FeeAssumption
  <2>6. 2 * total_fees_collected <= U64Max
    <3>1. PICK m \in Nat : m = MaxEnvelopes * f
      BY <2>5
    <3> QED  BY <2>1, <2>3, <2>4, <2>5, <3>1, U64Assumption
  <2>7. /\ pending_fees <= total_fees_collected /\ indexer_fees <= total_fees_collected
        /\ calculated.pending <= total_fees_collected
        /\ total_fees_distributed <= 2 * total_fees_collected
    BY <1>1 DEF FeeInv, FeeBounds
  <2>8. {total_fees_collected, total_fees_distributed, pending_fees, indexer_fees} \subseteq 0..U64Max
    BY <2>3, <2>6, <2>7, U64Assumption
  <2>9. ASSUME NEW i \in DOMAIN operator_shares
        PROVE  operator_shares[i].fee_share \in 0..U64Max
    <3>1. shares[i] = operator_shares[i].fee_share
      BY DEF shares
    <3>2. /\ Weights(shares, DOMAIN operator_shares)
          /\ shares_sum = SumFunctionOnSet(shares, DOMAIN operator_shares)
      BY <1>1, ShareWeights DEF FeeInv
    <3>3. shares[i] \in Nat
      BY <3>2 DEF Weights
    <3>4. shares[i] <= calculated.pending
      BY <1>1, <3>2, SumTerm DEF FeeInv, SharesProportional
    <3> QED  BY <2>3, <2>6, <2>7, <3>1, <3>3, <3>4, U64Assumption
  <2> QED  BY <1>1, <2>8, <2>9 DEF FeesConserved, FeeTypeOK, FeeInv, FeeTypes, Balanced
<1> QED  BY <1>1, FeeAlways, PTL
=============================================================================
