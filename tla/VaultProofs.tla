----------------------------- MODULE VaultProofs ----------------------------
(***************************************************************************)
(* Proofs about the bond of Vault, for any roots, amounts, fees and        *)
(* heights.  A challenge spends the whole bond, rests on two attestations  *)
(* its accused signed for different roots, and its evidence shows the      *)
(* difference (challenge.rs), whatever the chain accepts.  The script      *)
(* interpreter is needed for the rest: the states that a delayed leaf and  *)
(* the covenant run through give the exact age at which a delayed leaf     *)
(* opens, and that nothing opens for an empty witness (l1_scripts.rs).     *)
(***************************************************************************)
EXTENDS Vault, SequenceTheorems, WellFoundedInduction, TLAPS

\* Before it is challenged the coin is the bond and carries no evidence.
Unchallenged ==
    /\ coin = [at |-> coin.at, output |-> coin.output, age |-> coin.age, amount |-> coin.amount,
               fee |-> coin.fee, evidence |-> coin.evidence, accused |-> coin.accused]
    /\ config.bond \in Bonds
    /\ coin.at \in {"wallet", "vault"} =>
          coin.amount = config.bond /\ coin.fee = 0 /\ coin.evidence = <<>>

VaultInv == Unchallenged /\ ChallengeJustified

-----------------------------------------------------------------------------
(* Evidence.                                                               *)

LEMMA RootFacts ==
    ASSUME NEW r \in RootStrings
    PROVE  r \in [hex : BOOLEAN, bytes : Seq(0..255), upper : BOOLEAN]
BY VaultAssumption

LEMMA ElementIn ==
    ASSUME NEW S, NEW q \in Seq(S)
    PROVE  \A i \in 1..Len(q) : q[i] \in S
OBVIOUS

\* pad_to_32 returns as many bytes as a root has, and leaves a full root alone.
LEMMA Padded ==
    ASSUME NEW bytes \in Seq(0..255)
    PROVE  /\ Len(pad_to_32(bytes)) = RootWidth
           /\ Len(bytes) = RootWidth => pad_to_32(bytes) = bytes
<1>1. RootWidth \in Nat
  BY VaultAssumption
<1>2. pad_to_32(bytes) \in Seq(0..255) /\ DOMAIN pad_to_32(bytes) = 1..RootWidth
  <2> DEFINE byte(i) == IF i <= Len(bytes) THEN bytes[i] ELSE 0
  <2>1. \A i \in 1..RootWidth : byte(i) \in 0..255
    <3>1. \A i \in 1..RootWidth : i \in Nat \ {0} /\ (i <= Len(bytes) => i \in 1..Len(bytes))
      BY <1>1
    <3>2. \A i \in 1..Len(bytes) : bytes[i] \in 0..255
      <4> DEFINE S == 0..255
      <4>1. bytes \in Seq(S)
        OBVIOUS
      <4> HIDE DEF S
      <4>2. \A i \in 1..Len(bytes) : bytes[i] \in S
        BY <4>1, ElementIn
      <4> QED  BY <4>2 DEF S
    <3> QED  BY <3>1, <3>2
  <2>2. pad_to_32(bytes) = [i \in 1..RootWidth |-> byte(i)]
    BY DEF pad_to_32
  <2> HIDE DEF byte
  <2>3. [i \in 1..RootWidth |-> byte(i)] \in Seq(0..255)
    BY <1>1, <2>1
  <2> QED  BY <2>2, <2>3
<1>3. Len(pad_to_32(bytes)) = RootWidth
  BY <1>1, <1>2
<1>4. ASSUME Len(bytes) = RootWidth PROVE pad_to_32(bytes) = bytes
  <2>1. \A i \in 1..RootWidth : pad_to_32(bytes)[i] = bytes[i]
    BY <1>1, <1>4 DEF pad_to_32
  <2> QED  BY <1>2, <1>3, <1>4, <2>1
<1> QED  BY <1>3, <1>4

\* Two different roots as the store writes them are decoded to different bytes.
LEMMA Distinguished ==
    ASSUME NEW r \in RootStrings, NEW s \in RootStrings, r # s, Canonical(r), Canonical(s)
    PROVE  decode_or_hash(r) # decode_or_hash(s)
<1>1. /\ r \in [hex : BOOLEAN, bytes : Seq(0..255), upper : BOOLEAN]
      /\ s \in [hex : BOOLEAN, bytes : Seq(0..255), upper : BOOLEAN]
  BY RootFacts
<1>2. /\ r.hex = TRUE /\ s.hex = TRUE /\ r.upper = FALSE /\ s.upper = FALSE
      /\ Len(r.bytes) = RootWidth /\ Len(s.bytes) = RootWidth
  BY <1>1 DEF Canonical
<1>3. r.bytes # s.bytes
  BY <1>1, <1>2
<1>4. pad_to_32(r.bytes) = r.bytes /\ pad_to_32(s.bytes) = s.bytes
  BY <1>1, <1>2, Padded
<1>5. /\ decode_or_hash(r) = << <<"bytes", r.bytes>> >>
      /\ decode_or_hash(s) = << <<"bytes", s.bytes>> >>
  BY <1>2, <1>4 DEF decode_or_hash
<1> QED  BY <1>3, <1>5

\* The evidence output holds full roots or hashes.
LEMMA EvidenceType ==
    ASSUME NEW r \in RootStrings
    PROVE  decode_or_hash(r)[1][1] = "bytes" => Len(decode_or_hash(r)[1][2]) = RootWidth
<1>1. r.hex \in BOOLEAN /\ r.bytes \in Seq(0..255)
  BY RootFacts
<1>2. CASE r.hex
  <2>1. decode_or_hash(r) = << <<"bytes", pad_to_32(r.bytes)>> >>
    BY <1>2 DEF decode_or_hash
  <2> QED  BY <1>1, <2>1, Padded
<1>3. CASE ~ r.hex
  <2>1. decode_or_hash(r) = << <<"sha", r>> >>
    BY <1>3 DEF decode_or_hash
  <2> QED  BY <2>1
<1> QED  BY <1>1, <1>2, <1>3

-----------------------------------------------------------------------------
(* The coin.                                                               *)

\* The state that ChallengeJustified reads is left alone, or more is signed.
LEMMA KeptCoin ==
    ASSUME VaultInv, UNCHANGED <<config, coin>>, signed \subseteq signed',
           signed' \subseteq Attestation,
           height' \in 0..MaxHeight, node' \in {"down", "bonding", "watching"}
    PROVE  VaultInv'
<1>1. VaultTypeOK'
  BY DEF VaultInv, ChallengeJustified, VaultTypeOK
<1>2. Unchallenged'
  BY DEF VaultInv, Unchallenged
<1>3. ChallengeJustified'
  BY <1>1 DEF VaultInv, ChallengeJustified, build_evidence_output, Canonical, decode_or_hash, pad_to_32
<1> QED  BY <1>2, <1>3 DEF VaultInv

\* The coin moves to another place or grows older.
LEMMA KeptMove ==
    ASSUME VaultInv, UNCHANGED <<node, config, signed>>, height' \in 0..MaxHeight,
           NEW at \in {"wallet", "vault", "claim", "operator", "challenger"},
           at = "vault" => coin.at \in {"wallet", "vault"},
           at = "wallet" => coin.at = "wallet",
           NEW age \in Ages, NEW output,
           coin' = [coin EXCEPT !.at = at, !.output = output, !.age = age]
    PROVE  VaultInv'
<1>1. /\ coin'.at = at /\ coin'.age = age /\ coin'.amount = coin.amount /\ coin'.fee = coin.fee
      /\ coin'.evidence = coin.evidence /\ coin'.accused = coin.accused
      /\ coin' = [at |-> coin'.at, output |-> coin'.output, age |-> coin'.age,
                  amount |-> coin'.amount, fee |-> coin'.fee, evidence |-> coin'.evidence,
                  accused |-> coin'.accused]
  BY DEF VaultInv, Unchallenged
<1>2. VaultTypeOK'
  BY <1>1 DEF VaultInv, ChallengeJustified, VaultTypeOK
<1>3. Unchallenged'
  BY <1>1 DEF VaultInv, Unchallenged
<1>4. ChallengeJustified'
  BY <1>1, <1>2 DEF VaultInv, ChallengeJustified
<1> QED  BY <1>3, <1>4 DEF VaultInv

\* A challenge: the amount does not wrap, and the evidence is of two roots.
LEMMA KeptChallenge ==
    ASSUME VaultInv, NEW v \in {"operator", "other"}, NEW a \in Attestation, NEW b \in Attestation,
           NEW fee \in Fees, submit_challenge(v, a, b, fee)
    PROVE  VaultInv'
<1>1. /\ coin.at = "vault" /\ challenge_built(v, a, b, fee)
      /\ coin' = serialize_challenge_tx(v, a, b, fee)
      /\ UNCHANGED <<height, node, config, signed>>
  BY DEF submit_challenge
<1>2. /\ a.validator = v /\ b.validator = v /\ a.root # b.root
      /\ a \in signed /\ b \in signed /\ coin.amount >= fee
  BY <1>1 DEF challenge_built, verify_equivocation_proof, affordable
<1>3. coin.amount = config.bond /\ config.bond \in Bonds
  BY <1>1 DEF VaultInv, Unchallenged
<1>4. /\ U64 \in Nat /\ config.bond \in 0..(U64 - 1) /\ fee \in 0..(U64 - 1) /\ 0 \in Ages
  BY <1>3, VaultAssumption
<1>5. /\ coin'.at = "claim" /\ coin'.age = 0 /\ coin'.amount = challenge_amount(config.bond, fee)
      /\ coin'.fee = fee /\ coin'.evidence = build_evidence_output(a, b) /\ coin'.accused = v
      /\ coin' = [at |-> coin'.at, output |-> coin'.output, age |-> coin'.age,
                  amount |-> coin'.amount, fee |-> coin'.fee, evidence |-> coin'.evidence,
                  accused |-> coin'.accused]
  BY <1>1, <1>3 DEF serialize_challenge_tx
<1>6. challenge_amount(config.bond, fee) = config.bond - fee /\ config.bond - fee \in 0..(U64 - 1)
  <2>1. config.bond - fee \in Nat /\ config.bond - fee < U64
    BY <1>2, <1>3, <1>4
  <2>2. \A x, m \in Nat : x < m => x % m = x
    OBVIOUS
  <2> QED  BY <1>4, <2>1, <2>2 DEF challenge_amount
<1>7. a.root \in RootStrings /\ b.root \in RootStrings
  BY DEF Attestation
<1>8. /\ build_evidence_output(a, b) = <<decode_or_hash(a.root), decode_or_hash(b.root)>>
  BY DEF build_evidence_output
<1>9. VaultTypeOK'
  <2>1. \A i \in DOMAIN coin'.evidence :
           coin'.evidence[i][1][1] = "bytes" => Len(coin'.evidence[i][1][2]) = RootWidth
    <3> DEFINE da == decode_or_hash(a.root)
               db == decode_or_hash(b.root)
    <3>1. /\ da[1][1] = "bytes" => Len(da[1][2]) = RootWidth
          /\ db[1][1] = "bytes" => Len(db[1][2]) = RootWidth
      BY <1>7, EvidenceType
    <3>2. coin'.evidence = <<da, db>>
      BY <1>5, <1>8
    <3> HIDE DEF da, db
    <3> QED  BY <3>1, <3>2
  <2>2. coin'.amount \in 0..(U64 - 1)
    BY <1>5, <1>6
  <2> QED  BY <1>1, <1>4, <1>5, <2>1, <2>2 DEF VaultInv, ChallengeJustified, VaultTypeOK
<1>10. Unchallenged'
  BY <1>1, <1>3, <1>5 DEF Unchallenged
<1>11. coin'.amount + coin'.fee = config'.bond
  BY <1>1, <1>4, <1>5, <1>6
<1>12. /\ coin'.evidence = build_evidence_output(a, b)
       /\ Canonical(a.root) /\ Canonical(b.root) => coin'.evidence[1] # coin'.evidence[2]
  BY <1>2, <1>5, <1>7, <1>8, Distinguished
<1>13. ChallengeJustified'
  <2>1. a \in signed' /\ b \in signed' /\ a.validator = coin'.accused /\ b.validator = coin'.accused
    BY <1>1, <1>2, <1>5
  <2> QED  BY <1>2, <1>9, <1>11, <1>12, <2>1 DEF ChallengeJustified, build_evidence_output
<1> QED  BY <1>10, <1>13 DEF VaultInv

LEMMA VaultInit ==
    ASSUME Init PROVE VaultInv
<1>1. config.bond \in Bonds
  BY DEF Init
<1>2. /\ coin.at = "wallet" /\ coin.age = 0 /\ coin.amount = config.bond /\ coin.fee = 0
      /\ coin.evidence = <<>>
      /\ coin = [at |-> coin.at, output |-> coin.output, age |-> coin.age, amount |-> coin.amount,
                 fee |-> coin.fee, evidence |-> coin.evidence, accused |-> coin.accused]
  BY DEF Init
<1>3. VaultTypeOK
  BY <1>1, <1>2, VaultAssumption DEF Init, VaultTypeOK
<1>4. config.bond + 0 = config.bond
  <2>1. U64 \in Nat /\ config.bond \in 0..(U64 - 1)
    BY <1>1, VaultAssumption
  <2> QED  BY <2>1
<1> QED  BY <1>1, <1>2, <1>3, <1>4 DEF VaultInv, Unchallenged, ChallengeJustified

LEMMA VaultStep ==
    ASSUME VaultInv, [Next]_vault_vars PROVE VaultInv'
<1>1. VaultTypeOK /\ Unchallenged
  BY DEF VaultInv, ChallengeJustified
<1>2. /\ height \in 0..MaxHeight /\ node \in {"down", "bonding", "watching"}
      /\ signed \subseteq Attestation
      /\ coin.at \in {"wallet", "vault", "claim", "operator", "challenger"}
      /\ coin.age \in Ages /\ 0 \in Ages
  BY <1>1, VaultAssumption DEF VaultTypeOK
<1>3. ASSUME UNCHANGED vault_vars PROVE VaultInv'
  BY <1>2, <1>3, KeptCoin DEF vault_vars
<1>4. ASSUME start_watching \/ (\E reply \in ChainInfo : start_bonding(reply)) \/ stop
      PROVE  VaultInv'
  <2>1. /\ UNCHANGED <<height, config, signed, coin>>
        /\ node' \in {"down", "bonding", "watching"}
    BY <1>4 DEF start_watching, start_bonding, stop
  <2> QED  BY <1>2, <2>1, KeptCoin
<1>5. ASSUME NEW a \in Attestation, attest(a) PROVE VaultInv'
  <2>1. /\ UNCHANGED <<height, node, config, coin>> /\ signed' = signed \cup {a}
    BY <1>5 DEF attest
  <2>2. signed \subseteq signed' /\ signed' \subseteq Attestation
    BY <1>2, <2>1
  <2> QED  BY <1>2, <2>1, <2>2, KeptCoin
<1>6. ASSUME fund_vault PROVE VaultInv'
  <2>1. /\ UNCHANGED <<height, node, config, signed>> /\ coin.at = "wallet"
        /\ coin' = [coin EXCEPT !.at = "vault", !.output = p2tr_output_script, !.age = 0]
    BY <1>6 DEF fund_vault
  <2> QED  BY <1>2, <2>1, KeptMove
<1>7. ASSUME NEW who \in {"operator", "challenger"}, NEW leaf, NEW sibling, take(who, leaf, sibling)
      PROVE  VaultInv'
  <2>1. /\ UNCHANGED <<height, node, config, signed>>
        /\ coin' = [coin EXCEPT !.at = who, !.age = 0]
    BY <1>7 DEF take
  <2>2. coin' = [coin EXCEPT !.at = who, !.output = coin.output, !.age = 0]
    BY <1>1, <2>1 DEF Unchallenged
  <2> QED  BY <1>2, <2>1, <2>2, KeptMove
<1>8. ASSUME NEW v \in {"operator", "other"}, NEW a \in Attestation, NEW b \in Attestation,
             NEW fee \in Fees, submit_challenge(v, a, b, fee)
      PROVE  VaultInv'
  BY <1>8, KeptChallenge
<1>9. ASSUME blocks PROVE VaultInv'
  <2>1. PICK n \in Int : /\ n > 0 /\ mine(n)
                         /\ coin.at = "wallet" \/ coin.age + n \in Ages
    <3>1. CASE coin.at = "wallet" /\ mine(1)
      BY <3>1
    <3>2. CASE \E age \in Ages : age > coin.age /\ mine(age - coin.age)
      <4>1. PICK age \in Ages : age > coin.age /\ mine(age - coin.age)
        BY <3>2
      <4>2. /\ age - coin.age \in Int /\ age - coin.age > 0
            /\ coin.age + (age - coin.age) = age
        <5>1. age \in Nat /\ coin.age \in Nat
          BY <1>2, VaultAssumption
        <5> QED  BY <4>1, <5>1
      <4> QED  BY <4>1, <4>2
    <3> QED  BY <1>9, <3>1, <3>2 DEF blocks
  <2>2. /\ height' \in 0..MaxHeight /\ UNCHANGED <<node, config, signed>>
        /\ coin' = IF coin.at = "wallet" THEN coin ELSE [coin EXCEPT !.age = coin.age + n]
    BY <1>2, <2>1, VaultAssumption DEF mine, least
  <2>3. CASE coin.at = "wallet"
    BY <1>2, <2>2, <2>3, KeptCoin
  <2>4. CASE coin.at # "wallet"
    <3>1. coin' = [coin EXCEPT !.at = coin.at, !.output = coin.output, !.age = coin.age + n]
      BY <1>1, <2>2, <2>4 DEF Unchallenged
    <3>2. coin.age + n \in Ages
      BY <2>1, <2>4
    <3> QED  BY <1>2, <2>2, <2>4, <3>1, <3>2, KeptMove
  <2> QED  BY <2>3, <2>4
<1> QED
  BY <1>3, <1>4, <1>5, <1>6, <1>7, <1>8, <1>9 DEF Next, unbond, claim, rebut

\* What a challenge leaves of the bond and its fee make up the bond, and its
\* evidence names a validator that signed two attestations with different roots,
\* and shows two different roots where both are written as the state store does
\* (verify_equivocation_proof, decode_or_hash, serialize_challenge_tx).
THEOREM ChallengeCorrect == Spec => []ChallengeJustified
<1>1. Init => VaultInv
  BY VaultInit
<1>2. VaultInv /\ [Next]_vault_vars => VaultInv'
  BY VaultStep
<1>3. VaultInv => ChallengeJustified
  BY DEF VaultInv
<1> QED  BY <1>1, <1>2, <1>3, PTL DEF Spec

-----------------------------------------------------------------------------
(* Running a script.  Run is a fold; what it computes is the last of the   *)
(* states that the opcodes lead through, one after the other.              *)

M(ok, stack) == [ok |-> ok, stack |-> stack, alt |-> <<>>]

Runs(F, script, witness, r, q, n) ==
    /\ F[0] = M(TRUE, witness)
    /\ \A i \in 1..n : F[i] = Step(F[i - 1], script[i], r, q)
    /\ Run(script, witness, r, q) = F[n]

\* A set of numbers has a least one.
LEMMA LeastOf ==
    ASSUME NEW S \in SUBSET Nat, S # {}
    PROVE  \E x \in S : \A y \in S : x <= y
<1> DEFINE R == OpToRel(<, Nat)
<1>1. \A x, y \in Nat : x < y => <<x, y>> \in R
  BY DEF OpToRel
<1>2. IsWellFoundedOn(R, Nat)
  BY NatLessThanWellFounded
<1> HIDE DEF R
<1>3. PICK x \in S : \A y \in S : ~(<<y, x>> \in R)
  BY <1>2, WFMin
<1>4. ASSUME NEW y \in S PROVE x <= y
  <2>1. x \in Nat /\ y \in Nat /\ ~(y < x)
    BY <1>1, <1>3, Zenon
  <2> QED  BY <2>1
<1> QED  BY <1>3, <1>4

LEMMA MaxIs ==
    ASSUME NEW n \in Nat, NEW s \in SUBSET (1..n), s # {}
    PROVE  Max(s) \in s /\ \A y \in s : Max(s) >= y
<1> DEFINE Down == {n - x : x \in s}
<1>1. \A x \in s : x \in Nat /\ x <= n
  OBVIOUS
<1>2. Down \in SUBSET Nat /\ Down # {}
  <2>1. \A x \in s : n - x \in Nat
    BY <1>1
  <2>2. \A y \in Down : y \in Nat
    BY <2>1
  <2>3. PICK x \in s : TRUE
    OBVIOUS
  <2>4. n - x \in Down
    BY <2>3
  <2> HIDE DEF Down
  <2> QED  BY <2>2, <2>4
<1>3. PICK m \in Down : \A y \in Down : m <= y
  <2> HIDE DEF Down
  <2> QED  BY <1>2, LeastOf
<1>4. PICK x \in s : m = n - x
  BY <1>3
<1>5. ASSUME NEW y \in s PROVE x >= y
  <2>1. n - y \in Down
    OBVIOUS
  <2>2. m <= n - y
    BY <1>3, <2>1
  <2> HIDE DEF Down
  <2> QED  BY <1>1, <1>4, <2>2
<1>6. \E z \in s : \A y \in s : z >= y
  BY <1>5
<1> QED  BY <1>6 DEF Max

LEMMA RunStates ==
    ASSUME NEW script, NEW witness, NEW r, NEW q, NEW D \in Nat, DOMAIN script = 1..D
    PROVE  \E F : Runs(F, script, witness, r, q, D)
<1> DEFINE base == M(TRUE, witness)
           Climb(m, opcode) == Step(m, opcode, r, q)
           Obeys(f, n) == f = [s \in SUBSET (1..n) |->
                IF s = {} THEN base ELSE Climb(f[s \ {Max(s)}], script[Max(s)])]
           Bad == {n \in 0..D : ~ \E f : Obeys(f, n)}
<1> HIDE DEF base
<1> HIDE DEF Climb
<1>1. D \in Nat
  OBVIOUS
<1>2. Bad = {}
  <2> SUFFICES ASSUME Bad # {} PROVE FALSE
    OBVIOUS
  <2>1. PICK m \in Bad : \A y \in Bad : m <= y
    <3>1. Bad \in SUBSET Nat
      BY <1>1
    <3> HIDE DEF Bad
    <3> QED  BY <3>1, LeastOf
  <2>2. m # 0
    <3>1. SUBSET (1..0) = {{}}
      OBVIOUS
    <3>2. Obeys([s \in SUBSET (1..0) |-> base], 0)
      BY <3>1
    <3> HIDE DEF Obeys
    <3> QED  BY <2>1, <3>2
  <2>3. m \in Nat /\ m - 1 \in 0..D /\ m - 1 \notin Bad
    <3>1. m \in 0..D
      BY <2>1
    <3>2. m \in Nat /\ m - 1 \in 0..D /\ ~(m <= m - 1)
      BY <1>1, <2>2, <3>1
    <3> HIDE DEF Bad
    <3> QED  BY <2>1, <3>2
  <2>4. PICK f : Obeys(f, m - 1)
    BY <2>3
  <2>5. /\ \A s \in SUBSET (1..(m - 1)) : s \in SUBSET (1..m) /\ m \notin s
        /\ \A s \in SUBSET (1..m) : m \notin s => s \in SUBSET (1..(m - 1))
        /\ \A s \in SUBSET (1..m) : s \ {m} \in SUBSET (1..(m - 1))
    BY <2>2, <2>3
  <2> DEFINE g == [s \in SUBSET (1..m) |-> IF m \in s THEN Climb(f[s \ {m}], script[m]) ELSE f[s]]
  <2>6. ASSUME NEW s \in SUBSET (1..m)
        PROVE  g[s] = IF s = {} THEN base ELSE Climb(g[s \ {Max(s)}], script[Max(s)])
    <3>1. s # {} => Max(s) \in s /\ \A y \in s : Max(s) >= y
      BY <2>3, MaxIs
    <3>2. \A x \in SUBSET (1..(m - 1)) : g[x] = f[x]
      BY <2>5
    <3>3. CASE m \in s
      <4>1. Max(s) = m
        <5>1. Max(s) \in 1..m /\ Max(s) >= m
          BY <3>1, <3>3
        <5> HIDE DEF Bad
        <5> QED  BY <2>3, <5>1
      <4>2. g[s] = Climb(f[s \ {m}], script[m])
        BY <3>3
      <4>3. g[s \ {m}] = f[s \ {m}]
        BY <2>5, <3>2
      <4> HIDE DEF g
      <4> QED  BY <3>3, <4>1, <4>2, <4>3
    <3>4. CASE m \notin s
      <4>1. s \in SUBSET (1..(m - 1)) /\ s \ {Max(s)} \in SUBSET (1..(m - 1))
        BY <2>5, <3>4
      <4>2. g[s] = f[s] /\ g[s \ {Max(s)}] = f[s \ {Max(s)}]
        BY <3>2, <4>1
      <4> HIDE DEF g
      <4> QED  BY <2>4, <4>1, <4>2
    <3> QED  BY <3>3, <3>4
  <2>7. Obeys(g, m)
    <3>1. g = [s \in SUBSET (1..m) |-> g[s]]
      OBVIOUS
    <3> HIDE DEF g
    <3> QED  BY <2>6, <3>1
  <2> HIDE DEF Obeys
  <2> QED  BY <2>1, <2>7
<1>3. \E f : Obeys(f, D)
  <2>1. D \in 0..D
    BY <1>1
  <2> HIDE DEF Obeys
  <2> QED  BY <1>2, <2>1
<1> DEFINE iter == CHOOSE f : Obeys(f, D)
<1>4. Obeys(iter, D)
  BY <1>3
<1>5. Run(script, witness, r, q) = iter[1..D]
  BY DEF Run, FoldLeft, MapThenFoldSet, Climb, base, M
<1> HIDE DEF iter
<1> DEFINE F == [n \in 0..D |-> iter[1..n]]
<1>6. F[0] = base
  <2>1. 1..0 = {} /\ 0 \in 0..D /\ {} \in SUBSET (1..D)
    BY <1>1
  <2>2. iter[{}] = base
    BY <1>4, <2>1
  <2> QED  BY <2>1, <2>2
<1>7. ASSUME NEW n \in 1..D PROVE F[n] = Climb(F[n - 1], script[n])
  <2>1. n \in Nat /\ n \in 0..D /\ n - 1 \in 0..D /\ 1..n \in SUBSET (1..D) /\ 1..n # {} /\ n \in 1..n
        /\ (1..n) \ {n} = 1..(n - 1)
    <3>1. n \in Nat /\ n \in 0..D /\ n - 1 \in 0..D /\ n \in 1..n
      BY <1>1
    <3>2. \A i \in 1..n : i \in 1..D
      BY <1>1
    <3>3. \A i \in 1..n : i # n <=> i \in 1..(n - 1)
      BY <3>1
    <3>4. \A i \in 1..(n - 1) : i \in 1..n
      BY <3>1
    <3> QED  BY <3>1, <3>2, <3>3, <3>4
  <2>2. Max(1..n) = n
    <3>1. Max(1..n) \in 1..n /\ Max(1..n) >= n
      BY <2>1, MaxIs
    <3> QED  BY <2>1, <3>1
  <2>3. iter[1..n] = Climb(iter[(1..n) \ {n}], script[n])
    BY <1>4, <2>1, <2>2
  <2> QED  BY <2>1, <2>3
<1>8. F[D] = iter[1..D]
  BY <1>1
<1> HIDE DEF F
<1> QED  BY <1>5, <1>6, <1>7, <1>8 DEF base, Climb, Runs

\* A machine that has failed.
Failed(m) == "ok" \in DOMAIN m /\ m.ok = FALSE

\* Stacks of one and of two elements.
LEMMA StackOne ==
    ASSUME NEW x
    PROVE  /\ Len(<<x>>) = 1 /\ Top(<<x>>, 0) = x /\ Pop(<<x>>, 1) = <<>>
           /\ Append(<<>>, x) = <<x>>
BY DEF Top, Pop

LEMMA StackTwo ==
    ASSUME NEW x, NEW y
    PROVE  /\ Len(<<x, y>>) = 2 /\ Top(<<x, y>>, 0) = y /\ Top(<<x, y>>, 1) = x
           /\ Pop(<<x, y>>, 2) = <<>>
           /\ Append(<<x>>, y) = <<x, y>> /\ Pop(<<x, y>>, 1) = <<x>>
<1>1. /\ Len(<<x, y>>) = 2 /\ Top(<<x, y>>, 0) = y /\ Top(<<x, y>>, 1) = x
      /\ Pop(<<x, y>>, 2) = <<>>
  BY DEF Top, Pop
<1> DEFINE S == {x, y}
<1>2. <<x>> \in Seq(S) /\ <<x, y>> \in Seq(S) /\ y \in S
  OBVIOUS
<1>3. Append(<<x>>, y) = <<x, y>>
  <2>1. Append(<<x>>, y) \in Seq(S) /\ Len(Append(<<x>>, y)) = 2
    BY <1>2
  <2>2. \A i \in 1..2 : Append(<<x>>, y)[i] = <<x, y>>[i]
    BY <1>2
  <2> QED  BY <1>1, <1>2, <2>1, <2>2, SeqEqual
<1>4. Pop(<<x, y>>, 1) = <<x>>
  <2>1. SubSeq(<<x, y>>, 1, 1) = <<x>>
    <3> DEFINE t == <<x, y>>
               u == <<x>>
    <3>1. t \in Seq(S) /\ Len(t) = 2 /\ t[1] = x /\ u \in Seq(S) /\ Len(u) = 1 /\ u[1] = x
      OBVIOUS
    <3> HIDE DEF t, u, S
    <3>2. /\ SubSeq(t, 1, 1) \in Seq(S) /\ Len(SubSeq(t, 1, 1)) = 1
          /\ SubSeq(t, 1, 1)[1] = t[1]
      BY <3>1, SubSeqProperties
    <3>3. PICK p \in Seq(S) : p = SubSeq(t, 1, 1)
      BY <3>2
    <3>4. Len(p) = 1 /\ p[1] = x
      BY <3>1, <3>2, <3>3
    <3>5. p = u
      BY <3>1, <3>4, SeqEqual
    <3> QED  BY <3>3, <3>5 DEF t, u
  <2>2. Len(<<x, y>>) - 1 = 1
    OBVIOUS
  <2> QED  BY <2>1, <2>2 DEF Pop
<1> QED  BY <1>1, <1>3, <1>4

LEMMA Restacked ==
    ASSUME NEW b, NEW s, NEW t
    PROVE  [M(b, s) EXCEPT !.stack = t] = M(b, t)
BY DEF M

LEMMA Fields ==
    ASSUME NEW b, NEW s
    PROVE  /\ M(b, s).ok = b
           /\ M(b, s).stack = s
<1>1. M(b, s).ok = b
  BY DEF M
<1>2. M(b, s).stack = s
  BY DEF M
<1> QED  BY <1>1, <1>2

\* What each opcode of a delayed leaf does to the stack.
LEMMA StepFails ==
    ASSUME NEW m, NEW o, NEW r, NEW q, "ok" \in DOMAIN m, ~ m.ok \/ Len(m.stack) < Arity[o.op]
    PROVE  Failed(Step(m, o, r, q))
<1>1. Step(m, o, r, q) = [m EXCEPT !.ok = FALSE]
  BY DEF Step
<1> QED  BY <1>1 DEF Failed

LEMMA StepPush ==
    ASSUME NEW s, NEW e, NEW r, NEW q, Len(s) \in Nat
    PROVE  Step(M(TRUE, s), Push(e), r, q) = M(TRUE, Append(s, e))
<1> DEFINE m == M(TRUE, s)
           o == Push(e)
<1>1. /\ m.ok = TRUE /\ m.stack = s
      /\ [m EXCEPT !.stack = Append(s, e)] = M(TRUE, Append(s, e))
  <2>1. m.ok = TRUE /\ m.stack = s
    BY Fields
  <2> DEFINE t == Append(s, e)
  <2> HIDE DEF t
  <2>2. [m EXCEPT !.stack = t] = M(TRUE, t)
    BY Restacked, Zenon
  <2> QED  BY <2>1, <2>2 DEF t
<1>2. o.op = "PUSH" /\ o.data = e
  BY DEF Push
<1>3. Arity["PUSH"] = 0
  BY DEF Arity
<1>4. ~(Len(s) < 0)
  OBVIOUS
<1> HIDE DEF m, o
<1>5. Step(m, o, r, q) = [m EXCEPT !.stack = Append(s, e)]
  BY <1>1, <1>2, <1>3, <1>4 DEF Step
<1> QED  BY <1>1, <1>5 DEF m, o

LEMMA StepDrop ==
    ASSUME NEW s, NEW r, NEW q, Len(s) \in Nat \ {0}
    PROVE  Step(M(TRUE, s), Op("DROP"), r, q) = M(TRUE, Pop(s, 1))
<1> DEFINE m == M(TRUE, s)
           o == Op("DROP")
<1>1. /\ m.ok = TRUE /\ m.stack = s
      /\ [m EXCEPT !.stack = Pop(s, 1)] = M(TRUE, Pop(s, 1))
  <2>1. m.ok = TRUE /\ m.stack = s
    BY Fields
  <2> DEFINE t == Pop(s, 1)
  <2> HIDE DEF t
  <2>2. [m EXCEPT !.stack = t] = M(TRUE, t)
    BY Restacked, Zenon
  <2> QED  BY <2>1, <2>2 DEF t
<1>2. o.op = "DROP"
  BY DEF Op
<1>3. Arity["DROP"] = 1
  BY DEF Arity
<1>4. ~(Len(s) < 1)
  OBVIOUS
<1> HIDE DEF m, o
<1>5. Step(m, o, r, q) = [m EXCEPT !.stack = Pop(s, 1)]
  BY <1>1, <1>2, <1>3, <1>4 DEF Step
<1> QED  BY <1>1, <1>5 DEF m, o

LEMMA StepCsv ==
    ASSUME NEW s, NEW r, NEW q, Len(s) \in Nat \ {0}, r.csv = TRUE
    PROVE  /\ SequenceReached(ScriptNum(Top(s, 0)), q) =>
                  Step(M(TRUE, s), Op("CSV"), r, q) = M(TRUE, s)
           /\ ~ SequenceReached(ScriptNum(Top(s, 0)), q) =>
                  Failed(Step(M(TRUE, s), Op("CSV"), r, q))
<1> DEFINE m == M(TRUE, s)
           o == Op("CSV")
           v == SequenceReached(ScriptNum(Top(s, 0)), q)
           w == (r.csv => v)
<1>1. m.ok = TRUE /\ m.stack = s /\ m = M(m.ok, m.stack)
  BY Fields
<1>2. o.op = "CSV"
  BY DEF Op
<1>3. Arity["CSV"] = 1
  BY DEF Arity
<1>4. ~(Len(s) < 1)
  OBVIOUS
<1>5. w \in BOOLEAN /\ (w <=> v)
  BY DEF SequenceReached
<1>6. (v => w = TRUE) /\ (~ v => w = FALSE)
  BY <1>5
<1> HIDE DEF m, o
<1>7. Step(m, o, r, q) = [m EXCEPT !.ok = w, !.stack = s]
  BY <1>1, <1>2, <1>3, <1>4 DEF Step
<1> HIDE DEF w, v
<1>8. Step(m, o, r, q) = M(w, s)
  <2> DEFINE R == [ok : {TRUE, w}, stack : {s, s}, alt : {<<>>}]
             n == M(w, s)
  <2>1. m \in R /\ m.alt = <<>>
    BY DEF m, M
  <2>2. n \in R /\ n.ok = w /\ n.stack = s /\ n.alt = <<>>
    BY DEF M
  <2> HIDE DEF n
  <2>3. PICK k : k = [m EXCEPT !.ok = w, !.stack = s]
    OBVIOUS
  <2>4. k \in R /\ k.ok = w /\ k.stack = s /\ k.alt = <<>>
    BY <2>1, <2>3
  <2>5. k = n
    BY <2>2, <2>4
  <2> QED  BY <1>7, <2>3, <2>5 DEF n
<1>9. v => Step(m, o, r, q) = M(TRUE, s)
  BY <1>6, <1>8, Zenon
<1>10. ~ v => Step(m, o, r, q) = M(FALSE, s)
  BY <1>6, <1>8, Zenon
<1>11. Failed(M(FALSE, s))
  BY DEF Failed, M
<1> QED  BY <1>9, <1>10, <1>11 DEF m, o, v

LEMMA StepSig ==
    ASSUME NEW who, NEW r, NEW q
    PROVE  Step(M(TRUE, <<Signature(who, TxSighash), KeyOf(who)>>), Op("CHECKSIG"), r, q)
             = M(TRUE, <<True>>)
<1> DEFINE sig == Signature(who, TxSighash)
           s == <<sig, KeyOf(who)>>
           m == M(TRUE, s)
           o == Op("CHECKSIG")
<1>1. /\ Len(s) = 2 /\ Top(s, 0) = KeyOf(who) /\ Top(s, 1) = sig /\ Pop(s, 2) = <<>>
  BY StackTwo
<1>2. Top(s, 0)[1][2] = who
  BY <1>1 DEF KeyOf
<1> HIDE DEF s
<1>3. m.ok = TRUE /\ m.stack = s /\ m = M(m.ok, m.stack)
  BY Fields
<1>4. o.op = "CHECKSIG"
  BY DEF Op
<1>5. Arity["CHECKSIG"] = 2
  BY DEF Arity
<1>6. Append(Pop(s, 2), Bool(TRUE)) = <<True>>
  BY <1>1, StackOne DEF Bool
<1> DEFINE sg == Top(s, 1) = Signature(Top(s, 0)[1][2], TxSighash)
           w == sg \/ Top(s, 1) = <<>>
           t == Append(Pop(s, 2), Bool(sg))
<1>7. sg = TRUE /\ w = TRUE
  BY <1>1, <1>2
<1>8. t = <<True>>
  BY <1>6, <1>7, Zenon
<1>9. ~(Len(s) < 2)
  BY <1>1
<1> HIDE DEF m, o, sig
<1>10. Step(m, o, r, q) = [m EXCEPT !.ok = w, !.stack = t]
  BY <1>9, <1>3, <1>4, <1>5 DEF Step
<1> HIDE DEF sg, w, t
<1>11. Step(m, o, r, q) = M(w, t)
  <2> DEFINE R == [ok : {TRUE, w}, stack : {s, t}, alt : {<<>>}]
             n == M(w, t)
  <2>1. m \in R /\ m.alt = <<>>
    BY DEF m, M
  <2>2. n \in R /\ n.ok = w /\ n.stack = t /\ n.alt = <<>>
    BY DEF M
  <2> HIDE DEF n
  <2>3. PICK k : k = [m EXCEPT !.ok = w, !.stack = t]
    OBVIOUS
  <2>4. k \in R /\ k.ok = w /\ k.stack = t /\ k.alt = <<>>
    BY <2>1, <2>3
  <2>5. k = n
    BY <2>2, <2>4
  <2> QED  BY <1>10, <2>3, <2>5 DEF n
<1> QED  BY <1>7, <1>8, <1>11, Zenon DEF m, o, s, sig

-----------------------------------------------------------------------------
(* The number that the pushed bytes of a delay stand for.                  *)

\* d, or what remains of it under the sign bit, below zero.
read_as(d) == IF top_byte(d) < 128 THEN d ELSE 128 * top_unit(d) - d

\* Byte by byte.
LEMMA Digits ==
    ASSUME NEW d \in Nat
    PROVE  /\ d \div 256 \in Nat /\ d \div 65536 \in Nat /\ d \div 16777216 \in Nat
           /\ d % 256 \in 0..255 /\ (d \div 256) % 256 \in 0..255
           /\ (d \div 65536) % 256 \in 0..255
           /\ d = (d % 256) + 256 * (d \div 256)
           /\ d \div 256 = ((d \div 256) % 256) + 256 * (d \div 65536)
           /\ d \div 65536 = ((d \div 65536) % 256) + 256 * (d \div 16777216)
<1>1. /\ d \div 256 \in Nat /\ d \div 65536 \in Nat /\ d \div 16777216 \in Nat
      /\ d % 256 \in 0..255 /\ d = (d % 256) + 256 * (d \div 256)
  BY SMT
<1>2. \A n \in Nat : n % 256 \in 0..255 /\ n = (n % 256) + 256 * (n \div 256)
  BY SMT
<1>3. (d \div 256) \div 256 = d \div 65536 /\ (d \div 65536) \div 256 = d \div 16777216
  BY SMT
<1> QED  BY <1>1, <1>2, <1>3, SMT

LEMMA Powers ==
    /\ 256^(1 - 1) = 1 /\ 256^(2 - 1) = 256 /\ 256^(3 - 1) = 65536 /\ 256^(4 - 1) = 16777216
    /\ 2^8 = 256 /\ 2^16 = 65536 /\ 2^24 = 16777216 /\ 2^22 = 4194304
BY SMT

\* The number of bytes of a value that is no small number, and the bytes.
byte_count(d) == IF d < 2^8 THEN 1 ELSE IF d < 2^16 THEN 2 ELSE IF d < 2^24 THEN 3 ELSE 4

Bytes(d, e) ==
    /\ e # <<>> /\ Len(e) = byte_count(d)
    /\ \A i \in 1..byte_count(d) : e[i][2] = (d \div 256^(i - 1)) % 256

LEMMA Pushed ==
    ASSUME NEW d, ~(d <= 16)
    PROVE  Bytes(d, push_minimal_uint(d))
<1> DEFINE e == push_minimal_uint(d)
           k == byte_count(d)
           S == {e[i] : i \in 1..k}
<1>1. e = [i \in 1..k |-> Byte((d \div 256^(i - 1)) % 256)]
  BY Zenon DEF push_minimal_uint, byte_count
<1>2. k \in 1..4
  BY SMT DEF byte_count
<1> HIDE DEF e, k
<1>3. DOMAIN e = 1..k /\ \A i \in 1..k : e[i] = Byte((d \div 256^(i - 1)) % 256)
  BY <1>1, Zenon
<1>4. e \in [1..k -> S]
  <2>1. \A i \in 1..k : e[i] \in S
    BY Zenon
  <2>2. e = [i \in 1..k |-> e[i]]
    BY <1>1, <1>3, SMT
  <2> HIDE DEF S
  <2> QED  BY <2>1, <2>2, Zenon
<1>5. Len(e) = k /\ e # <<>>
  <2> HIDE DEF S
  <2>1. e \in Seq(S)
    BY <1>2, <1>4, SMT
  <2>2. DOMAIN e = 1..Len(e) /\ Len(e) \in Nat
    BY <2>1, SMT
  <2>3. Len(e) = k
    BY <1>2, <1>3, <2>2, SMT
  <2> QED  BY <1>2, <2>1, <2>3, SMT
<1>6. \A i \in 1..k : e[i][2] = (d \div 256^(i - 1)) % 256
  BY <1>3, SMT DEF Byte
<1> QED  BY <1>5, <1>6, Zenon DEF e, k, Bytes

LEMMA ReadsSmall ==
    ASSUME NEW d \in Nat, d < 256
    PROVE  ScriptNum(push_minimal_uint(d)) = read_as(d)
<1> DEFINE e == push_minimal_uint(d)
           g == [i \in 1..1 |-> (d \div 256^(i - 1)) % 256]
<1>1. top_unit(d) = 1 /\ top_byte(d) = d
  BY SMT DEF top_unit, top_byte
<1>2. CASE d = 0
  BY <1>1, <1>2, SMT DEF push_minimal_uint, ScriptNum, read_as
<1>3. ASSUME d # 0 PROVE e # <<>> /\ Len(e) = 1 /\ e[1][2] = d
  <2>1. CASE d <= 16
    BY <1>3, <2>1, SMT DEF push_minimal_uint, Byte
  <2>2. CASE d > 16
    <3>1. g[1] = d
      BY SMT
    <3>2. ~(d <= 16) /\ byte_count(d) = 1
      BY <2>2, Powers, SMT DEF byte_count
    <3>3. Bytes(d, e)
      BY <3>2, Pushed, SMT
    <3>4. \A i \in 1..1 : g[i] = (d \div 256^(i - 1)) % 256
      BY SMT
    <3> HIDE DEF e, g
    <3>5. e # <<>> /\ Len(e) = 1 /\ e[1][2] = g[1]
      BY <3>2, <3>3, <3>4, SMT DEF Bytes
    <3> QED  BY <3>1, <3>5, SMT
  <2> QED  BY <2>1, <2>2, SMT
<1> HIDE DEF e
<1>4. CASE d # 0 /\ d < 128
  <2>1. d % 128 = d /\ d + 0 * 2^8 + 0 * 2^16 + 0 * 2^24 = d /\ ~(d >= 128)
    BY <1>4, SMT
  <2>2. ScriptNum(e) = d
    <3>1. e # <<>> /\ Len(e) = 1 /\ e[1][2] = d
      BY <1>3, <1>4, SMT
    <3> QED  BY <2>1, <3>1, SMT DEF ScriptNum
  <2> QED  BY <1>1, <1>4, <2>2, SMT DEF read_as, e
<1>5. CASE d >= 128
  <2>1. d % 128 = d - 128 /\ (d - 128) + 0 * 2^8 + 0 * 2^16 + 0 * 2^24 = d - 128
    BY <1>5, SMT
  <2>2. ScriptNum(e) = 0 - (d - 128)
    BY <1>3, <1>5, <2>1, SMT DEF ScriptNum
  <2>3. read_as(d) = 128 * 1 - d
    BY <1>1, <1>5, SMT DEF read_as
  <2> QED  BY <2>2, <2>3, SMT DEF e
<1> QED  BY <1>2, <1>4, <1>5, SMT DEF e

LEMMA ReadsTwo ==
    ASSUME NEW d \in Nat, d >= 256, d < 65536
    PROVE  ScriptNum(push_minimal_uint(d)) = read_as(d)
<1> DEFINE e == push_minimal_uint(d)
           g == [i \in 1..2 |-> (d \div 256^(i - 1)) % 256]
           lo == d % 256
           hi == d \div 256
<1>1. lo \in 0..255 /\ hi \in 1..255 /\ d = lo + 256 * hi /\ hi % 256 = hi
  <2>1. lo \in 0..255 /\ hi \in 1..255 /\ d = lo + 256 * hi
    BY SMT
  <2>2. \A n \in 1..255 : n % 256 = n
    BY SMT
  <2> QED  BY <2>1, <2>2, SMT
<1>2. g[1] = lo /\ g[2] = hi
  <2>1. d \div 1 = d
    BY SMT
  <2> QED  BY <1>1, <2>1, Powers, SMT
<1>3. e # <<>> /\ Len(e) = 2 /\ \A i \in 1..2 : e[i][2] = g[i]
  <2>1. ~(d <= 16) /\ byte_count(d) = 2
    BY Powers, SMT DEF byte_count
  <2>2. \A i \in 1..2 : g[i] = (d \div 256^(i - 1)) % 256
    BY SMT
  <2>3. ~(d <= 16) => Bytes(d, e)
    BY Pushed, SMT
  <2> HIDE DEF e, g
  <2> QED  BY <2>1, <2>2, <2>3, SMT DEF Bytes
<1>4. top_unit(d) = 256 /\ top_byte(d) = hi
  BY Powers, SMT DEF top_unit, top_byte
<1> HIDE DEF e, g, lo, hi
<1>5. e # <<>> /\ Len(e) = 2 /\ e[1][2] = lo /\ e[2][2] = hi
  BY <1>2, <1>3, SMT
<1>6. ScriptNum(e) = IF hi >= 128 THEN 0 - (lo + (hi % 128) * 2^8 + 0 * 2^16 + 0 * 2^24)
                     ELSE lo + (hi % 128) * 2^8 + 0 * 2^16 + 0 * 2^24
  BY <1>5, SMT DEF ScriptNum
<1>7. hi % 128 = IF hi >= 128 THEN hi - 128 ELSE hi
  BY <1>1, SMT
<1>8. ScriptNum(e) = IF hi >= 128 THEN 0 - (d - 32768) ELSE d
  BY <1>1, <1>6, <1>7, Powers, SMT
<1> QED  BY <1>1, <1>4, <1>8, SMT DEF read_as, e

LEMMA ReadsThree ==
    ASSUME NEW d \in Nat, d >= 65536, d < 16777216
    PROVE  ScriptNum(push_minimal_uint(d)) = read_as(d)
<1> DEFINE e == push_minimal_uint(d)
           g == [i \in 1..3 |-> (d \div 256^(i - 1)) % 256]
           lo == d % 256
           mid == (d \div 256) % 256
           hi == d \div 65536
<1>1. /\ lo \in 0..255 /\ mid \in 0..255 /\ hi \in 1..255
      /\ d = lo + 256 * mid + 65536 * hi /\ hi % 256 = hi
  <2>1. hi \in 1..255
    BY SMT
  <2>2. \A n \in 1..255 : n % 256 = n
    BY SMT
  <2>3. lo \in 0..255 /\ mid \in 0..255 /\ d = lo + 256 * (mid + 256 * hi)
    BY Digits, SMT
  <2> HIDE DEF lo, mid, hi
  <2> QED  BY <2>1, <2>2, <2>3, SMT
<1>2. g[1] = lo /\ g[2] = mid /\ g[3] = hi
  <2>1. d \div 1 = d
    BY SMT
  <2> QED  BY <1>1, <2>1, Powers, SMT
<1>3. e # <<>> /\ Len(e) = 3 /\ \A i \in 1..3 : e[i][2] = g[i]
  <2>1. ~(d <= 16) /\ byte_count(d) = 3
    BY Powers, SMT DEF byte_count
  <2>2. \A i \in 1..3 : g[i] = (d \div 256^(i - 1)) % 256
    BY SMT
  <2>3. ~(d <= 16) => Bytes(d, e)
    BY Pushed, SMT
  <2> HIDE DEF e, g
  <2> QED  BY <2>1, <2>2, <2>3, SMT DEF Bytes
<1>4. top_unit(d) = 65536 /\ top_byte(d) = hi
  BY Powers, SMT DEF top_unit, top_byte
<1> HIDE DEF e, g, lo, mid, hi
<1>5. e # <<>> /\ Len(e) = 3 /\ e[1][2] = lo /\ e[2][2] = mid /\ e[3][2] = hi
  BY <1>2, <1>3, SMT
<1>6. ScriptNum(e) = IF hi >= 128 THEN 0 - (lo + mid * 2^8 + (hi % 128) * 2^16 + 0 * 2^24)
                     ELSE lo + mid * 2^8 + (hi % 128) * 2^16 + 0 * 2^24
  BY <1>5, SMT DEF ScriptNum
<1>7. hi % 128 = IF hi >= 128 THEN hi - 128 ELSE hi
  BY <1>1, SMT
<1>8. ScriptNum(e) = IF hi >= 128 THEN 0 - (d - 8388608) ELSE d
  BY <1>1, <1>6, <1>7, Powers, SMT
<1> QED  BY <1>1, <1>4, <1>8, SMT DEF read_as, e

LEMMA ReadsFour ==
    ASSUME NEW d \in Nat, d >= 16777216, d < 4294967296
    PROVE  ScriptNum(push_minimal_uint(d)) = read_as(d)
<1> DEFINE e == push_minimal_uint(d)
           g == [i \in 1..4 |-> (d \div 256^(i - 1)) % 256]
           b1 == d % 256
           b2 == (d \div 256) % 256
           b3 == (d \div 65536) % 256
           hi == d \div 16777216
<1>1. /\ b1 \in 0..255 /\ b2 \in 0..255 /\ b3 \in 0..255 /\ hi \in 1..255
      /\ d = b1 + 256 * b2 + 65536 * b3 + 16777216 * hi /\ hi % 256 = hi
  <2>1. hi \in 1..255
    BY SMT
  <2>2. \A n \in 1..255 : n % 256 = n
    BY SMT
  <2>3. /\ b1 \in 0..255 /\ b2 \in 0..255 /\ b3 \in 0..255
        /\ d = b1 + 256 * (b2 + 256 * (b3 + 256 * hi))
    BY Digits, SMT
  <2> HIDE DEF b1, b2, b3, hi
  <2> QED  BY <2>1, <2>2, <2>3, SMT
<1>2. g[1] = b1 /\ g[2] = b2 /\ g[3] = b3 /\ g[4] = hi
  <2>1. d \div 1 = d
    BY SMT
  <2> QED  BY <1>1, <2>1, Powers, SMT
<1>3. e # <<>> /\ Len(e) = 4 /\ \A i \in 1..4 : e[i][2] = g[i]
  <2>1. ~(d <= 16) /\ byte_count(d) = 4
    BY Powers, SMT DEF byte_count
  <2>2. \A i \in 1..4 : g[i] = (d \div 256^(i - 1)) % 256
    BY SMT
  <2>3. ~(d <= 16) => Bytes(d, e)
    BY Pushed, SMT
  <2> HIDE DEF e, g
  <2> QED  BY <2>1, <2>2, <2>3, SMT DEF Bytes
<1>4. top_unit(d) = 16777216 /\ top_byte(d) = hi
  BY Powers, SMT DEF top_unit, top_byte
<1> HIDE DEF e, g, b1, b2, b3, hi
<1>5. e # <<>> /\ Len(e) = 4 /\ e[1][2] = b1 /\ e[2][2] = b2 /\ e[3][2] = b3 /\ e[4][2] = hi
  BY <1>2, <1>3, SMT
<1>6. ScriptNum(e) = IF hi >= 128 THEN 0 - (b1 + b2 * 2^8 + b3 * 2^16 + (hi % 128) * 2^24)
                     ELSE b1 + b2 * 2^8 + b3 * 2^16 + (hi % 128) * 2^24
  BY <1>5, SMT DEF ScriptNum
<1>7. hi % 128 = IF hi >= 128 THEN hi - 128 ELSE hi
  BY <1>1, SMT
<1>8. ScriptNum(e) = IF hi >= 128 THEN 0 - (d - 2147483648) ELSE d
  BY <1>1, <1>6, <1>7, Powers, SMT
<1> QED  BY <1>1, <1>4, <1>8, SMT DEF read_as, e

LEMMA U32Range ==
    ASSUME NEW d \in U32
    PROVE  d \in Nat /\ d < 4294967296
<1>1. d \in Nat /\ d \div 65536 < 65536
  BY Powers, SMT DEF U32
<1> QED  BY <1>1, SMT

LEMMA ReadsDelay ==
    ASSUME NEW d \in U32
    PROVE  ScriptNum(push_minimal_uint(d)) = read_as(d)
BY U32Range, ReadsSmall, ReadsTwo, ReadsThree, ReadsFour, SMT

\* The top byte of a u32 is one, and the rest is below its unit.
LEMMA TopByte ==
    ASSUME NEW d \in U32
    PROVE  /\ top_unit(d) \in {1, 256, 65536, 16777216} /\ top_byte(d) \in 0..255
           /\ d % top_unit(d) \in Nat
           /\ d = top_unit(d) * top_byte(d) + (d % top_unit(d))
<1>1. d \in Nat /\ d < 4294967296
  BY U32Range, SMT
<1>2. CASE d < 256
  BY <1>1, <1>2, Powers, SMT DEF top_unit, top_byte
<1>3. CASE d >= 256 /\ d < 65536
  BY <1>1, <1>3, Powers, SMT DEF top_unit, top_byte
<1>4. CASE d >= 65536 /\ d < 16777216
  BY <1>1, <1>4, Powers, SMT DEF top_unit, top_byte
<1>5. CASE d >= 16777216
  BY <1>1, <1>5, Powers, SMT DEF top_unit, top_byte
<1> QED  BY <1>1, <1>2, <1>3, <1>4, <1>5, SMT

\* OP_CHECKSEQUENCEVERIFY passes exactly when the delay is due.
LEMMA ReachedIs ==
    ASSUME NEW d \in U32, NEW q \in Nat
    PROVE  SequenceReached(read_as(d), q) <=> due(d, q)
<1> DEFINE u == top_unit(d)
           t == top_byte(d)
           m == d % u
<1>1. d \in Nat
  BY U32Range, SMT
<1>2. u \in {1, 256, 65536, 16777216} /\ t \in 0..255 /\ m \in Nat /\ d = u * t + m
  BY TopByte, SMT
<1>3. read_as(d) = IF t < 128 THEN d ELSE 128 * u - d
  BY SMT DEF read_as
<1>4. due(d, q) <=> IF t >= 128 THEN t = 128 /\ m = 0
                    ELSE (d \div 2^22) % 2 = 0 /\ d % 2^16 <= q
  BY SMT DEF due
<1> HIDE DEF u, t, m
<1>5. CASE t < 128
  <2>1. read_as(d) = d /\ d >= 0
    BY <1>1, <1>3, <1>5, SMT
  <2>2. ~(t >= 128)
    BY <1>2, <1>5, SMT
  <2> QED  BY <1>4, <2>1, <2>2, SMT DEF SequenceReached
<1>6. CASE t >= 128
  <2>1. read_as(d) = 128 * u - d
    BY <1>2, <1>3, <1>6, SMT
  <2>2. 128 * u - d \in Int /\ (128 * u - d >= 0 <=> t = 128 /\ m = 0)
        /\ (128 * u - d >= 0 => 128 * u - d = 0)
    <3>1. CASE u = 1
      BY <1>2, <1>6, <3>1, SMT
    <3>2. CASE u = 256
      BY <1>2, <1>6, <3>2, SMT
    <3>3. CASE u = 65536
      BY <1>2, <1>6, <3>3, SMT
    <3>4. CASE u = 16777216
      BY <1>2, <1>6, <3>4, SMT
    <3> QED  BY <1>2, <3>1, <3>2, <3>3, <3>4, SMT
  <2>3. (0 \div 2^22) % 2 = 0 /\ 0 % 2^16 = 0
    BY Powers, SMT
  <2>4. CASE t = 128 /\ m = 0
    <3>1. read_as(d) = 0
      BY <2>1, <2>2, <2>4, SMT
    <3>2. SequenceReached(0, q)
      BY <2>3, SMT DEF SequenceReached
    <3> QED  BY <1>4, <1>6, <2>4, <3>1, <3>2, SMT
  <2>5. CASE ~(t = 128 /\ m = 0)
    <3>1. ~ SequenceReached(read_as(d), q)
      BY <2>1, <2>2, <2>5, SMT DEF SequenceReached
    <3> QED  BY <1>4, <1>6, <2>5, <3>1, SMT
  <2> QED  BY <2>4, <2>5, SMT
<1> QED  BY <1>2, <1>5, <1>6, SMT

\* A delay that may not open its leaf early is the one configured or is
\* never reached.
LEMMA NotEarly ==
    ASSUME NEW d \in U32, d \in NeverEarly, NEW q \in Nat, q < d
    PROVE  ~ due(d, q)
<1>1. d \in Nat /\ d < 65536 /\ d # 128 /\ d # 32768
  BY U32Range, Powers, SMT DEF NeverEarly
<1>2. d % 65536 = d
  BY <1>1, SMT
<1>3. CASE d < 256
  <2>1. top_unit(d) = 1 /\ top_byte(d) = d
    BY <1>1, <1>3, SMT DEF top_unit, top_byte
  <2> QED  BY <1>1, <1>2, <2>1, Powers, SMT DEF due
<1>4. CASE d >= 256
  <2>1. top_unit(d) = 256 /\ top_byte(d) = d \div 256
    BY <1>1, <1>4, Powers, SMT DEF top_unit, top_byte
  <2>2. d \div 256 = 128 /\ d % 256 = 0 => d = 32768
    BY <1>1, SMT
  <2> QED  BY <1>1, <1>2, <2>1, <2>2, Powers, SMT DEF due
<1> QED  BY <1>1, <1>3, <1>4, SMT

\* No opcode runs again once one has failed.
LEMMA StaysFailed ==
    ASSUME NEW F, NEW script, NEW witness, NEW r, NEW q, NEW D \in Nat,
           Runs(F, script, witness, r, q, D), NEW k \in 1..D, Failed(F[k])
    PROVE  Failed(Run(script, witness, r, q))
<1> DEFINE Bad == {i \in k..D : ~ Failed(F[i])}
<1>1. Bad = {}
  <2> SUFFICES ASSUME Bad # {} PROVE FALSE
    OBVIOUS
  <2>1. PICK m \in Bad : \A y \in Bad : m <= y
    <3>1. Bad \in SUBSET Nat
      OBVIOUS
    <3> HIDE DEF Bad
    <3> QED  BY <3>1, LeastOf
  <2>2. m # k /\ m \in k..D /\ ~ Failed(F[m])
    BY <2>1
  <2>3. m - 1 \in k..D /\ ~(m <= m - 1) /\ m \in 1..D
    BY <2>2
  <2>4. Failed(F[m - 1])
    BY <2>1, <2>3
  <2>5. F[m] = Step(F[m - 1], script[m], r, q)
    BY <2>3 DEF Runs
  <2>6. "ok" \in DOMAIN F[m - 1] /\ ~ F[m - 1].ok
    BY <2>4 DEF Failed
  <2>7. Failed(F[m])
    BY <2>5, <2>6, StepFails
  <2> QED  BY <2>2, <2>7
<1>2. D \in k..D
  OBVIOUS
<1>3. Failed(F[D])
  BY <1>1, <1>2
<1> QED  BY <1>3 DEF Runs

LEMMA MachineHasOk ==
    ASSUME NEW b, NEW s PROVE "ok" \in DOMAIN M(b, s)
BY DEF M

LEMMA StepPushOne ==
    ASSUME NEW e, NEW r, NEW q
    PROVE  Step(M(TRUE, <<>>), Push(e), r, q) = M(TRUE, <<e>>)
<1> DEFINE s == <<>>
           t == <<e>>
<1>1. Len(s) \in Nat /\ Append(s, e) = t
  BY StackOne
<1> HIDE DEF s, t
<1>2. Step(M(TRUE, s), Push(e), r, q) = M(TRUE, Append(s, e))
  BY <1>1, StepPush
<1> QED  BY <1>1, <1>2 DEF s, t

LEMMA StepPushTwo ==
    ASSUME NEW x, NEW e, NEW r, NEW q
    PROVE  Step(M(TRUE, <<x>>), Push(e), r, q) = M(TRUE, <<x, e>>)
<1> DEFINE s == <<x>>
           t == <<x, e>>
<1>1. Len(s) \in Nat /\ Append(s, e) = t
  BY StackTwo
<1> HIDE DEF s, t
<1>2. Step(M(TRUE, s), Push(e), r, q) = M(TRUE, Append(s, e))
  BY <1>1, StepPush
<1> QED  BY <1>1, <1>2 DEF s, t

LEMMA DelayedOps ==
    ASSUME NEW d, NEW who
    PROVE  /\ DOMAIN delayed(d, who) = 1..5
           /\ delayed(d, who)[1] = Push(push_minimal_uint(d))
           /\ delayed(d, who)[2] = Op("CSV")
           /\ delayed(d, who)[3] = Op("DROP")
           /\ delayed(d, who)[4] = Push(KeyOf(who))
           /\ delayed(d, who)[5] = Op("CHECKSIG")
<1> DEFINE script == delayed(d, who)
           a == Push(push_minimal_uint(d))
           b == Op("CSV")
           c == Op("DROP")
           e == Push(KeyOf(who))
           f == Op("CHECKSIG")
<1>1. script = <<a, b, c, e, f>>
  BY DEF delayed
<1> HIDE DEF script, a, b, c, e, f
<1>2. /\ DOMAIN script = 1..5 /\ script[1] = a /\ script[2] = b /\ script[3] = c
      /\ script[4] = e /\ script[5] = f
  BY <1>1
<1> QED  BY <1>2 DEF script, a, b, c, e, f

\* The states of a script of five opcodes.
Five(F, script, witness, r, q) ==
    /\ Runs(F, script, witness, r, q, 5)
    /\ F[0] = M(TRUE, witness)
    /\ F[1] = Step(F[0], script[1], r, q)
    /\ F[2] = Step(F[1], script[2], r, q)
    /\ F[3] = Step(F[2], script[3], r, q)
    /\ F[4] = Step(F[3], script[4], r, q)
    /\ F[5] = Step(F[4], script[5], r, q)
    /\ Run(script, witness, r, q) = F[5]

LEMMA FiveSteps ==
    ASSUME NEW script, NEW witness, NEW r, NEW q, DOMAIN script = 1..5
    PROVE  \E F : Five(F, script, witness, r, q)
<1>1. PICK F : Runs(F, script, witness, r, q, 5)
  BY RunStates
<1>2. /\ F[0] = M(TRUE, witness)
      /\ \A i \in 1..5 : F[i] = Step(F[i - 1], script[i], r, q)
      /\ Run(script, witness, r, q) = F[5]
  BY <1>1 DEF Runs
<1>3. /\ 1 \in 1..5 /\ 2 \in 1..5 /\ 3 \in 1..5 /\ 4 \in 1..5 /\ 5 \in 1..5
      /\ 1 - 1 = 0 /\ 2 - 1 = 1 /\ 3 - 1 = 2 /\ 4 - 1 = 3 /\ 5 - 1 = 4
  OBVIOUS
<1>4. /\ F[1] = Step(F[0], script[1], r, q) /\ F[2] = Step(F[1], script[2], r, q)
      /\ F[3] = Step(F[2], script[3], r, q) /\ F[4] = Step(F[3], script[4], r, q)
      /\ F[5] = Step(F[4], script[5], r, q)
  BY <1>2, <1>3
<1> QED  BY <1>1, <1>2, <1>4 DEF Five

LEMMA DelayedHasNoCat ==
    ASSUME NEW d, NEW who
    PROVE  ~ \E i \in DOMAIN delayed(d, who) : delayed(d, who)[i].op = "CAT"
<1> DEFINE script == delayed(d, who)
           a == Push(push_minimal_uint(d))
           b == Op("CSV")
           c == Op("DROP")
           e == Push(KeyOf(who))
           f == Op("CHECKSIG")
<1>1. script = <<a, b, c, e, f>>
  BY DEF delayed
<1>2. a.op # "CAT" /\ b.op # "CAT" /\ c.op # "CAT" /\ e.op # "CAT" /\ f.op # "CAT"
  BY DEF Push, Op
<1> HIDE DEF script, a, b, c, e, f
<1>3. \A i \in DOMAIN script : script[i].op # "CAT"
  BY <1>1, <1>2
<1> QED  BY <1>3 DEF script

\* A delayed leaf opens for its owner when its delay is due.
LEMMA DelayedOpens ==
    ASSUME NEW d \in U32, NEW who, NEW r, NEW q \in Nat,
           r.csv = TRUE, r.taproot = TRUE
    PROVE  Opens(delayed(d, who), <<Signature(who, TxSighash)>>, r, q) <=> due(d, q)
<1> DEFINE sig == Signature(who, TxSighash)
           n == push_minimal_uint(d)
           key == KeyOf(who)
           script == delayed(d, who)
<1>1. Opens(script, <<sig>>, r, q) <=>
         LET final == Run(script, <<sig>>, r, q)
         IN  final.ok /\ Len(final.stack) = 1 /\ final.stack[1] # False
  BY DelayedHasNoCat DEF Opens
<1> DEFINE w == <<sig>>
<1>2. /\ DOMAIN script = 1..5 /\ script[1] = Push(n) /\ script[2] = Op("CSV")
      /\ script[3] = Op("DROP") /\ script[4] = Push(key) /\ script[5] = Op("CHECKSIG")
  BY DelayedOps
<1> HIDE DEF script, w
<1>3. PICK F : Five(F, script, w, r, q)
  BY <1>2, FiveSteps
<1>4. /\ Runs(F, script, <<sig>>, r, q, 5)
      /\ F[0] = M(TRUE, <<sig>>)
      /\ F[1] = Step(F[0], Push(n), r, q)
      /\ F[2] = Step(F[1], Op("CSV"), r, q)
      /\ F[3] = Step(F[2], Op("DROP"), r, q)
      /\ F[4] = Step(F[3], Push(key), r, q)
      /\ F[5] = Step(F[4], Op("CHECKSIG"), r, q)
      /\ Run(script, <<sig>>, r, q) = F[5]
  BY <1>2, <1>3 DEF w, Five
<1>5. SequenceReached(ScriptNum(n), q) <=> due(d, q)
  BY ReadsDelay, ReachedIs
<1>6. Step(M(TRUE, <<sig, key>>), Op("CHECKSIG"), r, q) = M(TRUE, <<True>>)
  BY StepSig
<1> HIDE DEF script, n, sig, key
<1>7. F[1] = M(TRUE, <<sig, n>>)
  BY <1>4, StepPushTwo, Zenon
<1>8. Len(<<sig, n>>) \in Nat \ {0} /\ Top(<<sig, n>>, 0) = n /\ Pop(<<sig, n>>, 1) = <<sig>>
  <2>1. Len(<<sig, n>>) = 2 /\ Top(<<sig, n>>, 0) = n /\ Pop(<<sig, n>>, 1) = <<sig>>
    BY StackTwo, Zenon
  <2> QED  BY <2>1
<1>9. ASSUME ~ due(d, q) PROVE ~ Opens(script, <<sig>>, r, q)
  <2>1. Failed(F[2])
    BY <1>4, <1>5, <1>7, <1>8, <1>9, StepCsv
  <2>2. 2 \in 1..5 /\ 5 \in Nat
    OBVIOUS
  <2>3. Failed(Run(script, <<sig>>, r, q))
    BY <1>4, <2>1, <2>2, StaysFailed
  <2> QED  BY <1>1, <2>3 DEF Failed
<1>10. ASSUME due(d, q) PROVE Opens(script, <<sig>>, r, q)
  <2>1. F[2] = M(TRUE, <<sig, n>>)
    BY <1>4, <1>5, <1>7, <1>8, <1>10, StepCsv
  <2>2. F[3] = M(TRUE, <<sig>>)
    BY <1>4, <1>8, <2>1, StepDrop
  <2>3. F[4] = M(TRUE, <<sig, key>>)
    BY <1>4, <2>2, StepPushTwo, Zenon
  <2>4. F[5] = M(TRUE, <<True>>)
    BY <1>4, <1>6, <2>3
  <2>5. /\ F[5].ok = TRUE /\ F[5].stack = <<True>>
    <3> DEFINE t == <<True>>
    <3> HIDE DEF t
    <3>1. F[5] = M(TRUE, t)
      BY <2>4 DEF t
    <3>2. M(TRUE, t).ok = TRUE
      BY DEF M
    <3>3. M(TRUE, t).stack = t
      BY DEF M
    <3> QED  BY <3>1, <3>2, <3>3 DEF t
  <2>6. Len(<<True>>) = 1 /\ <<True>>[1] # False
    BY DEF True, False
  <2> QED  BY <1>1, <1>4, <2>5, <2>6
<1> QED  BY <1>9, <1>10 DEF script, sig

\* A leaf with a delay does not open without a signature.
LEMMA DelayedShut ==
    ASSUME NEW d, NEW who, NEW r, NEW q, r.csv = TRUE, r.taproot = TRUE
    PROVE  ~ Opens(delayed(d, who), <<>>, r, q)
<1> DEFINE n == push_minimal_uint(d)
           key == KeyOf(who)
           script == delayed(d, who)
           w == <<>>
<1>1. Opens(script, w, r, q) => Run(script, w, r, q).ok
  BY DelayedHasNoCat DEF Opens
<1>2. /\ DOMAIN script = 1..5 /\ script[1] = Push(n) /\ script[2] = Op("CSV")
      /\ script[3] = Op("DROP") /\ script[4] = Push(key) /\ script[5] = Op("CHECKSIG")
  BY DelayedOps
<1> HIDE DEF script, w, n, key
<1>3. PICK F : Five(F, script, w, r, q)
  BY <1>2, FiveSteps
<1>4. /\ Runs(F, script, w, r, q, 5)
      /\ F[0] = M(TRUE, <<>>)
      /\ F[1] = Step(F[0], Push(n), r, q)
      /\ F[2] = Step(F[1], Op("CSV"), r, q)
      /\ F[3] = Step(F[2], Op("DROP"), r, q)
      /\ F[4] = Step(F[3], Push(key), r, q)
      /\ F[5] = Step(F[4], Op("CHECKSIG"), r, q)
  BY <1>2, <1>3 DEF w, Five
<1>5. F[1] = M(TRUE, <<n>>)
  BY <1>4, StepPushOne, Zenon
<1>6. Len(<<n>>) \in Nat \ {0} /\ Pop(<<n>>, 1) = <<>>
  BY StackOne
<1>7. F[2] = M(TRUE, <<n>>) \/ Failed(F[2])
  <2> DEFINE t == <<n>>
             o == Op("CSV")
  <2> HIDE DEF t, o
  <2>1. Len(t) \in Nat \ {0} /\ F[2] = Step(M(TRUE, t), o, r, q)
    BY <1>4, <1>5, <1>6 DEF t, o
  <2>2. Step(M(TRUE, t), o, r, q) = M(TRUE, t) \/ Failed(Step(M(TRUE, t), o, r, q))
    BY <2>1, StepCsv DEF o
  <2>3. F[2] = M(TRUE, t) \/ Failed(F[2])
    BY <2>1, <2>2
  <2> QED  BY <2>3 DEF t
<1>8. CASE Failed(F[2])
  <2>1. 2 \in 1..5 /\ 5 \in Nat
    OBVIOUS
  <2>2. Failed(Run(script, w, r, q))
    BY <1>4, <1>8, <2>1, StaysFailed
  <2>3. ~ Opens(script, w, r, q)
    BY <1>1, <2>2 DEF Failed
  <2> QED  BY <2>3 DEF script, w
<1>9. CASE F[2] = M(TRUE, <<n>>)
  <2>1. F[3] = M(TRUE, <<>>)
    BY <1>4, <1>6, <1>9, StepDrop
  <2>2. F[4] = M(TRUE, <<key>>)
    BY <1>4, <2>1, StepPushOne, Zenon
  <2>3. Failed(F[5])
    <3> DEFINE t == <<key>>
               m == M(TRUE, t)
               o == Op("CHECKSIG")
    <3>1. Len(t) = 1
      OBVIOUS
    <3>2. Arity[o.op] = 2
      BY DEF Op, Arity
    <3> HIDE DEF t
    <3>3. "ok" \in DOMAIN m /\ m.stack = t
      BY Fields, MachineHasOk
    <3> HIDE DEF m, o
    <3>4. Len(m.stack) = 1
      BY <3>1, <3>3, Zenon
    <3>5. Len(m.stack) < Arity[o.op]
      BY <3>2, <3>4
    <3>6. Failed(Step(m, o, r, q))
      BY <3>3, <3>5, StepFails
    <3> QED  BY <1>4, <2>2, <3>6 DEF m, o, t
  <2>4. 5 \in 1..5 /\ 5 \in Nat
    OBVIOUS
  <2>5. Failed(Run(script, w, r, q))
    BY <1>4, <2>3, <2>4, StaysFailed
  <2>6. ~ Opens(script, w, r, q)
    BY <1>1, <2>5 DEF Failed
  <2> QED  BY <2>6 DEF script, w
<1> QED  BY <1>7, <1>8, <1>9

LEMMA Joined ==
    ASSUME NEW S, NEW p \in Seq(S), NEW s \in Seq(S), Len(p) > 0
    PROVE  p \o s \in Seq(S) /\ Len(p \o s) = Len(p) + Len(s) /\ (p \o s)[1] = p[1]
<1>1. p \o s \in Seq(S) /\ Len(p \o s) = Len(p) + Len(s)
  OBVIOUS
<1>2. 1 \in 1..(Len(p) + Len(s)) /\ 1 <= Len(p)
  OBVIOUS
<1> QED  BY <1>1, <1>2

\* The covenant starts with an opcode that an empty stack fails.
LEMMA CovenantStarts ==
    \E D \in Nat \ {0} : /\ DOMAIN build_equivocation_covenant = 1..D
                         /\ build_equivocation_covenant[1] = Op("TOALTSTACK")
<1> DEFINE a == repeat("TOALTSTACK", 12)
           c == covenant_phase
           e == <<Op("FROMALTSTACK"), Op("FROMALTSTACK"), Op("EQUAL"), Op("NOT"), Op("VERIFY")>>
           S == {a[i] : i \in DOMAIN a} \cup {c[i] : i \in DOMAIN c} \cup {e[i] : i \in DOMAIN e}
<1>1. DOMAIN a = 1..12 /\ a[1] = Op("TOALTSTACK") /\ a = [i \in 1..12 |-> a[i]]
  BY DEF repeat
<1>2. DOMAIN c = 1..14 /\ c = [i \in 1..14 |-> c[i]]
  BY DEF covenant_phase
<1>3. DOMAIN e = 1..5 /\ e = [i \in 1..5 |-> e[i]]
  OBVIOUS
<1>4. build_equivocation_covenant = a \o c \o c \o e
  BY DEF build_equivocation_covenant
<1> HIDE DEF a, c, e
<1>5. (\A i \in 1..12 : a[i] \in S) /\ (\A i \in 1..14 : c[i] \in S) /\ (\A i \in 1..5 : e[i] \in S)
  BY <1>1, <1>2, <1>3
<1> HIDE DEF S
<1>6. a \in Seq(S) /\ Len(a) = 12
  BY <1>1, <1>5
<1>7. c \in Seq(S) /\ Len(c) = 14
  BY <1>2, <1>5
<1>8. e \in Seq(S) /\ Len(e) = 5
  BY <1>3, <1>5
<1>9. PICK x : x = a \o c
  OBVIOUS
<1>10. x \in Seq(S) /\ Len(x) = 26 /\ x[1] = a[1]
  <2>1. Len(a) > 0 /\ a \in Seq(S) /\ c \in Seq(S)
    BY <1>6, <1>7
  <2>2. x \in Seq(S) /\ Len(x) = Len(a) + Len(c) /\ x[1] = a[1]
    BY <1>9, <2>1, Joined, Zenon
  <2> QED  BY <1>6, <1>7, <2>2
<1>11. PICK y : y = x \o c
  OBVIOUS
<1>12. y \in Seq(S) /\ Len(y) = 40 /\ y[1] = x[1]
  <2>1. Len(x) > 0 /\ x \in Seq(S) /\ c \in Seq(S)
    BY <1>10, <1>7
  <2>2. y \in Seq(S) /\ Len(y) = Len(x) + Len(c) /\ y[1] = x[1]
    BY <1>11, <2>1, Joined, Zenon
  <2> QED  BY <1>10, <1>7, <2>2
<1>13. PICK z : z = y \o e
  OBVIOUS
<1>14. z \in Seq(S) /\ Len(z) = 45 /\ z[1] = y[1]
  <2>1. Len(y) > 0 /\ y \in Seq(S) /\ e \in Seq(S)
    BY <1>12, <1>8
  <2>2. z \in Seq(S) /\ Len(z) = Len(y) + Len(e) /\ z[1] = y[1]
    BY <1>13, <2>1, Joined, Zenon
  <2> QED  BY <1>12, <1>8, <2>2
<1>15. DOMAIN z = 1..45
  BY <1>14
<1>16. z[1] = Op("TOALTSTACK")
  BY <1>1, <1>10, <1>12, <1>14
<1>17. build_equivocation_covenant = z
  BY <1>4, <1>9, <1>11, <1>13
<1>18. 45 \in Nat \ {0}
  OBVIOUS
<1> QED  BY <1>15, <1>17, <1>16, <1>18

LEMMA CovenantShut ==
    ASSUME NEW r, NEW q, r.taproot = TRUE, r.opcodes = TRUE
    PROVE  ~ Opens(build_equivocation_covenant, <<>>, r, q)
<1> DEFINE script == build_equivocation_covenant
           w == <<>>
           o == Op("TOALTSTACK")
<1>1. Opens(script, w, r, q) => Run(script, w, r, q).ok
  BY DEF Opens
<1>2. PICK D \in Nat \ {0} : DOMAIN script = 1..D /\ script[1] = o
  BY CovenantStarts
<1>3. Len(w) = 0
  OBVIOUS
<1>4. Arity[o.op] = 1
  BY DEF Op, Arity
<1> HIDE DEF script, w, o
<1>5. PICK F : Runs(F, script, w, r, q, D)
  BY <1>2, RunStates
<1> DEFINE m == M(TRUE, w)
<1>6. "ok" \in DOMAIN m /\ m.stack = w
  BY Fields, MachineHasOk
<1>7. F[1] = Step(F[0], script[1], r, q) /\ F[0] = m
  <2>1. 1 \in 1..D /\ 1 - 1 = 0
    OBVIOUS
  <2> QED  BY <1>5, <2>1 DEF Runs
<1> HIDE DEF m
<1>8. Failed(F[1])
  BY <1>2, <1>3, <1>4, <1>6, <1>7, StepFails
<1>9. 1 \in 1..D /\ D \in Nat
  OBVIOUS
<1>10. Failed(Run(script, w, r, q))
  BY <1>5, <1>8, <1>9, StaysFailed
<1>11. ~ Opens(script, w, r, q)
  BY <1>1, <1>10 DEF Failed
<1> QED  BY <1>11 DEF script, w

-----------------------------------------------------------------------------
(* Delays and the startup check.                                           *)

\* The output of a locked coin is of the tree of its place, the delays of the
\* configuration are u32, and a node with bonding enabled is on a chain that
\* has passed the three forks.
Locked ==
    /\ config.unbond_delay \in U32 /\ config.claim_delay \in U32
    /\ coin.at = "vault" => coin.output = p2tr_output_script
    /\ coin.at = "claim" => coin.output = challenge_tree_p2tr_script
    /\ node = "bonding" =>
          height >= CsvHeight /\ height >= TaprootHeight /\ height >= OpcodeHeight

LEMMA RulesAre ==
    /\ rules.csv = (height >= CsvHeight)
    /\ rules.taproot = (height >= TaprootHeight)
    /\ rules.opcodes = (height >= OpcodeHeight)
    /\ rules["csv"] = (height >= CsvHeight)
    /\ rules["taproot"] = (height >= TaprootHeight)
    /\ rules["opcodes"] = (height >= OpcodeHeight)
<1>1. rules.csv = (height >= CsvHeight) /\ rules["csv"] = (height >= CsvHeight)
  BY DEF rules
<1>2. rules.taproot = (height >= TaprootHeight) /\ rules["taproot"] = (height >= TaprootHeight)
  BY DEF rules
<1>3. rules.opcodes = (height >= OpcodeHeight) /\ rules["opcodes"] = (height >= OpcodeHeight)
  BY DEF rules
<1> QED  BY <1>1, <1>2, <1>3

LEMMA LockedInit ==
    ASSUME Init PROVE Locked
<1>1. PICK d \in Delays : config.unbond_delay = d[1] /\ config.claim_delay = d[2]
  BY DEF Init
<1>2. d[1] \in U32 /\ d[2] \in U32
  BY VaultAssumption
<1>3. coin.at = "wallet" /\ node = "down"
  BY DEF Init
<1> QED  BY <1>1, <1>2, <1>3 DEF Locked

\* The scripts depend on the configuration alone.
LEMMA SameScripts ==
    ASSUME config' = config
    PROVE  p2tr_output_script' = p2tr_output_script
           /\ challenge_tree_p2tr_script' = challenge_tree_p2tr_script
<1>1. build_operator_unbond_leaf' = build_operator_unbond_leaf
  BY DEF build_operator_unbond_leaf
<1>2. build_vault_script_tree' = build_vault_script_tree
  BY <1>1 DEF build_vault_script_tree
<1>3. claim_leaf' = claim_leaf
  BY DEF claim_leaf
<1>4. build_challenge_claim_script_tree' = build_challenge_claim_script_tree
  BY <1>3 DEF build_challenge_claim_script_tree
<1> QED  BY <1>2, <1>4 DEF p2tr_output_script, challenge_tree_p2tr_script

\* The startup check passes only where the three forks are active, whichever
\* part of the reply said so.
LEMMA CheckedForks ==
    ASSUME VaultInv, NEW reply, assert_chain_supports_bonding(query_softfork_status(reply))
    PROVE  height >= CsvHeight /\ height >= TaprootHeight /\ height >= OpcodeHeight
<1> DEFINE c == listed(reply, "csv")
           t == listed(reply, "taproot")
           k == listed(reply, "opcodes") \/ (~ reply.wrapped /\ reply.blocks /\ height >= KnownHeight)
<1>1. query_softfork_status(reply) =
        [csv_active |-> c, taproot_active |-> t, disabled_opcodes_active |-> k]
  BY DEF query_softfork_status
<1>2. (c => rules["csv"]) /\ (t => rules["taproot"])
      /\ (k => rules["opcodes"] \/ height >= KnownHeight)
  BY DEF listed
<1> HIDE DEF c, t, k
<1>3. c /\ t /\ k
  BY <1>1 DEF assert_chain_supports_bonding
<1>4. height >= CsvHeight /\ height >= TaprootHeight
      /\ (height >= OpcodeHeight \/ height >= KnownHeight)
  BY <1>2, <1>3, RulesAre
<1>5. height \in Nat /\ OpcodeHeight \in Nat /\ KnownHeight \in Nat /\ OpcodeHeight <= KnownHeight
  <2>1. height \in 0..MaxHeight /\ MaxHeight \in Nat
    BY VaultAssumption DEF VaultInv, ChallengeJustified, VaultTypeOK
  <2>2. OpcodeHeight \in 0..MaxHeight /\ KnownHeight \in 0..MaxHeight /\ OpcodeHeight <= KnownHeight
    BY VaultAssumption
  <2> QED  BY <2>1, <2>2
<1> QED  BY <1>4, <1>5

LEMMA LockedStep ==
    ASSUME VaultInv, Locked, [Next]_vault_vars PROVE Locked'
<1>1. /\ height \in 0..MaxHeight /\ MaxHeight \in Nat
      /\ coin.at \in {"wallet", "vault", "claim", "operator", "challenger"}
      /\ coin = [at |-> coin.at, output |-> coin.output, age |-> coin.age, amount |-> coin.amount,
                 fee |-> coin.fee, evidence |-> coin.evidence, accused |-> coin.accused]
  BY VaultAssumption DEF VaultInv, ChallengeJustified, VaultTypeOK, Unchallenged
<1>2. ASSUME config' = config, height' = height, node' = node \/ node' # "bonding",
             coin'.at = "vault" => coin'.output = p2tr_output_script,
             coin'.at = "claim" => coin'.output = challenge_tree_p2tr_script
      PROVE  Locked'
  BY <1>2, SameScripts DEF Locked
<1>3. CASE UNCHANGED vault_vars
  BY <1>2, <1>3 DEF vault_vars, Locked
<1>4. CASE start_watching \/ stop
  BY <1>2, <1>4 DEF start_watching, stop, Locked
<1>5. ASSUME NEW reply \in ChainInfo, start_bonding(reply) PROVE Locked'
  <2>1. /\ UNCHANGED <<height, config, signed, coin>>
        /\ node' = "bonding" => assert_chain_supports_bonding(query_softfork_status(reply))
    BY <1>5 DEF start_bonding
  <2>2. node' = "bonding" =>
           height >= CsvHeight /\ height >= TaprootHeight /\ height >= OpcodeHeight
    BY <2>1, CheckedForks
  <2> QED  BY <2>1, <2>2, SameScripts DEF Locked
<1>6. ASSUME NEW a \in Attestation, attest(a) PROVE Locked'
  BY <1>2, <1>6 DEF attest, Locked
<1>7. CASE fund_vault
  <2>1. UNCHANGED <<height, node, config>> /\ coin'.at = "vault" /\ coin'.output = p2tr_output_script
    BY <1>1, <1>7 DEF fund_vault
  <2> QED  BY <1>2, <2>1
<1>8. ASSUME NEW v, NEW a, NEW b, NEW fee, submit_challenge(v, a, b, fee) PROVE Locked'
  <2>1. UNCHANGED <<height, node, config>> /\ coin' = serialize_challenge_tx(v, a, b, fee)
    BY <1>8 DEF submit_challenge
  <2>2. coin'.at = "claim" /\ coin'.output = challenge_tree_p2tr_script
    BY <2>1 DEF serialize_challenge_tx
  <2> QED  BY <1>2, <2>1, <2>2
<1>9. ASSUME NEW who \in {"operator", "challenger"}, NEW leaf, NEW sibling, take(who, leaf, sibling)
      PROVE  Locked'
  <2>1. UNCHANGED <<height, node, config>> /\ coin'.at = who
    BY <1>1, <1>9 DEF take
  <2> QED  BY <1>2, <2>1
<1>10. CASE blocks
  <2>1. PICK n \in Nat : mine(n)
    <3>1. CASE coin.at = "wallet" /\ mine(1)
      BY <3>1
    <3>2. CASE \E age \in Ages : age > coin.age /\ mine(age - coin.age)
      <4>1. PICK age \in Ages : age > coin.age /\ mine(age - coin.age)
        BY <3>2
      <4>2. age \in Nat /\ coin.age \in Nat
        BY VaultAssumption DEF VaultInv, ChallengeJustified, VaultTypeOK
      <4>3. age - coin.age \in Nat
        BY <4>1, <4>2
      <4> QED  BY <4>1, <4>3
    <3> QED  BY <1>10, <3>1, <3>2 DEF blocks
  <2>2. /\ height' = least(height + n, MaxHeight) /\ UNCHANGED <<node, config>>
        /\ coin' = IF coin.at = "wallet" THEN coin ELSE [coin EXCEPT !.age = coin.age + n]
    BY <2>1 DEF mine
  <2>3. height' >= height /\ height' \in Nat /\ height \in Nat
    BY <1>1, <2>2 DEF least
  <2>4. coin'.at = coin.at /\ coin'.output = coin.output
    BY <1>1, <2>2
  <2>5. /\ height >= CsvHeight => height' >= CsvHeight
        /\ height >= TaprootHeight => height' >= TaprootHeight
        /\ height >= OpcodeHeight => height' >= OpcodeHeight
    <3>1. CsvHeight \in Int /\ TaprootHeight \in Int /\ OpcodeHeight \in Int
      BY VaultAssumption
    <3> QED  BY <2>3, <3>1
  <2> QED  BY <2>2, <2>4, <2>5, SameScripts DEF Locked
<1> QED
  BY <1>3, <1>4, <1>5, <1>6, <1>7, <1>8, <1>9, <1>10 DEF Next, unbond, claim, rebut

LEMMA Exact ==
    ASSUME VaultInv, Locked PROVE DelayExact
<1> SUFFICES ASSUME rules.csv, rules.taproot
             PROVE  /\ coin.at = "vault" =>
                         (wallet_opens("operator", build_operator_unbond_leaf,
                                       build_equivocation_covenant)
                            <=> due(config.unbond_delay, coin.age))
                    /\ coin.at = "claim" =>
                         (wallet_opens("challenger", claim_leaf, rebut_leaf)
                            <=> due(config.claim_delay, coin.age))
  BY DEF DelayExact
<1>1. rules.csv = TRUE /\ rules.taproot = TRUE
  BY RulesAre
<1>2. coin.age \in Nat
  BY VaultAssumption DEF VaultInv, ChallengeJustified, VaultTypeOK
<1>3. config.unbond_delay \in U32 /\ config.claim_delay \in U32
  BY DEF Locked
<1>4. ASSUME coin.at = "vault"
      PROVE  wallet_opens("operator", build_operator_unbond_leaf, build_equivocation_covenant)
               <=> due(config.unbond_delay, coin.age)
  <2>1. Reveals(coin.output, build_operator_unbond_leaf, build_equivocation_covenant)
    BY <1>4 DEF Locked, Reveals, p2tr_output_script, build_vault_script_tree
  <2>2. Opens(build_operator_unbond_leaf, <<Signature("operator", TxSighash)>>, rules, coin.age)
          <=> due(config.unbond_delay, coin.age)
    BY <1>1, <1>2, <1>3, DelayedOpens DEF build_operator_unbond_leaf
  <2> QED  BY <2>1, <2>2 DEF wallet_opens
<1>5. ASSUME coin.at = "claim"
      PROVE  wallet_opens("challenger", claim_leaf, rebut_leaf) <=> due(config.claim_delay, coin.age)
  <2>1. Reveals(coin.output, claim_leaf, rebut_leaf)
    BY <1>5 DEF Locked, Reveals, challenge_tree_p2tr_script, build_challenge_claim_script_tree
  <2>2. Opens(claim_leaf, <<Signature("challenger", TxSighash)>>, rules, coin.age)
          <=> due(config.claim_delay, coin.age)
    BY <1>1, <1>2, <1>3, DelayedOpens DEF claim_leaf
  <2> QED  BY <2>1, <2>2 DEF wallet_opens
<1> QED  BY <1>4, <1>5

LEMMA Guarded ==
    ASSUME VaultInv, Locked PROVE BondingGuarded
<1> SUFFICES ASSUME node = "bonding", coin.at = "vault"
             PROVE  /\ \A leaf \in {build_operator_unbond_leaf, build_equivocation_covenant} :
                          ~ Opens(leaf, <<>>, rules, coin.age)
                    /\ config.unbond_delay \in NeverEarly /\ coin.age < config.unbond_delay =>
                          ~ wallet_opens("operator", build_operator_unbond_leaf,
                                         build_equivocation_covenant)
  BY DEF BondingGuarded
<1>1. rules.csv = TRUE /\ rules.taproot = TRUE /\ rules.opcodes = TRUE
  BY RulesAre DEF Locked
<1>2. ~ Opens(build_operator_unbond_leaf, <<>>, rules, coin.age)
  BY <1>1, DelayedShut DEF build_operator_unbond_leaf
<1>3. ~ Opens(build_equivocation_covenant, <<>>, rules, coin.age)
  BY <1>1, CovenantShut
<1>4. wallet_opens("operator", build_operator_unbond_leaf, build_equivocation_covenant)
        <=> due(config.unbond_delay, coin.age)
  BY <1>1, Exact DEF DelayExact
<1>5. coin.age \in Nat /\ config.unbond_delay \in U32
  BY VaultAssumption DEF VaultInv, ChallengeJustified, VaultTypeOK, Locked
<1>6. config.unbond_delay \in NeverEarly /\ coin.age < config.unbond_delay =>
        ~ due(config.unbond_delay, coin.age)
  BY <1>5, NotEarly
<1> QED  BY <1>2, <1>3, <1>4, <1>6

\* Once CSV is active, a delayed leaf opens for its owner exactly when the bytes
\* that were pushed for its delay are due, for every u32 delay: at the configured age
\* for some, never for those whose top bit is a sign or that ask for a time, and from
\* the low 16 bits on for the others (push_minimal_uint, the unbond and claim leaves).
THEOREM DelaysCorrect == Spec => []DelayExact
<1>1. Init => VaultInv /\ Locked
  BY VaultInit, LockedInit
<1>2. VaultInv /\ Locked /\ [Next]_vault_vars => (VaultInv /\ Locked)'
  BY VaultStep, LockedStep
<1>3. VaultInv /\ Locked => DelayExact
  BY Exact
<1> QED  BY <1>1, <1>2, <1>3, PTL DEF Spec

\* A bond under a node with bonding enabled is locked by its scripts: no leaf
\* opens with an empty witness and, for the delays that the script does not
\* shorten, the operator's leaf not before its delay, whatever form the daemon's
\* reply took (assert_chain_supports_bonding).
THEOREM BondingCorrect == Spec => []BondingGuarded
<1>1. Init => VaultInv /\ Locked
  BY VaultInit, LockedInit
<1>2. VaultInv /\ Locked /\ [Next]_vault_vars => (VaultInv /\ Locked)'
  BY VaultStep, LockedStep
<1>3. VaultInv /\ Locked => BondingGuarded
  BY Guarded
<1> QED  BY <1>1, <1>2, <1>3, PTL DEF Spec
=============================================================================
