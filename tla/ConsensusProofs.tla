--------------------------- MODULE ConsensusProofs --------------------------
(***************************************************************************)
(* Proofs about the consensus manager and about the relay that reads its   *)
(* votes, for any validators, gossip, handlers and interleaving.           *)
(*                                                                         *)
(* The manager: the attestation lists are sound, every slashing proof is   *)
(* valid and no equivocation goes unrecorded; with a majority threshold    *)
(* the root that has the quorum keeps it, and what the fraud watch reports *)
(* differs from it; honest validators are never accused.                   *)
(*                                                                         *)
(* The relay: a root is relayed as verified only with two thirds of the    *)
(* validators behind it, and never two roots for one height by the same    *)
(* number of validators.                                                   *)
(***************************************************************************)
EXTENDS Relay, SequenceTheorems, FiniteSetTheorems, WellFoundedInduction, TLAPS

\* Every step is a registration, an add_attestation, or leaves the manager.
LEMMA StepCases ==
    ASSUME ConsensusTypeOK, [Next]_vars
    PROVE  \/ \E v \in Registered : register_validator(v)
           \/ \E a \in Attestation : add_attestation(a)
           \/ UNCHANGED manager
<1>1. ASSUME NEW a \in Own, self_attest(a)
      PROVE  \E b \in Attestation : add_attestation(b)
  BY <1>1, ConsensusAssumption DEF self_attest
<1>2. ASSUME listener
      PROVE  \E b \in Attestation : add_attestation(b)
  <2>1. Head(attestation_rx) \in Attestation
    BY <1>2, ConsensusAssumption DEF listener, ConsensusTypeOK
  <2> QED  BY <1>2, <2>1 DEF listener
<1>3. ASSUME NEW a \in Gossip, gossip(a)
      PROVE  UNCHANGED manager
  BY <1>3 DEF gossip
<1>4. ASSUME watch_trigger \/ watch_sweep \/ watch_pass
      PROVE  UNCHANGED manager
  BY <1>4 DEF watch_trigger, watch_sweep, watch_pass, watch_quorum, watch_scan,
              watch_proofs
<1>5. ASSUME UNCHANGED vars
      PROVE  UNCHANGED manager
  BY <1>5 DEF vars, manager
<1> QED  BY <1>1, <1>2, <1>3, <1>4, <1>5 DEF Next

\* The first vote of a typed list is typed; with sound lists it is the only
\* vote of its validator.
LEMMA FirstVote ==
    ASSUME ConsensusTypeOK, VotesSound,
           NEW k \in Keys, NEW v, votes_by(k, v) # {}
    PROVE  \E i \in votes(k) :
             /\ votes_by(k, v) = {i} /\ Min(votes_by(k, v)) = i
             /\ attestations[k][i] \in Attestation
             /\ attestations[k][i].validator = v
             /\ attestations[k][i].key = k
             /\ admissible(attestations[k][i])
<1>1. PICK i \in votes(k) : attestations[k][i].validator = v
  BY DEF votes_by
<1>2. votes_by(k, v) = {i}
  BY <1>1 DEF VotesSound
<1>3. i \in Nat /\ attestations[k][i] \in Attestation
  BY <1>1 DEF ConsensusTypeOK, votes
<1>4. Min({i}) = i
  BY <1>3 DEF Min
<1> QED  BY <1>1, <1>2, <1>3, <1>4 DEF VotesSound

\* What add_attestation does to one list.
LEMMA Appended ==
    ASSUME ConsensusTypeOK, NEW a \in Attestation, add_attestation(a), accepted(a)
    PROVE  LET n == Len(attestations[a.key]) IN
           /\ n \in Nat
           /\ votes(a.key) = 1..n /\ votes(a.key)' = 1..(n + 1)
           /\ attestations'[a.key][n + 1] = a
           /\ \A i \in 1..n : attestations'[a.key][i] = attestations[a.key][i]
           /\ \A k \in Keys \ {a.key} : attestations'[k] = attestations[k]
<1>1. a.key \in Keys /\ attestations[a.key] \in Seq(Attestation)
  BY DEF ConsensusTypeOK, Attestation
<1>2. attestations'[a.key] = Append(attestations[a.key], a)
  BY <1>1 DEF add_attestation, ConsensusTypeOK
<1>3. \A k \in Keys \ {a.key} : attestations'[k] = attestations[k]
  BY <1>1 DEF add_attestation, ConsensusTypeOK
<1> QED  BY <1>1, <1>2, <1>3 DEF votes

-----------------------------------------------------------------------------
(* Types and sound lists are inductive together: the type of a new proof   *)
(* needs the one earlier vote of its validator to exist.                   *)

LEMMA AddKeepsVotes ==
    ASSUME ConsensusTypeOK, VotesSound, NEW a \in Attestation, add_attestation(a)
    PROVE  VotesSound'
<1>0. a.key \in Keys
  BY DEF Attestation
<1>1. CASE ~accepted(a)
  BY <1>1 DEF add_attestation, VotesSound, votes, votes_by, admissible, verify_attestation
<1>2. CASE accepted(a)
  <2> DEFINE n == Len(attestations[a.key])
  <2>1. /\ n \in Nat
        /\ votes(a.key) = 1..n /\ votes(a.key)' = 1..(n + 1)
        /\ attestations'[a.key][n + 1] = a
        /\ \A i \in 1..n : attestations'[a.key][i] = attestations[a.key][i]
        /\ \A k \in Keys \ {a.key} : attestations'[k] = attestations[k]
    BY <1>2, Appended
  <2>2. known_validators' = known_validators
    BY DEF add_attestation
  <2>3. \A i \in 1..n : attestations[a.key][i].validator # a.validator
    BY <1>2, <2>1 DEF accepted, votes_by
  <2>4. ASSUME NEW k \in Keys, NEW i \in votes(k)'
        PROVE  /\ attestations'[k][i].key = k
               /\ admissible(attestations[k][i])'
               /\ votes_by(k, attestations[k][i].validator)' = {i}
    <3>1. CASE k # a.key
      <4>1. attestations'[k] = attestations[k]
        BY <2>1, <3>1
      <4>2. i \in votes(k)
        BY <4>1 DEF votes
      <4> QED  BY <4>1, <4>2, <2>2
               DEF VotesSound, votes, votes_by, admissible, verify_attestation
    <3>2. CASE k = a.key /\ i = n + 1
      <4>1. attestations'[k][i] = a
        BY <2>1, <3>2
      <4>2. votes_by(k, a.validator)' = {i}
        <5>1. votes(k)' = 1..(n + 1) /\ n \in Nat
          BY <2>1, <3>2
        <5>2. \A j \in 1..n : attestations'[k][j].validator # a.validator
          BY <2>1, <2>3, <3>2
        <5> QED  BY <3>2, <4>1, <5>1, <5>2 DEF votes_by
      <4> QED  BY <1>2, <2>2, <3>2, <4>1, <4>2
               DEF accepted, admissible, verify_attestation
    <3>3. CASE k = a.key /\ i # n + 1
      <4>1. i \in 1..n /\ i \in votes(k) /\ attestations'[k][i] = attestations[k][i]
        BY <2>1, <3>3
      <4>2. votes_by(k, attestations[k][i].validator) = {i}
        BY <4>1 DEF VotesSound
      <4>3. attestations[k][i].validator # a.validator
        BY <2>3, <3>3, <4>1
      <4>4. ASSUME NEW j \in votes(k)',
                   attestations'[k][j].validator = attestations'[k][i].validator
            PROVE  j = i
        <5>1. j # n + 1
          BY <2>1, <3>3, <4>1, <4>3, <4>4
        <5>2. j \in 1..n /\ j \in votes(k) /\ attestations'[k][j] = attestations[k][j]
          BY <2>1, <3>3, <5>1
        <5>3. j \in votes_by(k, attestations[k][i].validator)
          BY <4>1, <4>4, <5>2 DEF votes_by
        <5> QED  BY <4>2, <5>3
      <4>5. votes_by(k, attestations[k][i].validator)' = {i}
        BY <4>4 DEF votes_by
      <4> QED  BY <2>2, <4>1, <4>5 DEF VotesSound, admissible, verify_attestation
    <3> QED  BY <3>1, <3>2, <3>3
  <2> QED  BY <2>4 DEF VotesSound
<1> QED  BY <1>1, <1>2

LEMMA ProofType ==
    ASSUME ConsensusTypeOK, VotesSound, NEW a \in Attestation, equivocates(a)
    PROVE  /\ equivocation_proof(a) \in Proof
           /\ verify_equivocation_proof(equivocation_proof(a))
           /\ equivocation_proof(a).validator \in known_validators
           /\ equivocation_proof(a).key = a.key
           /\ equivocation_proof(a).validator = a.validator
<1>1. a.key \in Keys /\ a.validator \in Validators
  BY DEF Attestation
<1>2. PICK i \in votes(a.key) :
         /\ Min(votes_by(a.key, a.validator)) = i
         /\ attestations[a.key][i] \in Attestation
         /\ attestations[a.key][i].validator = a.validator
         /\ attestations[a.key][i].key = a.key
         /\ admissible(attestations[a.key][i])
  BY <1>1, FirstVote DEF equivocates
<1>3. equivocation_proof(a) =
         [key |-> a.key, validator |-> a.validator,
          first |-> attestations[a.key][i], second |-> a]
  BY <1>2 DEF equivocation_proof
<1>4. equivocation_proof(a) \in Proof
  BY <1>1, <1>2, <1>3 DEF Proof
<1>5. attestations[a.key][i].root # a.root /\ admissible(a)
  BY <1>2 DEF equivocates
<1> DEFINE p == equivocation_proof(a)
<1>6. /\ p.key = a.key /\ p.validator = a.validator
      /\ p.first = attestations[a.key][i] /\ p.second = a
  BY <1>3
<1>7. verify_attestation(p.first) /\ verify_attestation(p.second)
  BY <1>2, <1>5, <1>6, Zenon DEF admissible
<1>8. verify_equivocation_proof(p)
  BY <1>2, <1>5, <1>6, <1>7 DEF verify_equivocation_proof
<1>9. p.validator \in known_validators
  BY <1>5, <1>6 DEF admissible
<1> QED  BY <1>4, <1>6, <1>8, <1>9

\* The channels carry gossiped attestations.
LEMMA ChannelType ==
    ASSUME ConsensusTypeOK, [Next]_vars
    PROVE  attestation_rx' \in Seq(Gossip) /\ fraud_rx' \in Seq(Gossip)
<1>1. ASSUME NEW a \in Gossip, gossip(a)
      PROVE  attestation_rx' \in Seq(Gossip) /\ fraud_rx' \in Seq(Gossip)
  BY <1>1 DEF gossip, ConsensusTypeOK
<1>2. ASSUME listener
      PROVE  attestation_rx' \in Seq(Gossip) /\ fraud_rx' \in Seq(Gossip)
  <2>1. Head(attestation_rx) \in Gossip /\ Tail(attestation_rx) \in Seq(Gossip)
    BY <1>2 DEF listener, ConsensusTypeOK
  <2> QED  BY <1>2, <2>1 DEF listener, ConsensusTypeOK
<1>3. ASSUME watch_trigger
      PROVE  attestation_rx' \in Seq(Gossip) /\ fraud_rx' \in Seq(Gossip)
  BY <1>3 DEF watch_trigger, ConsensusTypeOK
<1>4. ASSUME \/ \E v \in Registered : register_validator(v)
             \/ \E a \in Own : self_attest(a)
             \/ watch_sweep \/ watch_pass \/ UNCHANGED vars
      PROVE  attestation_rx' \in Seq(Gossip) /\ fraud_rx' \in Seq(Gossip)
  BY <1>4 DEF register_validator, self_attest, watch_sweep, watch_pass, watch_quorum,
              watch_scan, watch_proofs, vars, ConsensusTypeOK
<1> QED  BY <1>1, <1>2, <1>3, <1>4 DEF Next

LEMMA ListsInductive ==
    /\ Init => ConsensusTypeOK /\ VotesSound
    /\ ConsensusTypeOK /\ VotesSound /\ [Next]_vars => ConsensusTypeOK' /\ VotesSound'
<1>1. Init => ConsensusTypeOK /\ VotesSound
  BY DEF Init, ConsensusTypeOK, VotesSound, votes
<1>2. ASSUME ConsensusTypeOK, VotesSound, [Next]_vars
      PROVE  ConsensusTypeOK' /\ VotesSound'
  <2>1. attestation_rx' \in Seq(Gossip) /\ fraud_rx' \in Seq(Gossip)
    BY <1>2, ChannelType
  <2>2. ASSUME NEW a \in Attestation, add_attestation(a)
        PROVE  ConsensusTypeOK' /\ VotesSound'
    <3>1. a.key \in Keys
      BY DEF Attestation
    <3>2. slashing_proofs' \in Seq(Proof)
      BY <1>2, <2>2, ProofType DEF add_attestation, ConsensusTypeOK
    <3>3. /\ attestations' \in [Keys -> Seq(Attestation)]
          /\ judged' \subseteq Attestation
          /\ known_validators' \subseteq Registered
      BY <1>2, <2>2, <3>1 DEF add_attestation, ConsensusTypeOK
    <3> QED  BY <1>2, <2>1, <2>2, <3>2, <3>3, AddKeepsVotes DEF ConsensusTypeOK
  <2>3. ASSUME NEW v \in Registered, register_validator(v)
        PROVE  ConsensusTypeOK' /\ VotesSound'
    BY <1>2, <2>1, <2>3 DEF register_validator, ConsensusTypeOK, VotesSound, votes,
                            votes_by, admissible, verify_attestation
  <2>4. CASE UNCHANGED manager
    BY <1>2, <2>1, <2>4 DEF manager, ConsensusTypeOK, VotesSound, votes, votes_by,
                            admissible, verify_attestation
  <2> QED  BY <1>2, <2>2, <2>3, <2>4, StepCases
<1> QED  BY <1>1, <1>2

\* Lists, proofs, channels and history keep their types.
THEOREM ConsensusTypeCorrect == Spec => []ConsensusTypeOK
BY ListsInductive, PTL DEF Spec

\* Every vote counted for a key is a signed attestation of a registered
\* validator for that key, and no validator is counted twice.
THEOREM VotesCorrect == Spec => []VotesSound
BY ListsInductive, PTL DEF Spec

-----------------------------------------------------------------------------
\* No sequence of deliveries makes add_attestation accumulate a proof that
\* verify_equivocation_proof would refuse.
THEOREM ProofsCorrect == Spec => []ProofsSound
<1>1. Init => ProofsSound
  BY DEF Init, ProofsSound
<1>2. ConsensusTypeOK /\ VotesSound /\ ProofsSound /\ [Next]_vars => ProofsSound'
  <2> SUFFICES ASSUME ConsensusTypeOK, VotesSound, ProofsSound, [Next]_vars
               PROVE  ProofsSound'
    OBVIOUS
  <2>1. ASSUME NEW a \in Attestation, add_attestation(a)
        PROVE  ProofsSound'
    <3>1. CASE ~equivocates(a)
      BY <2>1, <3>1 DEF add_attestation, ProofsSound, verify_equivocation_proof,
                        verify_attestation
    <3>2. CASE equivocates(a)
      <4> DEFINE p == equivocation_proof(a)
                 m == Len(slashing_proofs)
      <4>1. p \in Proof /\ verify_equivocation_proof(p) /\ p.validator \in known_validators
        BY <3>2, ProofType
      <4>2. slashing_proofs' = Append(slashing_proofs, p)
            /\ known_validators' = known_validators
        BY <2>1, <3>2 DEF add_attestation
      <4>3. /\ m \in Nat /\ DOMAIN slashing_proofs = 1..m
            /\ DOMAIN slashing_proofs' = 1..(m + 1)
            /\ slashing_proofs'[m + 1] = p
            /\ \A i \in 1..m : slashing_proofs'[i] = slashing_proofs[i]
        BY <4>1, <4>2 DEF ConsensusTypeOK
      <4>4. ASSUME NEW i \in 1..(m + 1)
            PROVE  /\ verify_equivocation_proof(slashing_proofs'[i])
                   /\ slashing_proofs'[i].validator \in known_validators
        <5>1. CASE i = m + 1
          BY <5>1, <4>1, <4>3
        <5>2. CASE i # m + 1
          <6>1. i \in 1..m /\ slashing_proofs'[i] = slashing_proofs[i]
            BY <4>3, <5>2
          <6> QED  BY <6>1, <4>3 DEF ProofsSound
        <5> QED  BY <5>1, <5>2
      <4> QED  BY <4>2, <4>3, <4>4 DEF ProofsSound, verify_equivocation_proof,
                                       verify_attestation
    <3> QED  BY <3>1, <3>2
  <2>2. ASSUME NEW v \in Registered, register_validator(v)
        PROVE  ProofsSound'
    BY <2>2 DEF register_validator, ProofsSound, verify_equivocation_proof,
                verify_attestation
  <2>3. CASE UNCHANGED manager
    BY <2>3 DEF manager, ProofsSound, verify_equivocation_proof, verify_attestation
  <2> QED  BY <2>1, <2>2, <2>3, StepCases
<1> QED  BY <1>1, <1>2, ListsInductive, PTL DEF Spec

-----------------------------------------------------------------------------
(* Why no equivocation is missed.  An admissible attestation is either     *)
(* represented by its validator's vote or answered by a proof; neither is  *)
(* ever removed, and there is one vote per validator.                      *)

proven(k, v) ==
    \E i \in DOMAIN slashing_proofs :
        slashing_proofs[i].key = k /\ slashing_proofs[i].validator = v

represented(a) ==
    \E i \in votes_by(a.key, a.validator) : attestations[a.key][i].root = a.root

JudgedAnswered == \A a \in judged : proven(a.key, a.validator) \/ represented(a)

LEMMA AnsweredImplies ==
    ASSUME ConsensusTypeOK, VotesSound, JudgedAnswered
    PROVE  EquivocationRecorded
<1> SUFFICES ASSUME NEW a \in judged, NEW b \in judged,
                    a.key = b.key, a.validator = b.validator, a.root # b.root,
                    ~proven(a.key, a.validator)
             PROVE  FALSE
  BY DEF EquivocationRecorded, proven
<1>1. represented(a) /\ represented(b)
  BY DEF JudgedAnswered
<1>2. PICK i \in votes_by(a.key, a.validator) : attestations[a.key][i].root = a.root
  BY <1>1 DEF represented
<1>3. PICK j \in votes_by(a.key, a.validator) : attestations[a.key][j].root = b.root
  BY <1>1 DEF represented
<1>4. a.key \in Keys
  BY DEF ConsensusTypeOK, Attestation
<1>5. votes_by(a.key, a.validator) = {i}
  BY <1>2, <1>4 DEF VotesSound, votes_by
<1> QED  BY <1>2, <1>3, <1>5

\* Proofs are only ever appended.
LEMMA ProvenStays ==
    ASSUME ConsensusTypeOK, VotesSound, NEW a \in Attestation, add_attestation(a)
    PROVE  /\ \A k, v : proven(k, v) => proven(k, v)'
           /\ equivocates(a) => proven(a.key, a.validator)'
<1>1. CASE ~equivocates(a)
  BY <1>1 DEF add_attestation, proven
<1>2. CASE equivocates(a)
  <2> DEFINE p == equivocation_proof(a)
             m == Len(slashing_proofs)
  <2>1. p \in Proof /\ p.key = a.key /\ p.validator = a.validator
    BY <1>2, ProofType
  <2>2. slashing_proofs' = Append(slashing_proofs, p)
    BY <1>2 DEF add_attestation
  <2>3. /\ m \in Nat /\ DOMAIN slashing_proofs = 1..m
        /\ DOMAIN slashing_proofs' = 1..(m + 1)
        /\ slashing_proofs'[m + 1] = p
        /\ \A i \in 1..m : slashing_proofs'[i] = slashing_proofs[i]
    BY <2>1, <2>2 DEF ConsensusTypeOK
  <2>4. m + 1 \in DOMAIN slashing_proofs' /\ DOMAIN slashing_proofs \subseteq DOMAIN slashing_proofs'
    BY <2>3
  <2> HIDE DEF p, m
  <2>5. proven(a.key, a.validator)'
    BY <2>1, <2>3, <2>4 DEF proven
  <2>6. ASSUME NEW k, NEW v, proven(k, v)
        PROVE  proven(k, v)'
    BY <2>3, <2>4, <2>6 DEF proven
  <2> QED  BY <2>5, <2>6
<1> QED  BY <1>1, <1>2

\* Votes are only ever appended.
LEMMA RepresentedStays ==
    ASSUME ConsensusTypeOK, VotesSound, NEW a \in Attestation, add_attestation(a)
    PROVE  /\ \A b \in Attestation : represented(b) => represented(b)'
           /\ accepted(a) => represented(a)'
<1>1. CASE ~accepted(a)
  BY <1>1 DEF add_attestation, represented, votes_by, votes
<1>2. CASE accepted(a)
  <2> DEFINE n == Len(attestations[a.key])
  <2>1. /\ n \in Nat
        /\ votes(a.key) = 1..n /\ votes(a.key)' = 1..(n + 1)
        /\ attestations'[a.key][n + 1] = a
        /\ \A i \in 1..n : attestations'[a.key][i] = attestations[a.key][i]
        /\ \A k \in Keys \ {a.key} : attestations'[k] = attestations[k]
    BY <1>2, Appended
  <2> HIDE DEF n
  <2>2. represented(a)'
    <3>1. n + 1 \in votes(a.key)'
      BY <2>1
    <3> QED  BY <2>1, <3>1 DEF represented, votes_by
  <2>3. ASSUME NEW b \in Attestation, represented(b)
        PROVE  represented(b)'
    <3>1. PICK i \in votes_by(b.key, b.validator) : attestations[b.key][i].root = b.root
      BY <2>3 DEF represented
    <3>2. b.key \in Keys /\ i \in votes(b.key)
      BY <3>1 DEF Attestation, votes_by
    <3>3. i \in votes(b.key)' /\ attestations'[b.key][i] = attestations[b.key][i]
      BY <2>1, <3>2 DEF votes
    <3> QED  BY <3>1, <3>3 DEF represented, votes_by
  <2> QED  BY <2>2, <2>3
<1> QED  BY <1>1, <1>2

\* Two admissible attestations of one validator with two roots for one key
\* always leave a proof, whatever was delivered before, between and after.
THEOREM EquivocationCorrect == Spec => []EquivocationRecorded
<1>1. Init => JudgedAnswered
  BY DEF Init, JudgedAnswered
<1>2. ConsensusTypeOK /\ VotesSound /\ JudgedAnswered /\ [Next]_vars => JudgedAnswered'
  <2> SUFFICES ASSUME ConsensusTypeOK, VotesSound, JudgedAnswered, [Next]_vars
               PROVE  JudgedAnswered'
    OBVIOUS
  <2>1. ASSUME NEW a \in Attestation, add_attestation(a)
        PROVE  JudgedAnswered'
    <3>1. ASSUME NEW b \in judged
          PROVE  proven(b.key, b.validator)' \/ represented(b)'
      <4>1. b \in Attestation /\ (proven(b.key, b.validator) \/ represented(b))
        BY DEF ConsensusTypeOK, JudgedAnswered
      <4> QED  BY <2>1, <4>1, ProvenStays, RepresentedStays
    <3>2. CASE ~admissible(a)
      <4>1. judged' = judged
        BY <2>1, <3>2 DEF add_attestation
      <4> QED  BY <3>1, <4>1 DEF JudgedAnswered
    <3>3. CASE admissible(a)
      <4>1. proven(a.key, a.validator)' \/ represented(a)'
        <5>1. CASE accepted(a)
          BY <2>1, <5>1, RepresentedStays
        <5>2. CASE equivocates(a)
          BY <2>1, <5>2, ProvenStays
        <5>3. CASE ~accepted(a) /\ ~equivocates(a)
          <6>1. a.key \in Keys /\ a.validator \in Validators
                /\ votes_by(a.key, a.validator) # {}
            BY <3>3, <5>3 DEF accepted, Attestation
          <6>2. PICK i \in votes(a.key) :
                   /\ Min(votes_by(a.key, a.validator)) = i
                   /\ attestations[a.key][i].validator = a.validator
            BY <6>1, FirstVote
          <6>3. attestations[a.key][i].root = a.root
            BY <3>3, <5>3, <6>1, <6>2 DEF equivocates
          <6>4. represented(a)
            BY <6>2, <6>3 DEF represented, votes_by
          <6> QED  BY <2>1, <6>4, RepresentedStays
        <5> QED  BY <5>1, <5>2, <5>3
      <4>2. judged' = judged \cup {a}
        BY <2>1, <3>3 DEF add_attestation
      <4> QED  BY <3>1, <4>1, <4>2 DEF JudgedAnswered
    <3> QED  BY <3>2, <3>3
  <2>2. ASSUME NEW v \in Registered, register_validator(v)
        PROVE  JudgedAnswered'
    BY <2>2 DEF register_validator, JudgedAnswered, proven, represented, votes_by, votes
  <2>3. CASE UNCHANGED manager
    BY <2>3 DEF manager, JudgedAnswered, proven, represented, votes_by, votes
  <2> QED  BY <2>1, <2>2, <2>3, StepCases
<1> QED  BY <1>1, <1>2, ListsInductive, AnsweredImplies, PTL DEF Spec

-----------------------------------------------------------------------------
(* Quorums.  A list holds one vote per validator, so the votes for a root  *)
(* are no more than the validators that may have cast them; with a quorum  *)
(* of more than half of them, at most one root has one, and it keeps it.   *)

supported(k, r) == Cardinality(votes_for(k, r)) >= Threshold
SupportDecides == \A k \in Keys, r \in Roots : supported(k, r) => quorum_root(k) = r

\* A set of numbers has a least one.
LEMMA NatMin ==
    ASSUME NEW S \in SUBSET Nat, S # {}
    PROVE  Min(S) \in S /\ \A x \in S : Min(S) <= x
<1> DEFINE R == OpToRel(<, Nat)
<1>1. IsWellFoundedOn(R, Nat)
  BY NatLessThanWellFounded
<1>2. \A x, y \in Nat : x < y => <<x, y>> \in R
  BY DEF OpToRel
<1> HIDE DEF R
<1>3. PICK x \in S : \A y \in S : ~(<<y, x>> \in R)
  BY <1>1, WFMin
<1>4. \A y \in S : x <= y
  <2> SUFFICES ASSUME NEW y \in S PROVE x <= y
    OBVIOUS
  <2>1. x \in Nat /\ y \in Nat
    BY <1>3
  <2>2. ~(y < x)
    BY <1>2, <1>3, <2>1, Zenon
  <2> QED  BY <2>1, <2>2
<1> QED  BY <1>3, <1>4 DEF Min

\* Disjoint parts of a finite set have no more elements than it together.
LEMMA DisjointParts ==
    ASSUME NEW U, NEW S, NEW T, IsFiniteSet(U), S \subseteq U, T \subseteq U, S \cap T = {}
    PROVE  Cardinality(S) + Cardinality(T) <= Cardinality(U)
<1>1. Cardinality(S) \in Nat /\ Cardinality(T) \in Nat /\ Cardinality(U) \in Nat
  BY FS_Subset, FS_CardinalityType
<1> QED  BY <1>1, FS_MajoritiesIntersect

LEMMA VotesFinite ==
    ASSUME ConsensusTypeOK, NEW k \in Keys
    PROVE  /\ votes(k) \subseteq Nat /\ IsFiniteSet(votes(k))
           /\ \A i \in votes(k) : attestations[k][i] \in Attestation
           /\ \A S \in SUBSET votes(k) : IsFiniteSet(S) /\ Cardinality(S) \in Nat
<1>1. Len(attestations[k]) \in Nat /\ votes(k) = 1..Len(attestations[k])
      /\ \A i \in votes(k) : attestations[k][i] \in Attestation
  BY DEF ConsensusTypeOK, votes
<1>2. IsFiniteSet(votes(k))
  BY <1>1, FS_Interval
<1> QED  BY <1>1, <1>2, FS_Subset, FS_CardinalityType

\* Votes with validators in T are no more than T: no validator votes twice.
LEMMA VotersBound ==
    ASSUME ConsensusTypeOK, VotesSound, NEW k \in Keys, NEW S \in SUBSET votes(k),
           NEW T, IsFiniteSet(T), \A i \in S : attestations[k][i].validator \in T
    PROVE  Cardinality(S) <= Cardinality(T)
<1> DEFINE f == [i \in S |-> attestations[k][i].validator]
<1>1. f \in [S -> T]
  OBVIOUS
<1>2. \A i, j \in S : f[i] = f[j] => i = j
  <2> SUFFICES ASSUME NEW i \in S, NEW j \in S, f[i] = f[j] PROVE i = j
    OBVIOUS
  <2>1. votes_by(k, attestations[k][i].validator) = {i}
    BY DEF VotesSound
  <2>2. j \in votes_by(k, attestations[k][i].validator)
    BY DEF votes_by
  <2> QED  BY <2>1, <2>2
<1>3. f \in Injection(S, T)
  BY <1>1, <1>2 DEF Injection, IsInjective
<1> QED  BY <1>3, FS_Injection

\* A supported root was voted for: it is a root, and its quorum result is one.
LEMMA SupportedRoot ==
    ASSUME ConsensusTypeOK, NEW k \in Keys, NEW r, supported(k, r)
    PROVE  votes_for(k, r) # {} /\ r \in Roots
<1>1. votes_for(k, r) \in SUBSET votes(k)
  BY DEF votes_for
<1>2. Cardinality(votes_for(k, r)) > 0
  BY <1>1, VotesFinite, ConsensusAssumption DEF supported
<1>3. votes_for(k, r) # {}
  BY <1>2, FS_EmptySet
<1> QED  BY <1>1, <1>3, VotesFinite DEF votes_for, Attestation

\* Two roots with a quorum would need more votes than there are validators.
LEMMA OneSupported ==
    ASSUME ConsensusTypeOK, VotesSound, MajorityQuorum, NEW k \in Keys,
           NEW r, NEW s, r # s, supported(k, r)
    PROVE  Cardinality(votes_for(k, s)) < Cardinality(votes_for(k, r))
<1> DEFINE A == votes_for(k, r)
           B == votes_for(k, s)
<1>1. A \subseteq votes(k) /\ B \subseteq votes(k) /\ A \cap B = {}
  BY DEF votes_for
<1>2. IsFiniteSet(votes(k)) /\ Cardinality(A) \in Nat /\ Cardinality(B) \in Nat
      /\ Cardinality(votes(k)) \in Nat
  BY <1>1, VotesFinite
<1>3. Cardinality(A) + Cardinality(B) <= Cardinality(votes(k))
  BY <1>1, <1>2, DisjointParts
<1>4. Cardinality(votes(k)) <= Cardinality(Registered)
  <2>1. \A i \in votes(k) : attestations[k][i].validator \in Registered
    BY DEF VotesSound, ConsensusTypeOK, admissible
  <2> QED  BY <2>1, VotersBound, ConsensusAssumption
<1>5. Cardinality(A) >= Threshold /\ 2 * Threshold > Cardinality(Registered)
      /\ Cardinality(Registered) \in Nat /\ Threshold \in Nat
  BY FS_CardinalityType, ConsensusAssumption DEF supported, MajorityQuorum
<1> HIDE DEF A, B
<1>6. Cardinality(B) < Cardinality(A)
  BY <1>2, <1>3, <1>4, <1>5
<1> QED  BY <1>6 DEF A, B

\* With a majority quorum the result is the one supported root, and there is
\* one whenever a root is supported.
LEMMA QuorumRoot ==
    ASSUME ConsensusTypeOK, VotesSound, MajorityQuorum, NEW k \in Keys, NEW r, supported(k, r)
    PROVE  quorum_root(k) = r
<1>1. votes_for(k, r) # {} /\ r \in Roots /\ Roots \subseteq Nat
  BY SupportedRoot, ConsensusAssumption
<1>2. votes_for(k, r) \subseteq votes(k) /\ Cardinality(votes_for(k, r)) \in Nat
  <2>1. votes_for(k, r) \subseteq votes(k)
    BY DEF votes_for
  <2> QED  BY <2>1, VotesFinite
<1>3. \A s \in Roots : beats(k, r, s)
  <2> SUFFICES ASSUME NEW s \in Roots PROVE beats(k, r, s)
    OBVIOUS
  <2>1. CASE s = r
    BY <1>1, <2>1 DEF beats
  <2>2. CASE s # r
    BY <2>2, OneSupported, <1>2 DEF beats
  <2> QED  BY <2>1, <2>2
<1>4. \A s \in Roots \ {r} : ~beats(k, s, r)
  <2> SUFFICES ASSUME NEW s \in Roots \ {r} PROVE ~beats(k, s, r)
    OBVIOUS
  <2>1. Cardinality(votes_for(k, s)) < Cardinality(votes_for(k, r))
    BY OneSupported
  <2>2. Cardinality(votes_for(k, s)) \in Nat
    <3>1. votes_for(k, s) \subseteq votes(k)
      BY DEF votes_for
    <3> QED  BY <3>1, VotesFinite
  <2> QED  BY <1>2, <2>1, <2>2 DEF beats
<1>5. winning_root(k) = r
  BY <1>1, <1>3, <1>4 DEF winning_root
<1>6. votes(k) # {} /\ is_quorum_reached(k, winning_root(k))
  BY <1>1, <1>2, <1>5 DEF supported, is_quorum_reached
<1> DEFINE support == votes_for(k, r)
           q == [root |-> r, block |-> attestations[k][Min(support)].block,
                 supporting |-> {attestations[k][i] : i \in support},
                 support_count |-> Cardinality(votes(k))]
<1>7. build_quorum_result(k) = q /\ q.root = r
  BY <1>5, <1>6 DEF build_quorum_result
<1>8. q \in QuorumResult
  <2>1. Min(support) \in support
    BY <1>1, <1>2, VotesFinite, NatMin
  <2>2. /\ attestations[k][Min(support)].block \in Blocks
        /\ {attestations[k][i] : i \in support} \in SUBSET Attestation
        /\ Cardinality(votes(k)) \in Nat
    BY <1>2, <2>1, VotesFinite DEF Attestation
  <2> QED  BY <1>1, <2>2 DEF QuorumResult
<1> HIDE DEF q
<1> QED  BY <1>7, <1>8, ConsensusAssumption DEF quorum_root

\* Conversely a quorum result has a supported root, whatever the threshold.
LEMMA QuorumResultSupported ==
    ASSUME NEW k, build_quorum_result(k) # NoQuorum
    PROVE  supported(k, build_quorum_result(k).root)
<1>1. is_quorum_reached(k, winning_root(k)) /\ build_quorum_result(k).root = winning_root(k)
  BY DEF build_quorum_result
<1> QED  BY <1>1 DEF supported, is_quorum_reached

\* Votes are only ever appended, so support is never lost.
LEMMA ListsGrow ==
    ASSUME ConsensusTypeOK, [Next]_vars, NEW k \in Keys
    PROVE  \A i \in votes(k) : i \in votes(k)' /\ attestations'[k][i] = attestations[k][i]
<1>1. ASSUME attestations' = attestations
      PROVE  \A i \in votes(k) : i \in votes(k)' /\ attestations'[k][i] = attestations[k][i]
  BY <1>1 DEF votes
<1>2. ASSUME NEW a \in Attestation, add_attestation(a), accepted(a)
      PROVE  \A i \in votes(k) : i \in votes(k)' /\ attestations'[k][i] = attestations[k][i]
  <2> DEFINE n == Len(attestations[a.key])
  <2>1. /\ n \in Nat
        /\ votes(a.key) = 1..n /\ votes(a.key)' = 1..(n + 1)
        /\ \A i \in 1..n : attestations'[a.key][i] = attestations[a.key][i]
        /\ \A l \in Keys \ {a.key} : attestations'[l] = attestations[l]
    BY <1>2, Appended
  <2> HIDE DEF n
  <2>2. CASE k = a.key
    BY <2>1, <2>2
  <2>3. CASE k # a.key
    BY <2>1, <2>3 DEF votes
  <2> QED  BY <2>2, <2>3
<1> QED  BY <1>1, <1>2, StepCases DEF register_validator, add_attestation, manager

LEMMA SupportStays ==
    ASSUME ConsensusTypeOK, ConsensusTypeOK', [Next]_vars, NEW k \in Keys, NEW r, supported(k, r)
    PROVE  supported(k, r)'
<1> DEFINE A == votes_for(k, r)
           B == votes_for(k, r)'
<1>1. A \subseteq B
  BY ListsGrow DEF votes_for
<1>2. B \subseteq votes(k)' /\ A \subseteq votes(k)
  BY DEF votes_for
<1>3. IsFiniteSet(B) /\ Cardinality(B) \in Nat
  <2>1. Len(attestations'[k]) \in Nat /\ votes(k)' = 1..Len(attestations'[k])
    BY DEF ConsensusTypeOK, votes
  <2>2. IsFiniteSet(votes(k)')
    BY <2>1, FS_Interval
  <2> QED  BY <1>2, <2>2, FS_Subset, FS_CardinalityType
<1>4. Cardinality(A) <= Cardinality(B) /\ Cardinality(A) \in Nat
  BY <1>1, <1>2, <1>3, FS_Subset, VotesFinite
<1>5. Cardinality(A) >= Threshold /\ Threshold \in Nat
  BY ConsensusAssumption DEF supported
<1> HIDE DEF A, B
<1>6. Cardinality(B) >= Threshold
  BY <1>3, <1>4, <1>5
<1> QED  BY <1>6 DEF supported, B

\* With a quorum of more than half of the validators, a quorum result keeps its
\* root whatever attestations arrive later (add_attestation, build_quorum_result).
THEOREM QuorumCorrect == ASSUME MajorityQuorum PROVE Spec => QuorumStable
<1> DEFINE Stable == \A k \in Keys : quorum_root(k) # NoQuorum => quorum_root(k)' = quorum_root(k)
<1>1. ConsensusTypeOK /\ ConsensusTypeOK' /\ SupportDecides' /\ [Next]_vars => [Stable]_vars
  <2> SUFFICES ASSUME ConsensusTypeOK, ConsensusTypeOK', SupportDecides', [Next]_vars,
                      NEW k \in Keys, quorum_root(k) # NoQuorum
               PROVE  quorum_root(k)' = quorum_root(k)
    OBVIOUS
  <2>1. build_quorum_result(k) # NoQuorum /\ quorum_root(k) = build_quorum_result(k).root
    BY DEF quorum_root
  <2>2. PICK r : r = quorum_root(k)
    OBVIOUS
  <2>3. supported(k, r) /\ r \in Roots
    BY <2>1, <2>2, QuorumResultSupported, SupportedRoot
  <2>4. supported(k, r)'
    BY <2>3, SupportStays
  <2> QED  BY <2>2, <2>3, <2>4 DEF SupportDecides
<1>2. ConsensusTypeOK /\ VotesSound => SupportDecides
  BY QuorumRoot DEF SupportDecides
<1> QED  BY <1>1, <1>2, ListsInductive, PTL DEF Spec, QuorumStable

-----------------------------------------------------------------------------
(* The fraud watch.  It reads the quorum and the votes in two steps; what  *)
(* it read stays true, because votes are only added.                       *)

WatchOK ==
    /\ watch.keys \subseteq Keys
    /\ watch.pc = "scan" => watch.key \in Keys /\ supported(watch.key, watch.quorum.root)

FlagsOK ==
    \A d \in flagged :
        /\ d.key \in Keys /\ supported(d.key, d.quorum) /\ d.root # d.quorum
        /\ \E i \in votes_by(d.key, d.validator) : attestations[d.key][i].root = d.root

\* What the watch's own steps do to its program counter and its reports.
LEMMA WatchSteps ==
    ASSUME ConsensusTypeOK, WatchOK, [Next]_vars
    PROVE  /\ \/ watch' = watch
              \/ watch'.pc # "scan" /\ watch'.keys \subseteq Keys
              \/ \E k \in Keys : /\ watch'.keys \subseteq Keys /\ watch'.key = k
                                 /\ build_quorum_result(k) # NoQuorum
                                 /\ watch'.quorum = build_quorum_result(k)
           /\ \/ flagged' = flagged
              \/ watch_scan
<1>1. CASE watch_trigger
  <2>1. Head(fraud_rx) \in Attestation
    BY <1>1, ConsensusAssumption DEF watch_trigger, ConsensusTypeOK
  <2>2. watch' = [pc |-> "keys", keys |-> {Head(fraud_rx).key}, quorum |-> NoQuorum]
    BY <1>1 DEF watch_trigger, Selecting
  <2>3. {Head(fraud_rx).key} \subseteq Keys
    BY <2>1 DEF Attestation
  <2> QED  BY <1>1, <2>2, <2>3 DEF watch_trigger
<1>2. CASE watch_sweep
  <2>1. watch' = [pc |-> "keys", keys |-> {k \in Keys : attestations[k] # <<>>}, quorum |-> NoQuorum]
    BY <1>2 DEF watch_sweep, Selecting
  <2> QED  BY <1>2, <2>1 DEF watch_sweep
<1>3. CASE watch_quorum
  <2>1. PICK k \in watch.keys :
          watch' = IF build_quorum_result(k) = NoQuorum THEN [watch EXCEPT !.keys = @ \ {k}]
                   ELSE [pc |-> "scan", keys |-> watch.keys \ {k}, key |-> k,
                         quorum |-> build_quorum_result(k)]
    BY <1>3 DEF watch_quorum
  <2>2. k \in Keys /\ watch.keys \ {k} \subseteq Keys /\ watch.pc = "keys" /\ flagged' = flagged
    BY <1>3, <2>1 DEF WatchOK, watch_quorum
  <2>3. CASE build_quorum_result(k) = NoQuorum
    <3>1. watch' = [watch EXCEPT !.keys = @ \ {k}]
      BY <2>1, <2>3
    <3>2. watch'.pc = watch.pc
      BY <3>1
    <3>3. watch' = watch \/ watch'.keys \subseteq Keys
      BY <2>2, <3>1
    <3> QED  BY <2>2, <3>2, <3>3
  <2>4. CASE build_quorum_result(k) # NoQuorum
    BY <2>1, <2>2, <2>4
  <2> QED  BY <2>3, <2>4
<1>4. CASE watch_scan
  <2>1. watch' = [pc |-> "keys", keys |-> watch.keys, quorum |-> NoQuorum]
    BY <1>4 DEF watch_scan
  <2> QED  BY <1>4, <2>1 DEF WatchOK
<1>5. CASE watch_proofs
  BY <1>5 DEF watch_proofs, Selecting
<1>6. CASE \/ \E v \in Registered : register_validator(v)
           \/ \E a \in Gossip : gossip(a)
           \/ \E a \in Own : self_attest(a)
           \/ listener \/ UNCHANGED vars
  BY <1>6 DEF register_validator, gossip, self_attest, listener, vars
<1> QED  BY <1>1, <1>2, <1>3, <1>4, <1>5, <1>6 DEF Next, watch_pass

\* What a scan reports: a vote of the list that is not for the quorum's root.
LEMMA ScanReports ==
    ASSUME ConsensusTypeOK, WatchOK, watch_scan, NEW d \in flagged', d \notin flagged
    PROVE  /\ d.key = watch.key /\ d.key \in Keys /\ d.quorum = watch.quorum.root
           /\ supported(d.key, d.quorum) /\ d.root # d.quorum
           /\ \E i \in votes(d.key) : /\ attestations[d.key][i].validator = d.validator
                                      /\ attestations[d.key][i].root = d.root
<1> DEFINE k == watch.key
<1>1. PICK a \in Range(attestations[k]) :
         /\ a.root # watch.quorum.root
         /\ d = [key |-> k, validator |-> a.validator, root |-> a.root, quorum |-> watch.quorum.root]
  BY DEF watch_scan, detect_divergence
<1>2. PICK i \in votes(k) : a = attestations[k][i]
  BY <1>1 DEF Range, votes
<1>3. k \in Keys /\ supported(k, watch.quorum.root)
  BY DEF watch_scan, WatchOK
<1>4. d.key = k /\ d.validator = a.validator /\ d.root = a.root /\ d.quorum = watch.quorum.root
  BY <1>1
<1> HIDE DEF k
<1> QED  BY <1>1, <1>2, <1>3, <1>4 DEF k

LEMMA WatchInvariant == Spec => [](WatchOK /\ FlagsOK)
<1> DEFINE Inv == WatchOK /\ FlagsOK
<1>1. Init => Inv
  BY DEF Init, Selecting, WatchOK, FlagsOK
<1>2. ConsensusTypeOK /\ ConsensusTypeOK' /\ Inv /\ [Next]_vars => Inv'
  <2> SUFFICES ASSUME ConsensusTypeOK, ConsensusTypeOK', Inv, [Next]_vars PROVE Inv'
    OBVIOUS
  <2>1. WatchOK'
    <3>1. CASE watch' = watch
      <4>1. watch.pc = "scan" => supported(watch.key, watch.quorum.root)'
        <5> SUFFICES ASSUME watch.pc = "scan" PROVE supported(watch.key, watch.quorum.root)'
          OBVIOUS
        <5>1. PICK k, r : k = watch.key /\ r = watch.quorum.root
          OBVIOUS
        <5>2. supported(k, r)'
          BY <5>1, SupportStays DEF WatchOK
        <5>3. k = watch'.key /\ r = watch'.quorum.root
          BY <3>1, <5>1
        <5> QED  BY <5>2, <5>3 DEF supported, votes_for, votes
      <4> QED  BY <3>1, <4>1 DEF WatchOK
    <3>2. CASE watch'.pc # "scan" /\ watch'.keys \subseteq Keys
      BY <3>2 DEF WatchOK
    <3>3. CASE \E k \in Keys : /\ watch'.keys \subseteq Keys /\ watch'.key = k
                               /\ build_quorum_result(k) # NoQuorum
                               /\ watch'.quorum = build_quorum_result(k)
      <4>1. PICK k \in Keys : /\ watch'.keys \subseteq Keys /\ watch'.key = k
                              /\ build_quorum_result(k) # NoQuorum
                              /\ watch'.quorum = build_quorum_result(k)
        BY <3>3
      <4>2. PICK r : r = watch'.quorum.root
        OBVIOUS
      <4>3. supported(k, r)
        BY <4>1, <4>2, QuorumResultSupported
      <4>4. supported(k, r)'
        BY <4>3, SupportStays
      <4>5. supported(watch.key, watch.quorum.root)'
        BY <4>1, <4>2, <4>4 DEF supported, votes_for, votes
      <4> QED  BY <4>1, <4>5 DEF WatchOK
    <3> QED  BY <3>1, <3>2, <3>3, WatchSteps
  <2>2. FlagsOK'
    <3> SUFFICES ASSUME NEW d \in flagged'
                 PROVE  /\ d.key \in Keys /\ supported(d.key, d.quorum)' /\ d.root # d.quorum
                        /\ \E i \in votes_by(d.key, d.validator)' : attestations'[d.key][i].root = d.root
      BY DEF FlagsOK
    <3>1. /\ d.key \in Keys /\ supported(d.key, d.quorum) /\ d.root # d.quorum
          /\ \E i \in votes(d.key) : /\ attestations[d.key][i].validator = d.validator
                                     /\ attestations[d.key][i].root = d.root
      <4>1. CASE d \in flagged
        BY <4>1 DEF FlagsOK, votes_by
      <4>2. CASE d \notin flagged
        BY <4>2, WatchSteps, ScanReports
      <4> QED  BY <4>1, <4>2
    <3>2. supported(d.key, d.quorum)'
      BY <3>1, SupportStays
    <3>3. \E i \in votes_by(d.key, d.validator)' : attestations'[d.key][i].root = d.root
      BY <3>1, ListsGrow DEF votes_by
    <3> QED  BY <3>1, <3>2, <3>3
  <2> QED  BY <2>1, <2>2
<1> QED  BY <1>1, <1>2, ListsInductive, PTL DEF Spec

\* Every reported divergence is one: with a quorum of more than half of the
\* validators, the validator's accepted vote differs from the root that has the
\* quorum now, however many votes came between and after the watch's two reads.
THEOREM DivergenceCorrect == ASSUME MajorityQuorum PROVE Spec => []DivergenceSound
<1>1. ConsensusTypeOK /\ VotesSound /\ FlagsOK => DivergenceSound
  <2> SUFFICES ASSUME ConsensusTypeOK, VotesSound, FlagsOK, NEW d \in flagged
               PROVE  /\ quorum_root(d.key) = d.quorum /\ d.root # d.quorum
                      /\ \E i \in votes_by(d.key, d.validator) : attestations[d.key][i].root = d.root
    BY DEF DivergenceSound
  <2>1. d.key \in Keys /\ supported(d.key, d.quorum)
    BY DEF FlagsOK
  <2>2. quorum_root(d.key) = d.quorum
    BY <2>1, QuorumRoot
  <2> QED  BY <2>2 DEF FlagsOK
<1> QED  BY <1>1, WatchInvariant, ListsInductive, PTL DEF Spec

-----------------------------------------------------------------------------
(* Honest validators.  What is in the lists was signed by its validator,   *)
(* and a supported root has an honest vote among its own.                  *)

FromNetwork ==
    \A k \in Keys : \A i \in votes(k) : attestations[k][i] \in Gossip \cup Own

LEMMA AddSource ==
    ASSUME ConsensusTypeOK, [Next]_vars
    PROVE  \/ \E a \in Gossip \cup Own : add_attestation(a)
           \/ UNCHANGED <<attestations, slashing_proofs>>
<1>1. ASSUME listener PROVE \E a \in Gossip \cup Own : add_attestation(a)
  <2>1. Head(attestation_rx) \in Gossip
    BY <1>1 DEF listener, ConsensusTypeOK
  <2> QED  BY <1>1, <2>1 DEF listener
<1> QED
  BY <1>1 DEF Next, register_validator, gossip, self_attest, watch_trigger, watch_sweep, watch_pass,
              watch_quorum, watch_scan, watch_proofs, vars, manager

LEMMA FromNetworkInvariant == Spec => []FromNetwork
<1>1. Init => FromNetwork
  BY DEF Init, FromNetwork, votes
<1>2. ConsensusTypeOK /\ FromNetwork /\ [Next]_vars => FromNetwork'
  <2> SUFFICES ASSUME ConsensusTypeOK, FromNetwork, [Next]_vars PROVE FromNetwork'
    OBVIOUS
  <2>1. ASSUME attestations' = attestations PROVE FromNetwork'
    BY <2>1 DEF FromNetwork, votes
  <2>2. ASSUME NEW a \in Gossip \cup Own, add_attestation(a) PROVE FromNetwork'
    <3>1. CASE ~accepted(a)
      BY <2>1, <2>2, <3>1 DEF add_attestation
    <3>2. CASE accepted(a)
      <4> DEFINE n == Len(attestations[a.key])
      <4>1. a \in Attestation
        BY ConsensusAssumption
      <4>2. /\ n \in Nat
            /\ votes(a.key) = 1..n /\ votes(a.key)' = 1..(n + 1)
            /\ attestations'[a.key][n + 1] = a
            /\ \A i \in 1..n : attestations'[a.key][i] = attestations[a.key][i]
            /\ \A k \in Keys \ {a.key} : attestations'[k] = attestations[k]
        BY <2>2, <3>2, <4>1, Appended
      <4> HIDE DEF n
      <4> SUFFICES ASSUME NEW k \in Keys, NEW i \in votes(k)'
                   PROVE  attestations'[k][i] \in Gossip \cup Own
        BY DEF FromNetwork
      <4>3. CASE k # a.key
        BY <4>2, <4>3 DEF FromNetwork, votes
      <4>4. CASE k = a.key /\ i = n + 1
        BY <4>2, <4>4
      <4>5. CASE k = a.key /\ i \in 1..n
        BY <4>2, <4>5 DEF FromNetwork
      <4> QED  BY <4>2, <4>3, <4>4, <4>5
    <3> QED  BY <3>1, <3>2
  <2> QED  BY <2>1, <2>2, AddSource
<1> QED  BY <1>1, <1>2, ListsInductive, PTL DEF Spec

\* Fewer dishonest validators than a quorum needs: an honest one voted for it.
LEMMA HonestVote ==
    ASSUME ConsensusTypeOK, VotesSound, HonestQuorum, NEW k \in Keys, NEW r, supported(k, r)
    PROVE  \E i \in votes_for(k, r) : attestations[k][i].validator \in Honest
<1> SUFFICES ASSUME \A i \in votes_for(k, r) : attestations[k][i].validator \notin Honest
             PROVE  FALSE
  OBVIOUS
<1> DEFINE T == Registered \ Honest
           S == votes_for(k, r)
<1>1. S \subseteq votes(k)
  BY DEF votes_for
<1>2. \A i \in S : attestations[k][i].validator \in T
  BY <1>1 DEF VotesSound, ConsensusTypeOK, admissible
<1>3. IsFiniteSet(T) /\ Cardinality(T) \in Nat
  BY ConsensusAssumption, FS_Difference, FS_CardinalityType
<1>4. Cardinality(S) <= Cardinality(T)
  BY <1>1, <1>2, <1>3, VotersBound
<1>5. Cardinality(S) >= Threshold /\ Cardinality(T) < Threshold /\ Threshold \in Nat
  BY ConsensusAssumption DEF supported, HonestQuorum
<1>6. Cardinality(S) \in Nat
  BY <1>1, VotesFinite
<1> HIDE DEF S, T
<1> QED  BY <1>3, <1>4, <1>5, <1>6

\* A proof against an honest validator names two blocks.
ProofsAcross ==
    \A i \in DOMAIN slashing_proofs :
        slashing_proofs[i].validator \in Honest =>
            slashing_proofs[i].first.block # slashing_proofs[i].second.block

LEMMA ProofsAcrossStep ==
    ASSUME HonestReplay, ConsensusTypeOK, VotesSound, FromNetwork, ProofsAcross, [Next]_vars
    PROVE  ProofsAcross'
<1>1. ASSUME slashing_proofs' = slashing_proofs PROVE ProofsAcross'
  BY <1>1 DEF ProofsAcross
<1>2. ASSUME NEW a \in Gossip \cup Own, add_attestation(a), equivocates(a)
      PROVE  ProofsAcross'
  <2> DEFINE m == Len(slashing_proofs)
             p == equivocation_proof(a)
  <2>1. a \in Attestation /\ a.key \in Keys
    BY ConsensusAssumption DEF Attestation
  <2>2. PICK j \in votes(a.key) :
           /\ Min(votes_by(a.key, a.validator)) = j
           /\ attestations[a.key][j].validator = a.validator
           /\ attestations[a.key][j].key = a.key
           /\ admissible(attestations[a.key][j])
    BY <1>2, <2>1, FirstVote DEF equivocates
  <2>3. a.validator \in Honest => attestations[a.key][j].block # a.block
    <3>1. attestations[a.key][j] \in Gossip \cup Own
      BY <2>1, <2>2 DEF FromNetwork
    <3>2. attestations[a.key][j].root # a.root
      BY <1>2, <2>2 DEF equivocates
    <3>3. attestations[a.key][j].signed /\ a.signed
      BY <1>2, <2>2 DEF equivocates, admissible, verify_attestation
    <3> QED  BY <2>2, <3>1, <3>2, <3>3 DEF HonestReplay
  <2>4. p \in Proof /\ p.validator = a.validator
    BY <1>2, <2>1, ProofType
  <2>5. p.first = attestations[a.key][j] /\ p.second = a
    BY <2>2 DEF equivocation_proof
  <2>6. slashing_proofs' = Append(slashing_proofs, p)
    BY <1>2 DEF add_attestation
  <2>7. /\ m \in Nat /\ DOMAIN slashing_proofs = 1..m
        /\ DOMAIN slashing_proofs' = 1..(m + 1)
        /\ slashing_proofs'[m + 1] = p
        /\ \A i \in 1..m : slashing_proofs'[i] = slashing_proofs[i]
    BY <2>4, <2>6 DEF ConsensusTypeOK
  <2> HIDE DEF m, p
  <2> SUFFICES ASSUME NEW i \in 1..(m + 1), slashing_proofs'[i].validator \in Honest
               PROVE  slashing_proofs'[i].first.block # slashing_proofs'[i].second.block
    BY <2>7 DEF ProofsAcross
  <2>8. CASE i = m + 1
    BY <2>3, <2>4, <2>5, <2>7, <2>8
  <2>9. CASE i \in 1..m
    BY <2>7, <2>9 DEF ProofsAcross
  <2> QED  BY <2>7, <2>8, <2>9
<1> QED  BY <1>1, <1>2, AddSource DEF add_attestation

\* Validators that sign the replayed root of each block they record, the
\* second block of a height after a reorganisation included, are the subject of
\* a slashing proof only by attestations of two blocks (add_attestation), and
\* reported by the fraud watch only where an honest voter of the quorum attested
\* another block, as long as the others cannot make a quorum of their own.
THEOREM HonestCorrect ==
    ASSUME HonestReplay, HonestQuorum
    PROVE  Spec => []HonestAccusedAcrossBlocks
<1>1. Init => ProofsAcross
  BY DEF Init, ProofsAcross
<1>2. ConsensusTypeOK /\ VotesSound /\ FromNetwork /\ ProofsAcross /\ [Next]_vars
      => ProofsAcross'
  BY ProofsAcrossStep
<1>3. ConsensusTypeOK /\ VotesSound /\ FromNetwork /\ FlagsOK /\ ProofsAcross
      => HonestAccusedAcrossBlocks
  <2> SUFFICES ASSUME ConsensusTypeOK, VotesSound, FromNetwork, FlagsOK,
                      NEW d \in flagged, d.validator \in Honest
               PROVE  \E i \in votes_by(d.key, d.validator), j \in votes_for(d.key, d.quorum) :
                        /\ attestations[d.key][j].validator \in Honest
                        /\ attestations[d.key][i].block # attestations[d.key][j].block
    BY DEF HonestAccusedAcrossBlocks, ProofsAcross
  <2>1. d.key \in Keys /\ supported(d.key, d.quorum) /\ d.root # d.quorum
    BY DEF FlagsOK
  <2>2. PICK i \in votes_by(d.key, d.validator) : attestations[d.key][i].root = d.root
    BY DEF FlagsOK
  <2>3. PICK j \in votes_for(d.key, d.quorum) : attestations[d.key][j].validator \in Honest
    BY <2>1, HonestVote
  <2>4. /\ i \in votes(d.key) /\ attestations[d.key][i].validator = d.validator
        /\ j \in votes(d.key) /\ attestations[d.key][j].root = d.quorum
    BY <2>2, <2>3 DEF votes_by, votes_for
  <2>5. /\ attestations[d.key][i] \in Gossip \cup Own /\ attestations[d.key][j] \in Gossip \cup Own
        /\ attestations[d.key][i].key = attestations[d.key][j].key
        /\ attestations[d.key][i].signed /\ attestations[d.key][j].signed
    BY <2>1, <2>4 DEF FromNetwork, VotesSound, admissible, verify_attestation
  <2>6. attestations[d.key][i].block # attestations[d.key][j].block
    BY <2>1, <2>2, <2>3, <2>4, <2>5 DEF HonestReplay
  <2> QED  BY <2>2, <2>3, <2>6
<1> QED  BY <1>1, <1>2, <1>3, ListsInductive, FromNetworkInvariant, WatchInvariant, PTL DEF Spec

-----------------------------------------------------------------------------
(* The relay.                                                              *)

Messages == [key : Keys, header : BlockRecords, attestations : Seq(Attestation)]
Records == [message : Messages, status : {"Relayed", "Verified", "Failed"}, trusted : Nat]
Locals ==
    [pc : {"idle"}] \cup [pc : {"create"}, key : Keys, header : BlockRecords]
       \cup [pc : {"verify", "write"}, id : RecordId, record : Records]

RelayTypes ==
    /\ block_records \in [Keys -> BlockRecords \cup {Nothing}]
    /\ records \in [RecordId -> Records \cup {Nothing}]
    /\ handler \in [Handlers -> Locals]
    /\ seconds \in 0..MaxSeconds /\ requests \in 0..MaxRequests

\* The attestations of a message are votes of its key's list, then and now.
Quoted(m) ==
    \A i \in DOMAIN m.attestations :
        \E j \in votes(m.key) : attestations[m.key][j] = m.attestations[i]

\* A record as it is stored or on its way through a handler.
Sound(r, id) ==
    /\ r.message.key = id[1] /\ Quoted(r.message)
    /\ r.trusted <= Cardinality(Registered)
    /\ r.status = "Verified" => relay_verified(r.message, r.trusted)

RecordsSound ==
    /\ \A id \in RecordId : records[id] # Nothing => Sound(records[id], id)
    /\ \A h \in Handlers : handler[h].pc \in {"verify", "write"} =>
          Sound(handler[h].record, handler[h].id)

\* Every accepted vote was judged by add_attestation.
VotesJudged == \A k \in Keys : \A i \in votes(k) : attestations[k][i] \in judged

\* The verdicts of stored records and of those handlers carry.
Carried(h) == handler[h].pc \in {"verify", "write"} /\ handler[h].record.status = "Verified"
Judgements == Verdicts \cup {handler[h].record : h \in {g \in Handlers : Carried(g)}}
Voters(m) == {m.attestations[i].validator : i \in DOMAIN m.attestations}

\* Verdicts over the same number of validators were over the same validators.
SameElectorate ==
    \A r, s \in Judgements : r.trusted = s.trusted =>
        \E K \in SUBSET known_validators :
            /\ Cardinality(K) = r.trusted
            /\ Voters(r.message) \subseteq K /\ Voters(s.message) \subseteq K

-----------------------------------------------------------------------------
\* The relay runs over the consensus manager and changes nothing of it.
LEMMA RelayRunsConsensus == RelaySpec => Spec
<1>1. RelayInit => Init
  BY DEF RelayInit
<1>2. [RelayNext]_all_vars => [Next]_vars
  <2> SUFFICES ASSUME [RelayNext]_all_vars PROVE [Next]_vars
    OBVIOUS
  <2>1. CASE consensus_step
    BY <2>1 DEF consensus_step, Next
  <2>2. CASE UNCHANGED all_vars
    BY <2>2 DEF all_vars
  <2>3. ASSUME NEW h \in Handlers,
               \/ \E k \in Keys : create_relay_message(h, k)
               \/ \E id \in RecordId : verify_relay(h, id)
               \/ handler_step(h)
        PROVE  UNCHANGED vars
    BY <2>3 DEF create_relay_message, verify_relay, relay_request, handler_step, relay_to_chain,
                relay_count, relay_write
  <2>4. CASE second \/ \E k \in Keys, b \in BlockRecords : save_block(k, b)
    BY <2>4 DEF second, save_block
  <2> QED  BY <2>1, <2>2, <2>3, <2>4 DEF RelayNext
<1> QED  BY <1>1, <1>2, PTL DEF RelaySpec, Spec

LEMMA VotesJudgedInvariant == Spec => []VotesJudged
<1>1. Init => VotesJudged
  BY DEF Init, VotesJudged, votes
<1>2. ConsensusTypeOK /\ VotesJudged /\ [Next]_vars => VotesJudged'
  <2> SUFFICES ASSUME ConsensusTypeOK, VotesJudged, [Next]_vars PROVE VotesJudged'
    OBVIOUS
  <2>1. ASSUME attestations' = attestations, judged \subseteq judged' PROVE VotesJudged'
    BY <2>1 DEF VotesJudged, votes
  <2>2. ASSUME NEW a \in Attestation, add_attestation(a) PROVE VotesJudged'
    <3>1. CASE ~accepted(a)
      BY <2>1, <2>2, <3>1 DEF add_attestation
    <3>2. CASE accepted(a)
      <4> DEFINE n == Len(attestations[a.key])
      <4>1. /\ n \in Nat
            /\ votes(a.key) = 1..n /\ votes(a.key)' = 1..(n + 1)
            /\ attestations'[a.key][n + 1] = a
            /\ \A i \in 1..n : attestations'[a.key][i] = attestations[a.key][i]
            /\ \A k \in Keys \ {a.key} : attestations'[k] = attestations[k]
        BY <2>2, <3>2, Appended
      <4>2. judged' = judged \cup {a}
        BY <2>2, <3>2 DEF add_attestation, accepted
      <4> HIDE DEF n
      <4> SUFFICES ASSUME NEW k \in Keys, NEW i \in votes(k)' PROVE attestations'[k][i] \in judged'
        BY DEF VotesJudged
      <4>3. CASE k # a.key
        BY <4>1, <4>2, <4>3 DEF VotesJudged, votes
      <4>4. CASE k = a.key /\ i = n + 1
        BY <4>1, <4>2, <4>4
      <4>5. CASE k = a.key /\ i \in 1..n
        BY <4>1, <4>2, <4>5 DEF VotesJudged
      <4> QED  BY <4>1, <4>3, <4>4, <4>5
    <3> QED  BY <3>1, <3>2
  <2> QED  BY <2>1, <2>2, StepCases DEF register_validator, manager
<1> QED  BY <1>1, <1>2, ListsInductive, PTL DEF Spec

-----------------------------------------------------------------------------
(* Types.                                                                  *)

\* What a local of a handler is, by its program counter.
LEMMA LocalFields ==
    ASSUME NEW l \in Locals
    PROVE  /\ l.pc \in {"idle", "create", "verify", "write"}
           /\ l.pc = "create" => l.key \in Keys /\ l.header \in BlockRecords
           /\ l.pc \in {"verify", "write"} => l.id \in RecordId /\ l.record \in Records
BY DEF Locals

LEMMA LocalsMade ==
    /\ Waiting \in Locals
    /\ \A k \in Keys, b \in BlockRecords : [pc |-> "create", key |-> k, header |-> b] \in Locals
    /\ \A id \in RecordId, r \in Records :
          /\ [pc |-> "verify", id |-> id, record |-> r] \in Locals
          /\ [pc |-> "write", id |-> id, record |-> r] \in Locals
BY DEF Locals, Waiting

LEMMA RegisteredCount ==
    ASSUME ConsensusTypeOK
    PROVE  /\ IsFiniteSet(known_validators)
           /\ Cardinality(known_validators) \in 0..Cardinality(Registered)
           /\ Cardinality(Registered) \in Nat
<1>1. known_validators \in SUBSET Registered /\ IsFiniteSet(Registered)
  BY ConsensusAssumption DEF ConsensusTypeOK
<1>2. Cardinality(Registered) \in Nat
  BY <1>1, FS_CardinalityType
<1>3. IsFiniteSet(known_validators) /\ Cardinality(known_validators) <= Cardinality(Registered)
  BY <1>1, FS_Subset
<1>4. Cardinality(known_validators) \in Nat
  BY <1>3, FS_CardinalityType
<1> QED  BY <1>2, <1>3, <1>4

\* The steps of the relay and of its handlers, as they change records and locals.
LEMMA RelayTypesInvariant == RelaySpec => []RelayTypes
<1>1. RelayInit => RelayTypes
  <2> SUFFICES ASSUME RelayInit PROVE RelayTypes
    OBVIOUS
  <2>1. handler \in [Handlers -> Locals]
    BY LocalsMade DEF RelayInit
  <2> QED  BY <2>1, RelayAssumption DEF RelayInit, RelayTypes
<1>2. ConsensusTypeOK /\ RelayTypes /\ [RelayNext]_all_vars => RelayTypes'
  <2> SUFFICES ASSUME ConsensusTypeOK, RelayTypes, [RelayNext]_all_vars PROVE RelayTypes'
    OBVIOUS
  <2> USE DEF RelayTypes
  <2>1. ASSUME NEW h \in Handlers, NEW l \in Locals, relay_request(h, l) PROVE RelayTypes'
    BY <2>1, RelayAssumption DEF relay_request
  <2>2. ASSUME NEW h \in Handlers, NEW k \in Keys, create_relay_message(h, k) PROVE RelayTypes'
    <3>1. block_records[k] \in BlockRecords
      BY <2>2 DEF create_relay_message
    <3> QED  BY <2>1, <2>2, <3>1, LocalsMade DEF create_relay_message
  <2>3. ASSUME NEW h \in Handlers, NEW id \in RecordId, verify_relay(h, id) PROVE RelayTypes'
    <3>1. records[id] \in Records
      BY <2>3 DEF verify_relay
    <3> QED  BY <2>1, <2>3, <3>1, LocalsMade DEF verify_relay
  <2>4. ASSUME NEW h \in Handlers, relay_to_chain(h) PROVE RelayTypes'
    <3> DEFINE k == handler[h].key
               m == [key |-> k, header |-> handler[h].header, attestations |-> attestations[k]]
               r == [message |-> m, status |-> "Relayed", trusted |-> 0]
    <3>1. handler[h] \in Locals /\ handler[h].pc = "create"
      BY <2>4 DEF relay_to_chain
    <3>2. k \in Keys /\ handler[h].header \in BlockRecords
      BY <3>1, LocalFields
    <3>3. attestations[k] \in Seq(Attestation)
      BY <3>2 DEF ConsensusTypeOK
    <3>4. r \in Records
      BY <3>2, <3>3 DEF Records, Messages
    <3>5. <<k, seconds>> \in RecordId
      BY <3>2 DEF RecordId
    <3>6. /\ records' = [records EXCEPT ![<<k, seconds>>] = r]
          /\ handler' = [handler EXCEPT ![h] = Waiting]
          /\ UNCHANGED <<block_records, seconds, requests>>
      BY <2>4 DEF relay_to_chain
    <3> HIDE DEF k, m, r
    <3> QED  BY <3>4, <3>5, <3>6, LocalsMade
  <2>5. ASSUME NEW h \in Handlers, relay_count(h) PROVE RelayTypes'
    <3> DEFINE n == Cardinality(known_validators)
               verdict == IF relay_verified(handler[h].record.message, n) THEN "Verified" ELSE "Failed"
               r == [handler[h].record EXCEPT !.status = verdict, !.trusted = n]
    <3>1. handler[h] \in Locals /\ handler[h].pc = "verify"
      BY <2>5 DEF relay_count
    <3>2. handler[h].id \in RecordId /\ handler[h].record \in Records
      BY <3>1, LocalFields
    <3>3. n \in Nat
      BY RegisteredCount
    <3>4. r \in Records
      BY <3>2, <3>3 DEF Records
    <3>5. /\ handler' = [handler EXCEPT ![h] = [pc |-> "write", id |-> handler[h].id, record |-> r]]
          /\ UNCHANGED <<records, block_records, seconds, requests>>
      BY <2>5 DEF relay_count
    <3> HIDE DEF n, verdict, r
    <3> QED  BY <3>2, <3>4, <3>5, LocalsMade
  <2>6. ASSUME NEW h \in Handlers, relay_write(h) PROVE RelayTypes'
    <3>1. handler[h] \in Locals /\ handler[h].pc = "write"
      BY <2>6 DEF relay_write
    <3>2. handler[h].id \in RecordId /\ handler[h].record \in Records
      BY <3>1, LocalFields
    <3> QED  BY <2>6, <3>2, LocalsMade DEF relay_write
  <2>7. ASSUME NEW k \in Keys, NEW b \in BlockRecords, save_block(k, b) PROVE RelayTypes'
    BY <2>7 DEF save_block
  <2>8. CASE second
    BY <2>8, RelayAssumption DEF second
  <2>9. CASE consensus_step \/ UNCHANGED all_vars
    BY <2>9 DEF consensus_step, all_vars, relay_vars
  <2> QED  BY <2>2, <2>3, <2>4, <2>5, <2>6, <2>7, <2>8, <2>9 DEF RelayNext, handler_step
<1> QED  BY <1>1, <1>2, RelayRunsConsensus, ConsensusTypeCorrect, PTL DEF RelaySpec

-----------------------------------------------------------------------------
(* The records.                                                            *)

LEMMA SoundStays ==
    ASSUME ConsensusTypeOK, [Next]_vars, NEW r \in Records, NEW id, Sound(r, id)
    PROVE  Sound(r, id)'
<1>1. r.message.key \in Keys
  BY DEF Records, Messages
<1>2. PICK m : m = r.message
  OBVIOUS
<1>3. Quoted(m)'
  BY <1>1, <1>2, ListsGrow DEF Sound, Quoted
<1> QED  BY <1>2, <1>3 DEF Sound, Quoted, relay_verified, relay_counted, relay_support,
                       verify_attestation, relay_required

\* One step: what a record or a handler holds next is sound by the lists before.
LEMMA NextSound ==
    ASSUME ConsensusTypeOK, RelayTypes, RecordsSound, [RelayNext]_all_vars
    PROVE  /\ \A id \in RecordId : records'[id] # Nothing => Sound(records'[id], id)
           /\ \A h \in Handlers : handler'[h].pc \in {"verify", "write"} =>
                 Sound(handler'[h].record, handler'[h].id)
<1> DEFINE R == \A id \in RecordId : records'[id] # Nothing => Sound(records'[id], id)
           H == \A h \in Handlers : handler'[h].pc \in {"verify", "write"} =>
                    Sound(handler'[h].record, handler'[h].id)
<1> USE DEF RelayTypes
<1>1. ASSUME records' = records PROVE R
  BY <1>1 DEF RecordsSound
<1>2. ASSUME handler' = handler PROVE H
  BY <1>2 DEF RecordsSound
<1>3. ASSUME NEW h \in Handlers, NEW l \in Locals, handler' = [handler EXCEPT ![h] = l],
             l.pc \in {"verify", "write"} => Sound(l.record, l.id)
      PROVE  H
  <2> SUFFICES ASSUME NEW g \in Handlers, handler'[g].pc \in {"verify", "write"}
               PROVE  Sound(handler'[g].record, handler'[g].id)
    OBVIOUS
  <2>1. CASE g = h
    BY <1>3, <2>1
  <2>2. CASE g # h
    <3>1. handler'[g] = handler[g]
      BY <1>3, <2>2
    <3> QED  BY <3>1 DEF RecordsSound
  <2> QED  BY <2>1, <2>2
<1>4. ASSUME NEW id \in RecordId, NEW r, records' = [records EXCEPT ![id] = r], Sound(r, id)
      PROVE  R
  <2> SUFFICES ASSUME NEW i \in RecordId, records'[i] # Nothing PROVE Sound(records'[i], i)
    OBVIOUS
  <2>1. CASE i = id
    BY <1>4, <2>1
  <2>2. CASE i # id
    <3>1. records'[i] = records[i]
      BY <1>4, <2>2
    <3> QED  BY <3>1 DEF RecordsSound
  <2> QED  BY <2>1, <2>2
<1>5. Waiting \in Locals /\ Waiting.pc = "idle"
  BY LocalsMade DEF Waiting
<1>6. ASSUME NEW h \in Handlers, NEW k \in Keys, create_relay_message(h, k) PROVE R /\ H
  <2> DEFINE l == [pc |-> "create", key |-> k, header |-> block_records[k]]
  <2>1. l \in Locals /\ l.pc = "create"
    BY <1>6, LocalsMade DEF create_relay_message
  <2>2. handler' = [handler EXCEPT ![h] = l] /\ records' = records
    BY <1>6 DEF create_relay_message, relay_request
  <2> HIDE DEF l, R, H
  <2> QED  BY <1>1, <1>3, <2>1, <2>2
<1>7. ASSUME NEW h \in Handlers, NEW id \in RecordId, verify_relay(h, id) PROVE R /\ H
  <2> DEFINE l == [pc |-> "verify", id |-> id, record |-> records[id]]
  <2>1. l \in Locals /\ l.pc = "verify" /\ l.record = records[id] /\ l.id = id
    BY <1>7, LocalsMade DEF verify_relay
  <2>2. handler' = [handler EXCEPT ![h] = l] /\ records' = records
    BY <1>7 DEF verify_relay, relay_request
  <2>3. Sound(records[id], id)
    BY <1>7 DEF verify_relay, RecordsSound
  <2> HIDE DEF l, R, H
  <2> QED  BY <1>1, <1>3, <2>1, <2>2, <2>3
<1>8. ASSUME NEW h \in Handlers, relay_to_chain(h) PROVE R /\ H
  <2> DEFINE k == handler[h].key
             m == [key |-> k, header |-> handler[h].header, attestations |-> attestations[k]]
             r == [message |-> m, status |-> "Relayed", trusted |-> 0]
  <2>1. k \in Keys /\ <<k, seconds>> \in RecordId
    BY <1>8, LocalFields DEF relay_to_chain, RecordId
  <2>2. /\ records' = [records EXCEPT ![<<k, seconds>>] = r]
        /\ handler' = [handler EXCEPT ![h] = Waiting]
    BY <1>8 DEF relay_to_chain
  <2>3. r.message = m /\ m.key = k /\ m.attestations = attestations[k] /\ r.status = "Relayed"
        /\ r.trusted = 0
    OBVIOUS
  <2>4. Cardinality(Registered) \in Nat
    BY RegisteredCount
  <2> HIDE DEF k, m, r, R, H
  <2>5. Sound(r, <<k, seconds>>)
    BY <2>3, <2>4 DEF Sound, Quoted, votes
  <2> QED  BY <1>3, <1>4, <1>5, <2>1, <2>2, <2>5
<1>9. ASSUME NEW h \in Handlers, relay_count(h) PROVE R /\ H
  <2> DEFINE n == Cardinality(known_validators)
             old == handler[h].record
             verdict == IF relay_verified(old.message, n) THEN "Verified" ELSE "Failed"
             r == [old EXCEPT !.status = verdict, !.trusted = n]
             l == [pc |-> "write", id |-> handler[h].id, record |-> r]
  <2>1. handler[h].id \in RecordId /\ old \in Records /\ Sound(old, handler[h].id)
    BY <1>9, LocalFields DEF relay_count, RecordsSound
  <2>2. n \in 0..Cardinality(Registered) /\ Cardinality(Registered) \in Nat
    BY RegisteredCount
  <2>3. handler' = [handler EXCEPT ![h] = l] /\ records' = records
    BY <1>9 DEF relay_count
  <2> HIDE DEF n, old
  <2>4. /\ verdict = "Verified" => relay_verified(old.message, n)
        /\ verdict \in {"Verified", "Failed"}
    OBVIOUS
  <2> HIDE DEF verdict
  <2>5. r.message = old.message /\ r.status = verdict /\ r.trusted = n /\ r \in Records
    <3>1. n \in Nat
      BY <2>2
    <3> QED  BY <2>1, <2>4, <3>1 DEF Records
  <2> HIDE DEF r
  <2>6. l \in Locals /\ l.record = r /\ l.id = handler[h].id
    BY <2>1, <2>5, LocalsMade
  <2>7. Sound(r, handler[h].id)
    BY <2>1, <2>2, <2>4, <2>5 DEF Sound
  <2> HIDE DEF l, R, H
  <2> QED  BY <1>1, <1>3, <2>3, <2>6, <2>7
<1>10. ASSUME NEW h \in Handlers, relay_write(h) PROVE R /\ H
  <2>1. handler[h].id \in RecordId /\ Sound(handler[h].record, handler[h].id)
    BY <1>10, LocalFields DEF relay_write, RecordsSound
  <2>2. /\ records' = [records EXCEPT ![handler[h].id] = handler[h].record]
        /\ handler' = [handler EXCEPT ![h] = Waiting]
    BY <1>10 DEF relay_write
  <2> HIDE DEF R, H
  <2> QED  BY <1>3, <1>4, <1>5, <2>1, <2>2
<1>11. ASSUME \/ \E k \in Keys, b \in BlockRecords : save_block(k, b)
              \/ second \/ consensus_step \/ UNCHANGED all_vars
       PROVE  R /\ H
  <2>1. records' = records /\ handler' = handler
    BY <1>11 DEF save_block, second, consensus_step, all_vars, relay_vars
  <2> QED  BY <1>1, <1>2, <2>1
<1> QED  BY <1>6, <1>7, <1>8, <1>9, <1>10, <1>11 DEF RelayNext, handler_step

LEMMA RecordsInvariant == RelaySpec => []RecordsSound
<1>1. RelayInit => RecordsSound
  BY DEF RelayInit, RecordsSound, Waiting
<1>2. /\ ConsensusTypeOK /\ RelayTypes /\ RelayTypes' /\ RecordsSound
      /\ [RelayNext]_all_vars /\ [Next]_vars
      => RecordsSound'
  <2> SUFFICES ASSUME ConsensusTypeOK, RelayTypes, RelayTypes', RecordsSound,
                      [RelayNext]_all_vars, [Next]_vars
               PROVE  RecordsSound'
    OBVIOUS
  <2>1. ASSUME NEW id \in RecordId, records'[id] # Nothing PROVE Sound(records[id], id)'
    <3>1. PICK r : r = records'[id]
      OBVIOUS
    <3>2. r \in Records /\ Sound(r, id)
      BY <2>1, <3>1, NextSound DEF RelayTypes
    <3>3. Sound(r, id)'
      BY <3>2, SoundStays
    <3> QED  BY <3>1, <3>3 DEF Sound, Quoted, votes
  <2>2. ASSUME NEW h \in Handlers, handler'[h].pc \in {"verify", "write"}
        PROVE  Sound(handler[h].record, handler[h].id)'
    <3>1. PICK r, id : r = handler'[h].record /\ id = handler'[h].id
      OBVIOUS
    <3>2. handler'[h] \in Locals
      BY DEF RelayTypes
    <3>3. r \in Records /\ Sound(r, id)
      BY <2>2, <3>1, <3>2, NextSound, LocalFields
    <3>4. Sound(r, id)'
      BY <3>3, SoundStays
    <3> QED  BY <3>1, <3>4 DEF Sound, Quoted, votes
  <2> QED  BY <2>1, <2>2 DEF RecordsSound
<1> QED
  BY <1>1, <1>2, RelayRunsConsensus, ConsensusTypeCorrect, RelayTypesInvariant, PTL
     DEF RelaySpec, Spec

-----------------------------------------------------------------------------
(* Verdicts.                                                               *)

counted_for(m, root) == {i \in relay_counted(m) : m.attestations[i].root = root}

\* verify_relay counts each validator once: the support of a root is at most
\* any set its voters come from.
LEMMA SupportBound ==
    ASSUME NEW m \in Messages, NEW root, NEW T, IsFiniteSet(T),
           \A i \in counted_for(m, root) : m.attestations[i].validator \in T
    PROVE  relay_support(m, root) \in Nat /\ relay_support(m, root) <= Cardinality(T)
<1> DEFINE S == counted_for(m, root)
           f == [i \in S |-> m.attestations[i].validator]
<1>1. f \in [S -> T]
  OBVIOUS
<1>2. \A i, j \in S : f[i] = f[j] => i = j
  <2>1. S \subseteq DOMAIN m.attestations /\ DOMAIN m.attestations \subseteq Nat \ {0}
    BY DEF counted_for, relay_counted, Messages
  <2>2. ASSUME NEW i \in S, NEW j \in S, i < j PROVE f[i] # f[j]
    <3>1. i \in 1..(j - 1)
      BY <2>1, <2>2
    <3> QED  BY <3>1 DEF counted_for, relay_counted
  <2> SUFFICES ASSUME NEW i \in S, NEW j \in S, i # j PROVE f[i] # f[j]
    OBVIOUS
  <2>3. i \in Nat /\ j \in Nat
    BY <2>1
  <2>4. i < j \/ j < i
    BY <2>3
  <2> QED  BY <2>2, <2>4
<1>3. f \in Injection(S, T)
  BY <1>1, <1>2 DEF Injection, IsInjective
<1>4. IsFiniteSet(S) /\ Cardinality(S) <= Cardinality(T)
  BY <1>3, FS_Injection
<1>5. Cardinality(S) \in Nat
  BY <1>4, FS_CardinalityType
<1> QED  BY <1>4, <1>5 DEF relay_support, counted_for

\* Quoted attestations are votes: judged, of known validators and of the key.
LEMMA QuotedVotes ==
    ASSUME ConsensusTypeOK, VotesSound, VotesJudged, NEW m \in Messages, Quoted(m),
           NEW i \in DOMAIN m.attestations
    PROVE  /\ m.attestations[i] \in judged /\ m.attestations[i].key = m.key
           /\ m.attestations[i].validator \in known_validators
<1>1. m.key \in Keys
  BY DEF Messages
<1>2. PICK j \in votes(m.key) : attestations[m.key][j] = m.attestations[i]
  BY DEF Quoted
<1> QED  BY <1>1, <1>2 DEF VotesSound, VotesJudged, admissible

\* A verdict has two thirds of the validators it was made over.
LEMMA VerdictSupport ==
    ASSUME NEW m, NEW n \in Nat, relay_verified(m, n), NEW c \in Nat,
           relay_support(m, m.header.root) \in Nat, relay_support(m, m.header.root) <= c
    PROVE  n > 0 /\ 3 * c >= 2 * n
<1>1. n > 0 /\ relay_support(m, m.header.root) >= (n * 2 + 2) \div 3
  BY DEF relay_verified, relay_required
<1>2. 3 * ((n * 2 + 2) \div 3) >= 2 * n
  OBVIOUS
<1> QED  BY <1>1, <1>2

\* A Verified record's root was signed, for its height, by two thirds of the
\* validators known at the verdict (verify_relay), whatever was registered,
\* attested, reorganised or verified at the same time.
THEOREM RelayQuorumCorrect == RelaySpec => []RelayedRootHasQuorum
<1>1. ConsensusTypeOK /\ VotesSound /\ VotesJudged /\ RelayTypes /\ RecordsSound => RelayedRootHasQuorum
  <2> SUFFICES ASSUME ConsensusTypeOK, VotesSound, VotesJudged, RelayTypes, RecordsSound
               PROVE  RelayedRootHasQuorum
    OBVIOUS
  <2>1. RelayTypeOK
    <3> SUFFICES ASSUME NEW id \in RecordId, records[id] # Nothing
                 PROVE  /\ records[id].status \in {"Relayed", "Verified", "Failed"}
                        /\ records[id].message.key = id[1]
                        /\ records[id].message.attestations \in Seq(Attestation)
                        /\ records[id].trusted \in 0..Cardinality(Registered)
      BY DEF RelayTypes, RelayTypeOK
    <3>1. records[id] \in Records /\ Sound(records[id], id)
      BY DEF RelayTypes, RecordsSound
    <3>2. Cardinality(Registered) \in Nat
      BY RegisteredCount
    <3> QED  BY <3>1, <3>2 DEF Records, Messages, Sound
  <2>2. ASSUME NEW r \in Verdicts
        PROVE  LET signers == {v \in known_validators : \E a \in judged :
                     a.validator = v /\ a.key = r.message.key /\ a.root = r.message.header.root}
               IN  r.trusted > 0 /\ 3 * Cardinality(signers) >= 2 * r.trusted
    <3> DEFINE m == r.message
               signers == {v \in known_validators : \E a \in judged :
                             a.validator = v /\ a.key = m.key /\ a.root = m.header.root}
    <3>1. PICK id \in RecordId : records[id] # Nothing /\ records[id].status = "Verified" /\ r = records[id]
      BY DEF Verdicts
    <3>2. r \in Records /\ Sound(r, id) /\ r.status = "Verified"
      BY <3>1 DEF RelayTypes, RecordsSound
    <3>3. m \in Messages /\ Quoted(m) /\ relay_verified(m, r.trusted) /\ r.trusted \in Nat
      BY <3>2 DEF Records, Sound
    <3>4. signers \subseteq known_validators
      OBVIOUS
    <3>5. IsFiniteSet(signers) /\ Cardinality(signers) \in Nat
      BY <3>4, RegisteredCount, FS_Subset, FS_CardinalityType
    <3>6. \A i \in counted_for(m, m.header.root) : m.attestations[i].validator \in signers
      <4> SUFFICES ASSUME NEW i \in counted_for(m, m.header.root)
                   PROVE  m.attestations[i].validator \in signers
        OBVIOUS
      <4>1. i \in DOMAIN m.attestations /\ m.attestations[i].root = m.header.root
        BY DEF counted_for, relay_counted
      <4>2. /\ m.attestations[i] \in judged /\ m.attestations[i].key = m.key
            /\ m.attestations[i].validator \in known_validators
        BY <3>3, <4>1, QuotedVotes
      <4> QED  BY <4>1, <4>2
    <3> HIDE DEF m, signers
    <3>7. /\ relay_support(m, m.header.root) \in Nat
          /\ relay_support(m, m.header.root) <= Cardinality(signers)
      BY <3>3, <3>5, <3>6, SupportBound
    <3>8. r.trusted > 0 /\ 3 * Cardinality(signers) >= 2 * r.trusted
      BY <3>3, <3>5, <3>7, VerdictSupport
    <3> QED  BY <3>8 DEF m, signers
  <2> QED  BY <2>1, <2>2 DEF RelayedRootHasQuorum
<1> QED
  BY <1>1, RelayRunsConsensus, ConsensusTypeCorrect, VotesCorrect, VotesJudgedInvariant,
     RelayTypesInvariant, RecordsInvariant, PTL

-----------------------------------------------------------------------------
(* Agreement.  Validators are only added, so two verdicts over the same    *)
(* number of them were over the same ones, and two thirds of those overlap.*)

\* A verdict is stored or carried already, or is the one relay_count makes now.
LEMMA JudgementStep ==
    ASSUME RelayTypes, [RelayNext]_all_vars, NEW r \in Judgements'
    PROVE  \/ r \in Judgements
           \/ /\ r.trusted = Cardinality(known_validators)
              /\ \E h \in Handlers : /\ handler[h].pc = "verify" /\ r.message = handler[h].record.message
                                     /\ known_validators' = known_validators
<1> USE DEF RelayTypes
<1> DEFINE Goal == \/ r \in Judgements
                   \/ /\ r.trusted = Cardinality(known_validators)
                      /\ \E h \in Handlers :
                            /\ handler[h].pc = "verify" /\ r.message = handler[h].record.message
                            /\ known_validators' = known_validators
<1>1. ASSUME NEW id \in RecordId, records[id] # Nothing, records[id].status = "Verified", r = records[id]
      PROVE  Goal
  BY <1>1 DEF Judgements, Verdicts
<1>2. ASSUME NEW h \in Handlers, Carried(h), r = handler[h].record PROVE Goal
  BY <1>2 DEF Judgements
<1>3. ASSUME r \in Verdicts' PROVE Goal
  <2>1. PICK id \in RecordId : records'[id] # Nothing /\ records'[id].status = "Verified" /\ r = records'[id]
    BY <1>3 DEF Verdicts
  <2>2. CASE records'[id] = records[id]
    BY <1>1, <2>1, <2>2
  <2>3. ASSUME NEW h \in Handlers, relay_to_chain(h), records'[id] # records[id] PROVE FALSE
    <3>1. records'[id].status = "Relayed"
      BY <2>3 DEF relay_to_chain
    <3> QED  BY <2>1, <3>1
  <2>4. ASSUME NEW h \in Handlers, relay_write(h), records'[id] # records[id] PROVE Goal
    <3>1. records'[id] = handler[h].record /\ handler[h].pc = "write"
      BY <2>4 DEF relay_write
    <3>2. Carried(h)
      BY <2>1, <3>1 DEF Carried
    <3> QED  BY <1>2, <2>1, <3>1, <3>2
  <2>5. ASSUME records' # records
        PROVE  \E h \in Handlers : relay_to_chain(h) \/ relay_write(h)
    BY <2>5 DEF RelayNext, handler_step, create_relay_message, verify_relay, relay_request, relay_count,
                save_block, second, consensus_step, all_vars, relay_vars
  <2> QED  BY <2>2, <2>3, <2>4, <2>5
<1>4. ASSUME NEW g \in Handlers, Carried(g)', r = handler'[g].record PROVE Goal
  <2>1. handler'[g].pc \in {"verify", "write"} /\ handler'[g].record.status = "Verified"
    BY <1>4 DEF Carried
  <2>2. CASE handler'[g] = handler[g]
    <3>1. Carried(g)
      BY <2>1, <2>2 DEF Carried
    <3> QED  BY <1>2, <1>4, <2>2, <3>1
  <2>3. ASSUME NEW h \in Handlers, NEW id \in RecordId, verify_relay(h, id), handler'[g] # handler[g]
        PROVE  Goal
    <3>1. handler'[g] = [pc |-> "verify", id |-> id, record |-> records[id]] /\ records[id] # Nothing
      BY <2>3 DEF verify_relay, relay_request
    <3>2. handler'[g].record = records[id]
      BY <3>1
    <3> QED  BY <1>1, <1>4, <2>1, <3>1, <3>2
  <2>4. ASSUME NEW h \in Handlers, relay_count(h), handler'[g] # handler[g] PROVE Goal
    <3> DEFINE n == Cardinality(known_validators)
               verdict == IF relay_verified(handler[h].record.message, n) THEN "Verified" ELSE "Failed"
               new == [handler[h].record EXCEPT !.status = verdict, !.trusted = n]
    <3>1. handler[h].pc = "verify" /\ handler[h].record \in Records
      BY <2>4, LocalFields DEF relay_count
    <3>2. handler'[g] = [pc |-> "write", id |-> handler[h].id, record |-> new]
      BY <2>4 DEF relay_count
    <3>3. known_validators' = known_validators
      BY <2>4 DEF relay_count, vars
    <3> HIDE DEF verdict, n
    <3>4. new.trusted = n /\ new.message = handler[h].record.message
      BY <3>1 DEF Records
    <3>5. r = new
      BY <1>4, <3>2
    <3> QED  BY <3>1, <3>3, <3>4, <3>5 DEF n
  <2>5. ASSUME NEW h \in Handlers, NEW k \in Keys, create_relay_message(h, k), handler'[g] # handler[g]
        PROVE  FALSE
    <3>1. handler'[g].pc = "create"
      BY <2>5 DEF create_relay_message, relay_request
    <3> QED  BY <2>1, <3>1
  <2>6. ASSUME NEW h \in Handlers, relay_to_chain(h) \/ relay_write(h), handler'[g] # handler[g] PROVE FALSE
    <3>1. handler'[g].pc = "idle"
      BY <2>6 DEF relay_to_chain, relay_write, Waiting
    <3> QED  BY <2>1, <3>1
  <2>7. CASE \/ \E k \in Keys, b \in BlockRecords : save_block(k, b)
             \/ second \/ consensus_step \/ UNCHANGED all_vars
    BY <2>2, <2>7 DEF save_block, second, consensus_step, all_vars, relay_vars
  <2> HIDE DEF Goal
  <2> QED  BY <2>2, <2>3, <2>4, <2>5, <2>6, <2>7 DEF RelayNext, handler_step
<1> HIDE DEF Goal
<1>5. ASSUME r \notin Verdicts' PROVE Goal
  <2>1. r \in {handler'[h].record : h \in {g \in Handlers : Carried(g)'}}
    BY <1>5 DEF Judgements
  <2>2. PICK g \in {f \in Handlers : Carried(f)'} : r = handler'[g].record
    BY <2>1
  <2>3. g \in Handlers /\ Carried(g)'
    BY <2>2
  <2> QED  BY <1>4, <2>2, <2>3
<1>6. Goal
  BY <1>3, <1>5
<1> QED  BY <1>6 DEF Goal

LEMMA ElectorateInvariant == RelaySpec => []SameElectorate
<1>1. RelayInit => SameElectorate
  <2> SUFFICES ASSUME RelayInit PROVE Judgements = {}
    BY DEF SameElectorate
  <2>1. Verdicts = {}
    BY DEF RelayInit, Verdicts
  <2>2. \A h \in Handlers : ~Carried(h)
    BY DEF RelayInit, Carried, Waiting
  <2> QED  BY <2>1, <2>2 DEF Judgements
<1>2. /\ ConsensusTypeOK /\ VotesSound /\ VotesJudged /\ RelayTypes /\ RecordsSound /\ SameElectorate
      /\ [RelayNext]_all_vars /\ [Next]_vars
      => SameElectorate'
  <2> SUFFICES ASSUME ConsensusTypeOK, VotesSound, VotesJudged, RelayTypes, RecordsSound,
                      SameElectorate, [RelayNext]_all_vars, [Next]_vars,
                      NEW r \in Judgements', NEW s \in Judgements', r.trusted = s.trusted
               PROVE  \E K \in SUBSET known_validators' :
                          /\ Cardinality(K) = r.trusted
                          /\ Voters(r.message) \subseteq K /\ Voters(s.message) \subseteq K
    BY DEF SameElectorate, Voters
  <2>1. known_validators \subseteq known_validators'
    BY StepCases DEF register_validator, add_attestation, manager
  <2>2. ASSUME NEW q \in Judgements' PROVE Voters(q.message) \subseteq known_validators
    <3>1. CASE q \in Judgements
      BY <3>1 DEF SameElectorate
    <3>2. ASSUME NEW h \in Handlers, handler[h].pc = "verify", q.message = handler[h].record.message
          PROVE  Voters(q.message) \subseteq known_validators
      <4>1. handler[h].record \in Records /\ Quoted(handler[h].record.message)
        BY <3>2, LocalFields DEF RelayTypes, RecordsSound, Sound
      <4>2. q.message \in Messages /\ Quoted(q.message)
        BY <3>2, <4>1 DEF Records
      <4> QED  BY <4>2, QuotedVotes DEF Voters
    <3> QED  BY <2>2, <3>1, <3>2, JudgementStep
  <2>3. CASE r \in Judgements /\ s \in Judgements
    <3>1. PICK K \in SUBSET known_validators :
             /\ Cardinality(K) = r.trusted
             /\ Voters(r.message) \subseteq K /\ Voters(s.message) \subseteq K
      BY <2>3 DEF SameElectorate
    <3> QED  BY <2>1, <3>1
  <2>4. CASE r.trusted = Cardinality(known_validators)
    <3>1. Voters(r.message) \subseteq known_validators /\ Voters(s.message) \subseteq known_validators
      BY <2>2
    <3> QED  BY <2>1, <2>4, <3>1
  <2> QED  BY <2>3, <2>4, JudgementStep
<1> QED
  BY <1>1, <1>2, RelayRunsConsensus, ConsensusTypeCorrect, VotesCorrect, VotesJudgedInvariant,
     RelayTypesInvariant, RecordsInvariant, PTL DEF RelaySpec, Spec

\* Two Verified records of one height over the same number of validators relay
\* one root (verify_relay), although the stored block may have been replaced
\* between them and each carries the attestations of its own time.
THEOREM RelayAgreementCorrect == RelaySpec => []RelayAgreement
<1>1. ConsensusTypeOK /\ VotesSound /\ RelayTypes /\ RecordsSound /\ SameElectorate => RelayAgreement
  <2> SUFFICES ASSUME ConsensusTypeOK, VotesSound, RelayTypes, RecordsSound, SameElectorate,
                      NEW r \in Verdicts, NEW s \in Verdicts,
                      r.message.key = s.message.key, r.trusted = s.trusted,
                      r.message.header.root # s.message.header.root
               PROVE  FALSE
    BY DEF RelayAgreement
  <2> DEFINE voters(m) == {m.attestations[i].validator : i \in counted_for(m, m.header.root)}
  <2>1. ASSUME NEW q \in Verdicts
        PROVE  q.message \in Messages /\ Quoted(q.message) /\ q.trusted \in Nat
               /\ relay_verified(q.message, q.trusted)
    <3>1. PICK id \in RecordId : records[id] # Nothing /\ records[id].status = "Verified" /\ q = records[id]
      BY <2>1 DEF Verdicts
    <3> QED  BY <3>1 DEF RelayTypes, Records, RecordsSound, Sound
  <2>2. PICK K \in SUBSET known_validators :
           /\ Cardinality(K) = r.trusted
           /\ Voters(r.message) \subseteq K /\ Voters(s.message) \subseteq K
    BY DEF SameElectorate, Judgements
  <2>3. IsFiniteSet(K)
    BY <2>2, RegisteredCount, FS_Subset
  <2>4. ASSUME NEW q \in Verdicts, Voters(q.message) \subseteq K, q.trusted = r.trusted
        PROVE  /\ voters(q.message) \subseteq K /\ Cardinality(voters(q.message)) \in Nat
               /\ r.trusted > 0 /\ 3 * Cardinality(voters(q.message)) >= 2 * r.trusted
    <3> DEFINE m == q.message
               V == voters(m)
    <3>1. V \subseteq K
      BY <2>4 DEF Voters, counted_for, relay_counted
    <3>2. IsFiniteSet(V) /\ Cardinality(V) \in Nat
      BY <2>3, <3>1, FS_Subset, FS_CardinalityType
    <3>3. \A i \in counted_for(m, m.header.root) : m.attestations[i].validator \in V
      OBVIOUS
    <3>4. m \in Messages /\ relay_verified(m, r.trusted) /\ r.trusted \in Nat
      BY <2>1, <2>4
    <3> HIDE DEF V, m
    <3>5. relay_support(m, m.header.root) \in Nat /\ relay_support(m, m.header.root) <= Cardinality(V)
      BY <3>2, <3>3, <3>4, SupportBound
    <3>6. r.trusted > 0 /\ 3 * Cardinality(V) >= 2 * r.trusted
      BY <3>2, <3>4, <3>5, VerdictSupport
    <3> QED  BY <3>1, <3>2, <3>6 DEF V, m
  <2>5. voters(r.message) \cap voters(s.message) = {}
    <3> SUFFICES ASSUME NEW i \in counted_for(r.message, r.message.header.root),
                        NEW j \in counted_for(s.message, s.message.header.root),
                        r.message.attestations[i].validator = s.message.attestations[j].validator
                 PROVE  FALSE
      OBVIOUS
    <3> DEFINE k == r.message.key
    <3>1. /\ i \in DOMAIN r.message.attestations /\ j \in DOMAIN s.message.attestations
          /\ r.message.attestations[i].root = r.message.header.root
          /\ s.message.attestations[j].root = s.message.header.root
      BY DEF counted_for, relay_counted
    <3>2. PICK a \in votes(k) : attestations[k][a] = r.message.attestations[i]
      BY <2>1, <3>1 DEF Quoted
    <3>3. PICK b \in votes(k) : attestations[k][b] = s.message.attestations[j]
      BY <2>1, <3>1 DEF Quoted
    <3>4. k \in Keys
      BY <2>1 DEF Messages
    <3>5. votes_by(k, attestations[k][a].validator) = {a} /\ b \in votes_by(k, attestations[k][a].validator)
      BY <3>2, <3>3, <3>4 DEF VotesSound, votes_by
    <3> QED  BY <3>1, <3>2, <3>3, <3>5
  <2>6. /\ voters(r.message) \subseteq K /\ voters(s.message) \subseteq K /\ r.trusted > 0
        /\ Cardinality(voters(r.message)) \in Nat /\ Cardinality(voters(s.message)) \in Nat
        /\ 3 * Cardinality(voters(r.message)) >= 2 * r.trusted
        /\ 3 * Cardinality(voters(s.message)) >= 2 * r.trusted
    BY <2>2, <2>4
  <2>7. r.trusted \in Nat
    BY <2>1
  <2> HIDE DEF voters
  <2>8. Cardinality(voters(r.message)) + Cardinality(voters(s.message)) <= r.trusted
    BY <2>2, <2>3, <2>5, <2>6, DisjointParts
  <2> QED  BY <2>6, <2>7, <2>8
<1> QED
  BY <1>1, RelayRunsConsensus, ConsensusTypeCorrect, VotesCorrect, RelayTypesInvariant,
     RecordsInvariant, ElectorateInvariant, PTL
=============================================================================
