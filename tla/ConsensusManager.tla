-------------------------- MODULE ConsensusManager --------------------------
(***************************************************************************)
(* State-root attestations (packages/node/src/consensus/attestation.rs):   *)
(* the attestation lists, equivocation proofs and quorum results of one    *)
(* node, with the daemon tasks of main.rs that feed and watch them: gossip *)
(* delivery, the attestation listener, the sync loop's own attestations    *)
(* and the fraud-watch task.                                               *)
(*                                                                         *)
(* add_attestation holds the write lock of the lists to its end, so it is  *)
(* one step.  The fraud-watch pass takes and releases the lock once per    *)
(* read, so its reads are steps of their own.                              *)
(***************************************************************************)
EXTENDS Integers, Sequences, FiniteSetsExt

CONSTANTS
    Validators,   \* validator public keys
    Honest,       \* validators that sign one root per block, the replayed one
    Registered,   \* validators that register_validator is called for
    Keys,         \* (chain, height) pairs
    Blocks,       \* block hashes
    Roots,        \* state roots, ordered as their hex strings are
    Gossip,       \* attestations the network may deliver
    Own,          \* attestations the node's sync loop signs
    Threshold,    \* quorum_threshold
    ChannelSize,  \* capacity of the attestation and fraud-watch channels
    HasVault,     \* --fraud-watch-vault-config is given
    Copies,       \* bound on the deliveries of each attestation
    NoQuorum      \* build_quorum_result returned None

\* StateAttestation; signed tells whether the signature verifies.
Attestation == [key : Keys, block : Blocks, root : Roots, validator : Validators,
                signed : BOOLEAN]

\* EquivocationProof.
Proof == [key : Keys, validator : Validators, first : Attestation,
          second : Attestation]

\* QuorumResult.
QuorumResult == [root : Roots, block : Blocks, supporting : SUBSET Attestation,
                 support_count : Nat]

ASSUME ConsensusAssumption ==
    /\ Roots \subseteq Nat
    /\ Gossip \subseteq Attestation /\ Own \subseteq Attestation
    /\ Honest \subseteq Validators
    /\ Registered \subseteq Validators /\ IsFiniteSet(Registered)
    /\ Threshold \in Nat \ {0} /\ ChannelSize \in Nat \ {0}
    /\ Copies \in [Gossip \cup Own -> Nat]
    /\ HasVault \in BOOLEAN
    /\ NoQuorum \notin Roots /\ NoQuorum \notin QuorumResult

\* What some results below are conditional on.  Honest validators sign the
\* replayed root of a block, so one root for a block, and the sync loop signs
\* the next block of the height after a reorganisation; the others are fewer
\* than a quorum; and a quorum is more than half of the validators that are
\* ever registered.
HonestReplay ==
    \A a, b \in Gossip \cup Own :
        /\ a.signed /\ a.validator \in Honest /\ b.signed /\ b.validator \in Honest
        /\ a.key = b.key /\ a.block = b.block
        => a.root = b.root
HonestQuorum == Cardinality(Registered \ Honest) < Threshold
MajorityQuorum == 2 * Threshold > Cardinality(Registered)

VARIABLES
    known_validators,
    attestations,      \* per key, the accepted attestations in order
    slashing_proofs,   \* in order of detection
    attestation_rx,    \* channel from the P2P service to the listener
    fraud_rx,          \* channel from the listener to the fraud-watch task
    watch,             \* the fraud-watch task: program counter and locals
    flagged,           \* divergences reported: key, validator, root, quorum root
    challenges,        \* challenge transactions broadcast
    copies,            \* deliveries of each attestation so far
    judged             \* attestations add_attestation has found admissible

manager == <<known_validators, attestations, slashing_proofs, judged>>
vars == <<known_validators, attestations, slashing_proofs, attestation_rx,
          fraud_rx, watch, flagged, challenges, copies, judged>>

-----------------------------------------------------------------------------
(* Reads.                                                                  *)

votes(k) == DOMAIN attestations[k]
votes_by(k, v) == {i \in votes(k) : attestations[k][i].validator = v}
votes_for(k, r) == {i \in votes(k) : attestations[k][i].root = r}

\* Mutant: one vote too few is enough.
is_quorum_reached_early(k, r) == Cardinality(votes_for(k, r)) + 1 >= Threshold

is_quorum_reached(k, r) == Cardinality(votes_for(k, r)) >= Threshold

\* Mutant: the larger root wins whatever its support.
beats_by_root(k, r, s) == r >= s

\* Most attestations first, ties broken by the larger root.
beats(k, r, s) ==
    LET m == Cardinality(votes_for(k, r))
        n == Cardinality(votes_for(k, s))
    IN  m > n \/ (m = n /\ r >= s)

winning_root(k) ==
    CHOOSE r \in Roots :
        votes_for(k, r) # {} /\ \A s \in Roots : votes_for(k, s) # {} => beats(k, r, s)

\* The QuorumResult: its root, the block hash of its first supporter, the
\* validators that support it and the count it reports.
build_quorum_result(k) ==
    LET winner == winning_root(k)
        support == votes_for(k, winner)
    IN  IF votes(k) = {} \/ ~is_quorum_reached(k, winner) THEN NoQuorum
        ELSE [root |-> winner,
              block |-> attestations[k][Min(support)].block,
              supporting |-> {attestations[k][i] : i \in support},
              support_count |-> Cardinality(votes(k))]

verify_attestation(a) == a.signed

verify_equivocation_proof(p) ==
    /\ p.first.validator = p.validator /\ p.second.validator = p.validator
    /\ p.first.key = p.key /\ p.second.key = p.key
    /\ p.first.root # p.second.root
    /\ verify_attestation(p.first) /\ verify_attestation(p.second)

-----------------------------------------------------------------------------
(* ConsensusManager.                                                       *)

register_validator(v) ==
    /\ v \in Registered \ known_validators
    /\ known_validators' = known_validators \cup {v}
    /\ UNCHANGED <<attestations, slashing_proofs, attestation_rx, fraud_rx, watch,
                   flagged, challenges, copies, judged>>

\* Mutant: the signature is not verified.
admissible_unsigned(a) == a.validator \in known_validators

\* Unsigned attestations and unknown validators are rejected, all of them
\* while no validator is registered.
admissible(a) == verify_attestation(a) /\ a.validator \in known_validators

\* Mutant: a second vote of a validator counts.
accepted_again(a) == admissible(a)

accepted(a) == admissible(a) /\ votes_by(a.key, a.validator) = {}

\* Mutant: equivocation is looked for before the attestation is verified.
equivocates_unverified(a) ==
    /\ votes_by(a.key, a.validator) # {}
    /\ attestations[a.key][Min(votes_by(a.key, a.validator))].root # a.root

\* Mutant: only votes for two blocks are compared.
equivocates_other_block(a) ==
    /\ admissible(a)
    /\ votes_by(a.key, a.validator) # {}
    /\ attestations[a.key][Min(votes_by(a.key, a.validator))].block # a.block

equivocates(a) ==
    /\ admissible(a)
    /\ votes_by(a.key, a.validator) # {}
    /\ attestations[a.key][Min(votes_by(a.key, a.validator))].root # a.root

equivocation_proof(a) ==
    [key |-> a.key, validator |-> a.validator,
     first |-> attestations[a.key][Min(votes_by(a.key, a.validator))], second |-> a]

add_attestation(a) ==
    /\ attestations' = IF accepted(a)
                       THEN [attestations EXCEPT ![a.key] = Append(@, a)]
                       ELSE attestations
    /\ slashing_proofs' = IF equivocates(a)
                          THEN Append(slashing_proofs, equivocation_proof(a))
                          ELSE slashing_proofs
    /\ judged' = IF admissible(a) THEN judged \cup {a} ELSE judged
    /\ UNCHANGED known_validators

-----------------------------------------------------------------------------
(* The daemon.                                                             *)

\* The swarm task waits while the channel is full.
gossip(a) ==
    /\ copies[a] < Copies[a] /\ Len(attestation_rx) < ChannelSize
    /\ attestation_rx' = Append(attestation_rx, a)
    /\ copies' = [copies EXCEPT ![a] = @ + 1]
    /\ UNCHANGED <<manager, fraud_rx, watch, flagged, challenges>>

\* The listener fans accepted attestations out with try_send, which drops.
listener ==
    /\ attestation_rx # <<>>
    /\ LET a == Head(attestation_rx)
       IN  /\ add_attestation(a)
           /\ fraud_rx' = IF accepted(a) /\ Len(fraud_rx) < ChannelSize
                          THEN Append(fraud_rx, a) ELSE fraud_rx
    /\ attestation_rx' = Tail(attestation_rx)
    /\ UNCHANGED <<watch, flagged, challenges, copies>>

\* The sync loop adds its own attestation and tells the fraud watch nothing.
self_attest(a) ==
    /\ copies[a] < Copies[a]
    /\ add_attestation(a)
    /\ copies' = [copies EXCEPT ![a] = @ + 1]
    /\ UNCHANGED <<attestation_rx, fraud_rx, watch, flagged, challenges>>

-----------------------------------------------------------------------------
(* The fraud watch: run_fraud_watch_pass for one trigger or a sweep.       *)

Selecting == [pc |-> "select", keys |-> {}, quorum |-> NoQuorum]

watch_trigger ==
    /\ watch.pc = "select" /\ fraud_rx # <<>>
    /\ watch' = [Selecting EXCEPT !.pc = "keys", !.keys = {Head(fraud_rx).key}]
    /\ fraud_rx' = Tail(fraud_rx)
    /\ UNCHANGED <<manager, attestation_rx, flagged, challenges, copies>>

watch_sweep ==
    /\ watch.pc = "select"
    /\ watch' = [Selecting EXCEPT !.pc = "keys",
                                  !.keys = {k \in Keys : attestations[k] # <<>>}]
    /\ UNCHANGED <<manager, attestation_rx, fraud_rx, flagged, challenges, copies>>

\* A key without a quorum is passed over.
watch_quorum ==
    /\ watch.pc = "keys"
    /\ \E k \in watch.keys :
         LET q == build_quorum_result(k) IN
         watch' = IF q = NoQuorum THEN [watch EXCEPT !.keys = @ \ {k}]
                  ELSE [pc |-> "scan", keys |-> watch.keys \ {k}, key |-> k, quorum |-> q]
    /\ UNCHANGED <<manager, attestation_rx, fraud_rx, flagged, challenges, copies>>

\* maybe_broadcast_challenge makes up the two attestations it hands to
\* build_challenge_transaction, which verifies them before it builds.
challenge(k, v, claimed, correct) ==
    LET made_up(r) == [key |-> k, validator |-> v, root |-> r, signed |-> FALSE]
        p == [key |-> k, validator |-> v, first |-> made_up(claimed),
              second |-> made_up(correct)]
    IN  IF HasVault /\ verify_equivocation_proof(p)
        THEN {[key |-> k, validator |-> v]} ELSE {}

\* get_attestations and detect_divergence against the quorum read before.
detect_divergence(a, q) == a.root # q.root

\* Mutant: only the newest vote is compared with the quorum.
watch_scan_newest ==
    /\ watch.pc = "scan"
    /\ LET k == watch.key
           newest == attestations[k][Len(attestations[k])]
           diverging == {a \in {newest} : detect_divergence(a, watch.quorum)}
       IN  /\ flagged' = flagged \cup
                {[key |-> k, validator |-> a.validator, root |-> a.root,
                  quorum |-> watch.quorum.root] : a \in diverging}
           /\ challenges' = challenges \cup
                UNION {challenge(k, a.validator, a.root, watch.quorum.root) : a \in diverging}
    /\ watch' = [pc |-> "keys", keys |-> watch.keys, quorum |-> NoQuorum]
    /\ UNCHANGED <<manager, attestation_rx, fraud_rx, copies>>

watch_scan ==
    /\ watch.pc = "scan"
    /\ LET k == watch.key
           diverging == {a \in Range(attestations[k]) : detect_divergence(a, watch.quorum)}
       IN  /\ flagged' = flagged \cup
                {[key |-> k, validator |-> a.validator, root |-> a.root,
                  quorum |-> watch.quorum.root] : a \in diverging}
           /\ challenges' = challenges \cup
                UNION {challenge(k, a.validator, a.root, watch.quorum.root) : a \in diverging}
    /\ watch' = [pc |-> "keys", keys |-> watch.keys, quorum |-> NoQuorum]
    /\ UNCHANGED <<manager, attestation_rx, fraud_rx, copies>>

\* The proofs are read, not removed.
watch_proofs ==
    /\ watch.pc = "keys" /\ watch.keys = {}
    /\ challenges' = challenges \cup
         UNION {challenge(p.key, p.validator, p.first.root, p.second.root) :
                  p \in {q \in Range(slashing_proofs) : verify_equivocation_proof(q)}}
    /\ watch' = Selecting
    /\ UNCHANGED <<manager, attestation_rx, fraud_rx, flagged, copies>>

-----------------------------------------------------------------------------
Init ==
    /\ known_validators = {}
    /\ attestations = [k \in Keys |-> <<>>]
    /\ slashing_proofs = <<>>
    /\ attestation_rx = <<>> /\ fraud_rx = <<>>
    /\ watch = Selecting
    /\ flagged = {} /\ challenges = {}
    /\ copies = [a \in Gossip \cup Own |-> 0]
    /\ judged = {}

watch_pass == watch_quorum \/ watch_scan \/ watch_proofs

Next ==
    \/ \E v \in Registered : register_validator(v)
    \/ \E a \in Gossip : gossip(a)
    \/ \E a \in Own : self_attest(a)
    \/ listener
    \/ watch_trigger \/ watch_sweep \/ watch_pass

Spec == Init /\ [][Next]_vars

\* The fraud-watch task is a tokio loop: a pass goes on, and select! draws at
\* random among ready branches, so that the 60 s interval is not starved by
\* triggers.  Nothing is asked of the network, the listener or registration.
FairSpec == Spec /\ SF_vars(watch_sweep) /\ WF_vars(watch_pass)

-----------------------------------------------------------------------------
(* Properties.                                                             *)

\* The types of the manager's state and of the watch's reports.
ConsensusTypeOK ==
    /\ known_validators \subseteq Registered
    /\ attestations \in [Keys -> Seq(Attestation)]
    /\ slashing_proofs \in Seq(Proof)
    /\ attestation_rx \in Seq(Gossip)
    /\ fraud_rx \in Seq(Gossip)
    /\ judged \subseteq Attestation

\* A list holds, under its own key, signed attestations of known validators,
\* one per validator: what counts towards a quorum.
VotesSound ==
    \A k \in Keys : \A i \in votes(k) :
        /\ attestations[k][i].key = k
        /\ admissible(attestations[k][i])
        /\ votes_by(k, attestations[k][i].validator) = {i}

\* Every accumulated proof would convince anyone who verifies it, and names
\* a known validator.
ProofsSound ==
    \A i \in DOMAIN slashing_proofs :
        /\ verify_equivocation_proof(slashing_proofs[i])
        /\ slashing_proofs[i].validator \in known_validators

\* "Equivocation by any single operator is always detectable": two roots of
\* one validator for one key, in whatever order and however often they and
\* others arrive, leave a proof.
EquivocationRecorded ==
    \A a, b \in judged :
        a.key = b.key /\ a.validator = b.validator /\ a.root # b.root =>
            \E i \in DOMAIN slashing_proofs :
                slashing_proofs[i].key = a.key /\ slashing_proofs[i].validator = a.validator

\* A validator that signs the replayed root of each block is the subject of
\* a proof only by its attestations of two blocks of the height, and
\* reported as diverging only where an honest voter of the quorum attested
\* another block than it did.  So no forgery, repetition or order of
\* arrival accuses it where no height is reorganised; after a reorganisation
\* add_attestation does (HonestNeverAccused fails).
HonestAccusedAcrossBlocks ==
    /\ \A i \in DOMAIN slashing_proofs :
         slashing_proofs[i].validator \in Honest =>
            slashing_proofs[i].first.block # slashing_proofs[i].second.block
    /\ \A d \in flagged : d.validator \in Honest =>
         \E i \in votes_by(d.key, d.validator), j \in votes_for(d.key, d.quorum) :
            /\ attestations[d.key][j].validator \in Honest
            /\ attestations[d.key][i].block # attestations[d.key][j].block

\* "L1 reorg is not operator's fault" (TRUST-MODEL.tex): no honest validator
\* is the subject of a proof or reported.
HonestNeverAccused ==
    /\ \A i \in DOMAIN slashing_proofs : slashing_proofs[i].validator \notin Honest
    /\ \A d \in flagged : d.validator \notin Honest

quorum_root(k) ==
    LET q == build_quorum_result(k) IN IF q = NoQuorum THEN NoQuorum ELSE q.root

\* A quorum result, once there, keeps its root whatever arrives later.
QuorumStable ==
    [][\A k \in Keys : quorum_root(k) # NoQuorum => quorum_root(k)' = quorum_root(k)]_vars

\* A reported divergence is one: the validator's accepted vote differs from
\* the root that has the quorum now, though quorum and votes were read in
\* two steps.
DivergenceSound ==
    \A d \in flagged :
        /\ quorum_root(d.key) = d.quorum /\ d.root # d.quorum
        /\ \E i \in votes_by(d.key, d.validator) : attestations[d.key][i].root = d.root

\* A vote against a quorum is reported in the end, even when try_send dropped
\* the event or the vote was there before the quorum.
DivergenceReported ==
    \A k \in Keys, v \in Validators :
        (/\ quorum_root(k) # NoQuorum
         /\ \E i \in votes_by(k, v) : attestations[k][i].root # quorum_root(k))
        ~> (\E d \in flagged : d.key = k /\ d.validator = v)

\* "build and broadcast a challenge transaction for the first verified proof"
\* once a vault configuration is given (run_fraud_watch_pass).
ProofsChallenged ==
    HasVault /\ slashing_proofs # <<>> ~> challenges # {}
=============================================================================
