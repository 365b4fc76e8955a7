------------------------------- MODULE Vault --------------------------------
(***************************************************************************)
(* The life of an operator's bond on L1: the startup check of the chain    *)
(* (main.rs, l1_scripts.rs), the vault and claim script trees              *)
(* (l1_scripts.rs, covenants.rs) and the challenge transaction             *)
(* (challenge.rs), run by the script rules of module TapScript.            *)
(*                                                                         *)
(* Keys are named by who holds them.  The output key of a tree is taken to *)
(* be the tweaked key the code leaves to its caller; spends use the leaves *)
(* and witnesses that the code builds, with the age of the coin as the     *)
(* sequence of the input.                                                  *)
(***************************************************************************)
EXTENDS TapScript, FiniteSets

CONSTANTS
    Delays,         \* pairs of unbond and claim delay of a configuration
    KeyLengths,     \* length in bytes of a configured public key
    Bonds, Fees,    \* bond amounts and miner fees
    RootStrings,    \* state root strings of attestations
    BlockHashes,    \* block hashes of attestations
    RootWidth,      \* bytes of a state root (32)
    CsvHeight, TaprootHeight, OpcodeHeight,   \* activation heights of the chain
    KnownHeight,    \* activation height of OP_CAT written in the code
    MaxHeight,      \* bound of the chain, past the last activation height
    Ages,           \* ages of a coin that are looked at
    U64             \* number of values of a u64

\* The values of a u32.
U32 == {n \in Nat : n \div 2^16 < 2^16}

ASSUME VaultAssumption ==
    /\ Delays \subseteq Nat \X Nat /\ \A d \in Delays : d[1] \in U32 /\ d[2] \in U32
    /\ KeyLengths \subseteq Nat
    /\ U64 \in Nat /\ Bonds \subseteq 0..(U64 - 1) /\ Fees \subseteq 0..(U64 - 1)
    /\ RootStrings \subseteq [hex : BOOLEAN, bytes : Seq(0..255), upper : BOOLEAN]
    /\ RootWidth \in Nat \ {0}
    /\ OpcodeHeight <= KnownHeight
    /\ MaxHeight \in Nat
    /\ {CsvHeight, TaprootHeight, OpcodeHeight, KnownHeight} \subseteq 0..MaxHeight
    /\ 0 \in Ages /\ Ages \subseteq Nat

VARIABLES
    height,     \* height of the chain
    node,       \* the operator's daemon
    config,     \* VaultConfig and the bond
    signed,     \* attestations that were signed, of one chain and height
    coin        \* the bond: where it is, its output, age and amount

vault_vars == <<height, node, config, signed, coin>>

Attestation == [block : BlockHashes, root : RootStrings, validator : {"operator", "other"}]

least(m, n) == IF m <= n THEN m ELSE n

rules == [csv |-> height >= CsvHeight, taproot |-> height >= TaprootHeight,
          opcodes |-> height >= OpcodeHeight]

-----------------------------------------------------------------------------
(* Startup: query_softfork_status and assert_chain_supports_bonding.       *)

Forks == {"csv", "taproot", "opcodes"}
ChainInfo == [wrapped : BOOLEAN, lists : SUBSET Forks, blocks : BOOLEAN]

\* A fork is seen where the reply lists it at its top level, in its softforks
\* array or its deployments object; the chain reports it truthfully.
listed(reply, fork) == ~ reply.wrapped /\ fork \in reply.lists /\ rules[fork]

query_softfork_status(reply) ==
    [csv_active |-> listed(reply, "csv"),
     taproot_active |-> listed(reply, "taproot"),
     disabled_opcodes_active |->
        \/ listed(reply, "opcodes")
        \/ ~ reply.wrapped /\ reply.blocks /\ height >= KnownHeight]

\* Mutant: Taproot is taken to bring the opcodes with it.
assert_chain_without_opcodes(status) == status.csv_active /\ status.taproot_active

assert_chain_supports_bonding(status) ==
    status.csv_active /\ status.taproot_active /\ status.disabled_opcodes_active

\* Without --bonding-enabled nothing is checked; a failed check or query ends
\* the process.
start_watching ==
    /\ node = "down"
    /\ node' = "watching"
    /\ UNCHANGED <<height, config, signed, coin>>

start_bonding(reply) ==
    /\ node = "down"
    /\ node' = IF assert_chain_supports_bonding(query_softfork_status(reply))
               THEN "bonding" ELSE "down"
    /\ UNCHANGED <<height, config, signed, coin>>

-----------------------------------------------------------------------------
(* Scripts.                                                                *)

\* Mutant: OP_N starts at OP_2.
push_small_shifted(value) ==
    IF value = 0 THEN <<>> ELSE IF value <= 16 THEN <<Byte(value + 1)>>
    ELSE [i \in 1..(IF value < 2^8 THEN 1 ELSE IF value < 2^16 THEN 2
                    ELSE IF value < 2^24 THEN 3 ELSE 4) |-> Byte((value \div 256^(i - 1)) % 256)]

\* OP_0, OP_1 to OP_16, or the value in one to four bytes, lowest first; no
\* byte is added for the sign.
push_minimal_uint(value) ==
    IF value <= 16 THEN (IF value = 0 THEN <<>> ELSE <<Byte(value)>>)
    ELSE [i \in 1..(IF value < 2^8 THEN 1 ELSE IF value < 2^16 THEN 2
                    ELSE IF value < 2^24 THEN 3 ELSE 4) |-> Byte((value \div 256^(i - 1)) % 256)]

delayed(delay, who) ==
    <<Push(push_minimal_uint(delay)), Op("CSV"), Op("DROP"), Push(KeyOf(who)), Op("CHECKSIG")>>

build_operator_unbond_leaf == delayed(config.unbond_delay, "operator")

repeat(op, n) == [i \in 1..n |-> Op(op)]
Domain == << <<"domain", "UTXO_VM_ATTESTATION_V1">> >>

covenant_phase ==
    <<Op("FROMALTSTACK"), Push(Domain), Op("CAT"), Op("FROMALTSTACK"), Op("CAT"),
      Op("FROMALTSTACK"), Op("CAT"), Op("FROMALTSTACK"), Op("CAT"), Op("SHA256"),
      Op("FROMALTSTACK"), Push(KeyOf("operator")), Op("CHECKSIGVERIFY"), Op("DROP")>>

build_equivocation_covenant ==
    repeat("TOALTSTACK", 12) \o covenant_phase \o covenant_phase
        \o <<Op("FROMALTSTACK"), Op("FROMALTSTACK"), Op("EQUAL"), Op("NOT"), Op("VERIFY")>>

build_vault_script_tree ==
    [operator_leaf |-> build_operator_unbond_leaf, challenge_leaf |-> build_equivocation_covenant]

p2tr_output_script ==
    TapTweak(build_vault_script_tree.operator_leaf, build_vault_script_tree.challenge_leaf)

claim_leaf == delayed(config.claim_delay, "challenger")
rebut_leaf == <<Push(KeyOf("operator")), Op("CHECKSIG")>>
build_challenge_claim_script_tree == [claim_leaf |-> claim_leaf, rebut_leaf |-> rebut_leaf]

challenge_tree_p2tr_script ==
    LET tree == build_challenge_claim_script_tree IN TapTweak(tree.claim_leaf, tree.rebut_leaf)

keys_accepted == config.operator_len = 32 /\ config.challenger_len = 32

-----------------------------------------------------------------------------
(* Attestations and the challenge transaction.                             *)

field(string) == << <<"len", string>>, <<"str", string>> >>
height_field == << <<"height", 1>> >>
chain_field == << <<"len", "jkc">>, <<"str", "jkc">> >>

serialize_attestation_preimage(a) ==
    Domain \o chain_field \o height_field \o field(a.block) \o field(a.root)

signature(a) == Signature(a.validator, Sha256(serialize_attestation_preimage(a)))

\* Mutant: the signatures are not looked at.
verify_equivocation_unsigned(v, a, b) == a.validator = v /\ b.validator = v /\ a.root # b.root

verify_equivocation_proof(v, a, b) ==
    a.validator = v /\ b.validator = v /\ a.root # b.root /\ {a, b} \subseteq signed

pad_to_32(bytes) == [i \in 1..RootWidth |-> IF i <= Len(bytes) THEN bytes[i] ELSE 0]

\* Bytes of a hexadecimal string of either case, else the hash of the string.
decode_or_hash(root) ==
    IF root.hex THEN << <<"bytes", pad_to_32(root.bytes)>> >> ELSE << <<"sha", root>> >>

build_equivocation_witness(a, b) ==
    <<decode_or_hash(a.root), decode_or_hash(b.root),
      chain_field, height_field, field(a.block), field(a.root), signature(a),
      chain_field, height_field, field(b.block), field(b.root), signature(b)>>

challenge_amount(bond, fee) == (bond - fee) % U64

affordable(bond, fee) == bond >= fee

\* What build_challenge_transaction requires.  The validator of the proof is
\* not compared with the operator of the vault.
challenge_built(v, a, b, fee) ==
    /\ verify_equivocation_proof(v, a, b)
    /\ keys_accepted
    /\ config.bond_txid_valid
    /\ affordable(coin.amount, fee)

challenge_accepted(a, b) ==
    /\ Reveals(coin.output, build_equivocation_covenant, build_operator_unbond_leaf)
    /\ Opens(build_equivocation_covenant, build_equivocation_witness(a, b), rules, coin.age)

build_evidence_output(a, b) == <<decode_or_hash(a.root), decode_or_hash(b.root)>>

\* The outputs of the transaction: the challenge coin and the evidence.
serialize_challenge_tx(v, a, b, fee) ==
    [at |-> "claim", output |-> challenge_tree_p2tr_script, age |-> 0,
     amount |-> challenge_amount(coin.amount, fee), fee |-> fee,
     evidence |-> build_evidence_output(a, b), accused |-> v]

\* submit_challenge with a proof at hand, and the chain confirms it.
submit_challenge(v, a, b, fee) ==
    /\ coin.at = "vault"
    /\ challenge_built(v, a, b, fee)
    /\ challenge_accepted(a, b)
    /\ coin' = serialize_challenge_tx(v, a, b, fee)
    /\ UNCHANGED <<height, node, config, signed>>

-----------------------------------------------------------------------------
(* The wallets and the chain (external).                                   *)

\* The bond is paid once the daemon reports that bonding is enabled, or, with
\* no such check, once the chain knows Taproot.
fund_vault ==
    /\ coin.at = "wallet"
    /\ keys_accepted
    /\ node = "bonding" \/ (node = "watching" /\ rules.taproot)
    /\ coin' = [coin EXCEPT !.at = "vault", !.output = p2tr_output_script, !.age = 0]
    /\ UNCHANGED <<height, node, config, signed>>

\* The holder of a key takes the coin through a leaf of its output.
wallet_opens(who, leaf, sibling) ==
    /\ Reveals(coin.output, leaf, sibling)
    /\ Opens(leaf, <<Signature(who, TxSighash)>>, rules, coin.age)

take(who, leaf, sibling) ==
    /\ wallet_opens(who, leaf, sibling)
    /\ coin' = [coin EXCEPT !.at = who, !.age = 0]
    /\ UNCHANGED <<height, node, config, signed>>

unbond == coin.at = "vault" /\ take("operator", build_operator_unbond_leaf, build_equivocation_covenant)
claim == coin.at = "claim" /\ take("challenger", claim_leaf, rebut_leaf)
rebut == coin.at = "claim" /\ take("operator", rebut_leaf, claim_leaf)

attest(a) ==
    /\ Cardinality(signed) < 2
    /\ signed' = signed \cup {a}
    /\ UNCHANGED <<height, node, config, coin>>

\* Blocks: one while the bond is not paid, as many as lead to the next age of
\* the coin afterwards; the height stops at its bound.
mine(n) ==
    /\ height' = least(height + n, MaxHeight)
    /\ coin' = IF coin.at = "wallet" THEN coin ELSE [coin EXCEPT !.age = @ + n]
    /\ UNCHANGED <<node, config, signed>>

blocks ==
    \/ coin.at = "wallet" /\ mine(1)
    \/ /\ coin.at \in {"vault", "claim"}
       /\ \E age \in Ages :
            /\ age > coin.age
            /\ \A other \in Ages : other > coin.age => age <= other
            /\ mine(age - coin.age)

stop ==
    /\ node # "down"
    /\ node' = "down"
    /\ UNCHANGED <<height, config, signed, coin>>

-----------------------------------------------------------------------------

Init ==
    /\ height = 0
    /\ node = "down"
    /\ config \in {[unbond_delay |-> d[1], claim_delay |-> d[2], bond |-> bond, operator_len |-> n,
                    challenger_len |-> m, bond_txid_valid |-> ok] :
                        d \in Delays, bond \in Bonds, n, m \in KeyLengths, ok \in BOOLEAN}
    /\ signed = {}
    /\ coin = [at |-> "wallet", output |-> <<>>, age |-> 0, amount |-> config.bond,
               fee |-> 0, evidence |-> <<>>, accused |-> "nobody"]

Next ==
    \/ start_watching
    \/ \E reply \in ChainInfo : start_bonding(reply)
    \/ stop
    \/ fund_vault
    \/ \E a \in Attestation : attest(a)
    \/ \E v \in {"operator", "other"}, a, b \in Attestation, fee \in Fees : submit_challenge(v, a, b, fee)
    \/ unbond
    \/ claim
    \/ rebut
    \/ blocks

Spec == Init /\ [][Next]_vault_vars

-----------------------------------------------------------------------------
(* Properties.                                                             *)

\* Types; the amount of the coin is a u64 and the evidence has full roots.
VaultTypeOK ==
    /\ height \in 0..MaxHeight
    /\ node \in {"down", "bonding", "watching"}
    /\ signed \subseteq Attestation
    /\ coin.at \in {"wallet", "vault", "claim", "operator", "challenger"}
    /\ coin.age \in Ages
    /\ coin.amount \in 0..(U64 - 1)
    /\ \A i \in DOMAIN coin.evidence :
          coin.evidence[i][1][1] = "bytes" => Len(coin.evidence[i][1][2]) = RootWidth

\* The last byte that is pushed for a delay, and what a unit of it stands for.
top_unit(delay) == IF delay < 2^8 THEN 1 ELSE IF delay < 2^16 THEN 2^8
                   ELSE IF delay < 2^24 THEN 2^16 ELSE 2^24
top_byte(delay) == delay \div top_unit(delay)

\* What a delay asks of a coin once it is in the script.  The top bit of the
\* last byte is a sign: a negative number is never reached, minus zero at
\* once.  Bit 22 asks for a time, which a number of blocks never reaches; of
\* the other delays the low 16 bits count.
due(delay, age) ==
    IF top_byte(delay) >= 128
    THEN top_byte(delay) = 128 /\ delay % top_unit(delay) = 0
    ELSE (delay \div 2^22) % 2 = 0 /\ delay % 2^16 <= age

\* The delays that may fail to open a leaf but never open it early.
NeverEarly == {d \in U32 : d < 2^16 /\ d # 128 /\ d # 32768}

\* A bond that is locked under a node with bonding enabled is locked by its
\* scripts: no leaf opens with an empty witness, and the operator's leaf does
\* not open before its delay, whatever form the daemon's reply took when the
\* node started (assert_chain_supports_bonding).  The script reads the delays
\* 128 and 32768 as zero and cuts those from 65536 up to 16 bits: the second
\* part is about all others, those that make the leaf unusable included.
BondingGuarded ==
    node = "bonding" /\ coin.at = "vault" /\ coin.output = p2tr_output_script =>
        /\ \A leaf \in {build_operator_unbond_leaf, build_equivocation_covenant} :
              ~ Opens(leaf, <<>>, rules, coin.age)
        /\ config.unbond_delay \in NeverEarly /\ coin.age < config.unbond_delay =>
              ~ wallet_opens("operator", build_operator_unbond_leaf, build_equivocation_covenant)

\* Once CSV is active, each delayed leaf opens for its owner exactly when the
\* bytes that push_minimal_uint writes for the configured u32 are due: from
\* the delay on below 128 and from 256 to 32767, never for the other delays
\* below 65536 but 128 and 32768, and at an age other than the delay for the
\* rest (DelayAsConfigured fails).
DelayExact ==
    rules.csv /\ rules.taproot =>
        /\ coin.at = "vault" =>
              (wallet_opens("operator", build_operator_unbond_leaf, build_equivocation_covenant)
                 <=> due(config.unbond_delay, coin.age))
        /\ coin.at = "claim" =>
              (wallet_opens("challenger", claim_leaf, rebut_leaf)
                 <=> due(config.claim_delay, coin.age))

\* "operator can exit after `unbond_delay` blocks", "challenger claims after
\* `claim_delay` blocks" (l1_scripts.rs), the tests' 144 among them.
DelayAsConfigured ==
    rules.csv /\ rules.taproot =>
        /\ coin.at = "vault" =>
              (wallet_opens("operator", build_operator_unbond_leaf, build_equivocation_covenant)
                 <=> coin.age >= config.unbond_delay)
        /\ coin.at = "claim" =>
              (wallet_opens("challenger", claim_leaf, rebut_leaf)
                 <=> coin.age >= config.claim_delay)

\* A root string as the state store writes it.
Canonical(r) == r.hex /\ Len(r.bytes) = RootWidth /\ ~ r.upper

\* What a challenge leaves of the bond and the miner fee make up the bond, and
\* the evidence of a challenge is true of the validator it names: it rests on
\* two attestations that validator signed, for different roots, and shows two
\* different roots when both are root strings as the state store writes them
\* (verify_equivocation_proof, decode_or_hash).
ChallengeJustified ==
    /\ VaultTypeOK
    /\ coin.amount + coin.fee = config.bond
    /\ coin.evidence # <<>> =>
        \E a, b \in signed :
            /\ a.validator = coin.accused /\ b.validator = coin.accused
            /\ a.root # b.root
            /\ coin.evidence = build_evidence_output(a, b)
            /\ Canonical(a.root) /\ Canonical(b.root) => coin.evidence[1] # coin.evidence[2]

\* An equivocation of the operator, with roots as the state store writes them,
\* opens the covenant leaf of the bond on a chain that has OP_CAT, with the
\* witness that the code builds for it.
EquivocationSlashable ==
    \A a, b \in signed, fee \in Fees :
        /\ coin.at = "vault" /\ rules.csv /\ rules.taproot /\ rules.opcodes
        /\ Canonical(a.root) /\ Canonical(b.root)
        /\ challenge_built("operator", a, b, fee)
        => challenge_accepted(a, b)
=============================================================================
