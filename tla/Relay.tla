------------------------------- MODULE Relay --------------------------------
(***************************************************************************)
(* The state relay of one node (cross_chain/relay.rs) over the attestation *)
(* lists of its consensus manager and the block records of its store.      *)
(*                                                                         *)
(* The RPC handlers create_relay and verify_relay run concurrently with    *)
(* each other, with registrations, with the attestation listener and with  *)
(* the sync loop; every lock they take is released before the next one is  *)
(* taken, so every access is a step.  The fraud watch writes nothing that  *)
(* the relay reads and does not run here.                                  *)
(***************************************************************************)
EXTENDS ConsensusManager

CONSTANTS
    Handlers,       \* RPC handlers that may run at once
    BlockRecords,   \* block hash and state root the node stores for a key
    Nothing,        \* absence of a block or relay record
    MaxSeconds,     \* bound of the clock that is part of a record id
    MaxRequests     \* bound on the number of relay requests

ASSUME RelayAssumption ==
    /\ BlockRecords \subseteq [block : Blocks, root : Roots]
    /\ MaxSeconds \in Nat /\ MaxRequests \in Nat

VARIABLES
    block_records,  \* per key, the stored block record
    records,        \* relay records, by key and second of creation
    handler,        \* program counter and locals of each handler
    seconds,        \* the clock
    requests        \* number of requests so far

relay_vars == <<block_records, records, handler, seconds, requests>>
all_vars == <<vars, relay_vars>>

RecordId == Keys \X (0..MaxSeconds)
Waiting == [pc |-> "idle"]

\* A free handler takes a request.
relay_request(h, locals) ==
    /\ handler[h] = Waiting
    /\ requests < MaxRequests
    /\ requests' = requests + 1
    /\ handler' = [handler EXCEPT ![h] = locals]
    /\ UNCHANGED <<vars, block_records, records, seconds>>

-----------------------------------------------------------------------------
(* create_relay: create_relay_message and relay_to_chain.                  *)

create_relay_message(h, k) ==
    /\ block_records[k] # Nothing
    /\ relay_request(h, [pc |-> "create", key |-> k, header |-> block_records[k]])

\* The attestations are read after the block, at the latest when the record is
\* written (what is attested in between might as well come afterwards); a
\* record created in the same second for the same key is overwritten.
relay_to_chain(h) ==
    /\ handler[h].pc = "create"
    /\ LET k == handler[h].key
           message == [key |-> k, header |-> handler[h].header, attestations |-> attestations[k]]
       IN  records' = [records EXCEPT ![<<k, seconds>>] =
                        [message |-> message, status |-> "Relayed", trusted |-> 0]]
    /\ handler' = [handler EXCEPT ![h] = Waiting]
    /\ UNCHANGED <<vars, block_records, seconds, requests>>

-----------------------------------------------------------------------------
(* verify_relay: read the record, read the validator count, write back.    *)

\* Signed attestations, the first of each validator.
relay_counted(m) ==
    {i \in DOMAIN m.attestations :
        /\ verify_attestation(m.attestations[i])
        /\ \A j \in 1..(i - 1) :
              verify_attestation(m.attestations[j])
                => m.attestations[j].validator # m.attestations[i].validator}

relay_support(m, root) == Cardinality({i \in relay_counted(m) : m.attestations[i].root = root})

\* Mutant: half of the validators are enough.
relay_required_half(n) == n \div 2

relay_required(n) == (n * 2 + 2) \div 3

\* Mutant: the support of any root verifies the root of the message.
relay_verified_any(m, n) ==
    /\ n > 0
    /\ \E root \in Roots : relay_support(m, root) > 0 /\ relay_support(m, root) >= relay_required(n)

\* The root of the message has most support, or as much as any smaller one.
relay_verified(m, n) ==
    /\ n > 0
    /\ relay_counted(m) # {}
    /\ \A root \in Roots \ {m.header.root} :
          \/ relay_support(m, root) < relay_support(m, m.header.root)
          \/ relay_support(m, root) = relay_support(m, m.header.root) /\ root < m.header.root
    /\ relay_support(m, m.header.root) >= relay_required(n)

verify_relay(h, id) ==
    /\ records[id] # Nothing
    /\ relay_request(h, [pc |-> "verify", id |-> id, record |-> records[id]])

\* The field trusted is history: the number of validators of the verdict.
relay_count(h) ==
    /\ handler[h].pc = "verify"
    /\ LET n == Cardinality(known_validators)
           verdict == IF relay_verified(handler[h].record.message, n) THEN "Verified" ELSE "Failed"
       IN  handler' = [handler EXCEPT ![h] =
                        [pc |-> "write", id |-> @.id,
                         record |-> [@.record EXCEPT !.status = verdict, !.trusted = n]]]
    /\ UNCHANGED <<vars, block_records, records, seconds, requests>>

relay_write(h) ==
    /\ handler[h].pc = "write"
    /\ records' = [records EXCEPT ![handler[h].id] = handler[h].record]
    /\ handler' = [handler EXCEPT ![h] = Waiting]
    /\ UNCHANGED <<vars, block_records, seconds, requests>>

-----------------------------------------------------------------------------
(* The rest of the node.                                                   *)

\* The sync loop saves the block of a height, again after a reorganisation.
save_block(k, b) ==
    /\ block_records' = [block_records EXCEPT ![k] = b]
    /\ UNCHANGED <<vars, records, handler, seconds, requests>>

second ==
    /\ seconds < MaxSeconds
    /\ seconds' = seconds + 1
    /\ UNCHANGED <<vars, block_records, records, handler, requests>>

consensus_step ==
    /\ \/ \E v \in Registered : register_validator(v)
       \/ \E a \in Gossip : gossip(a)
       \/ \E a \in Own : self_attest(a)
       \/ listener
    /\ UNCHANGED relay_vars

RelayInit ==
    /\ Init
    /\ block_records = [k \in Keys |-> Nothing]
    /\ records = [id \in RecordId |-> Nothing]
    /\ handler = [h \in Handlers |-> Waiting]
    /\ seconds = 0
    /\ requests = 0

handler_step(h) == relay_to_chain(h) \/ relay_count(h) \/ relay_write(h)

RelayNext ==
    \/ \E h \in Handlers :
          \/ \E k \in Keys : create_relay_message(h, k)
          \/ \E id \in RecordId : verify_relay(h, id)
          \/ handler_step(h)
    \/ \E k \in Keys, b \in BlockRecords : save_block(k, b)
    \/ second
    \/ consensus_step

RelaySpec == RelayInit /\ [][RelayNext]_all_vars

-----------------------------------------------------------------------------
(* Properties.                                                             *)

\* Types of the relay's records.
RelayTypeOK ==
    /\ block_records \in [Keys -> BlockRecords \cup {Nothing}]
    /\ \A id \in RecordId : records[id] # Nothing =>
          /\ records[id].status \in {"Relayed", "Verified", "Failed"}
          /\ records[id].message.key = id[1]
          /\ records[id].message.attestations \in Seq(Attestation)
          /\ records[id].trusted \in 0..Cardinality(Registered)
    /\ seconds \in 0..MaxSeconds /\ requests \in 0..MaxRequests

Verdicts ==
    {records[id] : id \in {i \in RecordId : records[i] # Nothing /\ records[i].status = "Verified"}}

\* The root a Verified record relays was signed, for the record's height, by
\* two thirds of the validators known at the verdict, whatever was registered,
\* attested, reorganised or verified at the same time (verify_relay).
RelayedRootHasQuorum ==
    RelayTypeOK /\ \A r \in Verdicts :
        LET signers == {v \in known_validators : \E a \in judged :
                            a.validator = v /\ a.key = r.message.key /\ a.root = r.message.header.root}
        IN  /\ r.trusted > 0
            /\ 3 * Cardinality(signers) >= 2 * r.trusted

\* Two records of one height verified against the same validators relay the
\* same root, although the stored block was replaced between them and each
\* carries the attestations of its own time.
RelayAgreement ==
    \A r, s \in Verdicts :
        r.message.key = s.message.key /\ r.trusted = s.trusted =>
            r.message.header.root = s.message.header.root
=============================================================================
