------------------------------- MODULE Bridge -------------------------------
(***************************************************************************)
(* The bridge manager of one node (cross_chain/bridge.rs) with the proof   *)
(* verifier it calls (cross_chain/verifier.rs) and the bridge tables of    *)
(* the store (storage/db.rs).                                              *)
(*                                                                         *)
(* RPC handlers call lock_assets, mint_from_proof and cancel_transfer      *)
(* concurrently.  A task executes one call; every access to a shared table *)
(* or cache is one step, because nothing but the per-transfer mutex of     *)
(* mint_from_proof spans two of them.  The object tree and the event list  *)
(* are left out: StateStore models the first, nothing reads the second     *)
(* but a query, and minted_objects is written and never read.              *)
(***************************************************************************)
EXTENDS Integers, FiniteSets, Sequences

CONSTANTS
    Tasks,          \* RPC handlers that may run at once
    Objects,        \* source objects of the bridge
    Owners,         \* keys that own objects
    Callers,        \* owners that call the bridge
    OwnerOf,        \* the owner every object has at the start
    Chains,         \* chain names a lock request may state
    Recipients,     \* destination owners
    Validators,     \* keys that can be registered as validators
    Proofs,         \* cross-chain proofs that clients present
    Strays,         \* ids and proofs that clients present, of a transfer or not
    None,           \* absence of a table entry
    ReclaimTimeout, \* RECLAIM_TIMEOUT_SECS in ticks of the clock
    MaxTime,        \* bound of the clock
    MaxCalls,       \* bound on the number of calls
    MaxCrashes      \* bound on the number of restarts

ASSUME BridgeAssumption ==
    /\ OwnerOf \in [Objects -> Owners]
    /\ Callers \subseteq Owners
    /\ IsFiniteSet(Tasks) /\ None \notin Tasks
    /\ \A p \in Proofs :
          /\ p.object_id \in Objects
          /\ Len(p.attestations) \in Nat /\ DOMAIN p.attestations = 1..Len(p.attestations)
    /\ ReclaimTimeout \in Nat /\ MaxTime \in Nat
    /\ MaxCalls \in Nat /\ MaxCrashes \in Nat

VARIABLES
    objects,        \* source objects: owner, and whether it has the prefix "bridge_locked:"
    minted,         \* minted objects (with the proof and the number of validators, history)
    saved,          \* BRIDGE_TRANSFERS_TABLE
    minted_proofs,  \* MINTED_PROOFS_TABLE: source object -> transfer
    transfers,      \* the cache BridgeManager.transfers
    transfer_locks, \* holder of the mutex of each transfer
    known,          \* ConsensusManager.known_validators
    task,           \* program counter and locals of each handler
    now,            \* the clock, Utc::now()
    calls,          \* number of calls so far
    crashes,        \* number of restarts so far (history)
    passed          \* per transfer, locks and cancels that passed their checks (history)

tables == <<objects, minted, saved, minted_proofs>>
memory == <<transfers, transfer_locks, known, task>>
history == <<calls, crashes, passed>>
vars == <<tables, memory, now, history>>

(***************************************************************************)
(* Records.  The id of a transfer joins both chain names, the object and   *)
(* the second of its creation; the destination chain is fixed here.        *)
(***************************************************************************)
TransferId == Chains \X Objects \X (0..MaxTime)
BridgeStatus == {"Locked", "Verified", "Minted", "Failed"}
BridgeTransfer ==
    [object : Objects, chain : Chains, to : Recipients,
     created_at : 0..MaxTime, status : BridgeStatus]
ASSUME AbsenceAssumption == None \notin TransferId /\ None \notin BridgeTransfer

Idle == [pc |-> <<"idle", "idle">>]
returned(k) == [task EXCEPT ![k] = Idle]
goto(k, pc) == [task EXCEPT ![k].pc = pc]
at(k, pc) == task[k].pc = pc

-----------------------------------------------------------------------------
(***************************************************************************)
(* CrossChainVerifier::verify_proof.  An attestation names its validator,  *)
(* chain, height and root and carries the Boolean signed; a proof has the  *)
(* Boolean merkle for its path.                                            *)
(***************************************************************************)
\* Mutant: a validator that appears twice is counted twice.
counted_twice(p, trusted) == {i \in DOMAIN p.attestations : p.attestations[i].validator \in trusted}

\* Indices of the attestations that count: the first of each known validator.
counted(p, trusted) ==
    {i \in DOMAIN p.attestations :
        /\ p.attestations[i].validator \in trusted
        /\ \A j \in 1..(i - 1) : p.attestations[j].validator # p.attestations[i].validator}

root_count(p, trusted, root) ==
    Cardinality({i \in counted(p, trusted) : p.attestations[i].state_root = root})

required(total) == (2 * total + 2) \div 3

\* The root of the proof wins: more attestations, or as many and a larger root.
\* The number of validators is read before the set of them.
verify_quorum(p, total, trusted) ==
    /\ total > 0
    /\ counted(p, trusted) # {}
    /\ \A i \in counted(p, trusted) :
          LET root == p.attestations[i].state_root
          IN  \/ root = p.source_root
              \/ root_count(p, trusted, root) < root_count(p, trusted, p.source_root)
              \/ /\ root_count(p, trusted, root) = root_count(p, trusted, p.source_root)
                 /\ root < p.source_root
    /\ root_count(p, trusted, p.source_root) >= required(total)

attests(a, p) ==
    /\ a.state_root = p.source_root
    /\ a.block_height = p.source_height
    /\ a.chain = p.source_chain
    /\ a.signed

verify_attestation_signatures(p) ==
    \A i \in DOMAIN p.attestations : attests(p.attestations[i], p)

verify_proof(p, total, trusted) ==
    /\ verify_quorum(p, total, trusted)
    /\ p.merkle
    /\ verify_attestation_signatures(p)

register_validator(v) ==
    /\ v \notin known
    /\ known' = known \cup {v}
    /\ UNCHANGED <<tables, transfers, transfer_locks, task, now, history>>

-----------------------------------------------------------------------------
(***************************************************************************)
(* lock_assets: read and check the object, save it locked, save the        *)
(* transfer, cache the transfer.  The saved object is the copy read first. *)
(***************************************************************************)
\* A free handler takes a call; one it refuses at once changes nothing and is
\* not counted.
idle(k) == task[k] = Idle /\ calls < MaxCalls
accept(k, locals) ==
    /\ task' = [task EXCEPT ![k] = locals]
    /\ calls' = calls + 1

lock_locals(chain, o, to) ==
    [pc |-> <<"lock", "object">>, op |-> "lock", id |-> <<chain, o, now>>, obj |-> objects[o],
     tr |-> [object |-> o, chain |-> chain, to |-> to, created_at |-> now, status |-> "Locked"]]

lock_assets(k, chain, o, to, caller, signed) ==
    /\ idle(k)
    /\ UNCHANGED <<tables, transfers, transfer_locks, known, now, crashes>>
    /\ IF objects[o].locked \/ caller # objects[o].owner \/ ~signed
       THEN UNCHANGED <<task, calls, passed>>
       ELSE /\ accept(k, lock_locals(chain, o, to))
            /\ passed' = [passed EXCEPT ![<<chain, o, now>>].locks = @ + 1]

lock_object(k) ==
    /\ at(k, <<"lock", "object">>)
    /\ objects' = [objects EXCEPT ![task[k].tr.object] = [task[k].obj EXCEPT !.locked = TRUE]]
    /\ task' = goto(k, <<"lock", "save">>)
    /\ UNCHANGED <<minted, saved, minted_proofs, transfers, transfer_locks, known, now, history>>

lock_save(k) ==
    /\ at(k, <<"lock", "save">>)
    /\ saved' = [saved EXCEPT ![task[k].id] = task[k].tr]
    /\ task' = goto(k, <<"lock", "cache">>)
    /\ UNCHANGED <<objects, minted, minted_proofs, transfers, transfer_locks, known, now, history>>

lock_cache(k) ==
    /\ at(k, <<"lock", "cache">>)
    /\ transfers' = [transfers EXCEPT ![task[k].id] = task[k].tr]
    /\ task' = returned(k)
    /\ UNCHANGED <<tables, transfer_locks, known, now, history>>

-----------------------------------------------------------------------------
(***************************************************************************)
(* mint_from_proof.  The guard drops the mutex on every return.            *)
(***************************************************************************)
\* Mutant: an early return leaves the mutex locked.
mint_return_locked(k) ==
    /\ task' = returned(k)
    /\ UNCHANGED transfer_locks

mint_return(k) ==
    /\ task' = returned(k)
    /\ transfer_locks' = [transfer_locks EXCEPT ![task[k].id] = None]

mint_from_proof(k, id, p) ==
    /\ idle(k)
    /\ accept(k, [pc |-> <<"mint", "wait">>, op |-> "mint", id |-> id, proof |-> p])
    /\ UNCHANGED <<tables, transfers, transfer_locks, known, now, crashes, passed>>

\* Mutant: calls of one transfer are not serialised.
mint_unserialised(k) ==
    /\ at(k, <<"mint", "wait">>)
    /\ task' = goto(k, <<"mint", "guard">>)
    /\ UNCHANGED <<tables, transfers, transfer_locks, known, now, history>>

mint_lock(k) ==
    /\ at(k, <<"mint", "wait">>)
    /\ transfer_locks[task[k].id] = None
    /\ transfer_locks' = [transfer_locks EXCEPT ![task[k].id] = k]
    /\ task' = goto(k, <<"mint", "guard">>)
    /\ UNCHANGED <<tables, transfers, known, now, history>>

\* check_and_insert_minted_proof is one write transaction, before any check of the proof.
mint_guard(k) ==
    /\ at(k, <<"mint", "guard">>)
    /\ UNCHANGED <<objects, minted, saved, transfers, known, now, history>>
    /\ LET o == task[k].proof.object_id
       IN  \/ /\ minted_proofs[o] = None
              /\ minted_proofs' = [minted_proofs EXCEPT ![o] = task[k].id]
              /\ task' = goto(k, <<"mint", "read">>)
              /\ UNCHANGED transfer_locks
           \/ /\ minted_proofs[o] = task[k].id
              /\ task' = goto(k, <<"mint", "recheck">>)
              /\ UNCHANGED <<minted_proofs, transfer_locks>>
           \/ /\ minted_proofs[o] \notin {None, task[k].id}
              /\ mint_return(k)
              /\ UNCHANGED minted_proofs

is_minted(id) == transfers[id] # None /\ transfers[id].status = "Minted"

mint_recheck(k) ==
    /\ at(k, <<"mint", "recheck">>)
    /\ UNCHANGED <<tables, transfers, known, now, history>>
    /\ \/ /\ is_minted(task[k].id)
          /\ mint_return(k)
       \/ /\ ~is_minted(task[k].id)
          /\ task' = goto(k, <<"mint", "read">>)
          /\ UNCHANGED transfer_locks

\* The transfer, and the number of validators that verify_quorum reads next:
\* a registration between the two reads might as well come before both.
mint_read(k) ==
    /\ at(k, <<"mint", "read">>)
    /\ UNCHANGED <<tables, transfers, known, now, history>>
    /\ \/ /\ transfers[task[k].id] = None \/ is_minted(task[k].id)
          /\ mint_return(k)
       \/ /\ transfers[task[k].id] # None /\ ~is_minted(task[k].id)
          /\ task' = [task EXCEPT ![k] =
                [pc |-> <<"mint", "verify">>, op |-> "mint", id |-> task[k].id,
                 proof |-> task[k].proof, tr |-> transfers[task[k].id],
                 total |-> Cardinality(known)]]
          /\ UNCHANGED transfer_locks

mint_verify(k) ==
    /\ at(k, <<"mint", "verify">>)
    /\ UNCHANGED <<tables, transfers, known, now, history>>
    /\ LET p == task[k].proof
           tr == task[k].tr
           valid == verify_proof(p, task[k].total, known)
           bound == p.object_id = tr.object /\ p.source_chain = tr.chain
       IN  \/ /\ ~valid
              /\ task' = [task EXCEPT ![k] =
                    [pc |-> <<"failed", "cache">>, op |-> "mint", id |-> @.id,
                     tr |-> [tr EXCEPT !.status = "Failed"]]]
              /\ UNCHANGED transfer_locks
           \/ /\ valid /\ ~bound
              /\ mint_return(k)
           \/ /\ valid /\ bound
              /\ task' = [task EXCEPT ![k] =
                    [pc |-> <<"verified", "cache">>, op |-> "mint", id |-> @.id,
                     proof |-> p, total |-> @.total, tr |-> [tr EXCEPT !.status = "Verified"]]]
              /\ UNCHANGED transfer_locks

\* The object id of a minted object joins the transfer id and the second, so
\* that a second mint within it overwrites the first.
mint_object(k) ==
    /\ at(k, <<"mint", "object">>)
    /\ minted' = {m \in minted : m.transfer # task[k].id \/ m.at # now}
                    \cup {[transfer |-> task[k].id, at |-> now, object |-> task[k].tr.object,
                           to |-> task[k].tr.to, proof |-> task[k].proof, total |-> task[k].total]}
    /\ task' = [task EXCEPT ![k] =
            [pc |-> <<"minted", "cache">>, op |-> "mint", id |-> @.id,
             tr |-> [@.tr EXCEPT !.status = "Minted"]]]
    /\ UNCHANGED <<objects, saved, minted_proofs, transfers, transfer_locks, known, now, history>>

(***************************************************************************)
(* update_transfer: cache first, table second.                             *)
(***************************************************************************)
Updates == {"failed", "verified", "minted", "cancelled"}

update_cache(k) ==
    \E u \in Updates :
        /\ at(k, <<u, "cache">>)
        /\ transfers' = [transfers EXCEPT ![task[k].id] = task[k].tr]
        /\ task' = goto(k, <<u, "save">>)
        /\ UNCHANGED <<tables, transfer_locks, known, now, history>>

update_save(k) ==
    \E u \in Updates :
        /\ at(k, <<u, "save">>)
        /\ saved' = [saved EXCEPT ![task[k].id] = task[k].tr]
        /\ UNCHANGED <<objects, minted, minted_proofs, transfers, known, now, history>>
        /\ \/ u = "failed" /\ task' = goto(k, <<"unlock", "read">>) /\ UNCHANGED transfer_locks
           \/ u = "verified" /\ task' = goto(k, <<"mint", "object">>) /\ UNCHANGED transfer_locks
           \/ u = "minted" /\ mint_return(k)
           \/ u = "cancelled" /\ task' = returned(k) /\ UNCHANGED transfer_locks

-----------------------------------------------------------------------------
(***************************************************************************)
(* cancel_transfer, which does not take the mutex, and unlock_object.      *)
(***************************************************************************)
cancellable(id) ==
    /\ transfers[id] # None
    /\ transfers[id].status = "Locked"
    /\ now - transfers[id].created_at >= ReclaimTimeout

cancel_transfer(k, id, caller, signed) ==
    /\ idle(k)
    /\ UNCHANGED <<tables, transfers, transfer_locks, known, now, crashes>>
    /\ \/ /\ ~cancellable(id)
          /\ UNCHANGED <<task, calls, passed>>
       \/ /\ cancellable(id)
          /\ passed' = [passed EXCEPT ![id].cancels = @ + 1]
          /\ accept(k, [pc |-> <<"cancel", "owner">>, op |-> "cancel", id |-> id, tr |-> transfers[id],
                        caller |-> caller, signed |-> signed])

cancel_owner(k) ==
    /\ at(k, <<"cancel", "owner">>)
    /\ UNCHANGED <<tables, transfers, transfer_locks, known, now, history>>
    /\ IF task[k].caller # objects[task[k].tr.object].owner \/ ~task[k].signed
       THEN task' = returned(k)
       ELSE task' = [task EXCEPT ![k] =
                [pc |-> <<"unlock", "read">>, op |-> "cancel", id |-> @.id, tr |-> @.tr]]

after_unlock(k) ==
    \/ /\ task[k].op = "mint"
       /\ mint_return(k)
    \/ /\ task[k].op = "cancel"
       /\ task' = [task EXCEPT ![k] =
            [pc |-> <<"cancelled", "cache">>, op |-> "cancel", id |-> @.id,
             tr |-> [@.tr EXCEPT !.status = "Failed"]]]
       /\ UNCHANGED transfer_locks

unlock_read(k) ==
    /\ at(k, <<"unlock", "read">>)
    /\ UNCHANGED <<tables, transfers, known, now, history>>
    /\ LET obj == objects[task[k].tr.object]
       IN  \/ /\ obj.locked
              /\ task' = [task EXCEPT ![k] =
                    [pc |-> <<"unlock", "save">>, op |-> @.op, id |-> @.id, tr |-> @.tr, obj |-> obj]]
              /\ UNCHANGED transfer_locks
           \/ /\ ~obj.locked
              /\ after_unlock(k)

\* Mutant: the source object keeps its lock.
unlock_lost(k) ==
    /\ at(k, <<"unlock", "save">>)
    /\ after_unlock(k)
    /\ UNCHANGED <<tables, transfers, known, now, history>>

unlock_save(k) ==
    /\ at(k, <<"unlock", "save">>)
    /\ objects' = [objects EXCEPT ![task[k].tr.object] = [task[k].obj EXCEPT !.locked = FALSE]]
    /\ after_unlock(k)
    /\ UNCHANGED <<minted, saved, minted_proofs, transfers, known, now, history>>

-----------------------------------------------------------------------------
(***************************************************************************)
(* The process dies and starts again: BridgeManager::new reads both tables *)
(* back; validators, mutexes and running calls are gone.                   *)
(***************************************************************************)
\* Mutant: a restart starts with an empty replay guard.
restart_unguarded ==
    /\ crashes < MaxCrashes
    /\ crashes' = crashes + 1
    /\ transfers' = saved
    /\ minted_proofs' = [o \in Objects |-> None]
    /\ transfer_locks' = [id \in TransferId |-> None]
    /\ known' = {}
    /\ task' = [k \in Tasks |-> Idle]
    /\ UNCHANGED <<objects, minted, saved, now, calls, passed>>

restart ==
    /\ crashes < MaxCrashes
    /\ crashes' = crashes + 1
    /\ transfers' = saved
    /\ transfer_locks' = [id \in TransferId |-> None]
    /\ known' = {}
    /\ task' = [k \in Tasks |-> Idle]
    /\ UNCHANGED <<tables, now, calls, passed>>

tick ==
    /\ now < MaxTime
    /\ now' = now + 1
    /\ UNCHANGED <<tables, memory, history>>

Init ==
    /\ objects = [o \in Objects |-> [owner |-> OwnerOf[o], locked |-> FALSE]]
    /\ minted = {}
    /\ saved = [id \in TransferId |-> None]
    /\ minted_proofs = [o \in Objects |-> None]
    /\ transfers = saved
    /\ transfer_locks = [id \in TransferId |-> None]
    /\ known = {}
    /\ task = [k \in Tasks |-> Idle]
    /\ now = 0
    /\ calls = 0
    /\ crashes = 0
    /\ passed = [id \in TransferId |-> [locks |-> 0, cancels |-> 0]]

task_step(k) ==
    \/ lock_object(k) \/ lock_save(k) \/ lock_cache(k)
    \/ mint_lock(k) \/ mint_guard(k) \/ mint_recheck(k) \/ mint_read(k)
    \/ mint_verify(k) \/ mint_object(k)
    \/ update_cache(k) \/ update_save(k)
    \/ cancel_owner(k) \/ unlock_read(k) \/ unlock_save(k)

\* Requests with the API key; the others are refused before they reach the
\* manager.  Clients present the id of a transfer the node has returned; to
\* mint_from_proof also others, which cancel_transfer refuses at once.
request(k) ==
    \/ \E chain \in Chains, o \in Objects, to \in Recipients, caller \in Callers, signed \in BOOLEAN :
          lock_assets(k, chain, o, to, caller, signed)
    \/ \E id \in TransferId, p \in Proofs :
          (saved[id] # None \/ <<id, p>> \in Strays) /\ mint_from_proof(k, id, p)
    \/ \E id \in TransferId, caller \in Callers, signed \in BOOLEAN :
          saved[id] # None /\ cancel_transfer(k, id, caller, signed)

\* No call, tick, registration or restart is left; whether the calls that are
\* still open return is CallsReturn.
finished ==
    /\ calls = MaxCalls /\ now = MaxTime /\ crashes = MaxCrashes /\ known = Validators
    /\ UNCHANGED vars

Next ==
    \/ \E k \in Tasks : request(k) \/ task_step(k)
    \/ \E v \in Validators : register_validator(v)
    \/ restart
    \/ tick
    \/ finished

Spec == Init /\ [][Next]_vars

\* A handler that has been called runs on: it awaits nothing but the mutex.
FairSpec == Spec /\ \A k \in Tasks : WF_vars(task_step(k))

-----------------------------------------------------------------------------
(***************************************************************************)
(* Properties.                                                             *)
(***************************************************************************)
\* Type invariant of the tables and caches of the bridge.
BridgeTypeOK ==
    /\ objects \in [Objects -> [owner : Owners, locked : BOOLEAN]]
    /\ \A m \in minted : m.transfer \in TransferId /\ m.object \in Objects /\ m.to \in Recipients
    /\ saved \in [TransferId -> BridgeTransfer \cup {None}]
    /\ transfers \in [TransferId -> BridgeTransfer \cup {None}]
    /\ minted_proofs \in [Objects -> TransferId \cup {None}]
    /\ transfer_locks \in [TransferId -> Tasks \cup {None}]
    /\ known \subseteq Validators
    /\ now \in 0..MaxTime /\ calls \in 0..MaxCalls /\ crashes \in 0..MaxCrashes
    /\ passed \in [TransferId -> [locks : Nat, cancels : Nat]]

\* The replay guard, on well-typed tables: everything ever minted for a source object was minted by
\* one and the same transfer, whatever calls overlap and across restarts
\* (check_and_insert_minted_proof, MINTED_PROOFS_TABLE).
OneTransferPerObject ==
    /\ BridgeTypeOK
    /\ \A m1, m2 \in minted : m1.object = m2.object => m1.transfer = m2.transfer

\* A transfer is minted once for every lock that opened it, plus at most once
\* for every restart and for every cancel that passed its status check: the
\* mutex and the two status checks of mint_from_proof leave no other way.
ExtraMintsExplained ==
    \A id \in TransferId :
        Cardinality({m \in minted : m.transfer = id}) <=
            passed[id].locks + passed[id].cancels + crashes

\* What is minted carries a proof of the transfer's object that two thirds of
\* the validators counted by the verifier signed, each of them once
\* (verify_quorum, verify_attestation_signatures and the binding checks).
MintHasQuorum ==
    \A m \in minted :
        LET signers == {v \in Validators : \E i \in DOMAIN m.proof.attestations :
                            /\ m.proof.attestations[i].validator = v
                            /\ attests(m.proof.attestations[i], m.proof)}
        IN  /\ m.total > 0
            /\ 3 * Cardinality(signers) >= 2 * m.total
            /\ m.proof.object_id = m.object

\* Once every call has returned, cache and table agree on which transfers exist,
\* so that a restart forgets none (lock_assets saves before it caches).  Until
\* the first restart, an object that is then locked, and whose transfers nobody cancelled, has a transfer that is Locked
\* (its owner can cancel it) or Minted: update_transfer(Failed) comes before
\* unlock_object in mint_from_proof and save_object before the cache in
\* lock_assets, so that no overlap of the two leaves it locked for nothing.
LockReleasable ==
    (\A k \in Tasks : task[k] = Idle) =>
        /\ \A id \in TransferId : (transfers[id] = None) <=> (saved[id] = None)
        /\ crashes = 0 =>
              \A o \in Objects :
                  LET of_object == {id \in TransferId : transfers[id] # None /\ transfers[id].object = o}
                  IN  objects[o].locked /\ (\A id \in of_object : passed[id].cancels = 0) =>
                          \E id \in of_object : transfers[id].status \in {"Locked", "Minted"}

\* Every call returns: no early return of mint_from_proof keeps the mutex.
CallsReturn == \A k \in Tasks : task[k] # Idle ~> task[k] = Idle

\* The comment on mint_from_proof: a source object is not minted twice, and
\* the guard survives a restart.
MintedOnce == \A m1, m2 \in minted : m1.object = m2.object => m1 = m2
=============================================================================
