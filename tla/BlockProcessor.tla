--------------------------- MODULE BlockProcessor ---------------------------
(***************************************************************************)
(* BlockProcessor::process_tx (packages/node/src/scanner/processor.rs): how *)
(* one L1 transaction creates or moves a smart object.  The sync loop and  *)
(* the mempool listener share one processor and one store, so every store  *)
(* call of process_tx is a step of the calling task's job.                 *)
(***************************************************************************)
EXTENDS StateStore, Sequences, FiniteSetsExt

CONSTANTS
    Chain,         \* BlockProcessor.chain
    MinFee,        \* min_execution_fee
    FeeCollector,  \* fee_collector: a script, or Absent
    DefaultCode,   \* the "wasm_default" code hash
    EmptyBlob,     \* sha256 of the empty payload
    Coinbase,      \* the sender of a transaction without inputs
    Calls,         \* what a call passes to the runtime: method, args, caller
    InitState,     \* initial state per sender when the envelope names none
    Exec,          \* <<code, state, call>> to the new state, Absent if it fails
    ObjOf,         \* object id of a creating transaction: obj_<txid[..16]>
    UndoLow        \* <<txid, vout>> to the low half of the undo id

ASSUME ProcessorAssumption ==
    /\ Chain \in ChainIds
    /\ MinFee \in Nat
    /\ {DefaultCode, EmptyBlob} \subseteq Codes
    /\ Seals \cup {Coinbase} \subseteq Owners
    /\ \A w \in Owners : InitState[w] \in States
    /\ \A k \in Codes, s \in States, m \in Calls :
          Exec[<<k, s, m>>] \in States \cup {Absent}
    /\ \A s \in States, m \in Calls : Exec[<<DefaultCode, s, m>>] # Absent
    /\ \A x \in TxIds : ObjOf[x] \in ObjIds

VARIABLE job       \* per task, the process_tx call in progress

procVars == <<storeVars, job>>

\* A task outside process_tx, and the three ways a call returns.
NoJob == [pc |-> "idle"]
Returned == [pc |-> "returned"]             \* Ok(_)
WasmMissing(k) == [pc |-> "missing", code |-> k]   \* Err("WASM_MISSING:<k>")

-----------------------------------------------------------------------------
(* Reading a transaction.  A transaction is [id, vin, vout]; vin holds     *)
(* seals; an output is [env, value, script] where env is Absent or the     *)
(* parsed envelope [blob, op, code, state, call, to]: blob is the hash of  *)
(* an application/wasm payload, the other fields come from the metadata.   *)

seal_of(tx, i) == <<tx.id, i - 1>>
sender(tx) == IF tx.vin = <<>> THEN Coinbase ELSE tx.vin[1]
default_to(x, d) == IF x = Absent THEN d ELSE x

validate_fee(tx) ==
    \/ MinFee = 0
    \/ \E i \in DOMAIN tx.vout :
          /\ tx.vout[i].value >= MinFee
          /\ FeeCollector = Absent \/ tx.vout[i].script = FeeCollector

is_create(env) == env.blob # Absent \/ env.op \in {"create", "deploy"}

\* The first input that spends the seal of an object names the target.
target_inputs(tx) ==
    {k \in DOMAIN tx.vin : get_object_by_seal(tx.vin[k]) # Absent}
target(tx) == seals[tx.vin[Min(target_inputs(tx))]]

\* The loop over the outputs ends at the first envelope that creates, that
\* is a call and the call has a target, or that meets an insufficient fee.
deciding_outputs(tx, has_target) ==
    {i \in DOMAIN tx.vout :
        /\ tx.vout[i].env # Absent
        /\ is_create(tx.vout[i].env) \/ ~validate_fee(tx) \/ has_target}

\* Record written by a create or deploy.
created(tx, i, h) ==
    LET env == tx.vout[i].env IN
    [code |-> default_to(env.code, default_to(env.blob, DefaultCode)),
     seal |-> seal_of(tx, i), satoshis |-> tx.vout[i].value,
     owner |-> sender(tx), state |-> default_to(env.state, InitState[sender(tx)]),
     created_at |-> h, updated_at |-> h]

\* Record written by a call on prev that left the contract state st.
called(prev, tx, i, h, st) ==
    [prev EXCEPT !.seal = seal_of(tx, i), !.updated_at = h,
                 !.satoshis = tx.vout[i].value,
                 !.owner = default_to(tx.vout[i].env.to, @), !.state = st]

-----------------------------------------------------------------------------
(* process_tx(tx, h), called by task t.                                    *)

create_job(tx, i, h) ==
    [pc |-> IF tx.vout[i].env.blob \in {Absent, EmptyBlob} THEN "undo" ELSE "wasm",
     tx |-> tx, vout |-> i, height |-> h, action |-> "CREATE",
     obj |-> ObjOf[tx.id], prev |-> Absent, rec |-> created(tx, i, h)]

call_job(tx, i, h, o) ==
    [pc |-> "undo", tx |-> tx, vout |-> i, height |-> h, action |-> "UPDATE",
     obj |-> o, prev |-> objects[o], rec |-> Absent]

\* The scan of the outputs and, for a call, the read of the target.
process_tx(t, tx, h) ==
    LET has_target == target_inputs(tx) # {}
        deciding == deciding_outputs(tx, has_target)
        i == Min(deciding)
    IN  /\ job[t] = NoJob
        /\ job' = [job EXCEPT ![t] =
               IF deciding = {} \/ ~validate_fee(tx) THEN Returned
               ELSE IF is_create(tx.vout[i].env) THEN create_job(tx, i, h)
               ELSE call_job(tx, i, h, target(tx))]
        /\ UNCHANGED storeVars

\* A deployed payload is stored under its own hash.
store_blob(t) ==
    /\ job[t].pc = "wasm"
    /\ save_wasm(t, job[t].tx.vout[job[t].vout].env.blob)
    /\ job' = [job EXCEPT ![t].pc = "undo"]

\* The undo log precedes every change of an object.
record_undo(t) ==
    LET j == job[t] IN
    /\ j.pc = "undo"
    /\ save_undo_log(t, [id |-> [height |-> j.height,
                                 low |-> UndoLow[<<j.tx.id, j.vout - 1>>]],
                         chain |-> Chain, height |-> j.height, obj |-> j.obj,
                         action |-> j.action, prev |-> j.prev])
    /\ job' = [job EXCEPT ![t].pc = IF j.action = "CREATE" THEN "commit" ELSE "execute"]

\* get_wasm_bytes and execute_wasm, or the simple mutation of the default code.
execute(t) ==
    LET j == job[t]
        st == Exec[<<j.prev.code, j.prev.state, j.tx.vout[j.vout].env.call>>]
    IN  /\ j.pc = "execute"
        /\ job' = [job EXCEPT ![t] =
               IF j.prev.code \notin wasm \cup {DefaultCode}
               THEN WasmMissing(j.prev.code)
               ELSE IF st = Absent THEN Returned
               ELSE [j EXCEPT !.pc = "commit",
                              !.rec = called(j.prev, j.tx, j.vout, j.height, st)]]
        /\ UNCHANGED storeVars

commit_object(t) ==
    /\ job[t].pc = "commit"
    /\ save_object_commit(t, job[t].obj, job[t].rec)
    /\ job' = [job EXCEPT ![t].pc = "tree"]

update_tree(t) ==
    /\ job[t].pc = "tree"
    /\ save_object_smt(t)
    /\ job' = [job EXCEPT ![t] =
           IF @.action = "CREATE" THEN Returned ELSE [@ EXCEPT !.pc = "transition"]]

record_transition(t) ==
    /\ job[t].pc = "transition"
    /\ save_transition(t, [txid |-> job[t].tx.id, obj |-> job[t].obj,
                           height |-> job[t].height])
    /\ job' = [job EXCEPT ![t] = Returned]

process_step(t) ==
    \/ store_blob(t)
    \/ record_undo(t)
    \/ execute(t)
    \/ commit_object(t)
    \/ update_tree(t)
    \/ record_transition(t)

ProcInit == StoreInit /\ job = [t \in Tasks |-> NoJob]
=============================================================================
