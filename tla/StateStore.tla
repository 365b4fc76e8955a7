----------------------------- MODULE StateStore -----------------------------
(***************************************************************************)
(* The embedded database of the node (packages/node/src/storage/db.rs):    *)
(* smart objects, the seal index, undo logs, transition history, block     *)
(* records, the sync cursor and the WASM blobs, plus the in-memory sparse  *)
(* Merkle tree that is kept beside them.                                   *)
(*                                                                         *)
(* Every redb write transaction is one atomic step.  A method that commits *)
(* and then touches the in-memory tree is two steps of the calling task    *)
(* (saving[t] holds the call in between), because another task of the      *)
(* runtime may run in between.  rollback_to_block holds the  *)
(* single redb write transaction while it walks the undo logs, so its loop *)
(* is modelled one log at a time on a private copy (rb) that is published  *)
(* by the commit and forgotten by a crash.                                 *)
(***************************************************************************)
EXTENDS Integers

CONSTANTS
    ObjIds,     \* object ids
    Seals,      \* outpoints txid:vout
    TxIds,      \* transaction ids
    ChainIds,   \* chain names
    Heights,    \* block heights a record may carry; 0 is "unconfirmed"
    Lows,       \* values of the low 32 bits of an undo id
    Blocks,     \* L1 block hashes
    Codes,      \* code hashes
    Owners,     \* owner strings
    States,     \* contract states (serialised JSON)
    Values,     \* satoshi amounts
    Tasks,      \* concurrent callers: sync loop, mempool listener, RPC handlers
    SyncTask,   \* the sync loop, the only caller of rollback_to_block
    Absent      \* "no entry" in a table

ASSUME StoreAssumption ==
    /\ Heights \subseteq Nat /\ 0 \in Heights
    /\ Lows \subseteq Nat
    /\ SyncTask \in Tasks
    /\ Absent \notin ObjIds \cup Blocks

\* SmartObjectRecord without its object_id, which is the table key.
Object == [code : Codes, seal : Seals, satoshis : Values, owner : Owners,
           state : States, created_at : Heights, updated_at : Heights]

\* A save_object call between its commit and its tree update.
Saving == [obj : ObjIds, rec : Object]

ASSUME AbsentIsNoRecord == Absent \notin Object \cup Saving

\* UndoLogRecord.  id is ((height << 32) | vout) ^ prefix32(txid): the pair
\* of the height and of the low 32 bits orders exactly as the u64 does.
UndoId == [height : Heights, low : Lows]
UndoLog == [id : UndoId, chain : ChainIds, height : Heights, obj : ObjIds,
            action : {"CREATE", "UPDATE"}, prev : Object \cup {Absent}]

\* The part of StateTransitionRecord the store itself looks at.
Transition == [txid : TxIds, obj : ObjIds, height : Heights]

VARIABLES
    objects,      \* OBJECTS_TABLE
    seals,        \* SEALS_TABLE
    undo_logs,    \* UNDO_LOGS_TABLE
    transitions,  \* TRANSITIONS_TABLE
    blocks,       \* BLOCKS_TABLE, the block_hash of each record
    last_block,   \* CHAIN_META_TABLE, "<chain>_last_block"
    wasm,         \* keys of WASM_TABLE
    smt,          \* leaves of the in-memory sparse Merkle tree
    saving,       \* per task, the save_object call whose tree update is due
    rb            \* the rollback_to_block call in progress

tables == <<objects, seals, undo_logs, transitions, blocks, last_block, wasm>>
storeVars == <<objects, seals, undo_logs, transitions, blocks, last_block,
               wasm, smt, saving, rb>>

NoRollback == [phase |-> "idle"]

\* redb admits one write transaction at a time.
write_lock_free == rb.phase # "undo"

\* A task is inside a store call that has not returned.
in_store_call(t) ==
    \/ saving[t] # Absent
    \/ t = SyncTask /\ rb.phase # "idle"

can_write(t) == ~in_store_call(t) /\ write_lock_free

-----------------------------------------------------------------------------
(* Hashing.  hash_object covers every field but the two block heights; the *)
(* leaf value is the tuple of what is hashed, so equal leaves mean equal    *)
(* hashed fields.                                                          *)

hash_object(r) == <<r.code, r.seal, r.satoshis, r.owner, r.state>>

smt_of(objs) ==
    [o \in ObjIds |-> IF objs[o] = Absent THEN Absent ELSE hash_object(objs[o])]

\* The root is a collision-free function of the leaves.
current_state_root == smt

-----------------------------------------------------------------------------
(* Reads.                                                                  *)

get_object_by_seal(s) == IF seals[s] = Absent THEN Absent ELSE objects[seals[s]]

-----------------------------------------------------------------------------
(* Writes.                                                                 *)

\* Mutant: the seal the object leaves stays in the index.
index_moved_keeps_old(idx, objs, o, r) == [idx EXCEPT ![r.seal] = o]

\* SEALS_TABLE after the object o moves to record r.
index_moved(idx, objs, o, r) ==
    [s \in Seals |-> IF s = r.seal THEN o
                     ELSE IF objs[o] # Absent /\ s = objs[o].seal THEN Absent
                     ELSE idx[s]]

\* SEALS_TABLE after the current seal of o is removed.
index_without(idx, objs, o) ==
    [s \in Seals |-> IF objs[o] # Absent /\ s = objs[o].seal THEN Absent
                     ELSE idx[s]]

\* save_object, the database transaction.
save_object_commit(t, o, r) ==
    /\ can_write(t)
    /\ objects' = [objects EXCEPT ![o] = r]
    /\ seals' = index_moved(seals, objects, o, r)
    /\ saving' = [saving EXCEPT ![t] = [obj |-> o, rec |-> r]]
    /\ UNCHANGED <<undo_logs, transitions, blocks, last_block, wasm, smt, rb>>

\* save_object, the tree update after the commit.
save_object_smt(t) ==
    /\ saving[t] # Absent
    /\ smt' = [smt EXCEPT ![saving[t].obj] = hash_object(saving[t].rec)]
    /\ saving' = [saving EXCEPT ![t] = Absent]
    /\ UNCHANGED <<tables, rb>>

\* insert replaces a record with the same id.
save_undo_log(t, u) ==
    /\ can_write(t)
    /\ undo_logs' = {v \in undo_logs : v.id # u.id} \cup {u}
    /\ UNCHANGED <<objects, seals, transitions, blocks, last_block, wasm,
                   smt, saving, rb>>

save_transition(t, tr) ==
    /\ can_write(t)
    /\ transitions' = {v \in transitions : v.txid # tr.txid} \cup {tr}
    /\ UNCHANGED <<objects, seals, undo_logs, blocks, last_block, wasm,
                   smt, saving, rb>>

save_block(t, c, h, b) ==
    /\ can_write(t)
    /\ blocks' = [blocks EXCEPT ![c] = [@ EXCEPT ![h] = b]]
    /\ UNCHANGED <<objects, seals, undo_logs, transitions, last_block, wasm,
                   smt, saving, rb>>

set_last_sync_block(t, c, h) ==
    /\ can_write(t)
    /\ last_block' = [last_block EXCEPT ![c] = h]
    /\ UNCHANGED <<objects, seals, undo_logs, transitions, blocks, wasm,
                   smt, saving, rb>>

\* A blob is stored only under its own hash, so the key is all there is.
save_wasm(t, k) ==
    /\ can_write(t)
    /\ wasm' = wasm \cup {k}
    /\ UNCHANGED <<objects, seals, undo_logs, transitions, blocks, last_block,
                   smt, saving, rb>>

-----------------------------------------------------------------------------
(* rollback_to_block(c, target).                                           *)

\* The undo logs of chain c above target are collected in id order and then
\* stably sorted by descending height: within one height, ascending id.
rollback_begin(c, target) ==
    /\ can_write(SyncTask)
    /\ rb' = [phase |-> "undo", chain |-> c, target |-> target,
              logs |-> {u \in undo_logs : u.chain = c /\ u.height > target},
              objects |-> objects, seals |-> seals]
    /\ UNCHANGED <<tables, smt, saving>>

\* Mutant: the oldest change is undone first.
undone_before_ascending(u, v) ==
    \/ u.height < v.height
    \/ u.height = v.height /\ u.id.height < v.id.height
    \/ u.height = v.height /\ u.id.height = v.id.height /\ u.id.low < v.id.low

undone_before(u, v) ==
    \/ u.height > v.height
    \/ u.height = v.height /\ u.id.height < v.id.height
    \/ u.height = v.height /\ u.id.height = v.id.height /\ u.id.low < v.id.low

is_next_undo(u, logs) == \A v \in logs \ {u} : undone_before(u, v)

\* Object table after one undo log is applied.
undone(objs, u) ==
    IF u.action = "CREATE" THEN [objs EXCEPT ![u.obj] = Absent]
    ELSE IF u.prev # Absent THEN [objs EXCEPT ![u.obj] = u.prev]
    ELSE objs

\* Seal table after one undo log is applied.
undone_seals(idx, objs, u) ==
    LET cleared == index_without(idx, objs, u.obj)
    IN  IF u.action = "UPDATE" /\ u.prev # Absent
        THEN [cleared EXCEPT ![u.prev.seal] = u.obj]
        ELSE cleared

rollback_undo ==
    /\ rb.phase = "undo"
    /\ \E u \in rb.logs :
        /\ is_next_undo(u, rb.logs)
        /\ rb' = [rb EXCEPT !.logs = @ \ {u},
                            !.objects = undone(rb.objects, u),
                            !.seals = undone_seals(rb.seals, rb.objects, u)]
    /\ UNCHANGED <<tables, smt, saving>>

\* Mutant: the undo logs of the target block are dropped too.
rollback_commit_drops_target ==
    /\ rb.phase = "undo" /\ rb.logs = {}
    /\ objects' = rb.objects
    /\ seals' = rb.seals
    /\ undo_logs' = {u \in undo_logs : ~(u.chain = rb.chain /\ u.height >= rb.target)}
    /\ blocks' = [blocks EXCEPT ![rb.chain] =
                    [h \in Heights |-> IF h > rb.target THEN Absent ELSE @[h]]]
    /\ transitions' = {t \in transitions : t.height <= rb.target}
    /\ last_block' = [last_block EXCEPT ![rb.chain] = rb.target]
    /\ rb' = [phase |-> "read"]
    /\ UNCHANGED <<wasm, smt, saving>>

\* Mutant: the transition records stay.
rollback_commit_keeps_history ==
    /\ rb.phase = "undo" /\ rb.logs = {}
    /\ objects' = rb.objects
    /\ seals' = rb.seals
    /\ undo_logs' = {u \in undo_logs : ~(u.chain = rb.chain /\ u.height > rb.target)}
    /\ blocks' = [blocks EXCEPT ![rb.chain] =
                    [h \in Heights |-> IF h > rb.target THEN Absent ELSE @[h]]]
    /\ transitions' = transitions
    /\ last_block' = [last_block EXCEPT ![rb.chain] = rb.target]
    /\ rb' = [phase |-> "read"]
    /\ UNCHANGED <<wasm, smt, saving>>

\* The commit also drops the undo logs just applied, the chain's block
\* records and every transition above target, and moves the cursor.
rollback_commit ==
    /\ rb.phase = "undo" /\ rb.logs = {}
    /\ objects' = rb.objects
    /\ seals' = rb.seals
    /\ undo_logs' = {u \in undo_logs : ~(u.chain = rb.chain /\ u.height > rb.target)}
    /\ blocks' = [blocks EXCEPT ![rb.chain] =
                    [h \in Heights |-> IF h > rb.target THEN Absent ELSE @[h]]]
    /\ transitions' = {t \in transitions : t.height <= rb.target}
    /\ last_block' = [last_block EXCEPT ![rb.chain] = rb.target]
    /\ rb' = [phase |-> "read"]
    /\ UNCHANGED <<wasm, smt, saving>>

\* get_all_objects, then the whole tree is replaced.
rollback_read ==
    /\ rb.phase = "read"
    /\ rb' = [phase |-> "install", leaves |-> smt_of(objects)]
    /\ UNCHANGED <<tables, smt, saving>>

\* Mutant: the tree of before the rollback stays.
rollback_install_stale ==
    /\ rb.phase = "install"
    /\ rb' = NoRollback
    /\ UNCHANGED <<tables, smt, saving>>

rollback_install ==
    /\ rb.phase = "install"
    /\ smt' = rb.leaves
    /\ rb' = NoRollback
    /\ UNCHANGED <<tables, saving>>

\* Process crash and StateStore::open: an open write transaction is lost and
\* the tree is rebuilt from the persisted objects.
open ==
    /\ rb' = NoRollback
    /\ saving' = [t \in Tasks |-> Absent]
    /\ smt' = smt_of(objects)
    /\ UNCHANGED tables

-----------------------------------------------------------------------------
(* The store under arbitrary clients: what every caller may do to it.      *)

StoreInit ==
    /\ objects = [o \in ObjIds |-> Absent]
    /\ seals = [s \in Seals |-> Absent]
    /\ undo_logs = {}
    /\ transitions = {}
    /\ blocks = [c \in ChainIds |-> [h \in Heights |-> Absent]]
    /\ last_block = [c \in ChainIds |-> 0]
    /\ wasm = {}
    /\ smt = smt_of(objects)
    /\ saving = [t \in Tasks |-> Absent]
    /\ rb = NoRollback

StoreNext ==
    \/ \E t \in Tasks :
        \/ \E o \in ObjIds, r \in Object : save_object_commit(t, o, r)
        \/ save_object_smt(t)
        \/ \E u \in UndoLog : save_undo_log(t, u)
        \/ \E tr \in Transition : save_transition(t, tr)
        \/ \E c \in ChainIds, h \in Heights, b \in Blocks : save_block(t, c, h, b)
        \/ \E c \in ChainIds, h \in Heights : set_last_sync_block(t, c, h)
        \/ \E k \in Codes : save_wasm(t, k)
    \/ \E c \in ChainIds, h \in Heights : rollback_begin(c, h)
    \/ rollback_undo
    \/ rollback_commit
    \/ rollback_read
    \/ rollback_install
    \/ open

StoreSpec == StoreInit /\ [][StoreNext]_storeVars

-----------------------------------------------------------------------------
(* Properties.                                                             *)

SmtLeaves == [ObjIds -> (Codes \X Seals \X Values \X Owners \X States) \cup {Absent}]

\* The type of every table, of the tree and of the rollback in progress.
StoreTypeOK ==
    /\ objects \in [ObjIds -> Object \cup {Absent}]
    /\ seals \in [Seals -> ObjIds \cup {Absent}]
    /\ undo_logs \subseteq UndoLog
    /\ transitions \subseteq Transition
    /\ blocks \in [ChainIds -> [Heights -> Blocks \cup {Absent}]]
    /\ last_block \in [ChainIds -> Heights]
    /\ wasm \subseteq Codes
    /\ smt \in SmtLeaves
    /\ saving \in [Tasks -> Saving \cup {Absent}]
    /\ \/ rb = NoRollback
       \/ rb \in [phase : {"undo"}, chain : ChainIds, target : Heights,
                  logs : SUBSET UndoLog,
                  objects : [ObjIds -> Object \cup {Absent}],
                  seals : [Seals -> ObjIds \cup {Absent}]]
       \/ rb \in [phase : {"read"}]
       \/ rb \in [phase : {"install"}, leaves : SmtLeaves]

\* An index entry names a live object that sits on exactly that seal.
IndexSound(idx, objs) ==
    \A s \in Seals : idx[s] # Absent =>
        /\ objs[idx[s]] # Absent
        /\ objs[idx[s]].seal = s

\* get_object_by_seal never resolves a seal to a deleted object or to an
\* object that has moved on, after any sequence of saves, rollbacks in the
\* order the code applies them, and crashes.
SealIndexSound == IndexSound(seals, objects)

\* The same for the tables a rollback is about to publish.
RollbackIndexSound == rb.phase = "undo" => IndexSound(rb.seals, rb.objects)

quiescent == rb.phase = "idle" /\ \A t \in Tasks : saving[t] = Absent

\* Whenever no store call is in progress, current_state_root is the root of
\* exactly the persisted objects: what save_object's "don't silently
\* succeed" comment promises, and what a restart would rebuild.
RootMatchesStore == quiescent => smt = smt_of(objects)
=============================================================================
