------------------------------ MODULE Scanner -------------------------------
(***************************************************************************)
(* The node daemon's block sync loop (packages/node/src/main.rs) over the  *)
(* store and the block processor, with the L1 it follows, the mempool      *)
(* listener that shares its processor, and process crashes.                *)
(*                                                                         *)
(* Every electrs, DHT or database call is a step of its own; l1 is read at *)
(* the call, so the L1 may move between two calls of one pass.             *)
(***************************************************************************)
EXTENDS Replay

CONSTANTS
    L1Chains,     \* best chains the L1 may show: sequences of block hashes
    BlockTxs,     \* transactions of each block
    StartHeight,  \* --start-height, 0 when it is not given
    Mempool,      \* transactions gossiped before they are mined
    DhtBlobs,     \* WASM blobs the Kademlia DHT can deliver
    MempoolTask,  \* the mempool listener
    Env,          \* which of EnvEvents happen
    MaxFaults     \* bound on failed calls and crashes

EnvEvents == {"tip_error", "check_error", "backtrack_error", "hash_error",
              "txs_error", "dht_error", "crash", "reorg", "reorg_interrupted",
              "reorg_in_pass"}

ASSUME ScannerAssumption ==
    /\ L1Chains \subseteq Seq(Blocks)
    /\ \A c \in L1Chains : DOMAIN c \subseteq Heights
    /\ StartHeight \in Nat /\ 0..StartHeight \subseteq Heights
    /\ \A h \in Heights : 0..h \subseteq Heights
    /\ {SyncTask, MempoolTask} \subseteq Tasks /\ SyncTask # MempoolTask
    /\ Env \subseteq EnvEvents
    /\ MaxFaults \in Nat

\* A block header holds the hash of its parent: chains that share a block share
\* everything below it.
HashLinked ==
    \A c, d \in L1Chains : \A h \in DOMAIN c \cap DOMAIN d :
        c[h] = d[h] => \A k \in 1..h : c[k] = d[k]

\* The calls that read a hash for the reorg check and for the scan are answered,
\* and the L1 reorganises only between two passes.
SteadyPass == Env \cap {"check_error", "hash_error", "reorg_in_pass"} = {}

\* The transactions the node is ever given, parsed into the types of the tables.
MinedTxs == UNION {ToSet(BlockTxs[b]) : b \in Blocks}
Txs == MinedTxs \cup Mempool

WellFormed(tx) ==
    /\ tx.id \in TxIds /\ tx.vin \in Seq(Seals) /\ DOMAIN tx.vout \subseteq Nat
    /\ \A i \in DOMAIN tx.vout :
        LET env == tx.vout[i].env
        IN  env # Absent =>
                /\ seal_of(tx, i) \in Seals /\ tx.vout[i].value \in Values
                /\ UndoLow[<<tx.id, i - 1>>] \in Lows
                /\ {env.blob, env.code} \subseteq Codes \cup {Absent}
                /\ env.state \in States \cup {Absent} /\ env.to \in Owners \cup {Absent}
                /\ is_create(env) \/ env.call \in Calls

TxsWellFormed ==
    /\ \A b \in Blocks : BlockTxs[b] \in Seq(Txs)
    /\ \A tx \in Txs : WellFormed(tx)

\* Outputs that may come to carry an object: those with an envelope, of a
\* transaction that pays its fee.
carrier_seals(tx) ==
    {seal_of(tx, i) : i \in {k \in DOMAIN tx.vout :
                                validate_fee(tx) /\ tx.vout[k].env # Absent}}
CarrierSeals == UNION {carrier_seals(tx) : tx \in Txs}

\* home gives the one object each of these seals can ever carry: a call that spends
\* several of them moves one object, whichever it finds first.
OneObjectPerSeal(home) ==
    /\ home \in [Seals -> ObjIds]
    /\ \A tx \in Txs : \A i \in DOMAIN tx.vout : seal_of(tx, i) \in carrier_seals(tx) =>
          IF is_create(tx.vout[i].env) THEN home[seal_of(tx, i)] = ObjOf[tx.id]
          ELSE \A s \in ToSet(tx.vin) \cap CarrierSeals : home[seal_of(tx, i)] = home[s]

\* No two of these seals have colliding undo ids.
UndoIdsDistinct == \A s, r \in CarrierSeals : UndoLow[s] = UndoLow[r] => s = r

\* A transaction is mined below the transactions that spend from it, on whatever
\* branch these are.
SpendsLater ==
    \A c, d \in L1Chains : \A k \in DOMAIN c, h \in DOMAIN d :
        \A x \in ToSet(BlockTxs[c[k]]), y \in ToSet(BlockTxs[d[h]]) :
            carrier_seals(x) \cap ToSet(y.vin) # {} => k < h

\* What the L1 guarantees: on one chain a transaction is mined once, and an output is
\* spent once.
MinedOnce ==
    \A c \in L1Chains : \A k, h \in DOMAIN c :
        \A m \in DOMAIN BlockTxs[c[k]], n \in DOMAIN BlockTxs[c[h]] :
            LET x == BlockTxs[c[k]][m]
                y == BlockTxs[c[h]][n]
            IN  x.id = y.id \/ ToSet(x.vin) \cap ToSet(y.vin) \cap CarrierSeals # {}
                    => k = h /\ m = n

\* A transaction that spends a carrier seal is in a later block than the one with
\* that output.
SpentInLaterBlock ==
    \A c \in L1Chains : \A k, h \in DOMAIN c :
        \A x \in ToSet(BlockTxs[c[k]]), y \in ToSet(BlockTxs[c[h]]) :
            carrier_seals(x) \cap ToSet(y.vin) # {} => k < h

\* No two objects are created under one id.
ObjIdsDistinct == \A x, y \in Txs : ObjOf[x.id] = ObjOf[y.id] => x.id = y.id

\* A transaction that may call an object creates none.
CallsCreateNothing ==
    \A tx \in Txs : ToSet(tx.vin) \cap CarrierSeals # {} =>
        \A i, k \in DOMAIN tx.vout :
            tx.vout[i].env # Absent /\ tx.vout[k].env # Absent /\ is_create(tx.vout[k].env)
                => is_create(tx.vout[i].env)

\* The code of every object is the default one, is deployed with it or is on the DHT.
BlobsAtHand ==
    \A tx \in Txs : \A i \in DOMAIN tx.vout :
        LET env == tx.vout[i].env
        IN  env # Absent /\ is_create(env) =>
                default_to(env.code, default_to(env.blob, DefaultCode)) \in
                    DhtBlobs \cup {DefaultCode} \cup ({env.blob} \ {Absent, EmptyBlob})

\* Nothing is gossiped, every call a block needs is answered, and the L1 reorganises
\* between two passes and not under a block that a crash has left half processed.
OnlyBlocks ==
    Mempool = {} /\ Env \subseteq {"tip_error", "backtrack_error", "crash", "reorg"}

\* What it takes for the object table to be a function of the blocks.
Replayable(home) ==
    /\ TxsWellFormed /\ HashLinked /\ MinedOnce
    /\ OneObjectPerSeal(home) /\ UndoIdsDistinct /\ ObjIdsDistinct
    /\ SpentInLaterBlock /\ CallsCreateNothing /\ BlobsAtHand
    /\ OnlyBlocks

VARIABLES
    l1,           \* the best chain electrs reports
    sync,         \* the sync loop: its program counter and locals
    faults,       \* failed calls and crashes so far
    attested,     \* attestations signed and broadcast: height, hash, root
    interrupted   \* a crash has hit a block that has not been recorded since

syncVars == <<sync, attested, interrupted>>
vars == <<procVars, l1, sync, faults, attested, interrupted>>

Waiting == [pc |-> "tick", tip |-> 0, last |-> 0, ancestor |-> 0, h |-> 0,
            hash |-> Absent, todo |-> <<>>, retried |-> FALSE, root |-> NoObjects]

first_height == IF StartHeight = 0 THEN 1 ELSE StartHeight
cursor == last_block[Chain]
local_hash(h) == blocks[Chain][h]

goto(pc) == sync' = [sync EXCEPT !.pc = pc]

\* A call of kind e fails.
fault(e) == e \in Env /\ faults < MaxFaults /\ faults' = faults + 1
no_fault == UNCHANGED faults

\* What the sync loop leaves alone while it only talks to the outside.
reading == UNCHANGED <<procVars, l1, attested, interrupted>>
\* ... and while it writes to the store or processes a transaction.
writing == UNCHANGED <<l1, faults, attested, interrupted>>

-----------------------------------------------------------------------------
(* The pass starts: tip, cursor and reorg check.                           *)

get_tip_height ==
    /\ sync.pc = "tick"
    /\ sync' = [Waiting EXCEPT !.pc = "check", !.tip = Len(l1),
                               !.last = IF cursor = 0 /\ StartHeight > 0
                                        THEN StartHeight - 1 ELSE cursor]
    /\ no_fault /\ reading

tip_error ==
    /\ sync.pc = "tick"
    /\ fault("tip_error")
    /\ reading /\ UNCHANGED sync

\* Mutant: no hash is compared.
check_cursor_trusting ==
    /\ sync.pc = "check"
    /\ sync' = [sync EXCEPT !.pc = "scan", !.h = sync.last + 1]
    /\ no_fault /\ reading

\* Only the hash at the cursor is compared; without a record, or when the
\* call fails, the pass goes on to scan.
check_cursor ==
    /\ sync.pc = "check"
    /\ LET recorded == sync.last > 0 /\ local_hash(sync.last) # Absent
       IN  \/ /\ recorded /\ l1[sync.last] # local_hash(sync.last)
              /\ sync' = [sync EXCEPT !.pc = "backtrack", !.ancestor = sync.last - 1]
              /\ no_fault
           \/ /\ recorded => l1[sync.last] = local_hash(sync.last)
              /\ sync' = [sync EXCEPT !.pc = "scan", !.h = sync.last + 1]
              /\ no_fault
           \/ /\ recorded
              /\ fault("check_error")
              /\ sync' = [sync EXCEPT !.pc = "scan", !.h = sync.last + 1]
    /\ reading

\* while ancestor > 0: compare, step down, give up at 0 or on an error.
backtrack_down ==
    /\ sync.pc = "backtrack" /\ sync.ancestor > 0
    /\ local_hash(sync.ancestor) # l1[sync.ancestor]
    /\ sync' = [sync EXCEPT !.ancestor = @ - 1]
    /\ no_fault /\ reading

\* Mutant: one block too many is rolled back.
backtrack_found_below ==
    /\ sync.pc = "backtrack" /\ sync.ancestor > 0
    /\ local_hash(sync.ancestor) = l1[sync.ancestor]
    /\ rollback_begin(Chain, sync.ancestor - 1)
    /\ sync' = [sync EXCEPT !.pc = "rollback", !.ancestor = @ - 1]
    /\ writing /\ UNCHANGED job

backtrack_found ==
    /\ sync.pc = "backtrack" /\ sync.ancestor > 0
    /\ local_hash(sync.ancestor) = l1[sync.ancestor]
    /\ rollback_begin(Chain, sync.ancestor)
    /\ goto("rollback")
    /\ writing /\ UNCHANGED job

backtrack_failed ==
    /\ sync.pc = "backtrack"
    /\ \/ sync.ancestor = 0 /\ no_fault
       \/ /\ sync.ancestor > 0 /\ local_hash(sync.ancestor) # Absent
          /\ fault("backtrack_error")
    /\ sync' = Waiting
    /\ reading

rollback_step ==
    /\ sync.pc = "rollback"
    /\ rollback_undo \/ rollback_commit \/ rollback_read \/ rollback_install
    /\ writing /\ UNCHANGED <<job, sync>>

rollback_return ==
    /\ sync.pc = "rollback" /\ rb = NoRollback
    /\ sync' = [sync EXCEPT !.pc = "scan", !.last = sync.ancestor, !.h = sync.ancestor + 1]
    /\ no_fault /\ reading

-----------------------------------------------------------------------------
(* for h in last_synced + 1 ..= tip_height.                                *)

\* Mutant: the tip itself is left out.
scan_done_early ==
    /\ sync.pc = "scan" /\ sync.h >= sync.tip
    /\ sync' = Waiting
    /\ no_fault /\ reading

scan_done ==
    /\ sync.pc = "scan" /\ sync.h > sync.tip
    /\ sync' = Waiting
    /\ no_fault /\ reading

get_block_hash ==
    /\ sync.pc = "scan" /\ sync.h <= sync.tip
    /\ \/ sync' = [sync EXCEPT !.pc = "txs", !.hash = l1[sync.h]] /\ no_fault
       \/ sync' = [sync EXCEPT !.h = @ + 1] /\ fault("hash_error")
    /\ reading

\* A failed fetch of the transactions is the same as an empty block.
get_block_txs ==
    /\ sync.pc = "txs"
    /\ \/ sync' = [sync EXCEPT !.pc = "apply", !.todo = BlockTxs[sync.hash]] /\ no_fault
       \/ sync' = [sync EXCEPT !.pc = "apply", !.todo = <<>>] /\ fault("txs_error")
    /\ reading

start_tx ==
    /\ sync.pc = "apply" /\ sync.todo # <<>>
    /\ process_tx(SyncTask, Head(sync.todo), sync.h)
    /\ writing /\ UNCHANGED sync

tx_step ==
    /\ sync.pc = "apply"
    /\ process_step(SyncTask)
    /\ writing /\ UNCHANGED sync

\* The call returned Ok, or it was the retry, whose result is dropped.
next_tx ==
    /\ sync.pc = "apply"
    /\ \/ job[SyncTask] = Returned
       \/ job[SyncTask].pc = "missing" /\ sync.retried
    /\ job' = [job EXCEPT ![SyncTask] = NoJob]
    /\ sync' = [sync EXCEPT !.todo = Tail(@), !.retried = FALSE]
    /\ writing /\ UNCHANGED storeVars

\* WASM_MISSING: get_contract from the DHT, save_wasm, process_tx once more;
\* a blob that cannot be had means the transaction is skipped.
fetch_blob ==
    /\ sync.pc = "apply" /\ job[SyncTask].pc = "missing" /\ ~sync.retried
    /\ job[SyncTask].code \in DhtBlobs
    /\ save_wasm(SyncTask, job[SyncTask].code)
    /\ job' = [job EXCEPT ![SyncTask] = NoJob]
    /\ sync' = [sync EXCEPT !.retried = TRUE]
    /\ writing

skip_missing ==
    /\ sync.pc = "apply" /\ job[SyncTask].pc = "missing" /\ ~sync.retried
    /\ \/ job[SyncTask].code \notin DhtBlobs /\ no_fault
       \/ fault("dht_error")
    /\ job' = [job EXCEPT ![SyncTask] = NoJob]
    /\ sync' = [sync EXCEPT !.todo = Tail(@)]
    /\ UNCHANGED <<storeVars, l1, attested, interrupted>>

read_root ==
    /\ sync.pc = "apply" /\ sync.todo = <<>>
    /\ sync' = [sync EXCEPT !.pc = "block", !.root = current_state_root]
    /\ no_fault /\ reading

record_block ==
    /\ sync.pc = "block"
    /\ save_block(SyncTask, Chain, sync.h, sync.hash)
    /\ goto("cursor")
    /\ writing /\ UNCHANGED job

record_cursor ==
    /\ sync.pc = "cursor"
    /\ set_last_sync_block(SyncTask, Chain, sync.h)
    /\ goto("attest")
    /\ interrupted' = FALSE
    /\ UNCHANGED <<job, l1, faults, attested>>

\* sign_state_root and broadcast_attestation, when a validator key is set.
attest ==
    /\ sync.pc = "attest"
    /\ attested' = attested \cup
         {[height |-> sync.h, hash |-> sync.hash, root |-> sync.root]}
    /\ sync' = [sync EXCEPT !.pc = "scan", !.h = @ + 1]
    /\ UNCHANGED <<procVars, l1, faults, interrupted>>

-----------------------------------------------------------------------------
(* The mempool listener: process_tx(tx, 0) on the shared store.            *)

mempool_recv ==
    /\ \E tx \in Mempool : process_tx(MempoolTask, tx, 0)
    /\ writing /\ UNCHANGED sync

mempool_step ==
    /\ process_step(MempoolTask)
    /\ writing /\ UNCHANGED sync

mempool_return ==
    /\ job[MempoolTask].pc \in {"returned", "missing"}
    /\ job' = [job EXCEPT ![MempoolTask] = NoJob]
    /\ writing /\ UNCHANGED <<storeVars, sync>>

-----------------------------------------------------------------------------
(* The environment.                                                        *)

\* The L1 adopts a longer chain, an extension or a reorganisation: between two
\* passes, also when a crash has left a block half processed, or at any time.
l1_grows ==
    /\ \E c \in L1Chains :
         /\ Len(c) > Len(l1)
         /\ \/ IsPrefix(l1, c)
            \/ "reorg" \in Env /\ sync.pc = "tick" /\ ~interrupted
            \/ "reorg_interrupted" \in Env /\ sync.pc = "tick"
            \/ "reorg_in_pass" \in Env
         /\ l1' = c
    /\ UNCHANGED <<procVars, sync, faults, attested, interrupted>>

mid_block == sync.pc \in {"apply", "block", "cursor"}

\* The process dies and is started again on the same database.
crash ==
    /\ fault("crash")
    /\ open
    /\ job' = [t \in Tasks |-> NoJob]
    /\ sync' = Waiting
    /\ interrupted' = (interrupted \/ mid_block)
    /\ UNCHANGED <<l1, attested>>

-----------------------------------------------------------------------------
Init ==
    /\ ProcInit
    /\ l1 \in {c \in L1Chains : \A d \in L1Chains : Len(c) <= Len(d)}
    /\ sync = Waiting
    /\ faults = 0
    /\ attested = {}
    /\ interrupted = FALSE

\* One pass of the loop with its calls answered, and the calls that fail.
SyncNext ==
    \/ get_tip_height \/ check_cursor
    \/ backtrack_down \/ backtrack_found \/ backtrack_failed
    \/ rollback_step \/ rollback_return
    \/ scan_done \/ get_block_hash \/ get_block_txs
    \/ start_tx \/ tx_step \/ next_tx \/ fetch_blob \/ skip_missing
    \/ read_root \/ record_block \/ record_cursor \/ attest

MempoolNext == mempool_recv \/ mempool_step \/ mempool_return

Next == SyncNext \/ MempoolNext \/ tip_error \/ l1_grows \/ crash

Spec == Init /\ [][Next]_vars

\* The interval timer fires for ever and every awaited call returns (each
\* has a timeout), so the loop never stops.  Nothing obliges the L1, the
\* gossip or a crash to happen.
FairSpec == Spec /\ WF_vars(SyncNext)

-----------------------------------------------------------------------------
(* Properties.                                                             *)

\* The tables, the loop and its job are typed, and a job is between commit
\* and tree update exactly when the store says so.
ScannerTypeOK ==
    /\ StoreTypeOK
    /\ \A t \in Tasks : job[t].pc = "tree" <=> saving[t] # Absent
    /\ sync.tip \in Heights /\ sync.last \in Heights /\ sync.ancestor \in Heights
    /\ sync.hash \in Blocks \cup {Absent}
    /\ \A a \in attested : a.height \in Heights /\ a.hash \in Blocks

recorded_prefix_of(c) ==
    cursor <= Len(c) /\ \A h \in first_height..cursor : local_hash(h) = c[h]

\* "Scanner monitors L1 block hash continuity": the recorded blocks up to the
\* cursor are a prefix of one L1 chain, never a mixture of two branches.
LocalChainContinuous == \E c \in L1Chains : recorded_prefix_of(c)

between_blocks == sync.pc \in {"tick", "check", "scan"} /\ ~interrupted

recorded_state == replay(blocks[Chain], BlockTxs, first_height, cursor)

\* Between two blocks the object table is what a fresh node obtains from the
\* recorded blocks: whatever reorganisations, rollbacks, restarts and DHT
\* fetches came before, nothing of an abandoned branch is left behind.
StateIsReplay == between_blocks => objects = recorded_state

\* The history the node tells of an object fits the chain: every transition
\* record is of a transaction of the block recorded at its height, and an object
\* that was called since its creation has the record of its last call.  A crash
\* between save_object and save_transition loses that record for good.
HistoryMatches ==
    between_blocks =>
        /\ \A r \in transitions :
              /\ r.height \in first_height..cursor
              /\ \E i \in DOMAIN BlockTxs[local_hash(r.height)] :
                    BlockTxs[local_hash(r.height)][i].id = r.txid
        /\ faults = 0 => \A o \in ObjIds : objects[o] # Absent /\ ObjOf[objects[o].seal[1]] # o =>
              [txid |-> objects[o].seal[1], obj |-> o, height |-> objects[o].updated_at]
                 \in transitions

\* A signed (height, block_hash, state_root) names the root that every honest
\* node replaying the chain of that block computes.
AttestedRootIsReplay ==
    \A a \in attested : \E c \in L1Chains :
        /\ a.height <= Len(c) /\ c[a.height] = a.hash
        /\ a.root = smt_of(replay(c, BlockTxs, first_height, a.height))

\* In a well-typed state the last change of every object has its undo log: the
\* log is in the table before the object is, and stays there as long as the
\* change does, whatever calls fail and whoever else writes.  This says that the
\* log exists, at the height of the change; a change of a gossiped transaction
\* is logged at height 0, below every fork point, and no rollback undoes it.
UndoCovers ==
    ScannerTypeOK /\ \A o \in ObjIds : objects[o] # Absent =>
        \E u \in undo_logs : /\ u.chain = Chain /\ u.obj = o
                             /\ u.height = objects[o].updated_at

\* The cursor moves back only to the fork point: what is kept is on the L1's
\* chain, and the first block given up is not.
RollbackToForkPoint ==
    [][cursor' < cursor =>
          /\ \A h \in first_height..cursor' : local_hash(h) = l1[h]
          /\ local_hash(cursor' + 1) # l1[cursor' + 1]]_vars

\* Once the L1 stops moving the node holds its whole chain, for good.
EventuallySynced ==
    <>[](cursor = Len(l1) /\ \A h \in first_height..cursor : local_hash(h) = l1[h])
=============================================================================
