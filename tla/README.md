# TLA+ verification of utxo-vm

utxo-vm runs smart objects on top of a UTXO chain (the L1).  A node daemon
(`packages/node`) scans L1 blocks, executes the transactions that create or
call objects, keeps the objects in an embedded database, signs the state root
of every block and watches the roots that other validators sign.  This
directory holds TLA+ models of that daemon, their TLC configurations and
TLAPS proofs.

## 1. Inventory

Paths are relative to `packages/node/src` unless they name another package.

| component | state | operations | modelled by |
|---|---|---|---|
| state store, `storage/db.rs` | objects, seal index, undo logs, transitions, block records, sync cursor, WASM blobs; in-memory sparse Merkle tree | `save_*`, `set_last_sync_block`, `rollback_to_block`, `open` | `StateStore`, `StoreHistory`, `ScannerProofs` |
| block processor, `scanner/processor.rs` | none of its own; locals of `process_tx` | `process_tx` (create, deploy, call) | `BlockProcessor`, `ScannerProofs`, reference in `Replay` |
| sync loop and mempool listener, `main.rs` | cursor and locals of a pass | reorg check, backtrack, rollback, scan, DHT retry, attest; `process_tx(tx, 0)` | `Scanner`, `ScannerProofs` |
| consensus manager, `consensus/attestation.rs` | validators, attestation lists, slashing proofs | `register_validator`, `add_attestation`, `build_quorum_result`, `detect_divergence`, `verify_equivocation_proof` | `ConsensusManager`, `ConsensusProofs` |
| attestation listener, fraud watch, `main.rs` | two bounded channels, the keys of a pass | gossip, listener, trigger, sweep, challenge | `ConsensusManager`, `ConsensusProofs` |
| sparse Merkle tree, `storage/smt.rs` | leaves, nodes by level and prefix, cached root | `update`, `root`, `get_proof`, `verify_proof` | `SparseMerkleTree`, `SparseMerkleTreeProofs`, abstractly `Commitment` |
| bridge manager and verifier, `cross_chain/bridge.rs`, `verifier.rs` | transfers (cache and table), minted proofs, per-transfer mutexes | `lock_assets`, `mint_from_proof`, `cancel_transfer`, restart; `verify_state_proof` | `Bridge`, `BridgeProofs` |
| state relay, `cross_chain/relay.rs` | relay records | `create_relay_message`, `relay_to_chain`, `verify_relay` | `Relay`, `ConsensusProofs` |
| operator set, `consensus/operator_set.rs` | operators, bonds, TVL | register, unbond, exit, slash, batches | `OperatorSet`, `Operators`, `OperatorsProofs` |
| fee distribution, `consensus/fee_distribution.rs` | envelopes, shares, totals | create envelope, calculate shares, distribute | `FeeDistribution`, `Operators`, `OperatorsProofs` |
| challenge transactions, L1 scripts, covenants, `consensus/` | the bond's coin on L1 | startup check, lock, unbond, challenge, claim, rebut | `Vault` over `TapScript`, `VaultProofs` |
| P2P service, `p2p/node.rs` | command channel, pending DHT queries, record store, peer list | put, get, broadcast, gossip ingest, query progress | `P2pService`, `P2pServiceProofs` |
| WASM runtime, `packages/core-vm/src/runtime.rs` | fuel, guest state, host context of one execution | `deploy`, `execute` | `Runtime`, `RuntimeProofs` |
| RPC server, `rpc/server.rs` | rate-limiter windows | handlers | its requests, in `Bridge`, `Relay`, `P2pService` |
| electrs client, `scanner/electrs.rs` | - | HTTP calls | each call is a step of `Scanner` that succeeds or fails |
| envelope parser, `scanner/parser.rs` | - | `parse_envelope` | not modelled |
| contracts, SDK, CLI | client side | - | not modelled |

How they interact.  One tokio runtime runs the sync loop, the mempool
listener, the attestation listener, the fraud watch, the P2P swarm and the RPC
handlers on several threads.  The sync loop and the mempool listener share one
processor and one store.  redb gives every `save_*` call and the whole
rollback one atomic write transaction, but the Merkle tree is updated after
the commit, under its own lock.  The sync loop calls electrs and the DHT
between its database calls, so the L1 may move under it.  Attestations come
in through a bounded channel that waits when it is full, and go on to the
fraud watch through one that drops.  RPC handlers call the bridge, the relay
and the P2P handle concurrently; the bridge reads validators and the relay
reads votes of the consensus manager while the listener changes them.  The P2P
loop is one task: while it waits for room in the attestation or mempool
channel it takes no command, and its callers give up after two seconds.
Operator set and fee distribution are library types that the daemon does not
use yet; the vault builders are used at startup and by the fraud watch.

What is hard here: the order of undo logs in a rollback; a crash between the
undo log, the object, the tree, the block record and the cursor; an L1 that
reorganises between two reads of one pass; one failing call of several; two
writers to the tree; conflicting, forged and duplicated attestations; reads of
the quorum and of the votes in two lock acquisitions; overlapping mint, lock
and cancel requests and a crash between their writes; DHT answers that come
late or hold anything; contracts that trap or run out of fuel in any of their
exports; u64 products that overflow; scripts, witnesses and signers that must
agree on byte and stack order.  `PROJECT.json` lists
each at its line under `hazards`.

## 2. Modules

`StateStore` models one database.  Each redb write transaction is one action.
`save_object` is two actions, `save_object_commit` and `save_object_smt`:
`saving[t]` remembers for task `t` that its tree update is due.
`rollback_to_block` works on a private copy `rb` (`rollback_begin`,
`rollback_undo` once per log in the code's order, `rollback_commit`), which no
reader sees until the commit and a crash forgets; then it reads all objects
(`rollback_read`) and replaces the tree (`rollback_install`).  `can_write`
expresses that a task is inside one call at a time and that redb has one
writer.  The tree is the function from object ids to leaves, and the root is
that function: hashing is taken as collision-free, and an object's leaf holds
the fields `hash_object` hashes, without the two heights.  An undo id, a u64
`((height << 32) | vout) ^ prefix32(txid)`, is the pair of its halves.
`StoreHistory` adds one history variable: the objects on which two calls have
overlapped between commit and tree update, since their leaf was last written by
a call on its own.

`BlockProcessor` extends the store with `process_tx` of each task, as a job
that goes through `wasm`, `undo`, `execute`, `commit`, `tree`, `transition`.
The scan of the outputs and the search for the spent seal are one read step
(`process_tx`).  Envelopes are already parsed; `Exec` is the contract
execution, `Absent` where it traps or returns no JSON.  Every other early
return of the code is a branch of an action.

`Replay` is the reference specification: the object table as a fold over the
blocks' transactions, with no tables, undo logs or missing blobs.

`Scanner` composes processor, store, L1 and environment.  Each electrs, DHT
and database call of the sync loop is a step.  `l1` is the best chain electrs
reports and only grows longer; it may be replaced by a longer branch.  The
constant `Env` switches the environment's events on: failing calls
(`tip_error`, `check_error`, `backtrack_error`, `hash_error`, `txs_error`,
`dht_error`), `crash`, `reorg` (between passes, unless a crash has left a block
half processed), `reorg_interrupted` (then too) and `reorg_in_pass`;
`MaxFaults` bounds failures and crashes.  `interrupted` records that a crash
hit a block that has not been completed since; `attested` records what has
been signed.

`ConsensusManager` models the attestation lists of one node with the tasks
around them.  `add_attestation` holds the write lock to its end and is one
step; the fraud-watch pass is one step per lock acquisition.  A signature is
the Boolean `signed`.  `judged` (attestations found admissible) and `copies`
(deliveries so far) are history.

`SparseMerkleTree` follows `update`, `root` and `get_proof`.  The level and
zero-padded prefix that name a node in the code are one sequence of bits, so
the tree depth is a constant.  SHA-256 with its domain tags is a constructor.
`Commitment` is what a caller may rely on: a map, and a published digest that
is a function of the map alone.  `SparseMerkleTree` implements it
(`ImplementsCommitment`, an `INSTANCE Commitment WITH` leaves, cached root and
the dirty flag).

`Bridge` has one step for each lock acquisition and each database transaction
of `lock_assets`, `mint_from_proof` and `cancel_transfer`; a handler is a
record of program counter and locals.  `saved` is the table, `transfers` the
cache, and `restart` builds the second from the first.  A transfer id is the
chain, the object and the second of the request, as the code formats it, so
that two requests may share one.  A mint may also name an id that is no
transfer's (`Strays`): it is refused only after its entry in the replay guard
is written, so that the object can no longer be minted under another id.  The
verifier is part of the mint: its count of attestations, the two thirds of the
validators known at that moment and the binding of the proof to object, chain
and height.  The Merkle path of a proof is a Boolean.

`Relay` extends `ConsensusManager`: relay records are created from the stored
block and the votes and verified later, while registrations, votes and new
blocks come in.  The fraud watch does not run there.

`OperatorSet` and `FeeDistribution` use the u64 operators of `U64` with the
largest value as a constant; `Operators` composes them: fees are shared by the
batches of the active operators.  Sums are those of the community module
`Functions`, over functions, which is the form the proofs can reason about.

`Vault` follows one bond from the wallet through the vault output to the
operator, to a claim output or back.  The builders of `l1_scripts.rs` and
`covenants.rs` are operators that return scripts and witnesses; `TapScript`,
external, runs them as BIP-68, BIP-112 and BIP-342 say on a chain whose forks
activate at heights of their own.  A signature names its key and message.

`Runtime` models `deploy` and `execute` as the sequence of guest exports still
to be called (`todo`).  The guest is arbitrary: in each call it burns fuel,
calls the host, changes its state, returns or traps, and `get_state_size` and
`get_state` answer any length, true or not.  `told` (that answer and the state
the guest wrote), `honest` (before `call` only `restore_state` changed what the
contract holds) and `seen` (what it held then) are history.  What the node's
`execute_wasm` does with the result is the last step.

`P2pService` models the loop, its command channel, the callers with their
timeouts, and libp2p as an environment that may do anything or nothing.  A
blob is a model value and `Sha` its hash.

`MC*` modules give the small instances.
Definitions marked `Mutant` are wrong variants of the definition below them;
no specification uses them.  Each was put in the place of its definition to
confirm that the property it is listed with in `PROJECT.json` fails.

## 3. Runs

Each module's type invariant is a conjunct of one of the invariants checked
(`ScannerTypeOK`, with `StoreTypeOK` in it, of `UndoCovers`; `BridgeTypeOK` of
`OneTransferPerObject`; and so on); section 4 says which are proved.

Passing runs:

* `store` (`MCStateStore.cfg`).  Two writing tasks, as the daemon has with its
  sync loop and mempool listener, two objects, two seals, two
  heights, at most two undo logs (`MaxUndo`) with both orders of their ids.
  Saves, undo logs, rollbacks to any height and crashes in any
  interleaving of commits and tree updates.  The undo logs record an object as
  it is at that moment.  Two objects on two seals are enough for a seal to be
  left by one and taken by the other, and two logs for every relative order of
  heights and ids.  Block records, cursor, transitions and blobs, which these
  tables never meet, are left to the scanner's runs.  Two calls that overlap on
  one object may leave its leaf wrong (see below); `RootMatchesUnlessOverlapped`
  says that this is all they can do.
* `scanner_recovery`.  Seven chains of three branches: forks of depth one and
  two, a deployed contract, one only on the DHT, a trapping call, a call
  without its fee, a call without a target.  The L1 reorganises between
  passes; two calls may fail or the process may crash twice, at any step.  The
  node's table is the replay of its recorded blocks, its history names only
  calls of these blocks, it attests only replayed roots, it rolls back to
  exactly the fork point, and it ends up on the L1's chain.  A reorganisation
  of a block that a crash has left half processed is excluded (see below).
  The chains and transactions meet every condition of the theorems about these
  properties (`ReplayAssumption`).
* `scanner_adverse`.  Every member of `Env` and a gossiped transaction, one
  fault, four chains of two branches, on which creations are mined below calls
  (`SpendAssumption`).  The state stays well typed and the last change of every
  object has its undo log (`UndoCovers`) even where the replay properties do not
  hold.
* `consensus`.  Three validators, two honest, one of which attests both blocks of
  the height as the sync loop does after a reorganisation, one that equivocates,
  a forged attestation, a duplicated one, channels of capacity one, threshold
  two (a majority).  Lists of different keys never touch each other, so one key
  is enough.  `HonestAccusedAcrossBlocks` says that an honest validator is
  accused only across two blocks; that it is never accused is false (see below).
* `relay`.  Three validators, two rival blocks of one height, two handlers,
  four requests, a clock of two seconds so that record ids repeat.  A verified
  relay has a quorum of signed votes, and two verified relays of one height
  against the same validators agree.
* `bridge`.  Two handlers, four calls, one object of the caller and one of
  somebody else, proofs with a quorum, with a repeated validator and for the
  other object, a mint under an id that no transfer has yet, one crash.  Enough
  for two mints of one transfer, a cancel between the status checks of a mint,
  and a retry after a restart.
  `ExtraMintsExplained` bounds what the code really guarantees; `MintedOnce`,
  what its comment says, fails (see below).
* `smt`.  Depth three, four keys that share zero, one and two bits, two values
  and deletion, in every order.  Every kind of sibling (node, bare leaf, empty)
  meets every other.
* `operators`.  Three operators for two places, two bonds, heights to two,
  three batches, u64 up to 44, so that products of small fees overflow or not.
  The constraint `RegistryOrFees` keeps the registry simple while fees are
  accounted: the two meet only in the batches of the active operators.
* `vault`.  Seven pairs of delays, one or more of every form that the script
  gives a u32: 0, 16, 17 and 256, which it reads as they are; 144 and 40000,
  which become negative; 128, which becomes minus zero; 65552, which is masked to
  16; 4194305, which asks for a time.  Fork heights below, between and above the current
  one; roots of two bytes, also too short and not hexadecimal, the only
  places where `pad_to_32` and `decode_or_hash` differ.
* `runtime`.  Modules with and without each optional export, states that fit the
  fixed buffer or only the one `get_state_size` asks for, two of one size so that
  other bytes of the right length are told apart, answers of no length and below,
  at and above both limits, fuel of three and host calls that cost more than is
  left.
* `p2p`.  The sync loop calling twice, one RPC caller, one hash with the blob
  that has it and one that has not, two connections of a peer, channels of
  capacity one, so that all of them fill up.  Nothing is stored or served
  under a wrong hash, a timed-out call and its successor each keep their own
  sender, and every call returns.

Violation run: `scanner_same_block` (`StateIsReplay`).  Logs of one height are
undone in ascending id order, so an object created and called in one block
survives the rollback, against the comment in `storage/db.rs:291-293`.  Of the
conditions under which `StateIsReplay` is proved its blocks miss only
`SpentInLaterBlock` (`SameBlockAssumption`).

Further places where the code does not do what its comments, tests or
documents say.  Each is reproduced with the named configuration, its
constants changed as the second column says and the third checked alone:

| configuration | change | property | what happens |
|---|---|---|---|
| `MCScannerRecovery` | `Env = {"reorg_in_pass"}` | `LocalChainContinuous` | a reorganisation during a pass leaves a mixture of two branches that the next check does not notice (`main.rs:488`; COURT.md:68 "monitors L1 block hash continuity") |
| `MCScannerRecovery` | `Env = {"crash", "reorg_interrupted"}` | `StateIsReplay` | the changes of a half-processed block stay when it is reorganised away (`main.rs:428`; TESTING.md:292 "rolls back uncommitted mutations to common ancestor") |
| `MCScannerRecovery` | `L1Chains <- FirstBlockChains`, `Env = {"reorg"}` | `EventuallySynced` | without a recorded ancestor every pass fails again (`main.rs:474`; its log line says "retrying next cycle") |
| `MCStateStore` | none | `RootMatchesStore` | the tree ends in another order than the commits (`storage/db.rs:117`; storage_tests.rs:266 "must match a fresh tree with the same state") |
| `MCScannerRecovery` | `Mempool <- MempoolT2`, `Env = {}` | `AttestedRootIsReplay` | an unconfirmed call is part of the attested root |
| `MCScannerRecovery` | `Env = {"txs_error"}`, `{"dht_error"}` | `AttestedRootIsReplay` | a block whose transactions could not be fetched is attested as empty; a call whose contract could not be fetched is skipped for good |
| `MCScannerRecovery` | `Env = {"hash_error"}`, `{"check_error", "reorg"}` | `LocalChainContinuous` | a height is skipped; a reorganisation is overlooked |
| `MCConsensus` | none | `HonestNeverAccused` | attesting both blocks of a height is called equivocation (`attestation.rs:253`; TRUST-MODEL.tex:637 "L1 reorg is not operator's fault") |
| `MCConsensus` | `HasVault = TRUE` | `ProofsChallenged` (temporal) | the challenge is built from attestations without signatures and refused (`main.rs:736`; `main.rs:608` "build and broadcast a challenge transaction") |
| `MCBridge` | `Proofs <- SoundProofs` | `MintedOnce` | a crash between the minted object and the transfer's status lets the retry mint again (`bridge.rs:394`; `bridge.rs:232` "same source object cannot be minted twice") |
| `MCVault` | none | `EquivocationSlashable` | the covenant leaf takes the witness fields back in reverse, checks the attestation signatures against the spending transaction and ends with an empty stack: no genuine witness opens it (`covenants.rs:147`; `covenants.rs:5` "anyone who finds two conflicting attestations from the same operator can slash the bond") |
| `MCVault` | none | `DelayAsConfigured` | `push_minimal_uint` writes no sign byte: 128 and 32768 open at once, the other delays from 129 to 255 and from 32769 to 65535, the tests' 144 among them, never, and larger ones count their low 16 bits or, with bit 22, a time (`l1_scripts.rs:884`; `l1_scripts.rs:82` "operator can exit after `unbond_delay` blocks (CSV)") |
| `MCOperators` | none | `ChallengedShareReduced` | a challenge after the calculation is counted and takes nothing off the share (`fee_distribution.rs:170`; `fee_distribution.rs:169` "reduces their fee share") |
| `MCRuntime` | none | `FuelExhaustionReverts` | errors of `get_state` and `deallocate` are dropped, so a call that runs out of fuel there succeeds (`runtime.rs:546`; MISSION.md:171 "Fuel exhaustion reverts") |
| `MCP2pService` | none | `PeersConnected` | a peer with two connections leaves the list when one closes (`p2p/node.rs:347`; `server.rs:736` "Connected P2P peers") |

Also: a crash after `save_object` and before `save_transition` loses the
record of that call (`processor.rs:316`), so `HistoryMatches` promises the
record of the last call only while nothing has failed.  A call that spends the
seals of two objects moves the first; processed again after a crash it moves
the second one to the same new seal.  In the consensus part:
`support_count` counts attestations of other roots too, a quorum may mix block
hashes that leave the same root, `get_slashing_proofs` is read and not
drained, and the daemon never calls `register_validator`, so that with
`Registered = {}` nothing is ever accepted.  The passing `consensus` run is
about a manager whose validators are registered, as the tests do it.

Fairness.  `Scanner!FairSpec` asks for weak fairness of the sync loop as a
whole: its interval fires for ever and every awaited call has a timeout.  It
asks nothing of the L1, the mempool or crashes; faults are bounded.
`ConsensusManager!FairSpec` asks that a started watch pass goes on and,
strongly, that the sweep is chosen now and then: `select!` picks at random
among ready branches, so the sweep is not starved by triggers.  Nothing is
asked of registration, the network, the listener or the trigger.
`Bridge!FairSpec` asks that a handler that can take its next step does, and
nothing of new requests and crashes: a handler waits for nothing but the
mutex of its transfer.  `P2pService!FairSpec` asks nothing of the network.
Timers fire and listeners read (weak fairness); a command and a waiting sender
are not passed over for ever (strong fairness), as `select!` draws at random
and tokio's channels serve waiting senders in turn.  `Runtime!FairSpec` asks
that a running execution goes on, since Wasmtime runs it synchronously.

Deadlock is checked in every run.

## 4. Proofs

Every theorem holds for all values of the constants that satisfy the named
assumptions of the modules (types and orders of constants; TLC evaluates them
in the runs).  Where a theorem needs more than that, the condition is a named
definition of the module and a hypothesis of the theorem, and TLC evaluates it
in the run as well.  In each case the inductive invariant is stronger than the
property; the parts it adds are named below.

`ScannerProofs` has five parts.  The first is about the open specification
`StoreSpec`, in which every task may call every store operation with any
argument:

* `StoreTypeCorrect`: `StoreTypeOK` is inductive.
* `SealIndexCorrect`: `SealIndexSound` is not inductive, because a rollback
  publishes its private tables; the invariant is the conjunction with
  `RollbackIndexSound`.  The core are two lemmas: moving an object
  (`MoveKeepsIndex`) and undoing any log at all (`UndoKeepsIndex`) keep an
  index sound.  The order of the logs is not needed, only that the seal an
  object sits on is removed before it moves.
* `LeavesCorrect`: `RootMatchesUnlessOverlapped`, for the same operations with
  the history of `StoreHistory` and any number of tasks.  The invariant `LeafInv`
  follows the leaf of each object that no two calls have overlapped on: it is
  that of the table, or a save is on the way to write it, or a rollback to
  rewrite it.  The entry on `RootMatchesStore` in the table above shows
  that overlapped objects have to be left out.

The second is about the sync loop, for chains of any length, under
`HashLinked` (equal blocks have equal predecessors: an L1 header commits to its parent) and `SteadyPass`
(the L1 does not reorganise inside a pass, and neither the hash call of a
scanned block nor that of the check fails).  The entries `reorg_in_pass`,
`hash_error` and `check_error` of the table above show that each part of
`SteadyPass` is needed; every other event, crashes, failing transaction and
DHT calls, reorganisations between passes and the mempool, is allowed.

* `ContinuityCorrect`: `LocalChainContinuous`.  The invariant `ChainInv` adds
  that records are at the height of their block (`RecordsPlaced`), what a pass
  has read of the L1 agrees with it (`PassSound`), and that a rollback under way
  has found an ancestor that is on both chains (`RollbackSound`).  Lemma
  `AgreeBelow`: two hash-linked chains that agree at a height agree below it.
* `ForkPointCorrect`: `RollbackToForkPoint`, from the same invariant, by lemma
  `CommitAtFork`: backtracking stops at the highest block both chains share.

The third is about the daemon as a client of the store, under `TxsWellFormed`:
the blocks and the gossip hold transactions whose ids, seals, values and parsed
envelopes have the types of the tables.  Heights are closed downwards
(`ScannerAssumption`).  Nothing is asked of the L1 or of the calls: every
member of `Env` may happen, reorganisations inside a pass included.

* `DaemonIsClient`: `Scanner!Spec` implements `StoreSpec`.  Each step of the
  sync loop, the mempool listener and `process_tx` is one call of the store with
  well-typed arguments, or none.  The invariant `DaemonInv` adds to the types
  what `process_tx` knows when it gets to a step (`JobReady`: a call has read
  its object, a record to commit is complete), that a call is between commit
  and tree update exactly when the store is (`JobsTyped`), and which heights and
  hashes the loop holds (`LocalsFit`).
* `DaemonIndexCorrect`: with `SealIndexCorrect`, the seal index is sound in the
  daemon.
* `ScannerTypeCorrect`: `ScannerTypeOK`, the type part of `UndoCovers`.

The fourth is about the undo logs, again with every member of `Env`, any
gossip and any number of faults and crashes:

* `UndoCoversCorrect`: `UndoCovers`.  It holds under three conditions on the
  transactions, each of which a run of the code can break:
  `OneObjectPerSeal`, no transaction spends the seals of two objects (it would
  move the first one found, and processed again the other, whose log replaces
  that of the first); `UndoIdsDistinct`, the 32-bit prefixes of undo ids do not
  collide; `SpendsLater`, whatever branch it is on, a transaction is mined
  below those that spend from it.  Without the third, a creation at height h of
  a branch that a crash leaves half processed, and a call at height h of the
  next branch, are both undone by one rollback, which applies the logs of one
  height in ascending order of their ids and may so bring the object back
  without a log.  TLC evaluates the conditions on the run's transactions.

  The invariant `CoverInv` is about chains of logs.  The log of a change names
  the record it replaced, that record was written at a lower height, and at
  that height there is a log of the same object again (`PrevCovered`), down to
  the creation; so removing the logs above any target leaves the last change
  below it covered.  `JobCovered` says the same of the record a `process_tx` has
  read but not yet logged, `WalkCovered` of the private tables of a rollback
  under way: what it will publish has a log that stays, or one that it will
  still apply.  The lookup of the object to move goes through the seal index, so
  the proof rests on `DaemonIndexCorrect`, and through `RecordOwned` on the
  object that owns a seal.

The fifth shows that the tables are functions of the recorded blocks, for any
chains, blocks and transactions that are `Replayable`, and for any number of
crashes, failing tip and backtracking calls and reorganisations between two
passes.  `Replayable` collects what the code needs for that; each condition is
there because the code fails without it:

| condition | without it |
|---|---|
| `OnlyBlocks`: no gossip; the hash, transaction and DHT calls of a block are answered; no reorganisation inside a pass or under a block a crash has left half processed | the entries of section 3's table |
| `SpentInLaterBlock`: an output is spent in a later block than its own | the violation run |
| `OneObjectPerSeal`: no transaction spends from two objects | processed again after a crash, it moves the second one |
| `CallsCreateNothing`: a transaction that may call has no output that creates | processed again, its call finds no target and the output creates |
| `BlobsAtHand`: the code of an object is deployed with it, on the DHT or the default | its calls are skipped, which a node that has the blob makes |
| `UndoIdsDistinct`, `ObjIdsDistinct`: the shortened ids do not collide | one log or object replaces another |
| `MinedOnce`, `HashLinked`, `TxsWellFormed`: rules of the L1, and parsed types | |

* `StateIsReplayCorrect`: `StateIsReplay`.  `Replay` is a fold of folds;
  `FoldStates` shows that it ends in the last of the tables that the
  transactions lead through.  Two facts about blocks carry the argument.  The
  transactions of a block change different objects (`ChangedOnce`), and each
  does the same to its own whatever the others have done and however often it
  runs (`TxMixes`), so that a block processed again from the start after a
  crash ends where it would have ended without one.  And the log of a change
  holds the object as the block below left it, so that undoing the logs above
  a height, in the order of the code, gives the table of that height.  The
  invariant `ReplayInv` states both for every moment: between blocks the table is
  that of the recorded ones, inside a block it is `Mixed`, each object as before the block
  or as its transaction left it, with those done so far settled (`TableReplays`);
  every log holds the replayed record below its height and every
  recorded change has one (`LogsReplay`); each object of a rollback's private
  table is the one of some recorded height, and the logs from there to the target
  are still to come (`WalkReplays`); every object is found by its seal
  (`IndexFull`, which the soundness of the index alone does not give); a
  transaction in hand will do what its replay does (`JobReplays`); and a missing
  blob can be had, so that a transaction needs one retry at most (`JobKnown`).
* `AttestedRootCorrect`: `AttestedRootIsReplay`.  `RootRead` follows the root from
  the moment it is read until it is signed, two store calls later, and
  `TreeInv` says that the tree it is read from is that of the table: without
  gossip the sync loop is the one writer.
* `HistoryCorrect`: `HistoryMatches`.  `HistoryInv` places every transition record
  in a recorded block or in the one in hand, notes which record is still
  due between `save_object` and `save_transition`, and says of every recorded height, not
  only of the last, that the calls up to it have their records: a rollback may
  make any of them the last one.

`ConsensusProofs`, for any validators, gossip, threshold and channel size, and
on top of it for any relay handlers, blocks and clock:

* `ConsensusTypeCorrect` and `VotesCorrect`, inductive together: the type of a
  new proof needs the earlier vote of its validator to exist.
* `ProofsCorrect`: every accumulated proof verifies.
* `EquivocationCorrect`: two admissible attestations with two roots leave a
  proof.  The strengthening `JudgedAnswered` says that every admissible
  attestation is represented by its validator's vote or answered by a proof;
  both lists only grow, and there is one vote per validator.
* `QuorumCorrect` and `DivergenceCorrect`, under `MajorityQuorum` (the
  threshold is more than half of the validators): two roots with a quorum
  would share a voter, so a root that has won stays (`QuorumStable`), and a
  report made from the votes read earlier is still about a vote against it.
* `HonestCorrect` (`HonestAccusedAcrossBlocks`), under `HonestReplay` (an honest
  validator attests one root per block, and both blocks of a height after a
  reorganisation) and `HonestQuorum` (the others are fewer than the threshold).
  The table's entry on `HonestNeverAccused` shows that no more is true.
* `RelayQuorumCorrect`: `RelayedRootHasQuorum`, with a record of what a handler
  has read at each program counter.
* `RelayAgreementCorrect`: `RelayAgreement`; two thirds of equally many
  validators intersect, and a validator has one vote per key.

`BridgeProofs`, for any handlers, objects, proofs, calls and crashes, with
every interleaving of the lock and database steps:

* `GuardCorrect` (`OneTransferPerObject`, with the types), `QuorumMints`
  (`MintHasQuorum`), `ExtraMintsCorrect` (`ExtraMintsExplained`) and
  `LocksReleasable` (`LockReleasable`).  The invariant says which locals a call
  has at each program counter; that a mint past the replay guard owns the
  entry of its object and past the verifier was judged by registered
  validators; that a mint past its wait holds the mutex of its transfer; that
  mints made, possible and allowed by pending writes stay within the locks,
  cancels and restarts (`Budget`); and how table and cache differ while a
  write is pending.

`OperatorsProofs`, for any operators, bonds, batches, fees and delays:

* The library defines a sum by taking out one chosen element after the other.
  `SumsUnique` (by a least counterexample) and `SumCounts` (a sum counts
  units) make it independent of the choices; the other lemmas on sums follow
  from cardinalities.
* `BondsCorrect` (`TotalBondBacked`, with the types), under `BondsFit`: the
  bonds of a full registry fit a u64.  The code adds them unchecked; amounts
  in satoshi are far below.
* `ExitsCorrect` (`ExitAfterDelay`): an operator that unbonds posts no batch
  after the height it started at (`Dated`).
* `SharesCorrect` (`SharesProportional`), without any bound: the parts rounded
  down add up to at most the whole and miss it by less than one for each
  operator (`Rounding`), and the first operator gets what is missing.
* `FeesCorrect` (`FeesConserved`, with the types), under `FeesFit`: an open
  calculation is no more than what is pending, so that distributing it takes
  out exactly that.

`P2pServiceProofs`: `ContentCorrect` (`ContentAddressed`) and `WaitersCorrect`
(`WaitersKnown`), for any callers, blobs, capacities and a network that may do
anything.  The invariant says where the sender of a waiting call is: in the
command channel or in the pending map under a query of its hash.

`RuntimeProofs`: `GasCorrect` (`GasExact`), `TrapReverts`
(`ContractTrapReverts`) and `StateCorrect` (`StateCarried`), for any guest,
cost and limit, and any answers.  The invariant says in which order the exports
still to be called come (one `restore_state`, before the one `call`, and one
`get_state`), what has been charged, that the state is replaced only by what
`get_state` has said (`DataKept`), and that an honest contract holds what it was
handed from `restore_state` on until it is called (`CallInput`).

`VaultProofs`, for any roots, bonds, fees, heights and ages:

* `ChallengeCorrect`: `ChallengeJustified`, for any delays.  A coin that is not
  challenged yet is the whole bond (`Unchallenged`), and two different roots as
  the store writes them are decoded to different bytes of full length
  (`Padded`, `Distinguished`); how the scripts run is not needed.
* `DelaysCorrect` (`DelayExact`) and `BondingCorrect` (`BondingGuarded`), for
  every u32 delay.  `due` says what the pushed bytes of a delay ask for;
  `ReadsDelay` and `ReachedIs` show it byte count by byte count, and `NotEarly` that
  a delay of `NeverEarly` (below 65536, and neither 128 nor 32768) is never due
  early.
  `Run` is a fold: `RunStates` shows that it ends in the last of the states that
  the opcodes lead through one by one, by extending a partial fold an opcode at a
  time.  `DelayedOpens` follows the five opcodes of a delayed leaf; `DelayedShut` and `CovenantShut` show that
  an empty stack fails and that a failed machine stays failed.  The invariant
  `Locked` says which tree a locked coin commits to, and that a node with bonding
  enabled is past the three forks: the startup check saw them in some part of
  the reply (`CheckedForks`) and the chain only grows.

`SparseMerkleTreeProofs`, for every depth (the source has 256), any keys and
any values.  The hashes of subtrees and paths are recursive functions, of which
the prover only knows that they are chosen.  `EmptyHashes`, `PathHashes` and
`Subtrees` show that functions with these equations exist, by extending a
partial one by a level at a time up to a least height where that would fail;
after that only the equations are used.

* `NodesCorrect`: `NodesAreSubtrees` is inductive.  An update rewrites the nodes
  on the path of its key.  The subtree of any other prefix has the same leaves as
  before, and subtrees with the same leaves have the same hash
  (`SubtreeLocal`); on the path, the sibling the code reads is the subtree of the
  sibling prefix (`SiblingIs`).  `Descend` follows a counterexample at some
  prefix down to one at a leaf, where there is none.
* `CommitmentCorrect`: `ImplementsCommitment`, with `RootFresh` (a root that is
  not marked dirty is that of the leaves) as the strengthening.
* `ProofsCorrect`: `ProofsExact`.  `Verification` unfolds the climb of
  `verify_proof_static`; `ClimbMeetsPath` says that the climb along a key's
  path ends in the root, and `ClimbInjective` that two climbs over the same
  siblings meet only if they start in the same leaf, because each of the hash
  constructors is injective.

Only model-checked:

* Every liveness property, which is beyond the prover.  Every invariant and
  every safety action property that a run checks is also proved.

## 5. Not modelled

* Database I/O errors and lock poisoning (the code logs or drops them); a
  validator key is assumed to be configured; L1 chains that become shorter.
* Bytes: envelopes (`scanner/parser.rs`), hash and hex encodings, collisions of
  the 16-digit object id and of the 32-bit undo id prefix, an empty code hash.
* The separate lock acquisitions inside the single read step of `process_tx`;
  `save_object` calls of the bridge in `StateStore`, which write no undo log.
* Vault: curve arithmetic and the key tweak, leaves and witnesses other than
  those the code builds, and roots in mixed case or longer than 32 bytes.
* Runtime: guest pointers and memory, whose page limit is only a tuning value
  for Wasmtime, and the return code of `call`, which nobody reads; the FFI
  wrapper.  `BlockProcessor` uses the constant function `Exec` for an
  execution.
* P2P: libp2p, the identity file, the dial list, and records that other nodes
  put into the local Kademlia store: a node in client mode, without a confirmed
  external address, is not asked to keep any.
* Fees: what follows a second distribution of one calculation.  The code pays the
  same shares again, without end, and `FeesConserved` has nothing to say then.
* RPC: read-only handlers, authentication, CORS and the rate limiter.
* The electrs client's HTTP, the contracts, the SDK and the CLI: client code or
  pure I/O.

## 6. Plan

The rate limiter of the RPC server, the parser on short scripts, and an
abstract ledger of objects that `Scanner` implements: `StateIsReplayCorrect` is
the invariant its refinement mapping needs.
