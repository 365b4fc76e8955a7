---------------------------- MODULE ScannerProofs ---------------------------
(***************************************************************************)
(* Proofs about the state store and about the sync loop that writes to it. *)
(*                                                                         *)
(* The store, under arbitrary clients (StoreSpec): its type invariant, the *)
(* soundness of the seal index, and that the in-memory tree agrees with    *)
(* the tables but for the objects on which two calls have overlapped.      *)
(*                                                                         *)
(* The sync loop of main.rs, over any L1 whose blocks are hash-linked: the *)
(* recorded blocks are never a mixture of two branches, and a rollback     *)
(* goes to exactly the fork point.  Crashes at any step, failing calls, a  *)
(* store shared with the mempool listener and reorganisations of any depth *)
(* between two passes are all included.                                    *)
(*                                                                         *)
(* The daemon as a client of the store: whatever calls fail and however    *)
(* the L1 reorganises, its steps are steps of StoreSpec, so the seal index *)
(* is sound in the daemon too.                                             *)
(*                                                                         *)
(* The undo logs, with block processor, mempool listener, rollback and     *)
(* crashes interleaved: every change a rollback may have to take back has  *)
(* the log that takes it back.                                             *)
(*                                                                         *)
(* The tables as functions of the recorded blocks: what a transaction, a   *)
(* block and a chain make of the objects, that processing a block again    *)
(* after a crash and undoing blocks agree with it, and so what the object  *)
(* table, the signed roots and the history of the objects are.             *)
(***************************************************************************)
EXTENDS Scanner, StoreHistory, WellFoundedInduction, TLAPS

-----------------------------------------------------------------------------
(* The store.                                                              *)

Rollbacks == [phase : {"undo"}, chain : ChainIds, target : Heights,
              logs : SUBSET UndoLog,
              objects : [ObjIds -> Object \cup {Absent}],
              seals : [Seals -> ObjIds \cup {Absent}]]

\* The leaf of a typed record is a typed leaf, and so is a rebuilt tree.
LEMMA LeafType ==
    ASSUME NEW r \in Object
    PROVE  hash_object(r) \in Codes \X Seals \X Values \X Owners \X States
BY DEF hash_object, Object

LEMMA TreeType ==
    ASSUME NEW objs \in [ObjIds -> Object \cup {Absent}]
    PROVE  smt_of(objs) \in SmtLeaves
<1>1. ASSUME NEW o \in ObjIds, objs[o] # Absent
      PROVE  hash_object(objs[o]) \in Codes \X Seals \X Values \X Owners \X States
  BY <1>1, LeafType
<1> QED  BY <1>1 DEF smt_of, SmtLeaves

\* The phase of a typed rollback tells which record it is.
LEMMA RollbackPhase ==
    ASSUME StoreTypeOK
    PROVE  /\ rb.phase \in {"idle", "undo", "read", "install"}
           /\ rb.phase = "idle" => rb = NoRollback
           /\ rb.phase = "undo" => rb \in Rollbacks
           /\ rb.phase = "install" => rb.leaves \in SmtLeaves
BY DEF StoreTypeOK, NoRollback, Rollbacks

\* The two updates of the index keep its type.
LEMMA IndexType ==
    ASSUME NEW idx \in [Seals -> ObjIds \cup {Absent}], NEW objs,
           NEW o \in ObjIds, NEW r \in Object
    PROVE  /\ index_moved(idx, objs, o, r) \in [Seals -> ObjIds \cup {Absent}]
           /\ index_without(idx, objs, o) \in [Seals -> ObjIds \cup {Absent}]
BY DEF index_moved, index_without

LEMMA UndoneType ==
    ASSUME NEW u \in UndoLog,
           NEW objs \in [ObjIds -> Object \cup {Absent}],
           NEW idx \in [Seals -> ObjIds \cup {Absent}]
    PROVE  /\ undone(objs, u) \in [ObjIds -> Object \cup {Absent}]
           /\ undone_seals(idx, objs, u) \in [Seals -> ObjIds \cup {Absent}]
<1>1. u.obj \in ObjIds /\ u.prev \in Object \cup {Absent}
  BY DEF UndoLog
<1>2. undone(objs, u) \in [ObjIds -> Object \cup {Absent}]
  BY <1>1 DEF undone
<1>3. index_without(idx, objs, u.obj) \in [Seals -> ObjIds \cup {Absent}]
  BY <1>1 DEF index_without
<1>4. undone_seals(idx, objs, u) \in [Seals -> ObjIds \cup {Absent}]
  BY <1>1, <1>3 DEF undone_seals
<1> QED  BY <1>2, <1>4

-----------------------------------------------------------------------------
LEMMA StoreTypeInit ==
    ASSUME StoreInit
    PROVE  StoreTypeOK
<1>1. smt \in SmtLeaves
  BY TreeType DEF StoreInit
<1> QED  BY <1>1, StoreAssumption DEF StoreInit, StoreTypeOK

LEMMA StoreTypeStep ==
    ASSUME StoreTypeOK, [StoreNext]_storeVars
    PROVE  StoreTypeOK'
<1>1. ASSUME NEW t \in Tasks, NEW o \in ObjIds, NEW r \in Object,
             save_object_commit(t, o, r)
      PROVE  StoreTypeOK'
  <2>1. seals' \in [Seals -> ObjIds \cup {Absent}]
    BY <1>1, IndexType DEF StoreTypeOK, save_object_commit
  <2>2. saving' \in [Tasks -> Saving \cup {Absent}]
    BY <1>1 DEF StoreTypeOK, save_object_commit, Saving
  <2> QED  BY <1>1, <2>1, <2>2 DEF StoreTypeOK, save_object_commit
<1>2. ASSUME NEW t \in Tasks, save_object_smt(t)
      PROVE  StoreTypeOK'
  <2>1. saving[t] \in Saving
    BY <1>2 DEF StoreTypeOK, save_object_smt
  <2>2. hash_object(saving[t].rec) \in Codes \X Seals \X Values \X Owners \X States
    BY <2>1, LeafType DEF Saving
  <2>3. smt' \in SmtLeaves
    BY <1>2, <2>2 DEF StoreTypeOK, save_object_smt, SmtLeaves
  <2> QED  BY <1>2, <2>3 DEF StoreTypeOK, save_object_smt, tables
<1>3. ASSUME NEW t \in Tasks, NEW u \in UndoLog, save_undo_log(t, u)
      PROVE  StoreTypeOK'
  BY <1>3 DEF StoreTypeOK, save_undo_log
<1>4. ASSUME NEW t \in Tasks, NEW tr \in Transition, save_transition(t, tr)
      PROVE  StoreTypeOK'
  BY <1>4 DEF StoreTypeOK, save_transition
<1>5. ASSUME NEW t \in Tasks, NEW c \in ChainIds, NEW h \in Heights,
             NEW b \in Blocks, save_block(t, c, h, b)
      PROVE  StoreTypeOK'
  BY <1>5 DEF StoreTypeOK, save_block
<1>6. ASSUME NEW t \in Tasks, NEW c \in ChainIds, NEW h \in Heights,
             set_last_sync_block(t, c, h)
      PROVE  StoreTypeOK'
  BY <1>6 DEF StoreTypeOK, set_last_sync_block
<1>7. ASSUME NEW t \in Tasks, NEW k \in Codes, save_wasm(t, k)
      PROVE  StoreTypeOK'
  BY <1>7 DEF StoreTypeOK, save_wasm
<1>8. ASSUME NEW c \in ChainIds, NEW h \in Heights, rollback_begin(c, h)
      PROVE  StoreTypeOK'
  <2>1. rb' \in Rollbacks
    BY <1>8 DEF StoreTypeOK, rollback_begin, Rollbacks
  <2> QED  BY <1>8, <2>1 DEF StoreTypeOK, rollback_begin, Rollbacks, tables
<1>9. CASE rollback_undo
  <2>1. rb \in Rollbacks
    BY <1>9, RollbackPhase DEF rollback_undo
  <2>2. PICK u \in rb.logs :
           rb' = [rb EXCEPT !.logs = @ \ {u},
                            !.objects = undone(rb.objects, u),
                            !.seals = undone_seals(rb.seals, rb.objects, u)]
    BY <1>9 DEF rollback_undo
  <2>3. u \in UndoLog
    BY <2>1, <2>2 DEF Rollbacks
  <2>4. rb' \in Rollbacks
    BY <2>1, <2>2, <2>3, UndoneType DEF Rollbacks
  <2> QED  BY <1>9, <2>4 DEF StoreTypeOK, rollback_undo, Rollbacks, tables
<1>10. CASE rollback_commit
  <2>1. rb \in Rollbacks
    BY <1>10, RollbackPhase DEF rollback_commit
  <2>2. /\ objects' \in [ObjIds -> Object \cup {Absent}]
        /\ seals' \in [Seals -> ObjIds \cup {Absent}]
        /\ last_block' \in [ChainIds -> Heights]
        /\ undo_logs' \subseteq UndoLog
        /\ transitions' \subseteq Transition
    BY <1>10, <2>1 DEF StoreTypeOK, rollback_commit, Rollbacks
  <2>3. blocks' \in [ChainIds -> [Heights -> Blocks \cup {Absent}]]
    BY <1>10, <2>1 DEF StoreTypeOK, rollback_commit, Rollbacks
  <2>4. rb' \in [phase : {"read"}]
    BY <1>10 DEF rollback_commit
  <2> QED  BY <1>10, <2>2, <2>3, <2>4 DEF StoreTypeOK, rollback_commit
<1>11. CASE rollback_read
  <2>1. rb' \in [phase : {"install"}, leaves : SmtLeaves]
    BY <1>11, TreeType DEF StoreTypeOK, rollback_read
  <2> QED  BY <1>11, <2>1 DEF StoreTypeOK, rollback_read, tables
<1>12. CASE rollback_install
  <2>1. smt' \in SmtLeaves
    BY <1>12, RollbackPhase DEF rollback_install
  <2> QED  BY <1>12, <2>1 DEF StoreTypeOK, rollback_install, tables
<1>13. CASE open
  <2>1. smt' \in SmtLeaves
    BY <1>13, TreeType DEF StoreTypeOK, open
  <2> QED  BY <1>13, <2>1 DEF StoreTypeOK, open, tables
<1>14. CASE UNCHANGED storeVars
  BY <1>14 DEF StoreTypeOK, storeVars
<1> QED
  BY <1>1, <1>2, <1>3, <1>4, <1>5, <1>6, <1>7, <1>8, <1>9, <1>10, <1>11,
     <1>12, <1>13, <1>14 DEF StoreNext

\* Every table, the tree and the rollback copy keep their types whatever the
\* clients of db.rs do, and whenever they crash.
THEOREM StoreTypeCorrect == StoreSpec => []StoreTypeOK
BY StoreTypeInit, StoreTypeStep, PTL DEF StoreSpec

-----------------------------------------------------------------------------
(* The seal index.  SealIndexSound /\ RollbackIndexSound is inductive: the  *)
(* tables and the private copy of a rollback are indexed soundly, so       *)
(* publishing the copy keeps the index sound.                              *)

\* save_object's index update: the entry of the old seal goes, the entry of
\* the new seal names the object, no other entry can name the object.
LEMMA MoveKeepsIndex ==
    ASSUME NEW idx \in [Seals -> ObjIds \cup {Absent}],
           NEW objs \in [ObjIds -> Object \cup {Absent}],
           NEW o \in ObjIds, NEW r \in Object,
           IndexSound(idx, objs)
    PROVE  IndexSound(index_moved(idx, objs, o, r), [objs EXCEPT ![o] = r])
<1> DEFINE idx2 == index_moved(idx, objs, o, r)
           objs2 == [objs EXCEPT ![o] = r]
<1> SUFFICES ASSUME NEW s \in Seals, idx2[s] # Absent
             PROVE  objs2[idx2[s]] # Absent /\ objs2[idx2[s]].seal = s
  BY DEF IndexSound
<1>1. r # Absent /\ o # Absent
  BY AbsentIsNoRecord, StoreAssumption
<1>2. CASE s = r.seal
  <2>1. idx2[s] = o
    BY <1>2 DEF index_moved
  <2> QED  BY <2>1, <1>1, <1>2
<1>3. CASE s # r.seal
  <2>1. idx2[s] = idx[s] /\ ~(objs[o] # Absent /\ s = objs[o].seal)
    BY <1>3 DEF index_moved
  <2>2. idx[s] \in ObjIds /\ objs[idx[s]] # Absent /\ objs[idx[s]].seal = s
    BY <2>1 DEF IndexSound
  <2>3. idx[s] # o
    BY <2>1, <2>2
  <2> QED  BY <2>1, <2>2, <2>3
<1> QED  BY <1>2, <1>3

\* One undo step of rollback_to_block, CREATE or UPDATE.
LEMMA UndoKeepsIndex ==
    ASSUME NEW u \in UndoLog,
           NEW idx \in [Seals -> ObjIds \cup {Absent}],
           NEW objs \in [ObjIds -> Object \cup {Absent}],
           IndexSound(idx, objs)
    PROVE  IndexSound(undone_seals(idx, objs, u), undone(objs, u))
<1> DEFINE cleared == index_without(idx, objs, u.obj)
           idx2 == undone_seals(idx, objs, u)
           objs2 == undone(objs, u)
<1>1. /\ u.obj \in ObjIds /\ u.prev \in Object \cup {Absent}
      /\ u.action \in {"CREATE", "UPDATE"}
      /\ u.prev # Absent => u.prev.seal \in Seals
  BY DEF UndoLog, Object
<1>2. u.obj # Absent
  BY <1>1, StoreAssumption
<1>3. ASSUME NEW s \in Seals, cleared[s] # Absent
      PROVE  /\ cleared[s] = idx[s] /\ idx[s] \in ObjIds /\ idx[s] # u.obj
             /\ objs[idx[s]] # Absent /\ objs[idx[s]].seal = s
  <2>1. cleared[s] = idx[s] /\ ~(objs[u.obj] # Absent /\ s = objs[u.obj].seal)
    BY <1>3 DEF index_without
  <2>2. idx[s] \in ObjIds /\ objs[idx[s]] # Absent /\ objs[idx[s]].seal = s
    BY <1>3, <2>1 DEF IndexSound
  <2> QED  BY <2>1, <2>2
<1>4. ASSUME NEW x \in ObjIds, x # u.obj
      PROVE  objs2[x] = objs[x]
  BY <1>1, <1>4 DEF undone
<1> SUFFICES ASSUME NEW s \in Seals, idx2[s] # Absent
             PROVE  objs2[idx2[s]] # Absent /\ objs2[idx2[s]].seal = s
  BY DEF IndexSound
<1>5. CASE u.action = "UPDATE" /\ u.prev # Absent /\ s = u.prev.seal
  <2>1. cleared \in [Seals -> ObjIds \cup {Absent}]
    BY <1>1 DEF index_without
  <2>2. idx2[s] = u.obj
    BY <1>5, <2>1 DEF undone_seals
  <2>3. objs2[u.obj] = u.prev
    BY <1>1, <1>5 DEF undone
  <2> QED  BY <2>2, <2>3, <1>5
<1>6. CASE ~(u.action = "UPDATE" /\ u.prev # Absent /\ s = u.prev.seal)
  <2>1. cleared \in [Seals -> ObjIds \cup {Absent}]
    BY <1>1 DEF index_without
  <2>2. idx2[s] = cleared[s]
    BY <1>6, <2>1 DEF undone_seals
  <2> QED  BY <2>2, <1>3, <1>4
<1> QED  BY <1>5, <1>6

\* get_object_by_seal resolves a seal only to the live object on that seal,
\* after any interleaving of saves, rollbacks and crashes.
THEOREM SealIndexCorrect == StoreSpec => []SealIndexSound
<1>1. StoreInit => SealIndexSound /\ RollbackIndexSound
  BY DEF StoreInit, SealIndexSound, RollbackIndexSound, IndexSound, NoRollback
<1>2. StoreTypeOK /\ SealIndexSound /\ RollbackIndexSound /\ [StoreNext]_storeVars
        => SealIndexSound' /\ RollbackIndexSound'
  <2> SUFFICES ASSUME StoreTypeOK, SealIndexSound, RollbackIndexSound,
                      [StoreNext]_storeVars
               PROVE  SealIndexSound' /\ RollbackIndexSound'
    OBVIOUS
  <2>1. ASSUME NEW t \in Tasks, NEW o \in ObjIds, NEW r \in Object,
               save_object_commit(t, o, r)
        PROVE  SealIndexSound' /\ RollbackIndexSound'
    <3>1. IndexSound(index_moved(seals, objects, o, r), [objects EXCEPT ![o] = r])
      BY MoveKeepsIndex DEF SealIndexSound, StoreTypeOK
    <3>2. rb'.phase # "undo"
      BY <2>1 DEF save_object_commit, can_write, write_lock_free
    <3> QED  BY <2>1, <3>1, <3>2
             DEF save_object_commit, SealIndexSound, RollbackIndexSound, IndexSound
  <2>2. ASSUME NEW c \in ChainIds, NEW h \in Heights, rollback_begin(c, h)
        PROVE  SealIndexSound' /\ RollbackIndexSound'
    BY <2>2 DEF rollback_begin, SealIndexSound, RollbackIndexSound, IndexSound, tables
  <2>3. CASE rollback_undo
    <3>1. rb \in Rollbacks
      BY <2>3, RollbackPhase DEF rollback_undo
    <3>2. PICK u \in rb.logs :
             rb' = [rb EXCEPT !.logs = @ \ {u},
                              !.objects = undone(rb.objects, u),
                              !.seals = undone_seals(rb.seals, rb.objects, u)]
      BY <2>3 DEF rollback_undo
    <3>3. u \in UndoLog
      BY <3>1, <3>2 DEF Rollbacks
    <3>4. IndexSound(rb.seals, rb.objects)
      BY <2>3 DEF rollback_undo, RollbackIndexSound
    <3>5. IndexSound(undone_seals(rb.seals, rb.objects, u), undone(rb.objects, u))
      BY <3>1, <3>3, <3>4, UndoKeepsIndex DEF Rollbacks
    <3>6. IndexSound(rb'.seals, rb'.objects)
      BY <3>1, <3>2, <3>5 DEF Rollbacks
    <3> QED  BY <2>3, <3>6
             DEF rollback_undo, SealIndexSound, RollbackIndexSound, IndexSound, tables
  <2>4. CASE rollback_commit
    BY <2>4 DEF rollback_commit, SealIndexSound, RollbackIndexSound, IndexSound
  <2>5. CASE rollback_read \/ rollback_install \/ open
    BY <2>5 DEF rollback_read, rollback_install, open, NoRollback, SealIndexSound,
                RollbackIndexSound, IndexSound, tables
  <2>6. CASE UNCHANGED <<objects, seals, rb>>
    BY <2>6 DEF SealIndexSound, RollbackIndexSound, IndexSound
  <2>7. ASSUME NEW t \in Tasks,
               \/ save_object_smt(t)
               \/ \E u \in UndoLog : save_undo_log(t, u)
               \/ \E tr \in Transition : save_transition(t, tr)
               \/ \E c \in ChainIds, h \in Heights, b \in Blocks : save_block(t, c, h, b)
               \/ \E c \in ChainIds, h \in Heights : set_last_sync_block(t, c, h)
               \/ \E k \in Codes : save_wasm(t, k)
        PROVE  UNCHANGED <<objects, seals, rb>>
    BY <2>7 DEF save_object_smt, save_undo_log, save_transition, save_block,
                set_last_sync_block, save_wasm, tables
  <2>8. CASE UNCHANGED storeVars
    BY <2>8, <2>6 DEF storeVars
  <2> QED
    BY <2>1, <2>2, <2>3, <2>4, <2>5, <2>6, <2>7, <2>8 DEF StoreNext
<1> QED  BY <1>1, <1>2, StoreTypeCorrect, PTL DEF StoreSpec

-----------------------------------------------------------------------------
(* The in-memory tree.  With one writing task the leaf of every object is  *)
(* the hash of its record, but for the object whose save is between commit *)
(* and tree update, and but for the time a rollback has committed and has  *)
(* not installed the rebuilt tree.                                         *)

TreeInv ==
    /\ rb.phase \in {"idle", "undo"} =>
         \A o \in ObjIds :
            \/ saving[SyncTask] # Absent /\ saving[SyncTask].obj = o
            \/ smt[o] = smt_of(objects)[o]
    /\ saving[SyncTask] # Absent =>
         /\ rb.phase = "idle"
         /\ objects[saving[SyncTask].obj] = saving[SyncTask].rec
    /\ rb.phase = "install" => rb.leaves = smt_of(objects)

\* Every call of the store keeps it, as long as no other task is between the two halves
\* of a save.
LEMMA TreeStep ==
    ASSUME StoreTypeOK, TreeInv, [StoreNext]_storeVars,
           \A t \in Tasks \ {SyncTask} : saving[t] = Absent /\ saving'[t] = Absent
    PROVE  TreeInv'
<1>1. ASSUME NEW t \in Tasks, NEW o \in ObjIds, NEW r \in Object,
             save_object_commit(t, o, r)
      PROVE  TreeInv'
  <2>1. t = SyncTask /\ rb.phase = "idle" /\ saving[SyncTask] = Absent
    <3>1. saving'[t] = [obj |-> o, rec |-> r]
      BY <1>1 DEF save_object_commit, StoreTypeOK
    <3>2. saving'[t] # Absent
      BY <3>1, AbsentIsNoRecord DEF Saving
    <3> QED  BY <1>1, <3>2 DEF save_object_commit, can_write, in_store_call
  <2>2. saving'[SyncTask] = [obj |-> o, rec |-> r] /\ rb' = rb /\ smt' = smt
    BY <1>1, <2>1 DEF save_object_commit, StoreTypeOK
  <2>3. objects' = [objects EXCEPT ![o] = r] /\ objects'[o] = r
    BY <1>1 DEF save_object_commit, StoreTypeOK
  <2>4. ASSUME NEW x \in ObjIds, x # o
        PROVE  smt'[x] = smt_of(objects)'[x]
    BY <2>1, <2>2, <2>3, <2>4 DEF TreeInv, smt_of, StoreTypeOK
  <2>5. /\ rb'.phase = "idle"
        /\ saving'[SyncTask].obj = o /\ saving'[SyncTask].rec = r
        /\ saving'[SyncTask] # Absent
    BY <2>1, <2>2, AbsentIsNoRecord DEF Saving
  <2> QED  BY <2>3, <2>4, <2>5 DEF TreeInv
<1>2. ASSUME NEW t \in Tasks, save_object_smt(t)
      PROVE  TreeInv'
  <2>1. t = SyncTask /\ saving[SyncTask] \in Saving /\ rb.phase = "idle"
    BY <1>2 DEF save_object_smt, StoreTypeOK, TreeInv
  <2> DEFINE o == saving[SyncTask].obj
  <2>2. /\ saving'[SyncTask] = Absent /\ rb' = rb /\ objects' = objects
        /\ smt' = [smt EXCEPT ![o] = hash_object(saving[SyncTask].rec)]
    BY <1>2, <2>1 DEF save_object_smt, StoreTypeOK, tables
  <2>3. o \in ObjIds /\ objects[o] = saving[SyncTask].rec /\ objects[o] # Absent
    BY <2>1, AbsentIsNoRecord DEF Saving, TreeInv
  <2>4. smt'[o] = smt_of(objects)[o]
    BY <2>2, <2>3 DEF smt_of, StoreTypeOK, SmtLeaves
  <2>5. ASSUME NEW x \in ObjIds, x # o
        PROVE  smt'[x] = smt_of(objects)[x]
    BY <2>1, <2>2, <2>5 DEF TreeInv, StoreTypeOK, SmtLeaves
  <2>6. smt_of(objects)' = smt_of(objects)
    BY <2>2 DEF smt_of
  <2> QED  BY <2>1, <2>2, <2>4, <2>5, <2>6 DEF TreeInv
<1>3. CASE UNCHANGED <<objects, smt, saving, rb>>
  BY <1>3 DEF TreeInv, smt_of
<1>4. ASSUME NEW t \in Tasks,
             \/ \E u \in UndoLog : save_undo_log(t, u)
             \/ \E tr \in Transition : save_transition(t, tr)
             \/ \E c \in ChainIds, h \in Heights, b \in Blocks : save_block(t, c, h, b)
             \/ \E c \in ChainIds, h \in Heights : set_last_sync_block(t, c, h)
             \/ \E k \in Codes : save_wasm(t, k)
      PROVE  UNCHANGED <<objects, smt, saving, rb>>
  BY <1>4 DEF save_undo_log, save_transition, save_block, set_last_sync_block,
              save_wasm
<1>5. ASSUME NEW c \in ChainIds, NEW h \in Heights, rollback_begin(c, h)
      PROVE  TreeInv'
  BY <1>5 DEF rollback_begin, can_write, in_store_call, TreeInv, smt_of, tables
<1>6. CASE rollback_undo
  <2>1. rb'.phase = "undo" /\ saving[SyncTask] = Absent
    BY <1>6, RollbackPhase DEF rollback_undo, Rollbacks, TreeInv
  <2> QED  BY <1>6, <2>1 DEF rollback_undo, TreeInv, smt_of, tables
<1>7. CASE rollback_commit
  BY <1>7 DEF rollback_commit, TreeInv
<1>8. CASE rollback_read
  BY <1>8 DEF rollback_read, TreeInv, smt_of, tables
<1>9. CASE rollback_install
  <2>1. rb'.phase = "idle" /\ smt' = smt_of(objects)
    BY <1>9 DEF rollback_install, TreeInv, NoRollback
  <2>2. saving'[SyncTask] = Absent /\ smt_of(objects)' = smt_of(objects)
    BY <1>9 DEF rollback_install, TreeInv, smt_of, tables
  <2> QED  BY <2>1, <2>2 DEF TreeInv
<1>10. CASE open
  <2>1. rb'.phase = "idle" /\ smt' = smt_of(objects) /\ saving'[SyncTask] = Absent
    BY <1>10, StoreAssumption DEF open, NoRollback
  <2>2. smt_of(objects)' = smt_of(objects)
    BY <1>10 DEF open, smt_of, tables
  <2> QED  BY <2>1, <2>2 DEF TreeInv
<1>11. CASE UNCHANGED storeVars
  BY <1>11, <1>3 DEF storeVars
<1> QED
  BY <1>1, <1>2, <1>3, <1>4, <1>5, <1>6, <1>7, <1>8, <1>9, <1>10, <1>11
     DEF StoreNext

LEMMA TreeSettled ==
    ASSUME StoreTypeOK, TreeInv, rb.phase = "idle", saving[SyncTask] = Absent
    PROVE  smt = smt_of(objects)
<1>1. \A o \in ObjIds : smt[o] = smt_of(objects)[o]
  BY DEF TreeInv
<1> QED  BY <1>1 DEF smt_of, StoreTypeOK, SmtLeaves

-----------------------------------------------------------------------------
(* The tree under any number of writing tasks.                             *)

\* What holds of an object that no two calls have overlapped on: a save that
\* is under way has the record of the table, the leaf is that of the table
\* unless such a save or a rollback is still to write it, and a rollback has
\* read the record of the table.
LeafInv ==
    \A o \in ObjIds \ overlapped :
        /\ \A t \in Tasks : saving[t] # Absent /\ saving[t].obj = o
                            => saving[t].rec = objects[o]
        /\ rb.phase \in {"idle", "undo"} =>
             o \in in_flight \/ smt[o] = smt_of(objects)[o]
        /\ rb.phase = "install" => rb.leaves[o] = smt_of(objects)[o]

LEMMA TrackedIsStore ==
    ASSUME [TrackedNext]_trackedVars
    PROVE  [StoreNext]_storeVars
<1>1. CASE TrackedNext
  BY <1>1 DEF TrackedNext, tracked_save, tracked_rollback, tracked_open, StoreNext
<1> QED  BY <1>1 DEF trackedVars

LEMMA LeafStep ==
    ASSUME StoreTypeOK, LeafInv, [TrackedNext]_trackedVars
    PROVE  LeafInv'
<1>1. ASSUME NEW t \in Tasks, NEW o \in ObjIds, NEW r \in Object,
             tracked_save(t, o, r)
      PROVE  LeafInv'
  <2>1. /\ objects' = [objects EXCEPT ![o] = r] /\ smt' = smt /\ rb' = rb
        /\ saving' = [saving EXCEPT ![t] = [obj |-> o, rec |-> r]]
        /\ saving[t] = Absent
        /\ overlapped' = IF alone(o) THEN overlapped \ {o} ELSE overlapped \cup {o}
    BY <1>1 DEF tracked_save, save_object_commit, can_write, in_store_call
  <2>2. saving'[t] = [obj |-> o, rec |-> r] /\ saving'[t] # Absent
    BY <2>1, AbsentIsNoRecord DEF StoreTypeOK, Saving
  <2>3. \A u \in Tasks \ {t} : saving'[u] = saving[u]
    BY <2>1 DEF StoreTypeOK
  <2>4. \A x \in ObjIds \ {o} : x \in in_flight <=> x \in in_flight'
    BY <2>1, <2>2, <2>3 DEF in_flight
  <2>5. o \in in_flight'
    BY <2>2 DEF in_flight
  <2>6. objects'[o] = r /\ \A x \in ObjIds \ {o} : objects'[x] = objects[x]
    BY <2>1 DEF StoreTypeOK
  <2>7. \A x \in ObjIds \ {o} : smt_of(objects)'[x] = smt_of(objects)[x]
    BY <2>6 DEF smt_of
  <2>8. ASSUME NEW x \in ObjIds \ overlapped', x # o
        PROVE  /\ \A u \in Tasks : saving'[u] # Absent /\ saving'[u].obj = x
                                   => saving'[u].rec = objects'[x]
               /\ rb'.phase \in {"idle", "undo"} =>
                    x \in in_flight' \/ smt'[x] = smt_of(objects)'[x]
               /\ rb'.phase = "install" => rb'.leaves[x] = smt_of(objects)'[x]
    <3>1. x \in ObjIds \ overlapped
      BY <2>1, <2>8
    <3>2. ASSUME NEW u \in Tasks, saving'[u] # Absent, saving'[u].obj = x
          PROVE  saving'[u].rec = objects'[x]
      BY <2>2, <2>3, <2>6, <2>8, <3>1, <3>2 DEF LeafInv
    <3>3. rb.phase \in {"idle", "undo"} =>
                    x \in in_flight' \/ smt'[x] = smt_of(objects)'[x]
      BY <2>1, <2>4, <2>7, <2>8, <3>1 DEF LeafInv
    <3>4. rb.phase = "install" => rb.leaves[x] = smt_of(objects)'[x]
      BY <2>7, <2>8, <3>1 DEF LeafInv
    <3> QED  BY <2>1, <3>2, <3>3, <3>4
  <2>9. ASSUME o \notin overlapped'
        PROVE  /\ \A u \in Tasks : saving'[u] # Absent /\ saving'[u].obj = o
                                   => saving'[u].rec = objects'[o]
               /\ rb'.phase # "install"
    <3>1. o \notin in_flight /\ rb.phase # "install"
      BY <2>1, <2>9 DEF alone
    <3>2. \A u \in Tasks \ {t} : ~(saving'[u] # Absent /\ saving'[u].obj = o)
      BY <2>3, <3>1 DEF in_flight
    <3> QED  BY <2>1, <2>2, <2>6, <3>1, <3>2
  <2> QED  BY <2>5, <2>8, <2>9 DEF LeafInv
<1>2. ASSUME NEW t \in Tasks, save_object_smt(t), UNCHANGED overlapped
      PROVE  LeafInv'
  <2> DEFINE o == saving[t].obj
  <2>1. /\ objects' = objects /\ rb' = rb /\ saving[t] \in Saving
        /\ smt' = [smt EXCEPT ![o] = hash_object(saving[t].rec)]
        /\ saving' = [saving EXCEPT ![t] = Absent]
    BY <1>2 DEF save_object_smt, tables, StoreTypeOK
  <2>2. o \in ObjIds /\ saving[t].rec # Absent /\ saving[t] # Absent
    BY <2>1, AbsentIsNoRecord DEF Saving
  <2>3. saving'[t] = Absent /\ \A u \in Tasks \ {t} : saving'[u] = saving[u]
    BY <2>1 DEF StoreTypeOK
  <2>4. smt_of(objects)' = smt_of(objects)
    BY <2>1 DEF smt_of
  <2>5. ASSUME NEW x \in ObjIds \ overlapped
        PROVE  /\ \A u \in Tasks : saving'[u] # Absent /\ saving'[u].obj = x
                                   => saving'[u].rec = objects[x]
               /\ rb.phase \in {"idle", "undo"} =>
                    x \in in_flight' \/ smt'[x] = smt_of(objects)[x]
               /\ rb.phase = "install" => rb.leaves[x] = smt_of(objects)[x]
    <3>1. \A u \in Tasks : saving'[u] # Absent /\ saving'[u].obj = x
                           => saving'[u].rec = objects[x]
      BY <2>3, <2>5 DEF LeafInv
    <3>2. CASE x = o
      <4>1. saving[t].rec = objects[x]
        BY <2>2, <2>5, <3>2 DEF LeafInv
      <4>2. smt'[x] = smt_of(objects)[x]
        BY <2>1, <2>2, <3>2, <4>1 DEF smt_of, StoreTypeOK, SmtLeaves
      <4> QED  BY <2>5, <3>1, <4>2 DEF LeafInv
    <3>3. CASE x # o
      <4>1. smt'[x] = smt[x]
        BY <2>1, <3>3 DEF StoreTypeOK, SmtLeaves
      <4>2. x \in in_flight <=> x \in in_flight'
        BY <2>2, <2>3, <3>3 DEF in_flight
      <4> QED  BY <2>5, <3>1, <4>1, <4>2 DEF LeafInv
    <3> QED  BY <3>2, <3>3
  <2> QED  BY <1>2, <2>1, <2>4, <2>5 DEF LeafInv
<1>3. ASSUME UNCHANGED <<objects, smt, saving, overlapped>>,
             \/ UNCHANGED rb
             \/ rb.phase = "idle" /\ rb'.phase = "undo"
             \/ rb.phase = "undo" /\ rb'.phase = "undo"
      PROVE  LeafInv'
  <2>1. in_flight' = in_flight /\ smt_of(objects)' = smt_of(objects)
    BY <1>3 DEF in_flight, smt_of
  <2> QED  BY <1>3, <2>1 DEF LeafInv
<1>4. ASSUME NEW t \in Tasks,
             \/ \E u \in UndoLog : save_undo_log(t, u)
             \/ \E tr \in Transition : save_transition(t, tr)
             \/ \E c \in ChainIds, h \in Heights, b \in Blocks : save_block(t, c, h, b)
             \/ \E c \in ChainIds, h \in Heights : set_last_sync_block(t, c, h)
             \/ \E k \in Codes : save_wasm(t, k)
      PROVE  UNCHANGED <<objects, smt, saving, rb>>
  BY <1>4 DEF save_undo_log, save_transition, save_block, set_last_sync_block,
              save_wasm
<1>5. ASSUME NEW c \in ChainIds, NEW h \in Heights, rollback_begin(c, h),
             UNCHANGED overlapped
      PROVE  LeafInv'
  <2>1. rb.phase = "idle" /\ rb'.phase = "undo" /\ UNCHANGED <<objects, smt, saving>>
    BY <1>5 DEF rollback_begin, can_write, in_store_call, tables
  <2> QED  BY <1>3, <1>5, <2>1
<1>6. CASE rollback_undo /\ UNCHANGED overlapped
  <2>1. rb'.phase = "undo"
    BY <1>6, RollbackPhase DEF rollback_undo, Rollbacks
  <2> QED  BY <1>3, <1>6, <2>1 DEF rollback_undo, tables
<1>7. CASE tracked_rollback
  <2>1. rb'.phase = "read" /\ saving' = saving /\ overlapped' = in_flight
    BY <1>7 DEF tracked_rollback, rollback_commit
  <2> QED  BY <2>1 DEF LeafInv, in_flight
<1>8. CASE rollback_read /\ UNCHANGED overlapped
  <2>1. /\ rb'.phase = "install" /\ rb'.leaves = smt_of(objects)
        /\ objects' = objects /\ saving' = saving
    BY <1>8 DEF rollback_read, tables
  <2>2. smt_of(objects)' = smt_of(objects)
    BY <2>1 DEF smt_of
  <2> QED  BY <1>8, <2>1, <2>2 DEF LeafInv
<1>9. CASE rollback_install /\ UNCHANGED overlapped
  <2>1. /\ rb'.phase = "idle" /\ rb.phase = "install" /\ smt' = rb.leaves
        /\ objects' = objects /\ saving' = saving
    BY <1>9 DEF rollback_install, NoRollback, tables
  <2>2. smt_of(objects)' = smt_of(objects)
    BY <2>1 DEF smt_of
  <2> QED  BY <1>9, <2>1, <2>2 DEF LeafInv
<1>10. CASE tracked_open
  <2>1. /\ rb'.phase = "idle" /\ smt' = smt_of(objects) /\ objects' = objects
        /\ \A t \in Tasks : saving'[t] = Absent
    BY <1>10 DEF tracked_open, open, NoRollback, tables
  <2>2. smt_of(objects)' = smt_of(objects)
    BY <2>1 DEF smt_of
  <2> QED  BY <2>1, <2>2 DEF LeafInv
<1>11. CASE UNCHANGED trackedVars
  BY <1>3, <1>11 DEF trackedVars, storeVars
<1> QED
  BY <1>1, <1>2, <1>3, <1>4, <1>5, <1>6, <1>7, <1>8, <1>9, <1>10, <1>11
     DEF TrackedNext

\* Whatever tasks save, log, roll back and crash in whatever interleaving of
\* commits and tree updates, the leaf of every object is that of its record
\* whenever no store call is in progress, unless two calls have overlapped
\* on this very object since the leaf was last written alone.
THEOREM LeavesCorrect == TrackedSpec => []RootMatchesUnlessOverlapped
<1>1. TrackedInit => StoreTypeOK /\ LeafInv
  <2>1. ASSUME TrackedInit  PROVE LeafInv
    BY <2>1 DEF TrackedInit, StoreInit, LeafInv, NoRollback
  <2> QED  BY <2>1, StoreTypeInit DEF TrackedInit
<1>2. StoreTypeOK /\ LeafInv /\ [TrackedNext]_trackedVars => StoreTypeOK' /\ LeafInv'
  BY LeafStep, TrackedIsStore, StoreTypeStep
<1>3. LeafInv => RootMatchesUnlessOverlapped
  BY DEF LeafInv, RootMatchesUnlessOverlapped, quiescent, in_flight
<1> QED  BY <1>1, <1>2, <1>3, PTL DEF TrackedSpec

-----------------------------------------------------------------------------
(* The sync loop: the inductive invariant.                                 *)

\* The height a pass scans first.
next_height == IF cursor = 0 THEN first_height ELSE cursor + 1

ChainTypes ==
    /\ blocks \in [ChainIds -> [Heights -> Blocks \cup {Absent}]]
    /\ last_block \in [ChainIds -> Heights]
    /\ l1 \in L1Chains
    /\ sync = [pc |-> sync.pc, tip |-> sync.tip, last |-> sync.last, ancestor |-> sync.ancestor,
               h |-> sync.h, hash |-> sync.hash, todo |-> sync.todo, retried |-> sync.retried,
               root |-> sync.root]

\* Nothing is recorded below the first height, and the L1 never gets shorter
\* than what is recorded.
RecordsPlaced ==
    /\ cursor <= Len(l1)
    /\ cursor = 0 \/ cursor >= first_height
    /\ \A h \in Heights : local_hash(h) # Absent => h >= first_height

\* The walk down has found a block that is not on the L1's chain.
AboveFork(a) ==
    /\ a \in Nat /\ a + 1 <= cursor
    /\ local_hash(a + 1) # l1[a + 1]

\* What a pass knows at each of its steps.
PassSound ==
    /\ sync.pc \in {"tick", "check", "backtrack", "rollback", "scan", "txs", "apply",
                    "block", "cursor", "attest"}
    /\ sync.pc # "tick" => sync.tip \in Nat /\ sync.tip <= Len(l1)
    /\ sync.pc = "check" =>
          sync.last = IF cursor = 0 /\ StartHeight > 0 THEN StartHeight - 1 ELSE cursor
    /\ sync.pc = "backtrack" => AboveFork(sync.ancestor)
    /\ sync.pc \in {"scan", "txs", "apply", "block", "cursor"} =>
          recorded_prefix_of(l1) /\ sync.h = next_height
    /\ sync.pc \in {"txs", "apply", "block", "cursor"} =>
          sync.h <= sync.tip /\ sync.hash = l1[sync.h]
    /\ sync.pc = "cursor" => local_hash(sync.h) = sync.hash
    /\ sync.pc = "attest" => recorded_prefix_of(l1) /\ sync.h = cursor /\ cursor > 0

\* A rollback in progress aims at the fork point, and one that has committed has
\* left a prefix of the L1's chain.
RollbackSound ==
    /\ rb.phase # "idle" => sync.pc = "rollback"
    /\ rb.phase = "undo" =>
          /\ {"phase", "chain", "target"} \subseteq DOMAIN rb
          /\ rb.chain = Chain /\ rb.target = sync.ancestor
          /\ AboveFork(sync.ancestor) /\ sync.ancestor > 0
          /\ local_hash(sync.ancestor) = l1[sync.ancestor]
    /\ sync.pc = "rollback" /\ rb.phase # "undo" =>
          recorded_prefix_of(l1) /\ cursor = sync.ancestor /\ cursor > 0

ChainInv ==
    ChainTypes /\ RecordsPlaced /\ LocalChainContinuous /\ PassSound /\ RollbackSound

-----------------------------------------------------------------------------
(* Facts about the constants and frames of the processor.                  *)

LEMMA HeightFacts ==
    /\ Chain \in ChainIds /\ StartHeight \in Nat /\ first_height \in Nat \ {0}
    /\ Absent \notin Blocks /\ 0 \in Heights /\ Heights \subseteq Nat
BY StoreAssumption, ProcessorAssumption, ScannerAssumption DEF first_height

LEMMA L1Facts ==
    ASSUME NEW c \in L1Chains
    PROVE  /\ Len(c) \in Nat /\ DOMAIN c = 1..Len(c)
           /\ \A h \in 1..Len(c) : h \in Heights /\ c[h] \in Blocks
<1>1. c \in Seq(Blocks) /\ DOMAIN c \subseteq Heights
  BY ScannerAssumption
<1> QED  BY <1>1

\* process_tx reads, and its steps write neither block records nor the cursor
\* nor a rollback.
LEMMA ProcessFrame ==
    ASSUME NEW t, process_step(t) \/ \E tx, h : process_tx(t, tx, h)
    PROVE  UNCHANGED <<blocks, last_block, rb>>
<1>1. ASSUME NEW tx, NEW h, process_tx(t, tx, h) PROVE UNCHANGED <<blocks, last_block, rb>>
  BY <1>1 DEF process_tx, storeVars
<1>2. ASSUME store_blob(t) PROVE UNCHANGED <<blocks, last_block, rb>>
  BY <1>2 DEF store_blob, save_wasm
<1>3. ASSUME record_undo(t) PROVE UNCHANGED <<blocks, last_block, rb>>
  BY <1>3 DEF record_undo, save_undo_log
<1>4. ASSUME execute(t) PROVE UNCHANGED <<blocks, last_block, rb>>
  BY <1>4 DEF execute, storeVars
<1>5. ASSUME commit_object(t) PROVE UNCHANGED <<blocks, last_block, rb>>
  BY <1>5 DEF commit_object, save_object_commit
<1>6. ASSUME update_tree(t) PROVE UNCHANGED <<blocks, last_block, rb>>
  BY <1>6 DEF update_tree, save_object_smt, tables
<1>7. ASSUME record_transition(t) PROVE UNCHANGED <<blocks, last_block, rb>>
  BY <1>7 DEF record_transition, save_transition
<1> QED  BY <1>1, <1>2, <1>3, <1>4, <1>5, <1>6, <1>7 DEF process_step

\* Where the record and the L1 agree at one height, they agree below it.
LEMMA AgreeBelow ==
    ASSUME HashLinked, ChainTypes, RecordsPlaced, LocalChainContinuous,
           NEW a \in Nat, a >= first_height, a <= cursor, local_hash(a) = l1[a]
    PROVE  \A h \in first_height..a : local_hash(h) = l1[h]
<1>1. PICK c \in L1Chains : recorded_prefix_of(c)
  BY DEF LocalChainContinuous
<1>2. /\ l1 \in L1Chains /\ cursor \in Nat /\ cursor <= Len(l1)
      /\ first_height \in Nat \ {0}
  BY HeightFacts DEF ChainTypes, RecordsPlaced, cursor
<1>3. /\ cursor <= Len(c)
      /\ \A h \in first_height..cursor : local_hash(h) = c[h]
  BY <1>1 DEF recorded_prefix_of
<1>4. /\ Len(c) \in Nat /\ DOMAIN c = 1..Len(c)
      /\ Len(l1) \in Nat /\ DOMAIN l1 = 1..Len(l1)
  BY <1>2, L1Facts
<1>5. c[a] = l1[a] /\ a \in DOMAIN c \cap DOMAIN l1
  BY <1>2, <1>3, <1>4
<1>6. \A k \in 1..a : c[k] = l1[k]
  BY <1>2, <1>5 DEF HashLinked
<1> QED  BY <1>2, <1>3, <1>6

-----------------------------------------------------------------------------
(* Preservation, one lemma per kind of step.                               *)

\* Steps that touch neither the records nor the pass.
LEMMA KeptAll ==
    ASSUME ChainInv, UNCHANGED <<blocks, last_block, rb, l1, sync>>
    PROVE  ChainInv'
BY DEF ChainInv, ChainTypes, RecordsPlaced, LocalChainContinuous, PassSound, RollbackSound,
       AboveFork, recorded_prefix_of, cursor, local_hash, next_height

\* Steps that only read: the records stay, the pass goes on.
LEMMA KeptRecords ==
    ASSUME ChainInv, UNCHANGED <<blocks, last_block, l1>>,
           sync' = [pc |-> sync'.pc, tip |-> sync'.tip, last |-> sync'.last,
                    ancestor |-> sync'.ancestor, h |-> sync'.h, hash |-> sync'.hash,
                    todo |-> sync'.todo, retried |-> sync'.retried, root |-> sync'.root]
    PROVE  ChainTypes' /\ RecordsPlaced' /\ LocalChainContinuous'
BY DEF ChainInv, ChainTypes, RecordsPlaced, LocalChainContinuous, recorded_prefix_of, cursor,
       local_hash

\* A pass that ends, in whatever way, leaves the loop waiting.
LEMMA KeptWaiting ==
    ASSUME ChainInv, UNCHANGED <<blocks, last_block, l1>>, sync' = Waiting, rb' = NoRollback
    PROVE  ChainInv'
<1>1. ChainTypes' /\ RecordsPlaced' /\ LocalChainContinuous'
  BY KeptRecords DEF Waiting
<1>2. sync'.pc = "tick" /\ rb'.phase = "idle"
  BY DEF Waiting, NoRollback
<1>3. PassSound'
  BY <1>2 DEF PassSound
<1>4. RollbackSound'
  BY <1>2 DEF RollbackSound
<1> QED  BY <1>1, <1>3, <1>4 DEF ChainInv

\* The locals that PassSound speaks of are left alone.
LEMMA KeptLocals ==
    ASSUME ChainInv, UNCHANGED <<blocks, last_block, rb, l1>>,
           sync' = [pc |-> sync.pc, tip |-> sync.tip, last |-> sync.last,
                    ancestor |-> sync.ancestor, h |-> sync.h, hash |-> sync.hash,
                    todo |-> sync'.todo, retried |-> sync'.retried, root |-> sync.root]
    PROVE  ChainInv'
<1>1. ChainTypes' /\ RecordsPlaced' /\ LocalChainContinuous'
  BY KeptRecords
<1>2. /\ sync'.pc = sync.pc /\ sync'.tip = sync.tip /\ sync'.last = sync.last
      /\ sync'.ancestor = sync.ancestor /\ sync'.h = sync.h /\ sync'.hash = sync.hash
  OBVIOUS
<1>3. PassSound'
  BY <1>2 DEF ChainInv, PassSound, AboveFork, recorded_prefix_of, cursor, local_hash, next_height
<1>4. RollbackSound'
  BY <1>2 DEF ChainInv, RollbackSound, AboveFork, recorded_prefix_of, cursor, local_hash
<1> QED  BY <1>1, <1>3, <1>4 DEF ChainInv

\* The pass starts with the cursor, or just below the start height.
LEMMA KeptByTip ==
    ASSUME ChainInv, get_tip_height PROVE ChainInv'
<1>1. UNCHANGED <<blocks, last_block, rb, l1>>
  BY DEF get_tip_height, reading, procVars, storeVars
<1>2. /\ sync' = [Waiting EXCEPT !.pc = "check", !.tip = Len(l1),
                                 !.last = IF cursor = 0 /\ StartHeight > 0
                                          THEN StartHeight - 1 ELSE cursor]
      /\ sync.pc = "tick"
  BY DEF get_tip_height
<1>3. /\ sync'.pc = "check" /\ sync'.tip = Len(l1)
      /\ sync'.last = IF cursor = 0 /\ StartHeight > 0 THEN StartHeight - 1 ELSE cursor
      /\ sync' = [pc |-> sync'.pc, tip |-> sync'.tip, last |-> sync'.last,
                  ancestor |-> sync'.ancestor, h |-> sync'.h, hash |-> sync'.hash,
                  todo |-> sync'.todo, retried |-> sync'.retried, root |-> sync'.root]
  BY <1>2 DEF Waiting
<1>4. ChainTypes' /\ RecordsPlaced' /\ LocalChainContinuous'
  BY <1>1, <1>3, KeptRecords
<1>5. PassSound'
  <2>1. Len(l1) \in Nat
    BY L1Facts DEF ChainInv, ChainTypes
  <2> QED  BY <1>1, <1>3, <2>1 DEF PassSound, cursor
<1>6. RollbackSound'
  BY <1>1, <1>2, <1>3 DEF ChainInv, RollbackSound
<1> QED  BY <1>4, <1>5, <1>6 DEF ChainInv

\* The comparison at the cursor either shows that the records are on the L1's
\* chain, or that the recorded tip is not.
LEMMA KeptByCheck ==
    ASSUME ChainInv, HashLinked, SteadyPass, check_cursor PROVE ChainInv'
<1> DEFINE recorded == sync.last > 0 /\ local_hash(sync.last) # Absent
<1>1. UNCHANGED <<blocks, last_block, rb, l1>> /\ sync.pc = "check"
  BY DEF check_cursor, reading, procVars, storeVars
<1>2. /\ sync.last = IF cursor = 0 /\ StartHeight > 0 THEN StartHeight - 1 ELSE cursor
      /\ rb.phase = "idle" /\ sync.tip \in Nat /\ sync.tip <= Len(l1)
  BY <1>1 DEF ChainInv, PassSound, RollbackSound
<1>3. /\ cursor \in Heights /\ cursor \in Nat /\ StartHeight \in Nat
      /\ first_height = IF StartHeight = 0 THEN 1 ELSE StartHeight
      /\ cursor = 0 \/ cursor >= first_height
      /\ cursor <= Len(l1) /\ Len(l1) \in Nat
  BY HeightFacts, L1Facts DEF ChainInv, ChainTypes, RecordsPlaced, cursor, first_height
<1>4. ASSUME NEW pc, NEW a, NEW h,
             sync' = [sync EXCEPT !.pc = pc, !.ancestor = a, !.h = h]
      PROVE  /\ ChainTypes' /\ RecordsPlaced' /\ LocalChainContinuous'
             /\ sync'.pc = pc /\ sync'.ancestor = a /\ sync'.h = h /\ sync'.tip = sync.tip
  <2>1. sync' = [pc |-> pc, tip |-> sync.tip, last |-> sync.last, ancestor |-> a,
                 h |-> h, hash |-> sync.hash, todo |-> sync.todo, retried |-> sync.retried,
                 root |-> sync.root]
    BY <1>4 DEF ChainInv, ChainTypes
  <2> QED  BY <1>1, <2>1, KeptRecords
<1>5. CASE recorded /\ l1[sync.last] # local_hash(sync.last)
           /\ sync' = [sync EXCEPT !.pc = "backtrack", !.ancestor = sync.last - 1]
  <2>1. sync' = [sync EXCEPT !.pc = "backtrack", !.ancestor = sync.last - 1, !.h = sync.h]
    BY <1>5 DEF ChainInv, ChainTypes
  <2>2. sync.last = cursor /\ cursor > 0
    <3>1. ASSUME sync.last # cursor PROVE FALSE
      <4>1. cursor = 0 /\ sync.last = StartHeight - 1 /\ StartHeight > 0
        BY <1>2, <3>1
      <4>2. sync.last \in Heights
        BY <1>3, <4>1, ScannerAssumption
      <4>3. sync.last >= first_height
        BY <1>5, <4>2 DEF ChainInv, RecordsPlaced
      <4> QED  BY <1>3, <4>1, <4>3
    <3> QED  BY <1>3, <1>5, <3>1
  <2>3. AboveFork(sync.last - 1)
    BY <1>3, <1>5, <2>2 DEF AboveFork
  <2>4. /\ ChainTypes' /\ RecordsPlaced' /\ LocalChainContinuous'
        /\ sync'.pc = "backtrack" /\ sync'.ancestor = sync.last - 1 /\ sync'.tip = sync.tip
    BY <1>4, <2>1
  <2>5. PassSound'
    BY <1>1, <1>2, <2>3, <2>4 DEF PassSound, AboveFork, cursor, local_hash
  <2>6. RollbackSound'
    BY <1>1, <1>2, <2>4 DEF RollbackSound
  <2> QED  BY <2>4, <2>5, <2>6 DEF ChainInv
<1>6. CASE (recorded => l1[sync.last] = local_hash(sync.last))
           /\ sync' = [sync EXCEPT !.pc = "scan", !.h = sync.last + 1]
  <2>1. sync' = [sync EXCEPT !.pc = "scan", !.ancestor = sync.ancestor, !.h = sync.last + 1]
    BY <1>6 DEF ChainInv, ChainTypes
  <2>2. sync.last + 1 = next_height
    BY <1>2, <1>3 DEF next_height
  <2>3. recorded_prefix_of(l1)
    <3>1. CASE cursor = 0
      BY <1>3, <3>1 DEF recorded_prefix_of
    <3>2. CASE cursor > 0
      <4>1. sync.last = cursor
        BY <1>2, <3>2
      <4>2. PICK c \in L1Chains : recorded_prefix_of(c)
        BY DEF ChainInv, LocalChainContinuous
      <4>3. local_hash(cursor) = c[cursor] /\ cursor <= Len(c)
        BY <1>3, <3>2, <4>2 DEF recorded_prefix_of
      <4>4. c[cursor] # Absent
        BY <1>3, <3>2, <4>3, L1Facts, HeightFacts
      <4>5. local_hash(cursor) = l1[cursor]
        BY <1>6, <4>1, <4>3, <4>4, <3>2
      <4>6. ChainTypes /\ RecordsPlaced /\ LocalChainContinuous
        BY DEF ChainInv
      <4>7. cursor >= first_height /\ cursor <= cursor
        BY <1>3, <3>2
      <4>8. \A h \in first_height..cursor : local_hash(h) = l1[h]
        BY <1>3, <4>5, <4>6, <4>7, AgreeBelow
      <4> QED  BY <1>3, <4>8 DEF recorded_prefix_of
    <3> QED  BY <1>3, <3>1, <3>2
  <2>4. /\ ChainTypes' /\ RecordsPlaced' /\ LocalChainContinuous'
        /\ sync'.pc = "scan" /\ sync'.h = sync.last + 1 /\ sync'.tip = sync.tip
    BY <1>4, <2>1
  <2>5. PassSound'
    BY <1>1, <1>2, <2>2, <2>3, <2>4
    DEF PassSound, recorded_prefix_of, next_height, cursor, local_hash
  <2>6. RollbackSound'
    BY <1>1, <1>2, <2>4 DEF RollbackSound
  <2> QED  BY <2>4, <2>5, <2>6 DEF ChainInv
<1> QED  BY <1>5, <1>6 DEF check_cursor, fault, SteadyPass

\* The walk down the records.
LEMMA KeptByBacktrack ==
    ASSUME ChainInv, backtrack_down \/ backtrack_found PROVE ChainInv'
<1>1. /\ UNCHANGED <<blocks, last_block, l1>> /\ sync.pc = "backtrack" /\ sync.ancestor > 0
  BY DEF backtrack_down, backtrack_found, reading, writing, procVars, storeVars, rollback_begin,
         tables
<1>2. /\ AboveFork(sync.ancestor) /\ rb.phase = "idle"
      /\ sync.tip \in Nat /\ sync.tip <= Len(l1)
  BY <1>1 DEF ChainInv, PassSound, RollbackSound
<1>3. CASE backtrack_down
  <2>1. /\ rb' = rb /\ local_hash(sync.ancestor) # l1[sync.ancestor]
        /\ sync' = [sync EXCEPT !.ancestor = sync.ancestor - 1]
    BY <1>3 DEF backtrack_down, reading, procVars, storeVars
  <2>2. /\ sync'.pc = "backtrack" /\ sync'.ancestor = sync.ancestor - 1 /\ sync'.tip = sync.tip
        /\ sync' = [pc |-> sync'.pc, tip |-> sync'.tip, last |-> sync'.last,
                    ancestor |-> sync'.ancestor, h |-> sync'.h, hash |-> sync'.hash,
                    todo |-> sync'.todo, retried |-> sync'.retried, root |-> sync'.root]
    BY <1>1, <2>1 DEF ChainInv, ChainTypes
  <2>3. AboveFork(sync.ancestor - 1)
    <3>1. sync.ancestor \in Nat /\ sync.ancestor + 1 <= cursor /\ cursor \in Nat
      BY <1>2, HeightFacts DEF AboveFork, ChainInv, ChainTypes, cursor
    <3> QED  BY <1>1, <2>1, <3>1 DEF AboveFork
  <2>4. ChainTypes' /\ RecordsPlaced' /\ LocalChainContinuous'
    BY <1>1, <2>2, KeptRecords
  <2>5. PassSound'
    BY <1>1, <1>2, <2>2, <2>3 DEF PassSound, AboveFork, cursor, local_hash
  <2>6. RollbackSound'
    BY <1>2, <2>1, <2>2 DEF RollbackSound
  <2> QED  BY <2>4, <2>5, <2>6 DEF ChainInv
<1>4. CASE backtrack_found
  <2>1. /\ local_hash(sync.ancestor) = l1[sync.ancestor]
        /\ sync' = [sync EXCEPT !.pc = "rollback"]
        /\ rb' = [phase |-> "undo", chain |-> Chain, target |-> sync.ancestor,
                  logs |-> {u \in undo_logs : u.chain = Chain /\ u.height > sync.ancestor},
                  objects |-> objects, seals |-> seals]
    BY <1>4 DEF backtrack_found, goto, rollback_begin
  <2>2. /\ sync'.pc = "rollback" /\ sync'.ancestor = sync.ancestor /\ sync'.tip = sync.tip
        /\ sync' = [pc |-> sync'.pc, tip |-> sync'.tip, last |-> sync'.last,
                    ancestor |-> sync'.ancestor, h |-> sync'.h, hash |-> sync'.hash,
                    todo |-> sync'.todo, retried |-> sync'.retried, root |-> sync'.root]
    BY <1>1, <2>1 DEF ChainInv, ChainTypes
  <2>3. ChainTypes' /\ RecordsPlaced' /\ LocalChainContinuous'
    BY <1>1, <2>2, KeptRecords
  <2>4. PassSound'
    BY <1>1, <1>2, <2>2 DEF PassSound
  <2>5. RollbackSound'
    <3>1. /\ rb'.phase = "undo" /\ rb'.chain = Chain /\ rb'.target = sync'.ancestor
          /\ {"phase", "chain", "target"} \subseteq DOMAIN rb'
      BY <2>1, <2>2
    <3>2. AboveFork(sync.ancestor)' /\ sync'.ancestor > 0 /\ (local_hash(sync.ancestor) = l1[sync.ancestor])'
      BY <1>1, <1>2, <2>1, <2>2 DEF AboveFork, cursor, local_hash
    <3> QED  BY <2>2, <3>1, <3>2 DEF RollbackSound
  <2> QED  BY <2>3, <2>4, <2>5 DEF ChainInv
<1> QED  BY <1>3, <1>4

\* The rollback: the undo walk, the commit at the fork point, and the tree.
LEMMA CommitAtFork ==
    ASSUME ChainInv, HashLinked, rollback_commit
    PROVE  /\ cursor' = sync.ancestor /\ sync.ancestor \in Nat /\ sync.ancestor > 0
           /\ sync.ancestor >= first_height /\ sync.ancestor + 1 <= cursor
           /\ \A h \in first_height..sync.ancestor : local_hash(h) = l1[h]
           /\ local_hash(sync.ancestor + 1) # l1[sync.ancestor + 1]
           /\ blocks' \in [ChainIds -> [Heights -> Blocks \cup {Absent}]]
           /\ last_block' \in [ChainIds -> Heights]
           /\ \A h \in Heights : local_hash(h)' =
                 IF h > sync.ancestor THEN Absent ELSE local_hash(h)
<1> USE HeightFacts
<1>1. /\ rb.chain = Chain /\ rb.target = sync.ancestor
      /\ AboveFork(sync.ancestor) /\ sync.ancestor > 0
      /\ local_hash(sync.ancestor) = l1[sync.ancestor]
  BY DEF rollback_commit, ChainInv, RollbackSound
<1>2. /\ ChainTypes /\ RecordsPlaced /\ LocalChainContinuous
      /\ l1 \in L1Chains /\ cursor \in Nat /\ cursor <= Len(l1)
      /\ Len(l1) \in Nat /\ \A h \in 1..Len(l1) : h \in Heights /\ l1[h] \in Blocks
  BY L1Facts DEF ChainInv, ChainTypes, RecordsPlaced, cursor
<1>3. /\ sync.ancestor \in Nat /\ sync.ancestor + 1 <= cursor
      /\ local_hash(sync.ancestor + 1) # l1[sync.ancestor + 1]
  BY <1>1 DEF AboveFork
<1>4. sync.ancestor \in Heights /\ l1[sync.ancestor] # Absent
  BY <1>1, <1>2, <1>3
<1>5. sync.ancestor >= first_height
  BY <1>1, <1>2, <1>4 DEF RecordsPlaced
<1>6. \A h \in first_height..sync.ancestor : local_hash(h) = l1[h]
  <2>1. sync.ancestor <= cursor
    BY <1>2, <1>3
  <2> QED  BY <1>1, <1>2, <1>3, <1>5, <2>1, AgreeBelow
<1>7. /\ rb.chain = Chain /\ rb.target = sync.ancestor
  BY <1>1
<1>8. /\ last_block' = [last_block EXCEPT ![Chain] = sync.ancestor]
      /\ blocks' = [blocks EXCEPT ![Chain] =
                      [h \in Heights |-> IF h > sync.ancestor THEN Absent ELSE blocks[Chain][h]]]
  BY <1>7 DEF rollback_commit
<1>9. /\ blocks \in [ChainIds -> [Heights -> Blocks \cup {Absent}]]
      /\ last_block \in [ChainIds -> Heights]
  BY <1>2 DEF ChainTypes
<1>10. cursor' = sync.ancestor /\ last_block' \in [ChainIds -> Heights]
  BY <1>4, <1>8, <1>9 DEF cursor
<1>11. [h \in Heights |-> IF h > sync.ancestor THEN Absent ELSE blocks[Chain][h]]
          \in [Heights -> Blocks \cup {Absent}]
  BY <1>9
<1>12. /\ blocks' \in [ChainIds -> [Heights -> Blocks \cup {Absent}]]
       /\ blocks'[Chain] = [h \in Heights |-> IF h > sync.ancestor THEN Absent ELSE blocks[Chain][h]]
  BY <1>8, <1>9, <1>11
<1>13. \A h \in Heights : local_hash(h)' = IF h > sync.ancestor THEN Absent ELSE local_hash(h)
  BY <1>12 DEF local_hash
<1> QED  BY <1>1, <1>3, <1>5, <1>6, <1>10, <1>12, <1>13

LEMMA KeptByRollback ==
    ASSUME ChainInv, HashLinked, rollback_step \/ rollback_return PROVE ChainInv'
<1>1. sync.pc = "rollback" /\ l1' = l1
  BY DEF rollback_step, rollback_return, reading, writing, procVars, storeVars
<1>2. CASE rollback_step /\ rollback_commit
  <2>1. /\ cursor' = sync.ancestor /\ sync.ancestor \in Nat /\ sync.ancestor > 0
        /\ sync.ancestor >= first_height /\ sync.ancestor + 1 <= cursor
        /\ \A h \in first_height..sync.ancestor : local_hash(h) = l1[h]
        /\ blocks' \in [ChainIds -> [Heights -> Blocks \cup {Absent}]]
        /\ last_block' \in [ChainIds -> Heights]
        /\ \A h \in Heights : local_hash(h)' =
              IF h > sync.ancestor THEN Absent ELSE local_hash(h)
    BY <1>2, CommitAtFork
  <2>2. sync' = sync /\ rb' = [phase |-> "read"]
    BY <1>2 DEF rollback_step, rollback_commit
  <2>3. /\ ChainTypes /\ RecordsPlaced /\ PassSound
        /\ l1 \in L1Chains /\ Len(l1) \in Nat /\ cursor \in Nat /\ cursor <= Len(l1)
        /\ \A h \in 1..Len(l1) : h \in Heights
        /\ first_height \in Nat \ {0}
    BY L1Facts, HeightFacts DEF ChainInv, ChainTypes, RecordsPlaced, cursor
  <2>4. recorded_prefix_of(l1)'
    <3>1. cursor' <= Len(l1')
      BY <1>1, <2>1, <2>3
    <3>2. ASSUME NEW h \in first_height..(cursor') PROVE local_hash(h)' = l1'[h]
      <4>1. h \in first_height..sync.ancestor /\ h \in Heights /\ ~ (h > sync.ancestor)
        BY <2>1, <2>3, <3>2
      <4>2. local_hash(h)' = local_hash(h) /\ local_hash(h) = l1[h]
        BY <2>1, <4>1
      <4> QED  BY <1>1, <4>2
    <3> QED  BY <3>1, <3>2 DEF recorded_prefix_of, first_height
  <2>5. ChainTypes'
    BY <1>1, <2>1, <2>2, <2>3 DEF ChainTypes
  <2>6. RecordsPlaced'
    <3>1. \A h \in Heights : local_hash(h)' # Absent => h >= first_height
      BY <2>1, <2>3 DEF RecordsPlaced
    <3>2. cursor' <= Len(l1') /\ cursor' >= first_height
      BY <1>1, <2>1, <2>3
    <3> QED  BY <3>1, <3>2 DEF RecordsPlaced, first_height
  <2>7. LocalChainContinuous'
    BY <1>1, <2>3, <2>4 DEF LocalChainContinuous
  <2>8. PassSound'
    BY <1>1, <2>2, <2>3 DEF PassSound
  <2>9. RollbackSound'
    BY <1>1, <2>1, <2>2, <2>4 DEF RollbackSound
  <2> QED  BY <2>5, <2>6, <2>7, <2>8, <2>9 DEF ChainInv
<1>3. CASE rollback_step /\ (rollback_undo \/ rollback_read \/ rollback_install)
  <2>1. UNCHANGED <<blocks, last_block, sync>>
    BY <1>3 DEF rollback_step, rollback_undo, rollback_read, rollback_install, tables
  <2>2. ChainTypes' /\ RecordsPlaced' /\ LocalChainContinuous'
    BY <1>1, <2>1 DEF ChainInv, ChainTypes, RecordsPlaced, LocalChainContinuous,
                      recorded_prefix_of, cursor, local_hash
  <2>3. PassSound'
    BY <1>1, <2>1 DEF ChainInv, PassSound
  <2>4. RollbackSound'
    <3>1. CASE rollback_undo
      <4>1. /\ rb.phase = "undo"
            /\ {"phase", "chain", "target"} \subseteq DOMAIN rb
            /\ rb.chain = Chain /\ rb.target = sync.ancestor
            /\ AboveFork(sync.ancestor) /\ sync.ancestor > 0
            /\ local_hash(sync.ancestor) = l1[sync.ancestor]
        BY <3>1 DEF rollback_undo, ChainInv, RollbackSound
      <4>2. PICK logs, objs, idx :
               rb' = [rb EXCEPT !.logs = logs, !.objects = objs, !.seals = idx]
        BY <3>1 DEF rollback_undo
      <4>3. /\ rb'.phase = "undo" /\ rb'.chain = Chain /\ rb'.target = sync.ancestor
            /\ DOMAIN rb' = DOMAIN rb
        BY <4>1, <4>2
      <4>4. /\ rb'.chain = Chain /\ rb'.target = sync'.ancestor
            /\ {"phase", "chain", "target"} \subseteq DOMAIN rb'
        BY <2>1, <4>1, <4>3
      <4>5. AboveFork(sync.ancestor)' /\ sync'.ancestor > 0
            /\ (local_hash(sync.ancestor) = l1[sync.ancestor])'
        BY <1>1, <2>1, <4>1 DEF AboveFork, cursor, local_hash
      <4> QED  BY <1>1, <2>1, <4>3, <4>4, <4>5 DEF RollbackSound
    <3>2. CASE rollback_read \/ rollback_install
      <4>1. rb.phase # "undo" /\ rb'.phase # "undo"
        BY <3>2 DEF rollback_read, rollback_install, NoRollback
      <4> QED  BY <1>1, <2>1, <4>1 DEF ChainInv, RollbackSound, recorded_prefix_of, cursor, local_hash
    <3> QED  BY <1>3, <3>1, <3>2
  <2> QED  BY <2>2, <2>3, <2>4 DEF ChainInv
<1>4. CASE rollback_return
  <2>1. /\ UNCHANGED <<blocks, last_block, rb>> /\ rb.phase = "idle"
        /\ sync' = [sync EXCEPT !.pc = "scan", !.last = sync.ancestor, !.h = sync.ancestor + 1]
    BY <1>4 DEF rollback_return, reading, procVars, storeVars, NoRollback
  <2>2. /\ sync'.pc = "scan" /\ sync'.h = sync.ancestor + 1 /\ sync'.tip = sync.tip
        /\ sync' = [pc |-> sync'.pc, tip |-> sync'.tip, last |-> sync'.last,
                    ancestor |-> sync'.ancestor, h |-> sync'.h, hash |-> sync'.hash,
                    todo |-> sync'.todo, retried |-> sync'.retried, root |-> sync'.root]
    BY <2>1 DEF ChainInv, ChainTypes
  <2>3. recorded_prefix_of(l1) /\ cursor = sync.ancestor /\ cursor > 0
    BY <1>1, <2>1 DEF ChainInv, RollbackSound
  <2>4. ChainTypes' /\ RecordsPlaced' /\ LocalChainContinuous'
    BY <1>1, <2>1, <2>2, KeptRecords
  <2>5. sync'.h = next_height /\ sync.tip \in Nat /\ sync.tip <= Len(l1)
    <3>1. cursor \in Nat
      BY HeightFacts DEF ChainInv, ChainTypes, cursor
    <3> QED  BY <1>1, <2>2, <2>3, <3>1 DEF next_height, ChainInv, PassSound
  <2>6. PassSound'
    BY <1>1, <2>1, <2>2, <2>3, <2>5
    DEF PassSound, recorded_prefix_of, next_height, cursor, local_hash
  <2>7. RollbackSound'
    BY <2>1, <2>2 DEF RollbackSound
  <2> QED  BY <2>4, <2>6, <2>7 DEF ChainInv
<1> QED  BY <1>2, <1>3, <1>4 DEF rollback_step

\* Reading a block: the pass stays on the chain it started on.
LEMMA KeptByScan ==
    ASSUME ChainInv, SteadyPass, get_block_hash \/ get_block_txs \/ read_root PROVE ChainInv'
<1>1. UNCHANGED <<blocks, last_block, rb, l1>>
  BY DEF get_block_hash, get_block_txs, read_root, reading, procVars, storeVars
<1>2. /\ sync.pc \in {"scan", "txs", "apply"}
      /\ sync'.pc \in {"txs", "apply", "block"}
      /\ sync'.h = sync.h /\ sync'.tip = sync.tip
      /\ sync.pc = "scan" => sync'.hash = l1[sync.h] /\ sync.h <= sync.tip
      /\ sync.pc # "scan" => sync'.hash = sync.hash
      /\ sync' = [pc |-> sync'.pc, tip |-> sync'.tip, last |-> sync'.last,
                  ancestor |-> sync'.ancestor, h |-> sync'.h, hash |-> sync'.hash,
                  todo |-> sync'.todo, retried |-> sync'.retried, root |-> sync'.root]
  <2> DEFINE Read == /\ sync.pc \in {"scan", "txs", "apply"}
                     /\ sync'.pc \in {"txs", "apply", "block"}
                     /\ sync'.h = sync.h /\ sync'.tip = sync.tip
                     /\ sync.pc = "scan" => sync'.hash = l1[sync.h] /\ sync.h <= sync.tip
                     /\ sync.pc # "scan" => sync'.hash = sync.hash
                     /\ sync' = [pc |-> sync'.pc, tip |-> sync'.tip, last |-> sync'.last,
                                 ancestor |-> sync'.ancestor, h |-> sync'.h, hash |-> sync'.hash,
                                 todo |-> sync'.todo, retried |-> sync'.retried, root |-> sync'.root]
  <2> SUFFICES Read
    OBVIOUS
  <2>1. CASE get_block_hash
    <3>1. /\ sync.pc = "scan" /\ sync.h <= sync.tip
          /\ sync' = [sync EXCEPT !.pc = "txs", !.hash = l1[sync.h]]
      BY <2>1 DEF get_block_hash, fault, SteadyPass
    <3> QED  BY <3>1 DEF ChainInv, ChainTypes
  <2>2. CASE get_block_txs
    <3>1. sync.pc = "txs" /\ \E todo : sync' = [sync EXCEPT !.pc = "apply", !.todo = todo]
      BY <2>2 DEF get_block_txs
    <3>2. PICK todo : sync' = [sync EXCEPT !.pc = "apply", !.todo = todo]
      BY <3>1
    <3> QED  BY <3>1, <3>2 DEF ChainInv, ChainTypes
  <2>3. CASE read_root
    <3>1. sync.pc = "apply" /\ sync' = [sync EXCEPT !.pc = "block", !.root = current_state_root]
      BY <2>3 DEF read_root
    <3> QED  BY <3>1 DEF ChainInv, ChainTypes
  <2> QED  BY <2>1, <2>2, <2>3
<1>3. ChainTypes' /\ RecordsPlaced' /\ LocalChainContinuous'
  BY <1>1, <1>2, KeptRecords
<1>4. PassSound'
  BY <1>1, <1>2 DEF ChainInv, PassSound, recorded_prefix_of, cursor, local_hash, next_height
<1>5. RollbackSound'
  BY <1>1, <1>2 DEF ChainInv, RollbackSound
<1> QED  BY <1>3, <1>4, <1>5 DEF ChainInv

\* What a pass knows of the block it is about to record.
LEMMA BlockInHand ==
    ASSUME ChainInv, sync.pc \in {"block", "cursor"}
    PROVE  /\ sync.h \in Nat /\ sync.h > cursor /\ sync.h >= first_height
           /\ sync.h <= Len(l1) /\ sync.h \in Heights
           /\ sync.hash = l1[sync.h] /\ sync.hash \in Blocks
           /\ \A h \in first_height..sync.h : h = sync.h \/ h \in first_height..cursor
           /\ cursor \in Nat /\ first_height \in Nat \ {0} /\ Chain \in ChainIds
           /\ recorded_prefix_of(l1) /\ sync.h = next_height
           /\ rb.phase = "idle"
           /\ sync.tip \in Nat /\ sync.tip <= Len(l1)
<1>1. /\ recorded_prefix_of(l1) /\ sync.h = next_height /\ sync.h <= sync.tip
      /\ sync.hash = l1[sync.h] /\ sync.tip \in Nat /\ sync.tip <= Len(l1)
  BY DEF ChainInv, PassSound
<1>2. /\ cursor \in Nat /\ first_height \in Nat \ {0} /\ Chain \in ChainIds
      /\ l1 \in L1Chains /\ Len(l1) \in Nat
      /\ cursor = 0 \/ cursor >= first_height
  BY HeightFacts, L1Facts DEF ChainInv, ChainTypes, RecordsPlaced, cursor
<1>3. /\ sync.h \in Nat /\ sync.h > cursor /\ sync.h >= first_height
      /\ \A h \in first_height..sync.h : h = sync.h \/ h \in first_height..cursor
  BY <1>1, <1>2 DEF next_height
<1>4. sync.h <= Len(l1)
  BY <1>1, <1>2, <1>3
<1>5. sync.h \in Heights /\ l1[sync.h] \in Blocks
  BY <1>2, <1>3, <1>4, L1Facts
<1>6. rb.phase = "idle"
  BY DEF ChainInv, RollbackSound
<1> QED  BY <1>1, <1>2, <1>3, <1>4, <1>5, <1>6

\* The block record is written above the cursor, ...
LEMMA KeptByBlock ==
    ASSUME ChainInv, record_block PROVE ChainInv'
<1>1. /\ sync.pc = "block" /\ l1' = l1 /\ last_block' = last_block /\ rb' = rb
      /\ sync' = [sync EXCEPT !.pc = "cursor"]
      /\ blocks' = [blocks EXCEPT ![Chain] = [blocks[Chain] EXCEPT ![sync.h] = sync.hash]]
  BY DEF record_block, save_block, goto, writing
<1>2. /\ sync.h \in Nat /\ sync.h > cursor /\ sync.h >= first_height
      /\ sync.h <= Len(l1) /\ sync.h \in Heights
      /\ sync.hash = l1[sync.h] /\ sync.hash \in Blocks
      /\ cursor \in Nat /\ first_height \in Nat \ {0} /\ Chain \in ChainIds
      /\ recorded_prefix_of(l1) /\ sync.h = next_height
      /\ rb.phase = "idle"
      /\ sync.tip \in Nat /\ sync.tip <= Len(l1) /\ sync.h <= sync.tip
  BY <1>1, BlockInHand DEF ChainInv, PassSound
<1>3. /\ sync'.pc = "cursor" /\ sync'.h = sync.h /\ sync'.hash = sync.hash /\ sync'.tip = sync.tip
      /\ sync' = [pc |-> sync'.pc, tip |-> sync'.tip, last |-> sync'.last,
                  ancestor |-> sync'.ancestor, h |-> sync'.h, hash |-> sync'.hash,
                  todo |-> sync'.todo, retried |-> sync'.retried, root |-> sync'.root]
  BY <1>1 DEF ChainInv, ChainTypes
<1>4. /\ blocks' \in [ChainIds -> [Heights -> Blocks \cup {Absent}]]
      /\ \A h \in Heights : local_hash(h)' = IF h = sync.h THEN sync.hash ELSE local_hash(h)
  <2>1. blocks \in [ChainIds -> [Heights -> Blocks \cup {Absent}]]
    BY DEF ChainInv, ChainTypes
  <2>2. [blocks[Chain] EXCEPT ![sync.h] = sync.hash] \in [Heights -> Blocks \cup {Absent}]
    BY <1>2, <2>1
  <2>3. /\ blocks' \in [ChainIds -> [Heights -> Blocks \cup {Absent}]]
        /\ blocks'[Chain] = [blocks[Chain] EXCEPT ![sync.h] = sync.hash]
    BY <1>1, <1>2, <2>1, <2>2
  <2> QED  BY <1>2, <2>1, <2>3 DEF local_hash
<1>5. cursor' = cursor
  BY <1>1 DEF cursor
<1>6. ASSUME NEW c \in L1Chains, recorded_prefix_of(c)
      PROVE  recorded_prefix_of(c)'
  <2>1. /\ cursor <= Len(c) /\ \A h \in first_height..cursor : local_hash(h) = c[h]
    BY <1>6 DEF recorded_prefix_of
  <2>2. ASSUME NEW h \in first_height..cursor PROVE local_hash(h)' = c[h]
    <3>1. h \in Heights /\ h # sync.h
      <4>1. h \in 1..Len(c) /\ h # sync.h
        BY <1>2, <2>1, <2>2, L1Facts
      <4> QED  BY <4>1, L1Facts
    <3> QED  BY <1>4, <2>1, <3>1
  <2> QED  BY <1>5, <2>1, <2>2 DEF recorded_prefix_of, first_height
<1>7. ChainTypes'
  BY <1>1, <1>3, <1>4 DEF ChainInv, ChainTypes
<1>8. RecordsPlaced'
  <2>1. \A h \in Heights : local_hash(h)' # Absent => h >= first_height
    BY <1>2, <1>4 DEF ChainInv, RecordsPlaced
  <2> QED  BY <1>1, <1>5, <2>1 DEF ChainInv, RecordsPlaced, first_height
<1>9. LocalChainContinuous'
  BY <1>6 DEF ChainInv, LocalChainContinuous
<1>10. recorded_prefix_of(l1)'
  <2>1. l1 \in L1Chains
    BY DEF ChainInv, ChainTypes
  <2>2. \A c \in L1Chains : recorded_prefix_of(c) =>
           cursor' <= Len(c) /\ \A h \in first_height..(cursor') : local_hash(h)' = c[h]
    BY <1>6 DEF recorded_prefix_of, first_height
  <2>3. cursor' <= Len(l1) /\ \A h \in first_height..(cursor') : local_hash(h)' = l1[h]
    BY <1>2, <2>1, <2>2
  <2> QED  BY <1>1, <2>3 DEF recorded_prefix_of, first_height
<1>11. PassSound'
  <2>1. local_hash(sync.h)' = sync'.hash
    <3>1. blocks'[Chain][sync.h] = sync.hash
      BY <1>2, <1>4 DEF local_hash
    <3> QED  BY <1>3, <3>1 DEF local_hash
  <2>2. next_height' = next_height
    BY <1>5 DEF next_height, first_height
  <2> QED  BY <1>1, <1>2, <1>3, <1>10, <2>1, <2>2 DEF PassSound
<1>12. RollbackSound'
  BY <1>1, <1>2, <1>3 DEF RollbackSound
<1> QED  BY <1>7, <1>8, <1>9, <1>11, <1>12 DEF ChainInv

\* ... and the cursor follows it.
LEMMA KeptByCursor ==
    ASSUME ChainInv, record_cursor PROVE ChainInv'
<1>1. /\ sync.pc = "cursor" /\ l1' = l1 /\ blocks' = blocks /\ rb' = rb
      /\ sync' = [sync EXCEPT !.pc = "attest"]
      /\ last_block' = [last_block EXCEPT ![Chain] = sync.h]
  BY DEF record_cursor, set_last_sync_block, goto
<1>2. /\ sync.h \in Nat /\ sync.h > cursor /\ sync.h >= first_height
      /\ sync.h <= Len(l1) /\ sync.h \in Heights
      /\ sync.hash = l1[sync.h]
      /\ \A h \in first_height..sync.h : h = sync.h \/ h \in first_height..cursor
      /\ cursor \in Nat /\ first_height \in Nat \ {0} /\ Chain \in ChainIds
      /\ recorded_prefix_of(l1)
      /\ rb.phase = "idle"
      /\ sync.tip \in Nat /\ sync.tip <= Len(l1)
      /\ local_hash(sync.h) = sync.hash
  BY <1>1, BlockInHand DEF ChainInv, PassSound
<1>3. /\ sync'.pc = "attest" /\ sync'.h = sync.h /\ sync'.tip = sync.tip
      /\ sync' = [pc |-> sync'.pc, tip |-> sync'.tip, last |-> sync'.last,
                  ancestor |-> sync'.ancestor, h |-> sync'.h, hash |-> sync'.hash,
                  todo |-> sync'.todo, retried |-> sync'.retried, root |-> sync'.root]
  BY <1>1 DEF ChainInv, ChainTypes
<1>4. cursor' = sync.h /\ last_block' \in [ChainIds -> Heights]
  BY <1>1, <1>2 DEF ChainInv, ChainTypes, cursor
<1>5. recorded_prefix_of(l1)'
  BY <1>1, <1>2, <1>4 DEF recorded_prefix_of, first_height, local_hash
<1>6. ChainTypes'
  BY <1>1, <1>3, <1>4 DEF ChainInv, ChainTypes
<1>7. RecordsPlaced'
  BY <1>1, <1>2, <1>4 DEF ChainInv, RecordsPlaced, first_height, local_hash
<1>8. LocalChainContinuous'
  BY <1>1, <1>5, <1>6 DEF ChainTypes, LocalChainContinuous
<1>9. PassSound'
  BY <1>1, <1>2, <1>3, <1>4, <1>5 DEF PassSound
<1>10. RollbackSound'
  BY <1>1, <1>2, <1>3 DEF RollbackSound
<1> QED  BY <1>6, <1>7, <1>8, <1>9, <1>10 DEF ChainInv

LEMMA KeptByAttest ==
    ASSUME ChainInv, attest PROVE ChainInv'
<1>1. /\ sync.pc = "attest" /\ UNCHANGED <<blocks, last_block, rb, l1>>
      /\ sync' = [sync EXCEPT !.pc = "scan", !.h = sync.h + 1]
  BY DEF attest, procVars, storeVars
<1>2. /\ sync'.pc = "scan" /\ sync'.h = sync.h + 1 /\ sync'.tip = sync.tip
      /\ sync' = [pc |-> sync'.pc, tip |-> sync'.tip, last |-> sync'.last,
                  ancestor |-> sync'.ancestor, h |-> sync'.h, hash |-> sync'.hash,
                  todo |-> sync'.todo, retried |-> sync'.retried, root |-> sync'.root]
  BY <1>1 DEF ChainInv, ChainTypes
<1>3. ChainTypes' /\ RecordsPlaced' /\ LocalChainContinuous'
  BY <1>1, <1>2, KeptRecords
<1>4. /\ recorded_prefix_of(l1) /\ sync.h = cursor /\ cursor > 0 /\ cursor \in Nat
      /\ sync.tip \in Nat /\ sync.tip <= Len(l1)
  BY <1>1, HeightFacts DEF ChainInv, ChainTypes, PassSound, cursor
<1>5. sync'.h = next_height
  BY <1>2, <1>4 DEF next_height
<1>6. PassSound'
  BY <1>1, <1>2, <1>4, <1>5 DEF PassSound, recorded_prefix_of, next_height, cursor, local_hash
<1>7. RollbackSound'
  BY <1>1, <1>2 DEF ChainInv, RollbackSound
<1> QED  BY <1>3, <1>6, <1>7 DEF ChainInv

\* The L1 grows under a pass, or reorganises while none is running.
LEMMA KeptByL1 ==
    ASSUME ChainInv, SteadyPass, l1_grows PROVE ChainInv'
<1>1. UNCHANGED <<blocks, last_block, rb, sync>>
  BY DEF l1_grows, procVars, storeVars
<1>2. PICK c \in L1Chains : /\ Len(c) > Len(l1) /\ l1' = c
                            /\ IsPrefix(l1, c) \/ sync.pc = "tick"
  BY DEF l1_grows, SteadyPass
<1>3. /\ l1 \in L1Chains /\ Len(l1) \in Nat /\ Len(c) \in Nat
      /\ l1 \in Seq(Blocks) /\ c \in Seq(Blocks)
      /\ cursor \in Nat /\ cursor <= Len(l1) /\ first_height \in Nat \ {0}
  BY <1>2, L1Facts, HeightFacts, ScannerAssumption DEF ChainInv, ChainTypes, RecordsPlaced, cursor
<1>4. ChainTypes' /\ LocalChainContinuous'
  BY <1>1, <1>2 DEF ChainInv, ChainTypes, LocalChainContinuous, recorded_prefix_of, cursor, local_hash
<1>5. RecordsPlaced'
  BY <1>1, <1>2, <1>3 DEF ChainInv, RecordsPlaced, cursor, local_hash
<1>6. CASE sync.pc = "tick"
  <2>1. PassSound'
    BY <1>1, <1>6 DEF PassSound
  <2>2. RollbackSound'
    BY <1>1, <1>6 DEF ChainInv, RollbackSound
  <2> QED  BY <1>4, <1>5, <2>1, <2>2 DEF ChainInv
<1>7. CASE IsPrefix(l1, c)
  <2>1. \A h \in 1..Len(l1) : c[h] = l1[h]
    <3>1. SubSeq(c, 1, Len(l1)) = l1
      BY <1>3, <1>7 DEF IsPrefix
    <3>2. \A h \in 1..Len(l1) : SubSeq(c, 1, Len(l1))[h] = c[h]
      BY <1>2, <1>3
    <3> QED  BY <3>1, <3>2
  <2>2. recorded_prefix_of(l1) => recorded_prefix_of(l1)'
    BY <1>1, <1>2, <1>3, <2>1, SMTT(30) DEF recorded_prefix_of, cursor, local_hash, first_height
  <2>3. AboveFork(sync.ancestor) => AboveFork(sync.ancestor)'
    BY <1>1, <1>2, <1>3, <2>1 DEF AboveFork, cursor, local_hash
  <2>4. sync.tip \in Nat /\ sync.tip <= Len(l1) => sync.tip <= Len(l1')
    BY <1>2, <1>3
  <2>5. sync.pc \in {"txs", "apply", "block", "cursor"} => l1'[sync.h] = l1[sync.h]
    <3>1. SUFFICES ASSUME sync.pc \in {"txs", "apply", "block", "cursor"}
                   PROVE  sync.h \in 1..Len(l1)
      BY <1>2, <2>1
    <3>2. sync.h = next_height /\ sync.h <= sync.tip /\ sync.tip \in Nat /\ sync.tip <= Len(l1)
      BY <3>1 DEF ChainInv, PassSound
    <3> QED  BY <1>3, <3>2 DEF next_height
  <2>6. PassSound'
    <3>1. next_height' = next_height /\ cursor' = cursor
      BY <1>1 DEF next_height, cursor, first_height
    <3>2. \A h : local_hash(h)' = local_hash(h)
      BY <1>1 DEF local_hash
    <3> QED  BY <1>1, <2>2, <2>3, <2>4, <2>5, <3>1, <3>2 DEF ChainInv, PassSound, local_hash
  <2>7. RollbackSound'
    <3>1. rb.phase = "undo" => l1'[sync.ancestor] = l1[sync.ancestor]
      <4>1. rb.phase = "undo" => sync.ancestor \in 1..Len(l1)
        BY <1>3 DEF ChainInv, RollbackSound, AboveFork
      <4> QED  BY <1>2, <2>1, <4>1
    <3> QED  BY <1>1, <2>2, <2>3, <3>1 DEF ChainInv, RollbackSound, cursor, local_hash
  <2> QED  BY <1>4, <1>5, <2>6, <2>7 DEF ChainInv
<1> QED  BY <1>2, <1>6, <1>7

-----------------------------------------------------------------------------
(* The theorems.                                                           *)

LEMMA ChainInit ==
    ASSUME Init PROVE ChainInv
<1>1. /\ l1 \in L1Chains /\ sync = Waiting /\ rb = NoRollback
      /\ last_block = [c \in ChainIds |-> 0]
      /\ blocks = [c \in ChainIds |-> [h \in Heights |-> Absent]]
  BY DEF Init, ProcInit, StoreInit
<1>2. /\ Chain \in ChainIds /\ Len(l1) \in Nat /\ 0 \in Heights /\ first_height \in Nat \ {0}
  BY <1>1, HeightFacts, L1Facts
<1>3. cursor = 0 /\ \A h \in Heights : local_hash(h) = Absent
  BY <1>1, <1>2 DEF cursor, local_hash
<1>4. sync.pc = "tick" /\ rb.phase = "idle"
  BY <1>1 DEF Waiting, NoRollback
<1>5. ChainTypes
  BY <1>1, <1>2 DEF ChainTypes, Waiting
<1>6. RecordsPlaced
  BY <1>2, <1>3 DEF RecordsPlaced
<1>7. LocalChainContinuous
  BY <1>1, <1>2, <1>3 DEF LocalChainContinuous, recorded_prefix_of
<1>8. PassSound /\ RollbackSound
  BY <1>4 DEF PassSound, RollbackSound
<1> QED  BY <1>5, <1>6, <1>7, <1>8 DEF ChainInv

LEMMA ChainStep ==
    ASSUME ChainInv, HashLinked, SteadyPass, [Next]_vars PROVE ChainInv'
<1>1. ASSUME UNCHANGED vars PROVE ChainInv'
  BY <1>1, KeptAll DEF vars, procVars, storeVars
<1>2. ASSUME get_tip_height PROVE ChainInv'
  BY <1>2, KeptByTip
<1>3. ASSUME check_cursor PROVE ChainInv'
  BY <1>3, KeptByCheck
<1>4. ASSUME backtrack_down \/ backtrack_found PROVE ChainInv'
  BY <1>4, KeptByBacktrack
<1>5. ASSUME backtrack_failed \/ scan_done PROVE ChainInv'
  <2>1. UNCHANGED <<blocks, last_block, rb, l1>> /\ sync' = Waiting
    BY <1>5 DEF backtrack_failed, scan_done, reading, procVars, storeVars
  <2>2. sync.pc \in {"backtrack", "scan"}
    BY <1>5 DEF backtrack_failed, scan_done
  <2>3. ChainTypes' /\ RecordsPlaced' /\ LocalChainContinuous'
    BY <2>1, KeptRecords DEF Waiting
  <2>4. rb'.phase = "idle" /\ sync'.pc = "tick"
    BY <2>1, <2>2 DEF ChainInv, RollbackSound, Waiting
  <2>5. PassSound' /\ RollbackSound'
    BY <2>4 DEF PassSound, RollbackSound
  <2> QED  BY <2>3, <2>5 DEF ChainInv
<1>6. ASSUME rollback_step \/ rollback_return PROVE ChainInv'
  BY <1>6, KeptByRollback
<1>7. ASSUME get_block_hash \/ get_block_txs \/ read_root PROVE ChainInv'
  BY <1>7, KeptByScan
<1>8. ASSUME start_tx \/ tx_step \/ mempool_recv \/ mempool_step PROVE ChainInv'
  <2>1. UNCHANGED <<blocks, last_block, rb>>
    BY <1>8, ProcessFrame DEF start_tx, tx_step, mempool_recv, mempool_step
  <2>2. UNCHANGED <<l1, sync>>
    BY <1>8 DEF start_tx, tx_step, mempool_recv, mempool_step, writing
  <2> QED  BY <2>1, <2>2, KeptAll
<1>9. ASSUME next_tx \/ fetch_blob \/ skip_missing PROVE ChainInv'
  <2>1. UNCHANGED <<blocks, last_block, rb, l1>>
    BY <1>9 DEF next_tx, fetch_blob, skip_missing, writing, storeVars, save_wasm
  <2>2. \E todo, retried : sync' = [sync EXCEPT !.todo = todo, !.retried = retried]
    <3>1. ASSUME next_tx PROVE sync' = [sync EXCEPT !.todo = Tail(sync.todo), !.retried = FALSE]
      BY <3>1 DEF next_tx
    <3>2. ASSUME fetch_blob PROVE sync' = [sync EXCEPT !.todo = sync.todo, !.retried = TRUE]
      BY <3>2 DEF fetch_blob, ChainInv, ChainTypes
    <3>3. ASSUME skip_missing
          PROVE  sync' = [sync EXCEPT !.todo = Tail(sync.todo), !.retried = sync.retried]
      BY <3>3 DEF skip_missing, ChainInv, ChainTypes
    <3> QED  BY <1>9, <3>1, <3>2, <3>3
  <2>3. PICK todo, retried : sync' = [sync EXCEPT !.todo = todo, !.retried = retried]
    BY <2>2
  <2>4. sync' = [pc |-> sync.pc, tip |-> sync.tip, last |-> sync.last,
                 ancestor |-> sync.ancestor, h |-> sync.h, hash |-> sync.hash,
                 todo |-> sync'.todo, retried |-> sync'.retried, root |-> sync.root]
    BY <2>3 DEF ChainInv, ChainTypes
  <2> QED  BY <2>1, <2>4, KeptLocals
<1>10. ASSUME record_block PROVE ChainInv'
  BY <1>10, KeptByBlock
<1>11. ASSUME record_cursor PROVE ChainInv'
  BY <1>11, KeptByCursor
<1>12. ASSUME attest PROVE ChainInv'
  BY <1>12, KeptByAttest
<1>13. ASSUME mempool_return \/ tip_error PROVE ChainInv'
  <2>1. UNCHANGED <<blocks, last_block, rb, l1, sync>>
    BY <1>13 DEF mempool_return, tip_error, reading, writing, procVars, storeVars
  <2> QED  BY <2>1, KeptAll
<1>14. ASSUME l1_grows PROVE ChainInv'
  BY <1>14, KeptByL1
<1>15. ASSUME crash PROVE ChainInv'
  <2>1. UNCHANGED <<blocks, last_block, l1>> /\ sync' = Waiting /\ rb' = NoRollback
    BY <1>15 DEF crash, open, tables
  <2> QED  BY <2>1, KeptWaiting
<1> QED
  BY <1>1, <1>2, <1>3, <1>4, <1>5, <1>6, <1>7, <1>8, <1>9, <1>10, <1>11, <1>12, <1>13, <1>14, <1>15
  DEF Next, SyncNext, MempoolNext

\* Whatever the depth of the reorganisations, wherever crashes hit and whatever
\* the mempool listener does meanwhile, the block records up to the cursor are a
\* prefix of one chain of the L1, provided blocks are hash-linked, the two hash
\* queries of a pass are answered and no reorganisation falls into a pass.
THEOREM ContinuityCorrect ==
    ASSUME HashLinked, SteadyPass
    PROVE  Spec => []LocalChainContinuous
<1>1. Init => ChainInv
  BY ChainInit
<1>2. ChainInv /\ [Next]_vars => ChainInv'
  BY ChainStep
<1>3. ChainInv => LocalChainContinuous
  BY DEF ChainInv
<1> QED  BY <1>1, <1>2, <1>3, PTL DEF Spec

\* The cursor moves back in no other step than the commit of a rollback, and
\* there to the fork point exactly: everything kept is on the L1's chain, the
\* first block given up is not (the backtrack loop and rollback_to_block).
THEOREM ForkPointCorrect ==
    ASSUME HashLinked, SteadyPass
    PROVE  Spec => RollbackToForkPoint
<1> DEFINE Fork == cursor' < cursor =>
                     /\ \A h \in first_height..cursor' : local_hash(h) = l1[h]
                     /\ local_hash(cursor' + 1) # l1[cursor' + 1]
<1>1. Init => ChainInv
  BY ChainInit
<1>2. ChainInv /\ [Next]_vars => ChainInv'
  BY ChainStep
<1>3. ASSUME ChainInv, [Next]_vars PROVE [Fork]_vars
  <2>1. cursor \in Nat
    BY <1>3, HeightFacts DEF ChainInv, ChainTypes, cursor
  <2>2. ASSUME last_block' = last_block PROVE Fork
    BY <2>1, <2>2 DEF cursor
  <2>3. ASSUME rollback_commit PROVE Fork
    BY <1>3, <2>3, CommitAtFork
  <2>4. ASSUME record_cursor PROVE Fork
    <3>1. cursor' = sync.h /\ sync.h > cursor /\ sync.h \in Nat
      BY <1>3, <2>4, BlockInHand
      DEF record_cursor, set_last_sync_block, ChainInv, ChainTypes, cursor
    <3> QED  BY <2>1, <3>1
  <2>5. last_block' = last_block \/ rollback_commit \/ record_cursor
    <3>1. ASSUME UNCHANGED vars PROVE last_block' = last_block
      BY <3>1 DEF vars, procVars, storeVars
    <3>2. ASSUME \/ get_tip_height \/ check_cursor \/ backtrack_down \/ backtrack_failed
                 \/ rollback_return \/ scan_done \/ get_block_hash \/ get_block_txs
                 \/ read_root \/ tip_error
          PROVE  last_block' = last_block
      BY <3>2 DEF get_tip_height, check_cursor, backtrack_down, backtrack_failed,
                  rollback_return, scan_done, get_block_hash, get_block_txs, read_root, tip_error,
                  reading, procVars, storeVars
    <3>3. ASSUME backtrack_found PROVE last_block' = last_block
      BY <3>3 DEF backtrack_found, rollback_begin, tables
    <3>4. ASSUME rollback_step, ~ rollback_commit PROVE last_block' = last_block
      BY <3>4 DEF rollback_step, rollback_undo, rollback_read, rollback_install, tables
    <3>5. ASSUME start_tx \/ tx_step \/ mempool_recv \/ mempool_step PROVE last_block' = last_block
      BY <3>5, ProcessFrame DEF start_tx, tx_step, mempool_recv, mempool_step
    <3>6. ASSUME next_tx \/ fetch_blob \/ skip_missing \/ record_block \/ attest \/ mempool_return
          PROVE  last_block' = last_block
      BY <3>6 DEF next_tx, fetch_blob, skip_missing, record_block, attest, mempool_return,
                  storeVars, procVars, save_wasm, save_block
    <3>7. ASSUME l1_grows \/ crash PROVE last_block' = last_block
      BY <3>7 DEF l1_grows, crash, open, tables, procVars, storeVars
    <3> QED  BY <1>3, <3>1, <3>2, <3>3, <3>4, <3>5, <3>6, <3>7 DEF Next, SyncNext, MempoolNext
  <2> QED  BY <2>2, <2>3, <2>4, <2>5
<1>4. ChainInv /\ [Next]_vars => [Fork]_vars
  BY <1>3
<1> QED  BY <1>1, <1>2, <1>4, PTL DEF Spec, RollbackToForkPoint

-----------------------------------------------------------------------------
(* The daemon is a client of the store: each of its steps makes at most    *)
(* one call of it, with arguments of the right types.                      *)

CallJobs ==
    [pc : {"wasm", "undo", "execute", "commit", "tree", "transition"},
     tx : Txs, vout : Nat, height : Heights, action : {"CREATE", "UPDATE"},
     obj : ObjIds, prev : Object \cup {Absent}, rec : Object \cup {Absent}]

\* What process_tx knows by the time it gets to a step.
JobReady(j) ==
    /\ j.vout \in DOMAIN j.tx.vout /\ j.tx.vout[j.vout].env # Absent
    /\ j.action = "CREATE" => j.rec \in Object /\ j.pc # "execute"
    /\ j.action = "UPDATE" => j.prev \in Object /\ ~ is_create(j.tx.vout[j.vout].env)
    /\ j.pc = "wasm" => j.tx.vout[j.vout].env.blob \in Codes
    /\ j.pc = "commit" => j.rec \in Object

Jobs == {NoJob, Returned} \cup {WasmMissing(k) : k \in Codes} \cup {j \in CallJobs : JobReady(j)}

\* A job is between commit and tree update exactly when the store says so.
JobsTyped ==
    /\ job \in [Tasks -> Jobs]
    /\ \A t \in Tasks : job[t].pc = "tree" <=> saving[t] # Absent

\* The sync loop's locals, and what they are at each step of a pass.
Locals ==
    [pc : {"tick", "check", "backtrack", "rollback", "scan", "txs", "apply", "block", "cursor",
           "attest"},
     tip : Heights, last : Heights, ancestor : Heights, h : Nat, hash : Blocks \cup {Absent},
     todo : Seq(Txs), retried : BOOLEAN, root : SmtLeaves]

LocalsFit ==
    /\ sync \in Locals
    /\ sync.tip <= Len(l1)
    /\ sync.pc = "scan" => sync.h # 0
    /\ sync.pc \in {"txs", "apply", "block", "cursor", "attest"} => sync.h \in 1..sync.tip
    /\ sync.pc \in {"txs", "apply", "block", "cursor", "attest"} => sync.hash \in Blocks

SyncTyped ==
    /\ l1 \in L1Chains
    /\ LocalsFit
    /\ job[SyncTask] # NoJob => sync.pc = "apply" /\ sync.todo # <<>>
    /\ \A a \in attested : a.height \in Heights /\ a.hash \in Blocks

LEMMA JobAt ==
    ASSUME NEW j \in Jobs
    PROVE  /\ j.pc \in {"idle", "returned", "missing", "wasm", "undo", "execute", "commit",
                        "tree", "transition"}
           /\ j.pc \in {"wasm", "undo", "execute", "commit", "tree", "transition"}
                => j \in CallJobs /\ JobReady(j)
           /\ j.pc = "missing" => j.code \in Codes
           /\ j.pc \in {"returned", "missing"} => j # NoJob
BY DEF Jobs, CallJobs, NoJob, Returned, WasmMissing

\* The least element of a set of indices.
LEMMA MinIs ==
    ASSUME NEW S \in SUBSET Nat, S # {}
    PROVE  Min(S) \in S
<1> DEFINE R == OpToRel(<, Nat)
<1>1. \A x, y \in Nat : x < y => <<x, y>> \in R
  BY DEF OpToRel
<1>2. IsWellFoundedOn(R, Nat)
  BY NatLessThanWellFounded
<1> HIDE DEF R
<1>3. PICK x \in S : \A y \in S : ~(<<y, x>> \in R)
  BY <1>2, WFMin
<1>4. ASSUME NEW y \in S PROVE x <= y
  <2>1. x \in Nat /\ y \in Nat /\ ~(y < x)
    BY <1>1, <1>3, Zenon
  <2> QED  BY <2>1
<1>5. \E z \in S : \A y \in S : z <= y
  BY <1>4
<1> QED  BY <1>5 DEF Min

\* The object that a call's inputs name is there.
LEMMA TargetIs ==
    ASSUME StoreTypeOK, NEW tx, WellFormed(tx), target_inputs(tx) # {}
    PROVE  target(tx) \in ObjIds /\ objects[target(tx)] \in Object
<1>1. tx.vin \in Seq(Seals) /\ DOMAIN tx.vin \subseteq Nat
  BY DEF WellFormed
<1>2. target_inputs(tx) \in SUBSET Nat
  BY <1>1 DEF target_inputs
<1>3. PICK k \in target_inputs(tx) : k = Min(target_inputs(tx))
  BY <1>2, MinIs
<1>4. k \in DOMAIN tx.vin /\ get_object_by_seal(tx.vin[k]) # Absent
  BY DEF target_inputs
<1>5. tx.vin[k] \in Seals
  BY <1>1, <1>4
<1>6. seals[tx.vin[k]] # Absent /\ objects[seals[tx.vin[k]]] # Absent
  BY <1>4 DEF get_object_by_seal
<1> QED  BY <1>3, <1>5, <1>6 DEF target, StoreTypeOK

\* The output that decides carries an envelope; a call among them has a target.
LEMMA DecidingIs ==
    ASSUME NEW tx, WellFormed(tx), NEW b \in BOOLEAN, deciding_outputs(tx, b) # {},
           NEW i, i = Min(deciding_outputs(tx, b))
    PROVE  /\ i \in Nat /\ i \in DOMAIN tx.vout /\ tx.vout[i].env # Absent
           /\ validate_fee(tx) /\ ~ is_create(tx.vout[i].env) => b
<1>1. deciding_outputs(tx, b) \in SUBSET Nat
  BY DEF WellFormed, deciding_outputs
<1>2. i \in deciding_outputs(tx, b)
  BY <1>1, MinIs
<1> QED  BY <1>1, <1>2 DEF deciding_outputs

\* The record of a creation is a record.
LEMMA CreatedType ==
    ASSUME NEW tx, WellFormed(tx), NEW i \in DOMAIN tx.vout, tx.vout[i].env # Absent,
           NEW h \in Heights
    PROVE  created(tx, i, h) \in Object
<1> DEFINE env == tx.vout[i].env
<1>1. /\ seal_of(tx, i) \in Seals /\ tx.vout[i].value \in Values
      /\ env.blob \in Codes \cup {Absent} /\ env.code \in Codes \cup {Absent}
      /\ env.state \in States \cup {Absent}
  BY DEF WellFormed
<1>2. sender(tx) \in Owners
  BY ProcessorAssumption DEF sender, WellFormed
<1>3. default_to(env.code, default_to(env.blob, DefaultCode)) \in Codes
  BY <1>1, ProcessorAssumption DEF default_to
<1>4. default_to(env.state, InitState[sender(tx)]) \in States
  BY <1>1, <1>2, ProcessorAssumption DEF default_to
<1> QED  BY <1>1, <1>2, <1>3, <1>4 DEF created, Object

\* So is the record of a call.
LEMMA CalledType ==
    ASSUME NEW tx, WellFormed(tx), NEW i \in DOMAIN tx.vout, tx.vout[i].env # Absent,
           NEW h \in Heights, NEW prev \in Object, NEW st \in States
    PROVE  called(prev, tx, i, h, st) \in Object
<1>1. /\ seal_of(tx, i) \in Seals /\ tx.vout[i].value \in Values
      /\ tx.vout[i].env.to \in Owners \cup {Absent}
  BY DEF WellFormed
<1>2. default_to(tx.vout[i].env.to, prev.owner) \in Owners
  BY <1>1 DEF default_to, Object
<1> QED  BY <1>1, <1>2 DEF called, Object

\* One task's job moves on, and its save_object with it.
LEMMA JobMoves ==
    ASSUME JobsTyped, NEW t \in Tasks, NEW j \in Jobs, job' = [job EXCEPT ![t] = j],
           \A s \in Tasks \ {t} : saving'[s] = saving[s],
           j.pc = "tree" <=> saving'[t] # Absent
    PROVE  JobsTyped'
<1>1. job' \in [Tasks -> Jobs]
  BY DEF JobsTyped
<1>2. ASSUME NEW s \in Tasks PROVE job'[s].pc = "tree" <=> saving'[s] # Absent
  <2>1. CASE s = t
    BY <2>1 DEF JobsTyped
  <2>2. CASE s # t
    BY <2>2 DEF JobsTyped
  <2> QED  BY <2>1, <2>2
<1> QED  BY <1>1, <1>2 DEF JobsTyped

\* process_tx starts a job: it returns at once, creates, or calls the object its
\* inputs name.
LEMMA StartsJob ==
    ASSUME TxsWellFormed, StoreTypeOK, JobsTyped, NEW t \in Tasks, NEW tx \in Txs,
           NEW h \in Heights, process_tx(t, tx, h)
    PROVE  UNCHANGED storeVars /\ JobsTyped'
<1> DEFINE has_target == target_inputs(tx) # {}
           deciding == deciding_outputs(tx, has_target)
           i == Min(deciding)
           j == IF deciding = {} \/ ~validate_fee(tx) THEN Returned
                ELSE IF is_create(tx.vout[i].env) THEN create_job(tx, i, h)
                ELSE call_job(tx, i, h, target(tx))
<1>1. job[t] = NoJob /\ job' = [job EXCEPT ![t] = j] /\ UNCHANGED storeVars
  BY DEF process_tx
<1>2. WellFormed(tx)
  BY DEF TxsWellFormed
<1>3. j \in Jobs /\ j.pc # "tree"
  <2>1. CASE deciding = {} \/ ~validate_fee(tx)
    <3>1. j = Returned
      BY <2>1
    <3> QED  BY <3>1 DEF Jobs, Returned
  <2>2. CASE deciding # {} /\ validate_fee(tx)
    <3>1. has_target \in BOOLEAN
      OBVIOUS
    <3>2. PICK k : k = i
      OBVIOUS
    <3>3. /\ k \in Nat /\ k \in DOMAIN tx.vout /\ tx.vout[k].env # Absent
          /\ ~ is_create(tx.vout[k].env) => has_target
      BY <1>2, <2>2, <3>1, <3>2, DecidingIs
    <3>4. CASE is_create(tx.vout[k].env)
      <4>1. created(tx, k, h) \in Object
        BY <1>2, <3>3, CreatedType
      <4>2. tx.vout[k].env.blob \in Codes \cup {Absent} /\ ObjOf[tx.id] \in ObjIds
        BY <1>2, <3>3, ProcessorAssumption DEF WellFormed
      <4>3. create_job(tx, k, h) \in CallJobs
        BY <3>3, <4>1, <4>2 DEF create_job, CallJobs
      <4>4. JobReady(create_job(tx, k, h)) /\ create_job(tx, k, h).pc # "tree"
        BY <3>3, <4>1, <4>2 DEF create_job, JobReady
      <4>5. j = create_job(tx, k, h)
        BY <2>2, <3>2, <3>4
      <4> QED  BY <4>3, <4>4, <4>5 DEF Jobs
    <3>5. CASE ~ is_create(tx.vout[k].env)
      <4>1. PICK o : o = target(tx)
        OBVIOUS
      <4>2. o \in ObjIds /\ objects[o] \in Object
        BY <1>2, <3>3, <3>5, <4>1, TargetIs
      <4>3. call_job(tx, k, h, o) \in CallJobs
        BY <3>3, <4>2 DEF call_job, CallJobs
      <4>4. JobReady(call_job(tx, k, h, o)) /\ call_job(tx, k, h, o).pc # "tree"
        BY <3>3, <3>5, <4>2 DEF call_job, JobReady
      <4>5. j = call_job(tx, k, h, o)
        BY <2>2, <3>2, <3>5, <4>1
      <4> QED  BY <4>3, <4>4, <4>5 DEF Jobs
    <3> QED  BY <3>4, <3>5
  <2> QED  BY <2>1, <2>2
<1> HIDE DEF j
<1>4. saving' = saving /\ saving[t] = Absent
  BY <1>1 DEF storeVars, JobsTyped, NoJob
<1>5. JobsTyped'
  BY <1>1, <1>3, <1>4, JobMoves
<1> QED  BY <1>1, <1>5

\* What a job in progress holds of its transaction.
LEMMA JobTx ==
    ASSUME TxsWellFormed, NEW j \in CallJobs, JobReady(j)
    PROVE  /\ j.tx.id \in TxIds /\ UndoLow[<<j.tx.id, j.vout - 1>>] \in Lows
           /\ ~ is_create(j.tx.vout[j.vout].env) => j.tx.vout[j.vout].env.call \in Calls
           /\ \A st \in States, r \in Object :
                 called(r, j.tx, j.vout, j.height, st) \in Object
<1>1. WellFormed(j.tx) /\ j.vout \in DOMAIN j.tx.vout /\ j.tx.vout[j.vout].env # Absent
      /\ j.height \in Heights
  BY DEF TxsWellFormed, CallJobs, JobReady
<1>2. \A st \in States, r \in Object : called(r, j.tx, j.vout, j.height, st) \in Object
  BY <1>1, CalledType
<1> QED  BY <1>1, <1>2 DEF WellFormed

\* The program counter of a job in progress moves on.
LEMMA JobGoesOn ==
    ASSUME NEW j \in CallJobs, JobReady(j), NEW p \in {"undo", "execute", "commit", "tree", "transition"},
           p = "execute" => j.action = "UPDATE",
           p = "commit" => j.rec \in Object
    PROVE  [j EXCEPT !.pc = p] \in Jobs /\ [j EXCEPT !.pc = p].pc = p
<1> DEFINE k == [j EXCEPT !.pc = p]
<1>1. k \in CallJobs /\ k.pc = p
  BY DEF CallJobs
<1>2. k.tx = j.tx /\ k.vout = j.vout /\ k.action = j.action /\ k.rec = j.rec /\ k.prev = j.prev
  BY DEF CallJobs
<1>3. JobReady(k)
  BY <1>1, <1>2 DEF JobReady
<1> QED  BY <1>1, <1>3 DEF Jobs

LEMMA StoresBlob ==
    ASSUME JobsTyped, NEW t \in Tasks, store_blob(t)
    PROVE  StoreNext /\ JobsTyped'
<1>1. job[t] \in CallJobs /\ JobReady(job[t]) /\ job[t].pc = "wasm"
  BY JobAt DEF store_blob, JobsTyped
<1>2. job[t].tx.vout[job[t].vout].env.blob \in Codes
  BY <1>1 DEF JobReady
<1>3. StoreNext
  BY <1>2 DEF store_blob, StoreNext
<1>4. [job[t] EXCEPT !.pc = "undo"] \in Jobs /\ [job[t] EXCEPT !.pc = "undo"].pc = "undo"
  BY <1>1, JobGoesOn
<1>5. job' = [job EXCEPT ![t] = [job[t] EXCEPT !.pc = "undo"]]
  BY DEF store_blob
<1>6. saving' = saving /\ saving[t] = Absent
  BY DEF store_blob, save_wasm, can_write, in_store_call
<1> QED  BY <1>3, <1>4, <1>5, <1>6, JobMoves

LEMMA RecordsUndo ==
    ASSUME TxsWellFormed, JobsTyped, NEW t \in Tasks, record_undo(t)
    PROVE  StoreNext /\ JobsTyped'
<1> DEFINE j == job[t]
           p == IF j.action = "CREATE" THEN "commit" ELSE "execute"
           u == [id |-> [height |-> j.height, low |-> UndoLow[<<j.tx.id, j.vout - 1>>]],
                 chain |-> Chain, height |-> j.height, obj |-> j.obj,
                 action |-> j.action, prev |-> j.prev]
<1>1. j \in CallJobs /\ JobReady(j)
  BY JobAt DEF record_undo, JobsTyped
<1>2. u \in UndoLog
  BY <1>1, JobTx, ProcessorAssumption DEF UndoLog, UndoId, CallJobs
<1>3. save_undo_log(t, u) /\ job' = [job EXCEPT ![t] = [j EXCEPT !.pc = p]]
  BY DEF record_undo
<1>4. StoreNext
  BY <1>2, <1>3 DEF StoreNext
<1>5. /\ p \in {"commit", "execute"} /\ p = "commit" => j.rec \in Object
      /\ p = "execute" => j.action = "UPDATE"
  BY <1>1 DEF JobReady, CallJobs
<1>6. [j EXCEPT !.pc = p] \in Jobs /\ [j EXCEPT !.pc = p].pc # "tree"
  BY <1>1, <1>5, JobGoesOn
<1>7. saving' = saving /\ saving[t] = Absent
  BY <1>3 DEF save_undo_log, can_write, in_store_call
<1> QED  BY <1>3, <1>4, <1>6, <1>7, JobMoves

LEMMA Executes ==
    ASSUME TxsWellFormed, JobsTyped, NEW t \in Tasks, execute(t)
    PROVE  UNCHANGED storeVars /\ JobsTyped'
<1> DEFINE j == job[t]
           st == Exec[<<j.prev.code, j.prev.state, j.tx.vout[j.vout].env.call>>]
           rec == called(j.prev, j.tx, j.vout, j.height, st)
           k == IF j.prev.code \notin wasm \cup {DefaultCode} THEN WasmMissing(j.prev.code)
                ELSE IF st = Absent THEN Returned
                ELSE [j EXCEPT !.pc = "commit", !.rec = rec]
<1>1. j \in CallJobs /\ JobReady(j) /\ j.pc = "execute"
  BY JobAt DEF execute, JobsTyped
<1>2. job' = [job EXCEPT ![t] = k] /\ UNCHANGED storeVars
  BY DEF execute
<1>3. /\ j.prev \in Object /\ j.prev.code \in Codes /\ j.prev.state \in States
      /\ j.tx.vout[j.vout].env.call \in Calls /\ j.action = "UPDATE"
  BY <1>1, JobTx DEF JobReady, CallJobs, Object
<1>4. st \in States \cup {Absent}
  BY <1>3, ProcessorAssumption
<1>5. k \in Jobs /\ k.pc # "tree"
  <2>1. WasmMissing(j.prev.code) \in Jobs /\ WasmMissing(j.prev.code).pc = "missing"
    BY <1>3 DEF Jobs, WasmMissing
  <2>2. Returned \in Jobs /\ Returned.pc = "returned"
    BY DEF Jobs, Returned
  <2>3. ASSUME st # Absent
        PROVE  [j EXCEPT !.pc = "commit", !.rec = rec] \in Jobs
               /\ [j EXCEPT !.pc = "commit", !.rec = rec].pc = "commit"
    <3> DEFINE n == [j EXCEPT !.pc = "commit", !.rec = rec]
    <3>1. rec \in Object
      BY <1>1, <1>3, <1>4, <2>3, JobTx
    <3> HIDE DEF rec
    <3>2. n \in CallJobs /\ n.pc = "commit"
      BY <1>1, <3>1 DEF CallJobs
    <3>3. /\ n.tx = j.tx /\ n.vout = j.vout /\ n.action = j.action /\ n.rec \in Object
          /\ n.prev = j.prev
      BY <1>1, <3>1 DEF CallJobs
    <3>4. JobReady(n)
      BY <1>1, <3>2, <3>3 DEF JobReady
    <3> QED  BY <3>2, <3>4 DEF Jobs
  <2> HIDE DEF st
  <2> QED  BY <2>1, <2>2, <2>3
<1> HIDE DEF k
<1>6. saving' = saving /\ saving[t] = Absent
  BY <1>1, <1>2 DEF storeVars, JobsTyped
<1> QED  BY <1>2, <1>5, <1>6, JobMoves

LEMMA CommitsObject ==
    ASSUME JobsTyped, StoreTypeOK, NEW t \in Tasks, commit_object(t)
    PROVE  StoreNext /\ JobsTyped'
<1> DEFINE j == job[t]
<1>1. j \in CallJobs /\ JobReady(j) /\ j.pc = "commit"
  BY JobAt DEF commit_object, JobsTyped
<1>2. j.obj \in ObjIds /\ j.rec \in Object
  BY <1>1 DEF CallJobs, JobReady
<1>3. save_object_commit(t, j.obj, j.rec) /\ job' = [job EXCEPT ![t] = [j EXCEPT !.pc = "tree"]]
  BY DEF commit_object
<1>4. StoreNext
  BY <1>2, <1>3 DEF StoreNext
<1>5. [j EXCEPT !.pc = "tree"] \in Jobs /\ [j EXCEPT !.pc = "tree"].pc = "tree"
  BY <1>1, JobGoesOn
<1>6. saving[t] = Absent /\ saving' = [saving EXCEPT ![t] = [obj |-> j.obj, rec |-> j.rec]]
  BY <1>3 DEF save_object_commit, can_write, in_store_call
<1>7. saving'[t] # Absent /\ \A s \in Tasks \ {t} : saving'[s] = saving[s]
  <2>1. [obj |-> j.obj, rec |-> j.rec] \in Saving
    BY <1>2 DEF Saving
  <2>2. saving \in [Tasks -> Saving \cup {Absent}]
    BY DEF StoreTypeOK
  <2> QED  BY <1>6, <2>1, <2>2, AbsentIsNoRecord
<1> QED  BY <1>3, <1>4, <1>5, <1>7, JobMoves

LEMMA UpdatesTree ==
    ASSUME JobsTyped, StoreTypeOK, NEW t \in Tasks, update_tree(t)
    PROVE  StoreNext /\ JobsTyped'
<1> DEFINE j == job[t]
           k == IF j.action = "CREATE" THEN Returned ELSE [j EXCEPT !.pc = "transition"]
<1>1. j \in CallJobs /\ JobReady(j)
  BY JobAt DEF update_tree, JobsTyped
<1>2. save_object_smt(t) /\ job' = [job EXCEPT ![t] = k]
  BY DEF update_tree
<1>3. StoreNext
  BY <1>2 DEF StoreNext
<1>4. k \in Jobs /\ k.pc # "tree"
  <2>1. Returned \in Jobs /\ Returned.pc = "returned"
    BY DEF Jobs, Returned
  <2>2. [j EXCEPT !.pc = "transition"] \in Jobs /\ [j EXCEPT !.pc = "transition"].pc = "transition"
    BY <1>1, JobGoesOn
  <2> QED  BY <2>1, <2>2
<1>5. saving'[t] = Absent /\ \A s \in Tasks \ {t} : saving'[s] = saving[s]
  BY <1>2 DEF save_object_smt, StoreTypeOK
<1> QED  BY <1>2, <1>3, <1>4, <1>5, JobMoves

LEMMA RecordsTransition ==
    ASSUME TxsWellFormed, JobsTyped, NEW t \in Tasks, record_transition(t)
    PROVE  StoreNext /\ JobsTyped'
<1> DEFINE j == job[t]
           tr == [txid |-> j.tx.id, obj |-> j.obj, height |-> j.height]
<1>1. j \in CallJobs /\ JobReady(j)
  BY JobAt DEF record_transition, JobsTyped
<1>2. tr \in Transition
  BY <1>1, JobTx DEF Transition, CallJobs
<1>3. save_transition(t, tr) /\ job' = [job EXCEPT ![t] = Returned]
  BY DEF record_transition
<1>4. StoreNext
  BY <1>2, <1>3 DEF StoreNext
<1>5. Returned \in Jobs /\ Returned.pc # "tree"
  BY DEF Jobs, Returned
<1>6. saving' = saving /\ saving[t] = Absent
  BY <1>3 DEF save_transition, can_write, in_store_call
<1> QED  BY <1>3, <1>4, <1>5, <1>6, JobMoves

\* Every step of process_tx, by whichever task.
LEMMA ProcessIsClient ==
    ASSUME TxsWellFormed, StoreTypeOK, JobsTyped, NEW t \in Tasks,
           process_step(t) \/ \E tx \in Txs, h \in Heights : process_tx(t, tx, h)
    PROVE  [StoreNext]_storeVars /\ JobsTyped'
<1>1. ASSUME NEW tx \in Txs, NEW h \in Heights, process_tx(t, tx, h)
      PROVE  [StoreNext]_storeVars /\ JobsTyped'
  BY <1>1, StartsJob
<1>2. CASE store_blob(t) \/ record_undo(t) \/ commit_object(t)
  BY <1>2, StoresBlob, RecordsUndo, CommitsObject
<1>3. CASE execute(t) \/ update_tree(t) \/ record_transition(t)
  BY <1>3, Executes, UpdatesTree, RecordsTransition
<1> QED  BY <1>1, <1>2, <1>3 DEF process_step

\* It leaves the jobs of the other tasks alone.
LEMMA ProcessOwnJob ==
    ASSUME JobsTyped, NEW t \in Tasks, NEW s \in Tasks \ {t},
           process_step(t) \/ \E tx, h : process_tx(t, tx, h)
    PROVE  job'[s] = job[s]
<1>1. \E j : job' = [job EXCEPT ![t] = j]
  <2>1. ASSUME NEW tx, NEW h, process_tx(t, tx, h) PROVE \E j : job' = [job EXCEPT ![t] = j]
    BY <2>1 DEF process_tx
  <2>2. ASSUME store_blob(t) PROVE \E j : job' = [job EXCEPT ![t] = j]
    BY <2>2 DEF store_blob
  <2>3. ASSUME record_undo(t) PROVE \E j : job' = [job EXCEPT ![t] = j]
    BY <2>3 DEF record_undo
  <2>4. ASSUME execute(t) PROVE \E j : job' = [job EXCEPT ![t] = j]
    BY <2>4 DEF execute
  <2>5. ASSUME commit_object(t) PROVE \E j : job' = [job EXCEPT ![t] = j]
    BY <2>5 DEF commit_object
  <2>6. ASSUME update_tree(t) PROVE \E j : job' = [job EXCEPT ![t] = j]
    BY <2>6 DEF update_tree
  <2>7. ASSUME record_transition(t) PROVE \E j : job' = [job EXCEPT ![t] = j]
    BY <2>7 DEF record_transition
  <2> QED  BY <2>1, <2>2, <2>3, <2>4, <2>5, <2>6, <2>7 DEF process_step
<1>2. PICK j : job' = [job EXCEPT ![t] = j]
  BY <1>1
<1> QED  BY <1>2

-----------------------------------------------------------------------------
(* The steps of the sync loop.                                             *)

LEMMA BelowHeight ==
    ASSUME NEW h \in Heights, NEW k \in Nat, k <= h
    PROVE  k \in Heights
BY ScannerAssumption, StoreAssumption

LEMMA WaitingTyped == Waiting \in Locals
BY HeightFacts DEF Waiting, Locals, SmtLeaves, NoObjects

LEMMA WaitingFits ==
    ASSUME l1' \in L1Chains, sync' = Waiting
    PROVE  LocalsFit'
<1>1. Len(l1') \in Nat /\ 0 \in Heights
  BY L1Facts, HeightFacts
<1>2. Waiting \in Locals
  BY WaitingTyped
<1> QED  BY <1>1, <1>2 DEF LocalsFit, Waiting

\* The steps that read: the cursor, the L1 and the DHT.
LEMMA ReadersFit ==
    ASSUME StoreTypeOK, l1 \in L1Chains, LocalsFit,
           \/ get_tip_height \/ check_cursor \/ backtrack_down \/ rollback_return
           \/ get_block_hash
    PROVE  LocalsFit'
<1>1. /\ sync \in Locals /\ Len(l1) \in Nat /\ Len(l1) \in Heights
      /\ Heights \subseteq Nat /\ \A h \in 1..Len(l1) : l1[h] \in Blocks
  <2>1. Len(l1) \in Nat /\ \A h \in 1..Len(l1) : h \in Heights /\ l1[h] \in Blocks
    BY L1Facts
  <2>2. 0 \in Heights /\ Heights \subseteq Nat
    BY HeightFacts
  <2>3. Len(l1) = 0 \/ Len(l1) \in 1..Len(l1)
    BY <2>1
  <2> QED  BY <2>1, <2>2, <2>3 DEF LocalsFit
<1>2. l1' = l1
  BY DEF get_tip_height, check_cursor, backtrack_down, rollback_return, get_block_hash, reading
<1>3. /\ sync.tip \in Heights /\ sync.tip \in Nat /\ sync.last \in Heights /\ sync.last \in Nat
      /\ sync.ancestor \in Heights /\ sync.ancestor \in Nat /\ sync.h \in Nat
      /\ sync.tip <= Len(l1)
  BY <1>1 DEF Locals, LocalsFit
<1>4. ASSUME get_tip_height PROVE LocalsFit'
  <2>1. cursor \in Heights /\ StartHeight \in Nat /\ 0..StartHeight \subseteq Heights
    BY HeightFacts, ScannerAssumption DEF StoreTypeOK, cursor
  <2>2. PICK last : last = IF cursor = 0 /\ StartHeight > 0 THEN StartHeight - 1 ELSE cursor
    OBVIOUS
  <2>3. last \in Heights
    BY <2>1, <2>2
  <2>4. sync' = [Waiting EXCEPT !.pc = "check", !.tip = Len(l1), !.last = last]
    BY <1>4, <2>2 DEF get_tip_height
  <2>5. sync' \in Locals /\ sync'.tip = Len(l1) /\ sync'.pc = "check"
    BY <1>1, <2>3, <2>4, WaitingTyped DEF Locals
  <2> QED  BY <1>1, <1>2, <2>5 DEF LocalsFit
<1>5. ASSUME check_cursor PROVE LocalsFit'
  <2>1. CASE sync' = [sync EXCEPT !.pc = "scan", !.h = sync.last + 1]
    <3>1. PICK n \in Nat : n = sync.last + 1 /\ n # 0
      BY <1>3
    <3>2. sync' \in Locals /\ sync'.pc = "scan" /\ sync'.h = n /\ sync'.tip = sync.tip
      BY <1>1, <2>1, <3>1 DEF Locals
    <3> QED  BY <1>2, <1>3, <3>1, <3>2 DEF LocalsFit
  <2>2. CASE sync.last > 0 /\ sync' = [sync EXCEPT !.pc = "backtrack", !.ancestor = sync.last - 1]
    <3>1. sync.last - 1 \in Heights
      BY <1>3, <2>2, BelowHeight
    <3>2. sync' \in Locals /\ sync'.pc = "backtrack" /\ sync'.tip = sync.tip
      BY <1>1, <2>2, <3>1 DEF Locals
    <3> QED  BY <1>2, <1>3, <3>2 DEF LocalsFit
  <2> QED  BY <1>5, <2>1, <2>2 DEF check_cursor
<1>6. ASSUME backtrack_down PROVE LocalsFit'
  <2>1. sync.ancestor - 1 \in Heights
    BY <1>3, <1>6, BelowHeight DEF backtrack_down
  <2>2. sync' = [sync EXCEPT !.ancestor = sync.ancestor - 1] /\ sync.pc = "backtrack"
    BY <1>1, <1>6 DEF backtrack_down, Locals
  <2>3. sync' \in Locals /\ sync'.pc = "backtrack" /\ sync'.tip = sync.tip
    BY <1>1, <2>1, <2>2 DEF Locals
  <2> QED  BY <1>2, <1>3, <2>3 DEF LocalsFit
<1>7. ASSUME rollback_return PROVE LocalsFit'
  <2>1. sync' = [sync EXCEPT !.pc = "scan", !.last = sync.ancestor, !.h = sync.ancestor + 1]
    BY <1>7 DEF rollback_return
  <2>2. PICK n \in Nat : n = sync.ancestor + 1 /\ n # 0
    BY <1>3
  <2>3. sync' \in Locals /\ sync'.pc = "scan" /\ sync'.tip = sync.tip /\ sync'.h = n
    BY <1>1, <1>3, <2>1, <2>2 DEF Locals
  <2> QED  BY <1>2, <1>3, <2>2, <2>3 DEF LocalsFit
<1>8. ASSUME get_block_hash PROVE LocalsFit'
  <2>1. sync.pc = "scan" /\ sync.h # 0 /\ sync.h <= sync.tip
    BY <1>8 DEF get_block_hash, LocalsFit
  <2>2. CASE sync' = [sync EXCEPT !.pc = "txs", !.hash = l1[sync.h]]
    <3>1. sync.h \in 1..sync.tip /\ sync.h \in 1..Len(l1)
      BY <1>1, <1>3, <2>1
    <3>2. l1[sync.h] \in Blocks
      BY <1>1, <3>1
    <3>3. /\ sync' \in Locals /\ sync'.pc = "txs" /\ sync'.tip = sync.tip /\ sync'.h = sync.h
          /\ sync'.hash \in Blocks
      BY <1>1, <2>2, <3>2 DEF Locals
    <3> QED  BY <1>2, <1>3, <3>1, <3>3 DEF LocalsFit
  <2>3. CASE sync' = [sync EXCEPT !.h = sync.h + 1]
    <3>1. PICK n \in Nat : n = sync.h + 1 /\ n # 0
      BY <1>3
    <3>2. sync' \in Locals /\ sync'.pc = "scan" /\ sync'.tip = sync.tip /\ sync'.h = n
      BY <1>1, <2>1, <2>3, <3>1 DEF Locals
    <3> QED  BY <1>2, <1>3, <3>1, <3>2 DEF LocalsFit
  <2>4. sync' = [sync EXCEPT !.pc = "txs", !.hash = l1[sync.h]] \/ sync' = [sync EXCEPT !.h = sync.h + 1]
    BY <1>1, <1>8 DEF get_block_hash, Locals
  <2> QED  BY <2>2, <2>3, <2>4
<1> QED  BY <1>4, <1>5, <1>6, <1>7, <1>8

\* A step inside the block in hand, or one that leaves it.
LEMMA FitsOn ==
    ASSUME LocalsFit, l1' = l1, sync' \in Locals,
           sync'.tip = sync.tip, sync'.h = sync.h, sync'.hash = sync.hash,
           \/ sync'.pc \in {"backtrack", "rollback"}
           \/ /\ sync.pc \in {"txs", "apply", "block", "cursor"}
              /\ sync'.pc \in {"apply", "block", "cursor", "attest"}
    PROVE  LocalsFit'
BY DEF LocalsFit

LEMMA WorkersFit ==
    ASSUME TxsWellFormed, StoreTypeOK, LocalsFit,
           job[SyncTask] # NoJob => sync.todo # <<>>,
           \/ get_block_txs \/ next_tx \/ fetch_blob \/ skip_missing \/ read_root
           \/ record_block \/ record_cursor
           \/ backtrack_found
    PROVE  LocalsFit'
<1>1. l1' = l1
  BY DEF get_block_txs, next_tx, fetch_blob, skip_missing, read_root, record_block, record_cursor,
         backtrack_found, reading, writing
<1>2. sync \in Locals
  BY DEF LocalsFit
<1>3. ASSUME get_block_txs PROVE LocalsFit'
  <2>1. sync.pc = "txs" /\ sync.hash \in Blocks
    BY <1>3 DEF get_block_txs, LocalsFit
  <2>2. BlockTxs[sync.hash] \in Seq(Txs) /\ <<>> \in Seq(Txs)
    BY <2>1 DEF TxsWellFormed
  <2>3. PICK txs \in Seq(Txs) : sync' = [sync EXCEPT !.pc = "apply", !.todo = txs]
    BY <1>3, <2>2 DEF get_block_txs
  <2>4. /\ sync' \in Locals /\ sync'.pc = "apply" /\ sync'.tip = sync.tip /\ sync'.h = sync.h
        /\ sync'.hash = sync.hash
    BY <1>2, <2>3 DEF Locals
  <2> QED  BY <1>1, <2>1, <2>4, FitsOn
<1>4. ASSUME next_tx \/ skip_missing PROVE LocalsFit'
  <2>1. sync.pc = "apply" /\ sync.todo # <<>> /\ sync.todo \in Seq(Txs)
    BY <1>2, <1>4 DEF next_tx, skip_missing, NoJob, Returned, Locals
  <2>2. PICK rest \in Seq(Txs) : rest = Tail(sync.todo)
    <3>1. PICK todo \in Seq(Txs) : todo = sync.todo /\ todo # <<>>
      BY <2>1
    <3>2. Tail(todo) \in Seq(Txs)
      BY <3>1
    <3> QED  BY <3>1, <3>2
  <2>3. sync' = [sync EXCEPT !.todo = rest, !.retried = FALSE] \/ sync' = [sync EXCEPT !.todo = rest]
    BY <1>2, <1>4, <2>2 DEF next_tx, skip_missing, Locals
  <2>4. /\ sync' \in Locals /\ sync'.pc = "apply" /\ sync'.tip = sync.tip /\ sync'.h = sync.h
        /\ sync'.hash = sync.hash
    BY <1>2, <2>1, <2>3 DEF Locals
  <2> QED  BY <1>1, <2>1, <2>4, FitsOn
<1>5. ASSUME fetch_blob PROVE LocalsFit'
  <2>1. sync' = [sync EXCEPT !.retried = TRUE] /\ sync.pc = "apply"
    BY <1>5 DEF fetch_blob
  <2>2. /\ sync' \in Locals /\ sync'.pc = "apply" /\ sync'.tip = sync.tip /\ sync'.h = sync.h
        /\ sync'.hash = sync.hash
    BY <1>2, <2>1 DEF Locals
  <2> QED  BY <1>1, <2>1, <2>2, FitsOn
<1>6. ASSUME read_root PROVE LocalsFit'
  <2>1. smt \in SmtLeaves
    BY DEF StoreTypeOK
  <2>2. sync' = [sync EXCEPT !.pc = "block", !.root = smt] /\ sync.pc = "apply"
    BY <1>6 DEF read_root, current_state_root
  <2>3. /\ sync' \in Locals /\ sync'.pc = "block" /\ sync'.tip = sync.tip /\ sync'.h = sync.h
        /\ sync'.hash = sync.hash
    BY <1>2, <2>1, <2>2 DEF Locals
  <2> QED  BY <1>1, <2>2, <2>3, FitsOn
<1>7. ASSUME record_block \/ record_cursor \/ backtrack_found PROVE LocalsFit'
  <2>1. \/ sync.pc = "block" /\ sync' = [sync EXCEPT !.pc = "cursor"]
        \/ sync.pc = "cursor" /\ sync' = [sync EXCEPT !.pc = "attest"]
        \/ sync' = [sync EXCEPT !.pc = "rollback"]
    BY <1>7 DEF record_block, record_cursor, backtrack_found, goto
  <2>2. PICK p : /\ sync' = [sync EXCEPT !.pc = p]
                 /\ \/ sync.pc \in {"block", "cursor"} /\ p \in {"cursor", "attest"}
                    \/ p = "rollback"
    BY <2>1
  <2>3. /\ sync' \in Locals /\ sync'.pc = p /\ sync'.tip = sync.tip /\ sync'.h = sync.h
        /\ sync'.hash = sync.hash
    BY <1>2, <2>2 DEF Locals
  <2> QED  BY <1>1, <2>2, <2>3, FitsOn
<1> QED  BY <1>3, <1>4, <1>5, <1>6, <1>7

LEMMA AttestFits ==
    ASSUME l1 \in L1Chains, LocalsFit, attest
    PROVE  LocalsFit' /\ \A a \in attested' \ attested : a.height \in Heights /\ a.hash \in Blocks
<1>1. /\ sync \in Locals /\ sync.h \in 1..sync.tip /\ sync.tip \in Nat /\ sync.tip \in Heights
      /\ sync.h \in Nat /\ sync.hash \in Blocks
  BY HeightFacts DEF attest, LocalsFit, Locals
<1>2. PICK n \in Nat : n = sync.h + 1 /\ n # 0
  BY <1>1
<1>3. sync' = [sync EXCEPT !.pc = "scan", !.h = n] /\ l1' = l1
  BY <1>2 DEF attest, LocalsFit, Locals
<1>4. sync' \in Locals /\ sync'.pc = "scan" /\ sync'.tip = sync.tip /\ sync'.h = n
  BY <1>1, <1>3 DEF Locals
<1>5. LocalsFit'
  BY <1>2, <1>3, <1>4 DEF LocalsFit
<1>6. sync.h \in Heights
  BY <1>1, BelowHeight
<1> QED  BY <1>1, <1>5, <1>6 DEF attest

-----------------------------------------------------------------------------
(* Every step of the daemon.                                               *)

DaemonInv == StoreTypeOK /\ JobsTyped /\ SyncTyped

\* What every step has to show; the store's types follow.
Kept == [StoreNext]_storeVars /\ JobsTyped' /\ SyncTyped'

\* While the loop reads, no process_tx of its own is under way.
LEMMA ReadersKept ==
    ASSUME TxsWellFormed, DaemonInv,
           \/ get_tip_height \/ check_cursor \/ backtrack_down \/ backtrack_failed
           \/ rollback_return \/ scan_done \/ get_block_hash \/ get_block_txs \/ read_root
    PROVE  Kept
<1>1. UNCHANGED <<storeVars, job, l1, attested>>
  BY DEF get_tip_height, check_cursor, backtrack_down, backtrack_failed, rollback_return,
         scan_done, get_block_hash, get_block_txs, read_root, reading, procVars
<1>2. job[SyncTask] = NoJob
  <2>1. sync.pc # "apply" \/ sync.todo = <<>>
    BY DEF get_tip_height, check_cursor, backtrack_down, backtrack_failed, rollback_return,
           scan_done, get_block_hash, get_block_txs, read_root
  <2> QED  BY <2>1 DEF DaemonInv, SyncTyped
<1>3. JobsTyped'
  BY <1>1 DEF DaemonInv, JobsTyped, storeVars
<1>4. LocalsFit'
  <2>1. CASE backtrack_failed \/ scan_done
    <3>1. sync' = Waiting
      BY <2>1 DEF backtrack_failed, scan_done
    <3> QED  BY <1>1, <3>1, WaitingFits DEF DaemonInv, SyncTyped
  <2>2. CASE get_tip_height \/ check_cursor \/ backtrack_down \/ rollback_return \/ get_block_hash
    BY <2>2, ReadersFit DEF DaemonInv, SyncTyped
  <2>3. CASE get_block_txs \/ read_root
    BY <1>2, <2>3, WorkersFit DEF DaemonInv, SyncTyped
  <2> QED  BY <2>1, <2>2, <2>3
<1>5. SyncTyped'
  BY <1>1, <1>2, <1>4 DEF DaemonInv, SyncTyped
<1> QED  BY <1>1, <1>3, <1>5 DEF Kept

\* A call of process_tx has returned.
LEMMA JobCleared ==
    ASSUME JobsTyped, NEW t \in Tasks, job' = [job EXCEPT ![t] = NoJob], saving' = saving,
           job[t].pc # "tree"
    PROVE  JobsTyped'
<1>1. NoJob \in Jobs /\ NoJob.pc # "tree"
  BY DEF Jobs, NoJob
<1>2. saving[t] = Absent
  BY DEF JobsTyped
<1> QED  BY <1>1, <1>2, JobMoves

LEMMA ReturnsKept ==
    ASSUME TxsWellFormed, DaemonInv, next_tx \/ fetch_blob \/ skip_missing \/ mempool_return
    PROVE  Kept
<1>1. SyncTask \in Tasks /\ MempoolTask \in Tasks /\ SyncTask # MempoolTask
  BY ScannerAssumption
<1>2. UNCHANGED <<l1, attested>>
  BY DEF next_tx, fetch_blob, skip_missing, mempool_return, writing
<1>3. ASSUME next_tx \/ fetch_blob \/ skip_missing PROVE Kept
  <2>1. job[SyncTask].pc \in {"returned", "missing"} /\ job' = [job EXCEPT ![SyncTask] = NoJob]
    BY <1>3 DEF next_tx, fetch_blob, skip_missing, Returned
  <2>2. LocalsFit'
    BY <1>3, WorkersFit DEF DaemonInv, SyncTyped
  <2>3. job'[SyncTask] = NoJob
    BY <1>1, <2>1 DEF DaemonInv, JobsTyped
  <2>4. SyncTyped'
    BY <1>2, <2>2, <2>3 DEF DaemonInv, SyncTyped
  <2>5. [StoreNext]_storeVars /\ saving' = saving
    <3>1. CASE next_tx \/ skip_missing
      BY <3>1 DEF next_tx, skip_missing, storeVars
    <3>2. CASE fetch_blob
      <4>1. job[SyncTask].code \in Codes
        BY <1>1, <3>2, JobAt DEF fetch_blob, DaemonInv, JobsTyped
      <4>2. StoreNext
        BY <1>1, <3>2, <4>1 DEF fetch_blob, StoreNext
      <4> QED  BY <3>2, <4>2 DEF fetch_blob, save_wasm
    <3> QED  BY <1>3, <3>1, <3>2
  <2>6. JobsTyped'
    BY <1>1, <2>1, <2>5, JobCleared DEF DaemonInv
  <2> QED  BY <2>4, <2>5, <2>6 DEF Kept
<1>4. ASSUME mempool_return PROVE Kept
  <2>1. /\ job[MempoolTask].pc \in {"returned", "missing"}
        /\ job' = [job EXCEPT ![MempoolTask] = NoJob]
        /\ UNCHANGED <<storeVars, sync>>
    BY <1>4 DEF mempool_return
  <2>2. saving' = saving
    BY <2>1 DEF storeVars
  <2>3. JobsTyped'
    BY <1>1, <2>1, <2>2, JobCleared DEF DaemonInv
  <2>4. job'[SyncTask] = job[SyncTask]
    BY <1>1, <2>1 DEF DaemonInv, JobsTyped
  <2>5. SyncTyped'
    BY <1>2, <2>1, <2>4 DEF DaemonInv, SyncTyped, LocalsFit
  <2> QED  BY <2>1, <2>3, <2>5 DEF Kept
<1> QED  BY <1>3, <1>4

\* process_tx, on behalf of the sync loop and of the mempool listener.
LEMMA ProcessKept ==
    ASSUME TxsWellFormed, DaemonInv, start_tx \/ tx_step \/ mempool_recv \/ mempool_step
    PROVE  Kept
<1>1. SyncTask \in Tasks /\ MempoolTask \in Tasks /\ SyncTask # MempoolTask
  BY ScannerAssumption
<1>2. UNCHANGED <<l1, attested, sync>>
  BY DEF start_tx, tx_step, mempool_recv, mempool_step, writing
<1>3. LocalsFit'
  BY <1>2 DEF DaemonInv, SyncTyped, LocalsFit
<1>4. ASSUME start_tx \/ tx_step PROVE Kept
  <2>1. process_step(SyncTask) \/ \E tx \in Txs, h \in Heights : process_tx(SyncTask, tx, h)
    <3>1. ASSUME start_tx PROVE \E tx \in Txs, h \in Heights : process_tx(SyncTask, tx, h)
      <4>1. sync.pc = "apply" /\ sync.todo # <<>> /\ process_tx(SyncTask, Head(sync.todo), sync.h)
        BY <3>1 DEF start_tx
      <4>2. sync \in Locals /\ sync.h \in 1..sync.tip
        BY <4>1 DEF DaemonInv, SyncTyped, LocalsFit
      <4>3. sync.h \in Heights
        <5>1. sync.tip \in Heights /\ sync.h \in Nat
          BY <4>2 DEF Locals
        <5>2. sync.h <= sync.tip
          BY <4>2, <5>1, HeightFacts
        <5> QED  BY <5>1, <5>2, BelowHeight
      <4>4. PICK todo \in Seq(Txs) : todo = sync.todo /\ todo # <<>>
        BY <4>1, <4>2 DEF Locals
      <4>5. Head(todo) \in Txs
        BY <4>4
      <4> QED  BY <4>1, <4>3, <4>4, <4>5
    <3> QED  BY <1>4, <3>1 DEF tx_step
  <2>2. [StoreNext]_storeVars /\ JobsTyped'
    BY <1>1, <2>1, ProcessIsClient DEF DaemonInv
  <2>3. sync.pc = "apply" /\ sync.todo # <<>>
    <3>1. ASSUME tx_step PROVE job[SyncTask] # NoJob
      <4>1. process_step(SyncTask)
        BY <3>1 DEF tx_step
      <4>2. job[SyncTask].pc \in {"wasm", "undo", "execute", "commit", "tree", "transition"}
        BY <4>1 DEF process_step, store_blob, record_undo, execute, commit_object, update_tree,
                    record_transition
      <4> QED  BY <4>2 DEF NoJob
    <3> QED  BY <1>4, <3>1 DEF start_tx, DaemonInv, SyncTyped
  <2>4. SyncTyped'
    BY <1>2, <1>3, <2>3 DEF DaemonInv, SyncTyped
  <2> QED  BY <2>2, <2>4 DEF Kept
<1>5. ASSUME mempool_recv \/ mempool_step PROVE Kept
  <2>1. process_step(MempoolTask) \/ \E tx \in Txs, h \in Heights : process_tx(MempoolTask, tx, h)
    <3>1. ASSUME mempool_recv
          PROVE  \E tx \in Txs, h \in Heights : process_tx(MempoolTask, tx, h)
      <4>1. PICK tx \in Mempool : process_tx(MempoolTask, tx, 0)
        BY <3>1 DEF mempool_recv
      <4>2. tx \in Txs
        BY <4>1 DEF Txs
      <4>3. 0 \in Heights
        BY HeightFacts
      <4> QED  BY <4>1, <4>2, <4>3, Zenon
    <3> QED  BY <1>5, <3>1 DEF mempool_step
  <2>2. [StoreNext]_storeVars /\ JobsTyped'
    BY <1>1, <2>1, ProcessIsClient DEF DaemonInv
  <2>3. job'[SyncTask] = job[SyncTask]
    BY <1>1, <2>1, ProcessOwnJob DEF DaemonInv
  <2>4. SyncTyped'
    BY <1>2, <1>3, <2>3 DEF DaemonInv, SyncTyped
  <2> QED  BY <2>2, <2>4 DEF Kept
<1> QED  BY <1>4, <1>5

\* The steps of the loop that write: rollback, block record, cursor.
LEMMA WritersKept ==
    ASSUME TxsWellFormed, DaemonInv,
           backtrack_found \/ rollback_step \/ record_block \/ record_cursor
    PROVE  Kept
<1>1. SyncTask \in Tasks /\ Chain \in ChainIds
  BY ScannerAssumption, HeightFacts
<1>2. UNCHANGED <<job, l1, attested>>
  BY DEF backtrack_found, rollback_step, record_block, record_cursor, writing
<1>3. saving' = saving
  BY DEF backtrack_found, rollback_begin, rollback_step, rollback_undo, rollback_commit,
         rollback_read, rollback_install, record_block, save_block, record_cursor,
         set_last_sync_block
<1>4. JobsTyped'
  BY <1>2, <1>3 DEF DaemonInv, JobsTyped
<1>5. sync \in Locals
  BY DEF DaemonInv, SyncTyped, LocalsFit
<1>6. job[SyncTask] = NoJob
  <2>1. sync.pc # "apply"
    BY DEF backtrack_found, rollback_step, record_block, record_cursor
  <2> QED  BY <2>1 DEF DaemonInv, SyncTyped
<1>7. LocalsFit'
  <2>1. CASE rollback_step
    <3>1. UNCHANGED sync
      BY <2>1 DEF rollback_step
    <3> QED  BY <1>2, <3>1 DEF DaemonInv, SyncTyped, LocalsFit
  <2>2. CASE backtrack_found \/ record_block \/ record_cursor
    BY <1>6, <2>2, WorkersFit DEF DaemonInv, SyncTyped
  <2> QED  BY <2>1, <2>2
<1>8. SyncTyped'
  BY <1>2, <1>6, <1>7 DEF DaemonInv, SyncTyped
<1>9. StoreNext
  <2>1. CASE backtrack_found
    <3>1. sync.ancestor \in Heights /\ rollback_begin(Chain, sync.ancestor)
      BY <1>5, <2>1 DEF backtrack_found, Locals
    <3> QED  BY <1>1, <3>1 DEF StoreNext
  <2>2. CASE rollback_step
    BY <2>2 DEF rollback_step, StoreNext
  <2>3. ASSUME record_block \/ record_cursor
        PROVE  sync.h \in Heights /\ sync.hash \in Blocks
    <3>1. sync.pc \in {"block", "cursor"}
      BY <2>3 DEF record_block, record_cursor
    <3>2. sync.h \in 1..sync.tip /\ sync.hash \in Blocks
      BY <3>1 DEF DaemonInv, SyncTyped, LocalsFit
    <3>3. sync.tip \in Heights /\ sync.h \in Nat
      BY <1>5 DEF Locals
    <3>4. sync.h <= sync.tip
      BY <3>2, <3>3, HeightFacts
    <3> QED  BY <3>2, <3>3, <3>4, BelowHeight
  <2>4. CASE record_block
    <3>1. save_block(SyncTask, Chain, sync.h, sync.hash)
      BY <2>4 DEF record_block
    <3> QED  BY <1>1, <2>3, <2>4, <3>1 DEF StoreNext
  <2>5. CASE record_cursor
    <3>1. set_last_sync_block(SyncTask, Chain, sync.h)
      BY <2>5 DEF record_cursor
    <3> QED  BY <1>1, <2>3, <2>5, <3>1 DEF StoreNext
  <2> QED  BY <2>1, <2>2, <2>4, <2>5
<1> QED  BY <1>4, <1>8, <1>9 DEF Kept

\* The attestation, the L1, a crash, and the steps that change nothing here.
LEMMA OthersKept ==
    ASSUME TxsWellFormed, DaemonInv,
           attest \/ l1_grows \/ crash \/ tip_error \/ UNCHANGED vars
    PROVE  Kept
<1>1. ASSUME attest PROVE Kept
  <2>1. UNCHANGED <<storeVars, job, l1>> /\ sync.pc = "attest"
    BY <1>1 DEF attest, procVars
  <2>2. LocalsFit' /\ \A a \in attested' \ attested : a.height \in Heights /\ a.hash \in Blocks
    BY <1>1, AttestFits DEF DaemonInv, SyncTyped
  <2>3. SyncTyped'
    BY <2>1, <2>2 DEF DaemonInv, SyncTyped
  <2>4. JobsTyped'
    BY <2>1 DEF DaemonInv, JobsTyped, storeVars
  <2> QED  BY <2>1, <2>3, <2>4 DEF Kept
<1>2. ASSUME l1_grows PROVE Kept
  <2>1. UNCHANGED <<storeVars, job, sync, attested>>
    BY <1>2 DEF l1_grows, procVars
  <2>2. PICK c \in L1Chains : Len(c) > Len(l1) /\ l1' = c
    BY <1>2 DEF l1_grows
  <2>3. l1 \in L1Chains /\ sync.tip <= Len(l1) /\ sync.tip \in Nat
    BY HeightFacts DEF DaemonInv, SyncTyped, LocalsFit, Locals
  <2>4. sync.tip <= Len(l1')
    <3>1. Len(l1) \in Nat /\ Len(c) \in Nat
      BY <2>3, L1Facts
    <3> QED  BY <2>2, <2>3, <3>1
  <2>5. SyncTyped'
    BY <2>1, <2>2, <2>4 DEF DaemonInv, SyncTyped, LocalsFit
  <2>6. JobsTyped'
    BY <2>1 DEF DaemonInv, JobsTyped, storeVars
  <2> QED  BY <2>1, <2>5, <2>6 DEF Kept
<1>3. ASSUME crash PROVE Kept
  <2>1. /\ open /\ UNCHANGED <<l1, attested>> /\ sync' = Waiting
        /\ job' = [t \in Tasks |-> NoJob]
    BY <1>3 DEF crash
  <2>2. StoreNext
    BY <2>1 DEF StoreNext
  <2>3. JobsTyped'
    <3>1. saving' = [t \in Tasks |-> Absent]
      BY <2>1 DEF open
    <3>2. NoJob \in Jobs /\ NoJob.pc # "tree"
      BY DEF Jobs, NoJob
    <3> QED  BY <2>1, <3>1, <3>2 DEF JobsTyped
  <2>4. LocalsFit'
    BY <2>1, WaitingFits DEF DaemonInv, SyncTyped
  <2>5. job'[SyncTask] = NoJob
    BY <2>1, ScannerAssumption
  <2>6. SyncTyped'
    BY <2>1, <2>4, <2>5 DEF DaemonInv, SyncTyped
  <2> QED  BY <2>2, <2>3, <2>6 DEF Kept
<1>4. ASSUME tip_error \/ UNCHANGED vars PROVE Kept
  <2>1. UNCHANGED <<storeVars, job, l1, sync, attested>>
    BY <1>4 DEF tip_error, reading, vars, procVars
  <2>2. JobsTyped'
    BY <2>1 DEF DaemonInv, JobsTyped, storeVars
  <2>3. SyncTyped'
    BY <2>1 DEF DaemonInv, SyncTyped, LocalsFit
  <2> QED  BY <2>1, <2>2, <2>3 DEF Kept
<1> QED  BY <1>1, <1>2, <1>3, <1>4

LEMMA DaemonInit ==
    ASSUME Init
    PROVE  StoreInit /\ DaemonInv
<1>1. StoreInit /\ job = [t \in Tasks |-> NoJob] /\ l1 \in L1Chains /\ sync = Waiting /\ attested = {}
  BY DEF Init, ProcInit
<1>2. saving = [t \in Tasks |-> Absent]
  BY <1>1 DEF StoreInit
<1>3. NoJob \in Jobs /\ NoJob.pc # "tree"
  BY DEF Jobs, NoJob
<1>4. JobsTyped
  BY <1>1, <1>2, <1>3 DEF JobsTyped
<1>5. LocalsFit
  <2>1. Len(l1) \in Nat
    BY <1>1, L1Facts
  <2> QED  BY <1>1, <2>1, WaitingTyped DEF LocalsFit, Waiting
<1>6. SyncTyped
  BY <1>1, <1>5, ScannerAssumption DEF SyncTyped
<1> QED  BY <1>1, <1>4, <1>6, StoreTypeInit DEF DaemonInv

LEMMA DaemonStep ==
    ASSUME TxsWellFormed, DaemonInv, [Next]_vars
    PROVE  [StoreNext]_storeVars /\ DaemonInv'
<1>1. Kept
  <2>1. CASE \/ get_tip_height \/ check_cursor \/ backtrack_down \/ backtrack_failed
             \/ rollback_return \/ scan_done \/ get_block_hash \/ get_block_txs \/ read_root
    BY <2>1, ReadersKept
  <2>2. CASE next_tx \/ fetch_blob \/ skip_missing \/ mempool_return
    BY <2>2, ReturnsKept
  <2>3. CASE start_tx \/ tx_step \/ mempool_recv \/ mempool_step
    BY <2>3, ProcessKept
  <2>4. CASE backtrack_found \/ rollback_step \/ record_block \/ record_cursor
    BY <2>4, WritersKept
  <2>5. CASE attest \/ l1_grows \/ crash \/ tip_error \/ UNCHANGED vars
    BY <2>5, OthersKept
  <2> QED  BY <2>1, <2>2, <2>3, <2>4, <2>5 DEF Next, SyncNext, MempoolNext
<1>2. StoreTypeOK'
  BY <1>1, StoreTypeStep DEF DaemonInv, Kept
<1> QED  BY <1>1, <1>2 DEF DaemonInv, Kept

-----------------------------------------------------------------------------
(* The theorems about the daemon.                                          *)

\* The daemon implements the store's specification: sync loop, mempool listener
\* and crashes together do nothing to the database and the tree that StoreSpec
\* does not allow, so all that is proved of StoreSpec holds in the daemon.
THEOREM DaemonIsClient ==
    ASSUME TxsWellFormed
    PROVE  Spec => StoreSpec
<1>1. Init => StoreInit /\ DaemonInv
  BY DaemonInit
<1>2. DaemonInv /\ [Next]_vars => [StoreNext]_storeVars /\ DaemonInv'
  BY DaemonStep
<1> QED  BY <1>1, <1>2, PTL DEF Spec, StoreSpec

\* In the daemon, whatever the loop, the mempool listener and crashes do,
\* get_object_by_seal resolves a seal only to the live object on that seal.
THEOREM DaemonIndexCorrect ==
    ASSUME TxsWellFormed
    PROVE  Spec => []SealIndexSound
BY DaemonIsClient, SealIndexCorrect, PTL

\* The tables, the loop's locals and the jobs keep their types, a call of
\* process_tx is between commit and tree update exactly when the store is, and
\* an attestation names a block of a chain at a height in range.
THEOREM ScannerTypeCorrect ==
    ASSUME TxsWellFormed
    PROVE  Spec => []ScannerTypeOK
<1>1. Init => DaemonInv
  BY DaemonInit
<1>2. DaemonInv /\ [Next]_vars => DaemonInv'
  BY DaemonStep
<1>3. DaemonInv => ScannerTypeOK
  BY DEF DaemonInv, JobsTyped, SyncTyped, LocalsFit, Locals, ScannerTypeOK
<1> QED  BY <1>1, <1>2, <1>3, PTL DEF Spec

-----------------------------------------------------------------------------
(* Every change can be undone.                                             *)

Logged(logs, o, k) == \E u \in logs : u.chain = Chain /\ u.obj = o /\ u.height = k

\* A record of o sits on a seal of o, and one written by the sync loop on an output
\* of a block at that height.
RecordOwned(home, o, r) ==
    /\ r.seal \in CarrierSeals /\ home[r.seal] = o
    /\ r.updated_at > 0 =>
         \E c \in L1Chains : /\ r.updated_at \in DOMAIN c
                             /\ \E x \in ToSet(BlockTxs[c[r.updated_at]]) : r.seal \in carrier_seals(x)

\* What is known of the undo log of a change at height h of object o from prev.
PrevCovered(home, logs, o, prev, h) ==
    /\ RecordOwned(home, o, prev)
    /\ h > 0 => prev.updated_at < h /\ Logged(logs, o, prev.updated_at)

LogSound(home, logs, u) ==
    /\ u.chain = Chain /\ u.id.height = u.height
    /\ \E s \in CarrierSeals : u.id.low = UndoLow[s] /\ home[s] = u.obj
    /\ u.action = "UPDATE" => u.prev # Absent /\ PrevCovered(home, logs, u.obj, u.prev, u.height)

TablesCovered(home) ==
    /\ \A o \in ObjIds : objects[o] # Absent =>
          RecordOwned(home, o, objects[o]) /\ Logged(undo_logs, o, objects[o].updated_at)
    /\ \A u \in undo_logs : LogSound(home, undo_logs, u)

\* A process_tx that is going to write.
JobCovered(home, logs, t, j) ==
    /\ t = SyncTask => j.height > 0
    /\ t # SyncTask => j.height = 0
    /\ seal_of(j.tx, j.vout) \in carrier_seals(j.tx)
    /\ home[seal_of(j.tx, j.vout)] = j.obj
    /\ j.height > 0 => \E c \in L1Chains :
                          j.height \in DOMAIN c /\ j.tx \in ToSet(BlockTxs[c[j.height]])
    /\ j.action = "CREATE" \/ j.pc = "commit" =>
          j.rec.seal = seal_of(j.tx, j.vout) /\ j.rec.updated_at = j.height
    /\ j.action = "UPDATE" => PrevCovered(home, logs, j.obj, j.prev, j.height)
    /\ j.pc \in {"execute", "commit"} => Logged(logs, j.obj, j.height)

JobsCovered(home) ==
    \A t \in Tasks : job[t].pc \in {"wasm", "undo", "execute", "commit"} =>
        JobCovered(home, undo_logs, t, job[t])

\* The block in hand is a block of some branch.
BlockSource ==
    /\ sync.pc \in {"txs", "apply"} =>
          \E c \in L1Chains : sync.h \in DOMAIN c /\ sync.hash = c[sync.h]
    /\ sync.pc = "apply" => ToSet(sync.todo) \subseteq ToSet(BlockTxs[sync.hash])

\* A rollback in progress: the logs it has applied are of no lower height than those
\* it has not, and every object it is about to publish has a log that stays or is
\* still to be applied.
WalkCovered(home) ==
    rb.phase = "undo" =>
        /\ rb.chain = Chain
        /\ rb.logs \subseteq {u \in undo_logs : u.height > rb.target}
        /\ \A u \in undo_logs : u.height > rb.target /\ u \notin rb.logs =>
              \A v \in rb.logs : v.height <= u.height
        /\ \A o \in ObjIds : rb.objects[o] # Absent =>
              /\ RecordOwned(home, o, rb.objects[o])
              /\ \E v \in undo_logs : /\ v.chain = Chain /\ v.obj = o
                                      /\ v.height = rb.objects[o].updated_at
                                      /\ v.height <= rb.target \/ v \in rb.logs

CoverInv(home) == TablesCovered(home) /\ JobsCovered(home) /\ BlockSource /\ WalkCovered(home)

-----------------------------------------------------------------------------
LEMMA CarriesIs ==
    ASSUME TxsWellFormed, NEW tx \in Txs
    PROVE  /\ carrier_seals(tx) \subseteq CarrierSeals /\ carrier_seals(tx) \subseteq Seals
           /\ \A i \in DOMAIN tx.vout : validate_fee(tx) /\ tx.vout[i].env # Absent =>
                 seal_of(tx, i) \in carrier_seals(tx)
<1>1. WellFormed(tx)
  BY DEF TxsWellFormed
<1> QED  BY <1>1 DEF CarrierSeals, carrier_seals, WellFormed

\* A log more, and one of the same object at the same height less.
LEMMA LoggedStays ==
    ASSUME NEW logs, NEW u, u.chain = Chain,
           \A v \in logs : v.id = u.id => v.obj = u.obj /\ v.height = u.height,
           NEW more, more = {v \in logs : v.id # u.id} \cup {u},
           NEW o, NEW k, Logged(logs, o, k)
    PROVE  Logged(more, o, k)
<1>1. PICK v \in logs : v.chain = Chain /\ v.obj = o /\ v.height = k
  BY DEF Logged
<1>2. CASE v.id = u.id
  BY <1>1, <1>2 DEF Logged
<1>3. CASE v.id # u.id
  BY <1>1, <1>3 DEF Logged
<1> QED  BY <1>2, <1>3

-----------------------------------------------------------------------------
(* Preservation, one lemma per kind of step.                               *)

\* One job moves on, the logs stay.
LEMMA OneJobCovered ==
    ASSUME NEW home, JobsTyped, JobsCovered(home), undo_logs' = undo_logs, NEW t \in Tasks, NEW j,
           job' = [job EXCEPT ![t] = j],
           j.pc \in {"wasm", "undo", "execute", "commit"} => JobCovered(home, undo_logs, t, j)
    PROVE  JobsCovered(home)'
<1> SUFFICES ASSUME NEW s \in Tasks, job'[s].pc \in {"wasm", "undo", "execute", "commit"}
             PROVE  JobCovered(home, undo_logs', s, job'[s])
  BY DEF JobsCovered
<1>1. CASE s = t
  BY <1>1 DEF JobsTyped
<1>2. CASE s # t
  BY <1>2 DEF JobsTyped, JobsCovered
<1> QED  BY <1>1, <1>2

\* What a call of process_tx starts with.
LEMMA StartCovered ==
    ASSUME TxsWellFormed, NEW home, OneObjectPerSeal(home), SpendsLater,
           DaemonInv, SealIndexSound, TablesCovered(home), JobsCovered(home),
           NEW t \in Tasks, NEW tx \in Txs, NEW h \in Heights, process_tx(t, tx, h),
           t # SyncTask => h = 0,
           t = SyncTask => h > 0,
           h > 0 => \E c \in L1Chains : h \in DOMAIN c /\ tx \in ToSet(BlockTxs[c[h]])
    PROVE  JobsCovered(home)'
<1> DEFINE has_target == target_inputs(tx) # {}
           deciding == deciding_outputs(tx, has_target)
           j == IF deciding = {} \/ ~validate_fee(tx) THEN Returned
                ELSE IF is_create(tx.vout[Min(deciding)].env) THEN create_job(tx, Min(deciding), h)
                ELSE call_job(tx, Min(deciding), h, target(tx))
<1>1. job' = [job EXCEPT ![t] = j] /\ undo_logs' = undo_logs
  BY DEF process_tx, storeVars
<1>2. WellFormed(tx) /\ JobsTyped /\ StoreTypeOK
  BY DEF TxsWellFormed, DaemonInv
<1>3. j.pc \in {"wasm", "undo", "execute", "commit"} => JobCovered(home, undo_logs, t, j)
  <2>1. CASE deciding = {} \/ ~validate_fee(tx)
    BY <2>1 DEF Returned
  <2>2. CASE deciding # {} /\ validate_fee(tx)
    <3>1. has_target \in BOOLEAN
      OBVIOUS
    <3>2. PICK i : i = Min(deciding)
      OBVIOUS
    <3>3. /\ i \in Nat /\ i \in DOMAIN tx.vout /\ tx.vout[i].env # Absent
          /\ ~ is_create(tx.vout[i].env) => has_target
      BY <1>2, <2>2, <3>1, <3>2, DecidingIs
    <3>4. /\ seal_of(tx, i) \in carrier_seals(tx) /\ seal_of(tx, i) \in CarrierSeals
          /\ carrier_seals(tx) \subseteq CarrierSeals
      BY <2>2, <3>3, CarriesIs
    <3>5. CASE is_create(tx.vout[i].env)
      <4>1. home[seal_of(tx, i)] = ObjOf[tx.id]
        BY <3>3, <3>4, <3>5 DEF OneObjectPerSeal
      <4>2. PICK r : r = created(tx, i, h)
        OBVIOUS
      <4>3. r.seal = seal_of(tx, i) /\ r.updated_at = h
        BY <4>2 DEF created
      <4>4. PICK p \in {"undo", "wasm"} :
               j = [pc |-> p, tx |-> tx, vout |-> i, height |-> h, action |-> "CREATE",
                    obj |-> ObjOf[tx.id], prev |-> Absent, rec |-> r]
        BY <2>2, <3>2, <3>5, <4>2 DEF create_job
      <4> HIDE DEF j
      <4> QED  BY <3>4, <4>1, <4>3, <4>4 DEF JobCovered
    <3>6. CASE ~ is_create(tx.vout[i].env)
      <4>1. PICK k : k = Min(target_inputs(tx))
        OBVIOUS
      <4>2. PICK o : o = target(tx)
        OBVIOUS
      <4>3. /\ k \in DOMAIN tx.vin /\ tx.vin[k] \in Seals /\ tx.vin[k] \in ToSet(tx.vin)
            /\ seals[tx.vin[k]] = o /\ o # Absent /\ objects[o] # Absent /\ o \in ObjIds
            /\ objects[o] \in Object
        <5>1. o \in ObjIds /\ objects[o] \in Object
          BY <1>2, <3>3, <3>6, <4>2, TargetIs
        <5>2. tx.vin \in Seq(Seals) /\ DOMAIN tx.vin \subseteq Nat
          BY <1>2 DEF WellFormed
        <5>3. target_inputs(tx) \in SUBSET Nat
          BY <5>2 DEF target_inputs
        <5>4. k \in target_inputs(tx)
          BY <3>3, <3>6, <4>1, <5>3, MinIs
        <5>5. k \in DOMAIN tx.vin
          BY <5>4 DEF target_inputs
        <5>6. tx.vin[k] \in Seals
          BY <5>2, <5>5
        <5>7. tx.vin[k] \in ToSet(tx.vin)
          BY <5>5 DEF ToSet
        <5> QED  BY <4>1, <4>2, <5>1, <5>5, <5>6, <5>7, StoreAssumption, AbsentIsNoRecord DEF target
      <4>4. objects[o].seal = tx.vin[k]
        BY <4>3 DEF SealIndexSound, IndexSound
      <4>5. RecordOwned(home, o, objects[o]) /\ Logged(undo_logs, o, objects[o].updated_at)
        BY <4>3 DEF TablesCovered
      <4>6. home[seal_of(tx, i)] = o
        <5>1. tx.vin[k] \in CarrierSeals /\ home[tx.vin[k]] = o
          BY <4>4, <4>5 DEF RecordOwned
        <5> QED  BY <3>3, <3>4, <3>6, <4>3, <5>1 DEF OneObjectPerSeal
      <4>7. h > 0 => objects[o].updated_at < h
        <5>1. objects[o].updated_at \in Nat /\ h \in Nat
          BY <4>3, HeightFacts DEF Object
        <5>2. ASSUME h > 0, objects[o].updated_at > 0 PROVE objects[o].updated_at < h
          <6>1. PICK c \in L1Chains : objects[o].updated_at \in DOMAIN c /\
                   \E x \in ToSet(BlockTxs[c[objects[o].updated_at]]) : tx.vin[k] \in carrier_seals(x)
            BY <4>4, <4>5, <5>2 DEF RecordOwned
          <6>2. PICK d \in L1Chains : h \in DOMAIN d /\ tx \in ToSet(BlockTxs[d[h]])
            BY <5>2
          <6>3. PICK x \in ToSet(BlockTxs[c[objects[o].updated_at]]) : tx.vin[k] \in carrier_seals(x)
            BY <6>1
          <6>4. carrier_seals(x) \cap ToSet(tx.vin) # {}
            BY <4>3, <6>3
          <6> QED  BY <6>1, <6>2, <6>3, <6>4 DEF SpendsLater
        <5> QED  BY <5>1, <5>2
      <4>8. PrevCovered(home, undo_logs, o, objects[o], h)
        BY <4>5, <4>7 DEF PrevCovered
      <4>9. j = [pc |-> "undo", tx |-> tx, vout |-> i, height |-> h, action |-> "UPDATE",
                 obj |-> o, prev |-> objects[o], rec |-> Absent]
        BY <2>2, <3>2, <3>6, <4>2 DEF call_job
      <4> HIDE DEF j
      <4> QED  BY <3>4, <4>6, <4>8, <4>9 DEF JobCovered
    <3> QED  BY <3>5, <3>6
  <2> QED  BY <2>1, <2>2
<1> HIDE DEF j
<1> QED  BY <1>1, <1>2, <1>3, OneJobCovered

\* The undo log is written.
LEMMA UndoCovered ==
    ASSUME TxsWellFormed, NEW home, UndoIdsDistinct, DaemonInv, CoverInv(home),
           NEW t \in Tasks, record_undo(t)
    PROVE  TablesCovered(home)' /\ JobsCovered(home)' /\ WalkCovered(home)'
<1> DEFINE j == job[t]
           p == IF j.action = "CREATE" THEN "commit" ELSE "execute"
<1>1. /\ j \in CallJobs /\ JobReady(j) /\ j.pc = "undo" /\ JobsTyped
      /\ JobCovered(home, undo_logs, t, j)
  BY JobAt DEF record_undo, DaemonInv, JobsTyped, CoverInv, JobsCovered
<1>2. PICK u : u = [id |-> [height |-> j.height, low |-> UndoLow[<<j.tx.id, j.vout - 1>>]],
                    chain |-> Chain, height |-> j.height, obj |-> j.obj,
                    action |-> j.action, prev |-> j.prev]
  OBVIOUS
<1>3. /\ undo_logs' = {v \in undo_logs : v.id # u.id} \cup {u}
      /\ objects' = objects /\ rb' = rb /\ rb.phase # "undo"
      /\ job' = [job EXCEPT ![t] = [j EXCEPT !.pc = p]]
  BY <1>2 DEF record_undo, save_undo_log, can_write, write_lock_free
<1>4. /\ u.chain = Chain /\ u.height = j.height /\ u.obj = j.obj /\ u.action = j.action
      /\ u.prev = j.prev /\ u.id.height = j.height /\ u.id.low = UndoLow[seal_of(j.tx, j.vout)]
  BY <1>2 DEF seal_of
<1>5. seal_of(j.tx, j.vout) \in CarrierSeals /\ home[seal_of(j.tx, j.vout)] = j.obj
  <2>1. j.tx \in Txs
    BY <1>1 DEF CallJobs
  <2> QED  BY <1>1, <2>1, CarriesIs DEF JobCovered
<1>6. ASSUME NEW v \in undo_logs, v.id = u.id PROVE v.obj = u.obj /\ v.height = u.height
  <2>1. LogSound(home, undo_logs, v)
    BY DEF CoverInv, TablesCovered
  <2>2. PICK s \in CarrierSeals : v.id.low = UndoLow[s] /\ home[s] = v.obj
    BY <2>1 DEF LogSound
  <2>3. s = seal_of(j.tx, j.vout)
    BY <1>4, <1>5, <1>6, <2>2 DEF UndoIdsDistinct
  <2> QED  BY <1>4, <1>5, <1>6, <2>1, <2>2, <2>3 DEF LogSound
<1>7. PICK more : more = {v \in undo_logs : v.id # u.id} \cup {u}
  OBVIOUS
<1>8. ASSUME NEW o, NEW k, Logged(undo_logs, o, k) PROVE Logged(more, o, k)
  BY <1>4, <1>6, <1>7, <1>8, LoggedStays
<1>9. ASSUME NEW o, NEW prev, NEW h, PrevCovered(home, undo_logs, o, prev, h)
      PROVE  PrevCovered(home, more, o, prev, h)
  BY <1>8, <1>9 DEF PrevCovered
<1>10. Logged(more, j.obj, j.height)
  BY <1>4, <1>7 DEF Logged
<1>11. ASSUME NEW v \in more PROVE LogSound(home, more, v)
  <2>1. CASE v \in undo_logs
    <3>1. LogSound(home, undo_logs, v)
      BY <2>1 DEF CoverInv, TablesCovered
    <3> QED  BY <1>9, <3>1 DEF LogSound
  <2>2. CASE v = u
    <3>1. j.action = "UPDATE" => j.prev # Absent /\ PrevCovered(home, more, j.obj, j.prev, j.height)
      BY <1>1, <1>9, AbsentIsNoRecord DEF JobCovered, JobReady
    <3> QED  BY <1>4, <1>5, <2>2, <3>1 DEF LogSound
  <2> QED  BY <1>7, <2>1, <2>2
<1>12. TablesCovered(home)'
  <2>1. ASSUME NEW o \in ObjIds, objects[o] # Absent
        PROVE  RecordOwned(home, o, objects[o]) /\ Logged(more, o, objects[o].updated_at)
    BY <1>8, <2>1 DEF CoverInv, TablesCovered
  <2> QED  BY <1>3, <1>7, <1>11, <2>1 DEF TablesCovered
<1>13. ASSUME NEW s, NEW k, JobCovered(home, undo_logs, s, k) PROVE JobCovered(home, more, s, k)
  BY <1>8, <1>9, <1>13 DEF JobCovered
<1>14. JobsCovered(home)'
  <2> SUFFICES ASSUME NEW s \in Tasks, job'[s].pc \in {"wasm", "undo", "execute", "commit"}
               PROVE  JobCovered(home, undo_logs', s, job'[s])
    BY DEF JobsCovered
  <2>1. CASE s # t
    BY <1>1, <1>3, <1>7, <1>13, <2>1 DEF JobsTyped, CoverInv, JobsCovered
  <2>2. CASE s = t
    <3>1. job'[s] = [j EXCEPT !.pc = p]
      BY <1>1, <1>3, <2>2 DEF JobsTyped
    <3>2. PICK k : k = [j EXCEPT !.pc = p]
      OBVIOUS
    <3>3. /\ k.pc = p /\ k.height = j.height /\ k.tx = j.tx /\ k.vout = j.vout /\ k.obj = j.obj
          /\ k.action = j.action /\ k.rec = j.rec /\ k.prev = j.prev
      BY <1>1, <3>2 DEF CallJobs
    <3>4. /\ JobCovered(home, more, t, j)
          /\ k.pc = "commit" => j.action = "CREATE"
      BY <1>1, <1>13, <3>3
    <3>5. JobCovered(home, more, t, k)
      BY <1>10, <3>3, <3>4 DEF JobCovered
    <3> QED  BY <1>3, <1>7, <2>2, <3>1, <3>2, <3>5
  <2> QED  BY <2>1, <2>2
<1>15. WalkCovered(home)'
  BY <1>3 DEF WalkCovered
<1> QED  BY <1>12, <1>14, <1>15

\* The contract has run.
LEMMA ExecuteCovered ==
    ASSUME NEW home, DaemonInv, CoverInv(home), NEW t \in Tasks, execute(t)
    PROVE  JobsCovered(home)'
<1> DEFINE j == job[t]
           st == Exec[<<j.prev.code, j.prev.state, j.tx.vout[j.vout].env.call>>]
           rec == called(j.prev, j.tx, j.vout, j.height, st)
           k == IF j.prev.code \notin wasm \cup {DefaultCode} THEN WasmMissing(j.prev.code)
                ELSE IF st = Absent THEN Returned
                ELSE [j EXCEPT !.pc = "commit", !.rec = rec]
<1>1. /\ j \in CallJobs /\ JobReady(j) /\ j.pc = "execute" /\ JobsTyped
      /\ JobCovered(home, undo_logs, t, j)
  BY JobAt DEF execute, DaemonInv, JobsTyped, CoverInv, JobsCovered
<1>2. job' = [job EXCEPT ![t] = k] /\ undo_logs' = undo_logs
  BY DEF execute, storeVars
<1>3. k.pc \in {"wasm", "undo", "execute", "commit"} => JobCovered(home, undo_logs, t, k)
  <2>1. CASE k = WasmMissing(j.prev.code) \/ k = Returned
    BY <2>1 DEF WasmMissing, Returned
  <2>2. CASE k = [j EXCEPT !.pc = "commit", !.rec = rec]
    <3>1. j.prev \in Object
      BY <1>1 DEF JobReady, CallJobs
    <3>2. PICK r : r = rec
      OBVIOUS
    <3>3. r.seal = seal_of(j.tx, j.vout) /\ r.updated_at = j.height
      BY <3>1, <3>2 DEF called, Object
    <3>4. PICK m : m = [j EXCEPT !.pc = "commit", !.rec = r]
      OBVIOUS
    <3>5. /\ m.height = j.height /\ m.tx = j.tx /\ m.vout = j.vout /\ m.obj = j.obj
          /\ m.action = j.action /\ m.rec = r /\ m.prev = j.prev
      BY <1>1, <3>4 DEF CallJobs
    <3>6. JobCovered(home, undo_logs, t, m)
      BY <1>1, <3>3, <3>5 DEF JobCovered
    <3> QED  BY <2>2, <3>2, <3>4, <3>6
  <2> HIDE DEF st, rec
  <2> QED  BY <2>1, <2>2
<1> HIDE DEF k
<1> QED  BY <1>1, <1>2, <1>3, OneJobCovered DEF CoverInv

\* The object is saved.
LEMMA CommitCovered ==
    ASSUME TxsWellFormed, NEW home, DaemonInv, CoverInv(home), NEW t \in Tasks, commit_object(t)
    PROVE  TablesCovered(home)' /\ JobsCovered(home)' /\ WalkCovered(home)'
<1> DEFINE j == job[t]
<1>1. /\ j \in CallJobs /\ JobReady(j) /\ j.pc = "commit" /\ JobsTyped
      /\ JobCovered(home, undo_logs, t, j)
  BY JobAt DEF commit_object, DaemonInv, JobsTyped, CoverInv, JobsCovered
<1>2. /\ objects' = [objects EXCEPT ![j.obj] = j.rec]
      /\ undo_logs' = undo_logs /\ rb' = rb /\ rb.phase # "undo"
      /\ job' = [job EXCEPT ![t] = [j EXCEPT !.pc = "tree"]]
  BY DEF commit_object, save_object_commit, can_write, write_lock_free
<1>3. /\ j.rec.seal = seal_of(j.tx, j.vout) /\ j.rec.updated_at = j.height
      /\ seal_of(j.tx, j.vout) \in carrier_seals(j.tx) /\ home[seal_of(j.tx, j.vout)] = j.obj
      /\ Logged(undo_logs, j.obj, j.height)
      /\ j.tx \in Txs
  BY <1>1 DEF JobCovered, CallJobs
<1>4. RecordOwned(home, j.obj, j.rec)
  <2>1. j.rec.seal \in CarrierSeals
    BY <1>3, CarriesIs
  <2>2. ASSUME j.rec.updated_at > 0
        PROVE  \E c \in L1Chains : /\ j.rec.updated_at \in DOMAIN c
                 /\ \E x \in ToSet(BlockTxs[c[j.rec.updated_at]]) : j.rec.seal \in carrier_seals(x)
    <3>1. PICK c \in L1Chains : j.height \in DOMAIN c /\ j.tx \in ToSet(BlockTxs[c[j.height]])
      BY <1>1, <1>3, <2>2 DEF JobCovered
    <3> QED  BY <1>3, <3>1
  <2> QED  BY <1>3, <2>1, <2>2 DEF RecordOwned
<1>5. objects \in [ObjIds -> Object \cup {Absent}]
  BY DEF DaemonInv, StoreTypeOK
<1>6. TablesCovered(home)'
  <2>1. ASSUME NEW o \in ObjIds, objects'[o] # Absent
        PROVE  RecordOwned(home, o, objects'[o]) /\ Logged(undo_logs, o, objects'[o].updated_at)
    <3>1. CASE o = j.obj
      BY <1>2, <1>3, <1>4, <1>5, <3>1
    <3>2. CASE o # j.obj
      BY <1>2, <1>5, <2>1, <3>2 DEF CoverInv, TablesCovered
    <3> QED  BY <3>1, <3>2
  <2> QED  BY <1>2, <2>1 DEF TablesCovered, CoverInv
<1>7. [j EXCEPT !.pc = "tree"].pc = "tree"
  BY <1>1 DEF CallJobs
<1>8. JobsCovered(home)'
  BY <1>1, <1>2, <1>7, OneJobCovered DEF CoverInv
<1> QED  BY <1>2, <1>6, <1>8 DEF WalkCovered

\* The other steps of process_tx.
LEMMA RestCovered ==
    ASSUME NEW home, DaemonInv, CoverInv(home), NEW t \in Tasks,
           store_blob(t) \/ update_tree(t) \/ record_transition(t)
    PROVE  TablesCovered(home)' /\ JobsCovered(home)' /\ WalkCovered(home)'
<1>1. UNCHANGED <<objects, undo_logs, rb>>
  BY DEF store_blob, save_wasm, update_tree, save_object_smt, tables, record_transition,
         save_transition
<1>2. TablesCovered(home)' /\ WalkCovered(home)'
  BY <1>1 DEF CoverInv, TablesCovered, WalkCovered
<1>3. CASE store_blob(t)
  <2>1. /\ job[t] \in CallJobs /\ JobsTyped /\ job[t].pc = "wasm"
        /\ JobCovered(home, undo_logs, t, job[t])
    BY <1>3, JobAt DEF store_blob, DaemonInv, JobsTyped, CoverInv, JobsCovered
  <2>2. PICK k : k = [job[t] EXCEPT !.pc = "undo"]
    OBVIOUS
  <2>3. /\ k.pc = "undo" /\ k.height = job[t].height /\ k.tx = job[t].tx /\ k.vout = job[t].vout
        /\ k.obj = job[t].obj /\ k.action = job[t].action /\ k.rec = job[t].rec
        /\ k.prev = job[t].prev
    BY <2>1, <2>2 DEF CallJobs
  <2>4. JobCovered(home, undo_logs, t, k)
    BY <2>1, <2>3 DEF JobCovered
  <2>5. job' = [job EXCEPT ![t] = k]
    BY <1>3, <2>2 DEF store_blob
  <2> QED  BY <1>1, <1>2, <2>1, <2>4, <2>5, OneJobCovered DEF CoverInv
<1>4. CASE update_tree(t) \/ record_transition(t)
  <2>1. PICK k : job' = [job EXCEPT ![t] = k] /\ k.pc \in {"returned", "transition"}
    <3>1. CASE record_transition(t)
      <4>1. job' = [job EXCEPT ![t] = Returned] /\ Returned.pc = "returned"
        BY <3>1 DEF record_transition, Returned
      <4> QED  BY <4>1
    <3>2. CASE update_tree(t)
      <4>1. job[t] \in CallJobs
        BY <3>2, JobAt DEF update_tree, DaemonInv, JobsTyped
      <4>2. [job[t] EXCEPT !.pc = "transition"].pc = "transition" /\ Returned.pc = "returned"
        BY <4>1 DEF CallJobs, Returned
      <4> QED  BY <3>2, <4>2 DEF update_tree
    <3> QED  BY <1>4, <3>1, <3>2
  <2> QED  BY <1>1, <1>2, <2>1, OneJobCovered DEF CoverInv, DaemonInv
<1> QED  BY <1>3, <1>4

\* A rollback starts with all logs above its target still to be applied.
LEMMA WalkBegins ==
    ASSUME NEW home, DaemonInv, TablesCovered(home), NEW a \in Nat, rollback_begin(Chain, a)
    PROVE  TablesCovered(home)' /\ WalkCovered(home)'
<1>1. /\ objects' = objects /\ undo_logs' = undo_logs
      /\ rb'.phase = "undo" /\ rb'.chain = Chain /\ rb'.target = a /\ rb'.objects = objects
      /\ rb'.logs = {u \in undo_logs : u.chain = Chain /\ u.height > a}
  BY DEF rollback_begin, tables
<1>2. \A u \in undo_logs : u.chain = Chain /\ u.height \in Nat
  BY HeightFacts DEF TablesCovered, LogSound, DaemonInv, StoreTypeOK, UndoLog
<1>3. ASSUME NEW o \in ObjIds, objects[o] # Absent
      PROVE  /\ RecordOwned(home, o, objects[o])
             /\ \E v \in undo_logs : /\ v.chain = Chain /\ v.obj = o
                                     /\ v.height = objects[o].updated_at
                                     /\ v.height <= a \/ v \in rb'.logs
  <2>1. RecordOwned(home, o, objects[o]) /\ Logged(undo_logs, o, objects[o].updated_at)
    BY <1>3 DEF TablesCovered
  <2>2. PICK v \in undo_logs : v.chain = Chain /\ v.obj = o /\ v.height = objects[o].updated_at
    BY <2>1 DEF Logged
  <2>3. v.height <= a \/ v \in rb'.logs
    BY <1>1, <1>2, <2>2
  <2> QED  BY <2>1, <2>2, <2>3
<1>4. WalkCovered(home)'
  BY <1>1, <1>2, <1>3 DEF WalkCovered
<1> QED  BY <1>1, <1>4 DEF TablesCovered

\* One undo log is applied: what it restores was written lower, so the log of that
\* is not applied yet.
LEMMA WalkGoesOn ==
    ASSUME NEW home, DaemonInv, TablesCovered(home), WalkCovered(home), rollback_undo
    PROVE  TablesCovered(home)' /\ WalkCovered(home)'
<1>1. rb \in Rollbacks /\ rb.phase = "undo"
  BY RollbackPhase DEF rollback_undo, DaemonInv
<1>2. PICK u \in rb.logs :
        /\ is_next_undo(u, rb.logs)
        /\ rb' = [rb EXCEPT !.logs = @ \ {u},
                            !.objects = undone(rb.objects, u),
                            !.seals = undone_seals(rb.seals, rb.objects, u)]
  BY DEF rollback_undo
<1>3. /\ rb'.phase = "undo" /\ rb'.chain = rb.chain /\ rb'.target = rb.target
      /\ rb'.logs = rb.logs \ {u} /\ rb'.objects = undone(rb.objects, u)
  BY <1>1, <1>2 DEF Rollbacks
<1>4. UNCHANGED <<objects, undo_logs>>
  BY DEF rollback_undo, tables
<1>5. /\ rb.chain = Chain /\ rb.logs \subseteq undo_logs
      /\ \A v \in rb.logs : v.height > rb.target
      /\ \A v \in undo_logs : v.height > rb.target /\ v \notin rb.logs =>
            \A w \in rb.logs : w.height <= v.height
      /\ rb.target \in Nat /\ rb.objects \in [ObjIds -> Object \cup {Absent}]
      /\ \A v \in undo_logs : v \in UndoLog /\ v.height \in Nat
  BY <1>1, HeightFacts DEF WalkCovered, Rollbacks, DaemonInv, StoreTypeOK, UndoLog
<1>6. \A v \in rb.logs : v.height <= u.height
  BY <1>2, <1>5 DEF is_next_undo, undone_before
<1>7. /\ LogSound(home, undo_logs, u) /\ u \in UndoLog /\ u.obj \in ObjIds /\ u.height > rb.target
      /\ u.action \in {"CREATE", "UPDATE"}
  BY <1>2, <1>5 DEF TablesCovered, UndoLog
<1>8. ASSUME NEW o \in ObjIds, undone(rb.objects, u)[o] # Absent
      PROVE  /\ RecordOwned(home, o, undone(rb.objects, u)[o])
             /\ \E v \in undo_logs : /\ v.chain = Chain /\ v.obj = o
                                     /\ v.height = undone(rb.objects, u)[o].updated_at
                                     /\ v.height <= rb.target \/ v \in rb.logs \ {u}
  <2>1. CASE o # u.obj
    <3>1. undone(rb.objects, u)[o] = rb.objects[o]
      BY <1>5, <2>1 DEF undone
    <3>2. RecordOwned(home, o, rb.objects[o])
      BY <1>1, <1>8, <3>1 DEF WalkCovered
    <3>3. PICK v \in undo_logs : /\ v.chain = Chain /\ v.obj = o
                                 /\ v.height = rb.objects[o].updated_at
                                 /\ v.height <= rb.target \/ v \in rb.logs
      BY <1>1, <1>8, <3>1 DEF WalkCovered
    <3> QED  BY <2>1, <3>1, <3>2, <3>3
  <2>2. CASE o = u.obj
    <3>1. u.action = "UPDATE"
      BY <1>5, <1>7, <1>8, <2>2 DEF undone
    <3>2. u.prev # Absent /\ PrevCovered(home, undo_logs, o, u.prev, u.height)
      BY <1>7, <2>2, <3>1 DEF LogSound
    <3>3. undone(rb.objects, u)[o] = u.prev
      BY <1>5, <1>7, <2>2, <3>1, <3>2 DEF undone
    <3>4. u.height > 0 /\ u.height \in Nat /\ u.prev.updated_at \in Nat
      <4>1. u.prev \in Object
        BY <1>7, <3>2 DEF UndoLog
      <4>2. u.prev.updated_at \in Nat /\ u.height \in Nat
        BY <1>7, <4>1, HeightFacts DEF UndoLog, Object
      <4> QED  BY <1>5, <1>7, <4>2
    <3>5. u.prev.updated_at < u.height /\ Logged(undo_logs, o, u.prev.updated_at)
      BY <3>2, <3>4 DEF PrevCovered
    <3>6. PICK v \in undo_logs : v.chain = Chain /\ v.obj = o /\ v.height = u.prev.updated_at
      BY <3>5 DEF Logged
    <3>7. v.height <= rb.target \/ v \in rb.logs
      BY <1>2, <1>5, <3>4, <3>5, <3>6
    <3>8. v # u
      BY <3>4, <3>5, <3>6
    <3> QED  BY <3>2, <3>3, <3>6, <3>7, <3>8 DEF PrevCovered
  <2> QED  BY <2>1, <2>2
<1>9. ASSUME NEW v \in undo_logs, v.height > rb.target, v \notin rb.logs \ {u},
             NEW w \in rb.logs \ {u}
      PROVE  w.height <= v.height
  BY <1>5, <1>6, <1>9
<1>10. WalkCovered(home)'
  BY <1>3, <1>4, <1>5, <1>8, <1>9 DEF WalkCovered
<1> QED  BY <1>4, <1>10 DEF TablesCovered

\* The commit drops the applied logs, and with them what they covered.
LEMMA WalkCommits ==
    ASSUME NEW home, DaemonInv, TablesCovered(home), WalkCovered(home), rollback_commit
    PROVE  TablesCovered(home)' /\ WalkCovered(home)'
<1>1. rb \in Rollbacks /\ rb.phase = "undo" /\ rb.logs = {} /\ rb.chain = Chain
  BY RollbackPhase DEF rollback_commit, DaemonInv, WalkCovered
<1>2. /\ objects' = rb.objects /\ rb'.phase = "read"
      /\ undo_logs' = {u \in undo_logs : ~(u.chain = Chain /\ u.height > rb.target)}
  BY <1>1 DEF rollback_commit
<1>3. PICK logs : logs = undo_logs'
  OBVIOUS
<1>4. /\ rb.target \in Nat
      /\ \A v \in undo_logs : v \in UndoLog /\ v.height \in Nat /\ v.chain = Chain
  BY <1>1, HeightFacts
  DEF TablesCovered, LogSound, Rollbacks, DaemonInv, StoreTypeOK, UndoLog
<1>5. ASSUME NEW o \in ObjIds, rb.objects[o] # Absent
      PROVE  RecordOwned(home, o, rb.objects[o]) /\ Logged(logs, o, rb.objects[o].updated_at)
  <2>1. RecordOwned(home, o, rb.objects[o])
    BY <1>1, <1>5 DEF WalkCovered
  <2>2. PICK v \in undo_logs : /\ v.chain = Chain /\ v.obj = o
                               /\ v.height = rb.objects[o].updated_at
                               /\ v.height <= rb.target
    BY <1>1, <1>5 DEF WalkCovered
  <2>3. v \in logs
    BY <1>2, <1>3, <1>4, <2>2
  <2> QED  BY <2>1, <2>2, <2>3 DEF Logged
<1>6. ASSUME NEW u \in logs PROVE LogSound(home, logs, u)
  <2>1. LogSound(home, undo_logs, u) /\ u \in undo_logs /\ u.height <= rb.target /\ u.height \in Nat
    BY <1>2, <1>3, <1>4, <1>6 DEF TablesCovered
  <2>2. ASSUME u.action = "UPDATE", u.height > 0 PROVE Logged(logs, u.obj, u.prev.updated_at)
    <3>1. /\ u.prev # Absent /\ u.prev.updated_at < u.height
          /\ Logged(undo_logs, u.obj, u.prev.updated_at)
      BY <2>1, <2>2 DEF LogSound, PrevCovered
    <3>2. u.prev.updated_at \in Nat
      BY <1>4, <2>1, <3>1, HeightFacts DEF UndoLog, Object
    <3>3. PICK v \in undo_logs : v.chain = Chain /\ v.obj = u.obj /\ v.height = u.prev.updated_at
      BY <3>1 DEF Logged
    <3>4. v \in logs
      BY <1>2, <1>3, <1>4, <2>1, <3>1, <3>2, <3>3
    <3> QED  BY <3>3, <3>4 DEF Logged
  <2> QED  BY <2>1, <2>2 DEF LogSound, PrevCovered
<1>7. TablesCovered(home)'
  BY <1>2, <1>3, <1>5, <1>6 DEF TablesCovered
<1> QED  BY <1>2, <1>7 DEF WalkCovered

\* The block in hand comes from the branch the L1 showed when it was read.
LEMMA SourceStep ==
    ASSUME TxsWellFormed, DaemonInv, BlockSource, [Next]_vars
    PROVE  BlockSource'
<1>1. sync \in Locals /\ l1 \in L1Chains
  BY DEF DaemonInv, SyncTyped, LocalsFit
<1>2. CASE sync'.pc \notin {"txs", "apply"}
  BY <1>2 DEF BlockSource
<1>3. CASE sync' = sync
  BY <1>3 DEF BlockSource
<1>4. CASE get_block_hash
  <2>1. CASE sync' = [sync EXCEPT !.pc = "txs", !.hash = l1[sync.h]]
    <3>1. sync.h \in DOMAIN l1
      <4>1. sync.pc = "scan" /\ sync.h # 0 /\ sync.h <= sync.tip /\ sync.tip <= Len(l1)
        BY <1>4 DEF get_block_hash, DaemonInv, SyncTyped, LocalsFit
      <4>2. sync.h \in Nat /\ sync.tip \in Nat /\ Len(l1) \in Nat /\ DOMAIN l1 = 1..Len(l1)
        BY <1>1, HeightFacts, L1Facts DEF Locals
      <4> QED  BY <4>1, <4>2
    <3>2. sync'.pc = "txs" /\ sync'.h = sync.h /\ sync'.hash = l1[sync.h]
      BY <1>1, <2>1 DEF Locals
    <3> QED  BY <1>1, <3>1, <3>2 DEF BlockSource
  <2>2. CASE sync' = [sync EXCEPT !.h = sync.h + 1]
    <3>1. sync'.pc = "scan"
      BY <1>1, <1>4, <2>2 DEF Locals, get_block_hash
    <3> QED  BY <3>1, <1>2
  <2> QED  BY <1>4, <2>1, <2>2 DEF get_block_hash
<1>5. CASE get_block_txs
  <2>1. PICK txs : sync' = [sync EXCEPT !.pc = "apply", !.todo = txs] /\ txs \in {BlockTxs[sync.hash], <<>>}
    BY <1>5 DEF get_block_txs
  <2>2. /\ sync'.pc = "apply" /\ sync'.h = sync.h /\ sync'.hash = sync.hash /\ sync'.todo = txs
        /\ sync.pc = "txs"
    BY <1>1, <1>5, <2>1 DEF Locals, get_block_txs
  <2>3. ToSet(txs) \subseteq ToSet(BlockTxs[sync.hash])
    <3>1. CASE txs = <<>>
      <4>1. ToSet(txs) = {}
        BY <3>1 DEF ToSet
      <4> QED  BY <4>1
    <3> QED  BY <2>1, <3>1
  <2> QED  BY <2>2, <2>3 DEF BlockSource
<1>6. CASE next_tx \/ skip_missing \/ fetch_blob
  <2>1. sync.pc = "apply" /\ sync.todo # <<>> /\ sync.todo \in Seq(Txs)
    <3>1. job[SyncTask] # NoJob
      BY <1>6 DEF next_tx, skip_missing, fetch_blob, NoJob, Returned
    <3> QED  BY <1>1, <3>1 DEF DaemonInv, SyncTyped, Locals
  <2>2. PICK todo \in Seq(Txs) : todo = sync.todo /\ todo # <<>>
    BY <2>1
  <2>3. PICK rest : rest = Tail(todo)
    OBVIOUS
  <2>4. ToSet(rest) \subseteq ToSet(todo)
    <3>1. rest \in Seq(Txs) /\ \A n \in DOMAIN rest : n + 1 \in DOMAIN todo /\ rest[n] = todo[n + 1]
      BY <2>2, <2>3
    <3> QED  BY <3>1 DEF ToSet
  <2>5. /\ sync'.pc = "apply" /\ sync'.h = sync.h /\ sync'.hash = sync.hash
        /\ sync'.todo \in {todo, rest}
    BY <1>1, <1>6, <2>1, <2>2, <2>3 DEF Locals, next_tx, skip_missing, fetch_blob
  <2> QED  BY <2>1, <2>2, <2>4, <2>5 DEF BlockSource
<1>7. ASSUME \/ get_tip_height \/ check_cursor \/ backtrack_down \/ backtrack_found
             \/ backtrack_failed \/ rollback_return \/ scan_done \/ read_root \/ record_block
             \/ record_cursor \/ attest \/ crash
      PROVE  sync'.pc \notin {"txs", "apply"}
  <2>0. CASE get_tip_height
    <3>1. PICK last, tip : sync' = [Waiting EXCEPT !.pc = "check", !.tip = tip, !.last = last]
      BY <2>0 DEF get_tip_height
    <3>2. sync'.pc = "check"
      BY <3>1, WaitingTyped DEF Locals
    <3> QED  BY <3>2
  <2>1. CASE backtrack_failed \/ scan_done \/ crash
    <3>1. sync' = Waiting
      BY <2>1 DEF backtrack_failed, scan_done, crash
    <3>2. sync'.pc = "tick"
      BY <3>1 DEF Waiting
    <3> QED  BY <3>2
  <2>2. CASE check_cursor \/ backtrack_down \/ rollback_return
    BY <1>1, <2>2 DEF Locals, check_cursor, backtrack_down, rollback_return
  <2>3. CASE read_root \/ attest
    BY <1>1, <2>3 DEF Locals, read_root, attest
  <2>4. CASE backtrack_found \/ record_block \/ record_cursor
    BY <1>1, <2>4 DEF Locals, goto, backtrack_found, record_block, record_cursor
  <2> QED  BY <1>7, <2>0, <2>1, <2>2, <2>3, <2>4
<1>8. ASSUME \/ rollback_step \/ start_tx \/ tx_step \/ mempool_recv \/ mempool_step
             \/ mempool_return \/ tip_error \/ l1_grows \/ UNCHANGED vars
      PROVE  sync' = sync
  BY <1>8 DEF rollback_step, start_tx, tx_step, mempool_recv, mempool_step, mempool_return,
     tip_error, l1_grows, vars, writing
<1> QED  BY <1>2, <1>3, <1>4, <1>5, <1>6, <1>7, <1>8 DEF Next, SyncNext, MempoolNext

\* process_tx, on behalf of the sync loop and of the mempool listener.
LEMMA ProcessCovered ==
    ASSUME TxsWellFormed, NEW home, OneObjectPerSeal(home), UndoIdsDistinct, SpendsLater,
           DaemonInv, SealIndexSound, CoverInv(home),
           start_tx \/ tx_step \/ mempool_recv \/ mempool_step
    PROVE  TablesCovered(home)' /\ JobsCovered(home)' /\ WalkCovered(home)'
<1>1. SyncTask \in Tasks /\ MempoolTask \in Tasks /\ SyncTask # MempoolTask
  BY ScannerAssumption
<1>2. ASSUME NEW t \in Tasks, process_step(t)
      PROVE  TablesCovered(home)' /\ JobsCovered(home)' /\ WalkCovered(home)'
  <2>1. CASE execute(t)
    <3>1. UNCHANGED <<objects, undo_logs, rb>>
      BY <2>1 DEF execute, storeVars
    <3>2. TablesCovered(home)' /\ WalkCovered(home)'
      BY <3>1 DEF CoverInv, TablesCovered, WalkCovered
    <3> QED  BY <2>1, <3>2, ExecuteCovered
  <2>2. CASE record_undo(t)
    BY <2>2, UndoCovered
  <2>3. CASE commit_object(t)
    BY <2>3, CommitCovered
  <2>4. CASE store_blob(t) \/ update_tree(t) \/ record_transition(t)
    BY <2>4, RestCovered
  <2> QED  BY <1>2, <2>1, <2>2, <2>3, <2>4 DEF process_step
<1>3. ASSUME NEW t \in Tasks, NEW tx \in Txs, NEW h \in Heights, process_tx(t, tx, h),
             t # SyncTask => h = 0, t = SyncTask => h > 0,
             h > 0 => \E c \in L1Chains : h \in DOMAIN c /\ tx \in ToSet(BlockTxs[c[h]])
      PROVE  TablesCovered(home)' /\ JobsCovered(home)' /\ WalkCovered(home)'
  <2>1. UNCHANGED <<objects, undo_logs, rb>>
    BY <1>3 DEF process_tx, storeVars
  <2>2. TablesCovered(home)' /\ WalkCovered(home)'
    BY <2>1 DEF CoverInv, TablesCovered, WalkCovered
  <2>3. JobsCovered(home)'
    BY <1>3, StartCovered DEF CoverInv
  <2> QED  BY <2>2, <2>3
<1>4. CASE start_tx
  <2>1. sync.pc = "apply" /\ sync.todo # <<>> /\ process_tx(SyncTask, Head(sync.todo), sync.h)
    BY <1>4 DEF start_tx
  <2>2. sync \in Locals /\ sync.h \in 1..sync.tip
    BY <2>1 DEF DaemonInv, SyncTyped, LocalsFit
  <2>3. sync.h \in Heights /\ sync.h > 0
    <3>1. sync.tip \in Heights /\ sync.h \in Nat /\ sync.tip \in Nat
      BY <2>2, HeightFacts DEF Locals
    <3> QED  BY <2>2, <3>1, BelowHeight
  <2>4. PICK todo \in Seq(Txs) : todo = sync.todo /\ todo # <<>>
    BY <2>1, <2>2 DEF Locals
  <2>5. Head(todo) \in Txs /\ Head(todo) \in ToSet(todo)
    BY <2>4 DEF ToSet
  <2>6. \E c \in L1Chains : sync.h \in DOMAIN c /\ Head(todo) \in ToSet(BlockTxs[c[sync.h]])
    BY <2>1, <2>4, <2>5 DEF CoverInv, BlockSource
  <2> QED  BY <1>1, <1>3, <2>1, <2>3, <2>4, <2>5, <2>6
<1>5. CASE mempool_recv
  <2>1. PICK tx \in Mempool : process_tx(MempoolTask, tx, 0)
    BY <1>5 DEF mempool_recv
  <2>2. tx \in Txs /\ 0 \in Heights
    BY <2>1, HeightFacts DEF Txs
  <2> QED  BY <1>1, <1>3, <2>1, <2>2
<1> QED  BY <1>1, <1>2, <1>4, <1>5 DEF tx_step, mempool_step

\* No step leaves a change that cannot be undone.
LEMMA CoverStep ==
    ASSUME TxsWellFormed, NEW home, OneObjectPerSeal(home), UndoIdsDistinct, SpendsLater,
           DaemonInv, SealIndexSound, CoverInv(home), [Next]_vars
    PROVE  CoverInv(home)'
<1>1. BlockSource'
  BY SourceStep DEF CoverInv
<1>2. SyncTask \in Tasks /\ MempoolTask \in Tasks /\ SyncTask # MempoolTask
  BY ScannerAssumption
<1>3. ASSUME UNCHANGED <<objects, undo_logs, rb>>
      PROVE  TablesCovered(home)' /\ WalkCovered(home)'
  BY <1>3 DEF CoverInv, TablesCovered, WalkCovered
<1>4. ASSUME UNCHANGED <<undo_logs, job>> PROVE JobsCovered(home)'
  BY <1>4 DEF CoverInv, JobsCovered
<1>5. CASE \/ get_tip_height \/ check_cursor \/ backtrack_down \/ backtrack_failed
           \/ rollback_return \/ scan_done \/ get_block_hash \/ get_block_txs \/ read_root
           \/ record_block \/ record_cursor \/ attest \/ l1_grows \/ tip_error \/ UNCHANGED vars
  <2>1. UNCHANGED <<objects, undo_logs, rb, job>>
    BY <1>5 DEF get_tip_height, check_cursor, backtrack_down, backtrack_failed, rollback_return,
       scan_done, get_block_hash, get_block_txs, read_root, record_block, save_block,
       record_cursor, set_last_sync_block, attest, l1_grows, tip_error, reading, vars, procVars,
       storeVars
  <2> QED  BY <1>1, <1>3, <1>4, <2>1 DEF CoverInv
<1>6. CASE start_tx \/ tx_step \/ mempool_recv \/ mempool_step
  BY <1>1, <1>6, ProcessCovered DEF CoverInv
<1>7. CASE next_tx \/ fetch_blob \/ skip_missing \/ mempool_return
  <2>1. /\ UNCHANGED <<objects, undo_logs, rb>>
        /\ \E t \in Tasks : job' = [job EXCEPT ![t] = NoJob]
    BY <1>2, <1>7 DEF next_tx, fetch_blob, save_wasm, skip_missing, mempool_return, storeVars
  <2>2. NoJob.pc = "idle"
    BY DEF NoJob
  <2>3. JobsCovered(home)'
    BY <2>1, <2>2, OneJobCovered DEF CoverInv, DaemonInv
  <2> QED  BY <1>1, <1>3, <2>1, <2>3 DEF CoverInv
<1>8. CASE backtrack_found
  <2>1. sync.ancestor \in Nat /\ rollback_begin(Chain, sync.ancestor) /\ job' = job
    BY <1>8, HeightFacts DEF backtrack_found, DaemonInv, SyncTyped, LocalsFit, Locals
  <2>2. undo_logs' = undo_logs
    BY <2>1 DEF rollback_begin, tables
  <2> QED  BY <1>1, <1>4, <2>1, <2>2, WalkBegins DEF CoverInv
<1>9. CASE rollback_step
  <2>1. job[SyncTask] = NoJob /\ job' = job
    BY <1>9 DEF rollback_step, DaemonInv, SyncTyped
  <2>2. CASE rollback_undo
    <3>1. undo_logs' = undo_logs
      BY <2>2 DEF rollback_undo, tables
    <3> QED  BY <1>1, <1>4, <2>1, <2>2, <3>1, WalkGoesOn DEF CoverInv
  <2>3. CASE rollback_read \/ rollback_install
    <3>1. UNCHANGED <<objects, undo_logs>> /\ rb'.phase # "undo"
      BY <2>3 DEF rollback_read, rollback_install, tables, NoRollback
    <3>2. TablesCovered(home)' /\ WalkCovered(home)'
      BY <3>1 DEF CoverInv, TablesCovered, WalkCovered
    <3> QED  BY <1>1, <1>4, <2>1, <3>1, <3>2 DEF CoverInv
  <2>4. CASE rollback_commit
    <3>1. TablesCovered(home)' /\ WalkCovered(home)'
      BY <2>4, WalkCommits DEF CoverInv
    <3>2. JobsCovered(home)'
      <4> SUFFICES ASSUME NEW t \in Tasks, job[t].pc \in {"wasm", "undo", "execute", "commit"}
                   PROVE  JobCovered(home, undo_logs', t, job[t])
        BY <2>1 DEF JobsCovered
      <4>1. t # SyncTask
        BY <2>1 DEF NoJob
      <4>2. JobCovered(home, undo_logs, t, job[t]) /\ job[t].height = 0
        BY <4>1 DEF CoverInv, JobsCovered, JobCovered
      <4>3. rb \in Rollbacks
        BY <2>4, RollbackPhase DEF rollback_commit, DaemonInv
      <4>4. ASSUME NEW o, Logged(undo_logs, o, 0) PROVE Logged(undo_logs', o, 0)
        <5>1. rb.target \in Nat
          BY <4>3, HeightFacts DEF Rollbacks
        <5>2. PICK v \in undo_logs : v.chain = Chain /\ v.obj = o /\ v.height = 0
          BY <4>4 DEF Logged
        <5>3. v \in undo_logs'
          BY <2>4, <5>1, <5>2 DEF rollback_commit
        <5> QED  BY <5>2, <5>3 DEF Logged
      <4> QED  BY <4>1, <4>2, <4>4 DEF JobCovered, PrevCovered
    <3> QED  BY <1>1, <3>1, <3>2 DEF CoverInv
  <2> QED  BY <1>9, <2>2, <2>3, <2>4 DEF rollback_step
<1>10. CASE crash
  <2>1. UNCHANGED <<objects, undo_logs>> /\ rb'.phase = "idle" /\ job' = [t \in Tasks |-> NoJob]
    BY <1>10 DEF crash, open, tables, NoRollback
  <2>2. TablesCovered(home)' /\ WalkCovered(home)'
    BY <2>1 DEF CoverInv, TablesCovered, WalkCovered
  <2>3. JobsCovered(home)'
    BY <2>1 DEF JobsCovered, NoJob
  <2> QED  BY <1>1, <2>2, <2>3 DEF CoverInv
<1> QED  BY <1>5, <1>6, <1>7, <1>8, <1>9, <1>10 DEF Next, SyncNext, MempoolNext

\* Whoever writes, whatever calls fail and wherever a crash hits, the log that undoes
\* the last change of an object is in the table as long as the change is, provided no
\* transaction spends from two objects, undo ids do not collide, and no
\* reorganisation lets a transaction be mined as high as one that spends from it.
THEOREM UndoCoversCorrect ==
    ASSUME TxsWellFormed, NEW home, OneObjectPerSeal(home), UndoIdsDistinct, SpendsLater
    PROVE  Spec => []UndoCovers
<1>1. Init => DaemonInv /\ CoverInv(home)
  <2> SUFFICES ASSUME Init PROVE CoverInv(home)
    BY DaemonInit
  <2>1. /\ objects = [o \in ObjIds |-> Absent] /\ undo_logs = {} /\ rb.phase = "idle"
        /\ job = [t \in Tasks |-> NoJob] /\ sync.pc = "tick"
    BY DEF Init, ProcInit, StoreInit, NoRollback, Waiting
  <2>2. TablesCovered(home) /\ WalkCovered(home) /\ BlockSource
    BY <2>1 DEF TablesCovered, WalkCovered, BlockSource
  <2>3. JobsCovered(home)
    BY <2>1 DEF JobsCovered, NoJob
  <2> QED  BY <2>2, <2>3 DEF CoverInv
<1>2. DaemonInv /\ [Next]_vars => DaemonInv'
  BY DaemonStep
<1>3. DaemonInv /\ SealIndexSound /\ CoverInv(home) /\ [Next]_vars => CoverInv(home)'
  BY CoverStep
<1>4. ScannerTypeOK /\ CoverInv(home) => UndoCovers
  BY DEF CoverInv, TablesCovered, Logged, UndoCovers
<1> QED  BY <1>1, <1>2, <1>3, <1>4, DaemonIndexCorrect, ScannerTypeCorrect, PTL DEF Spec

-----------------------------------------------------------------------------
(* The replay, block by block and transaction by transaction.  Both are    *)
(* folds; what a fold computes is the last of a sequence of tables.        *)

\* A set of numbers has a least one.
LEMMA LeastOf ==
    ASSUME NEW S \in SUBSET Nat, S # {}
    PROVE  \E x \in S : \A y \in S : x <= y
<1> DEFINE R == OpToRel(<, Nat)
<1>1. \A x, y \in Nat : x < y => <<x, y>> \in R
  BY DEF OpToRel
<1>2. IsWellFoundedOn(R, Nat)
  BY NatLessThanWellFounded
<1> HIDE DEF R
<1>3. PICK x \in S : \A y \in S : ~(<<y, x>> \in R)
  BY <1>2, WFMin
<1>4. ASSUME NEW y \in S PROVE x <= y
  <2>1. x \in Nat /\ y \in Nat /\ ~(y < x)
    BY <1>1, <1>3, Zenon
  <2> QED  BY <2>1
<1> QED  BY <1>3, <1>4

LEMMA MaxIs ==
    ASSUME NEW n \in Nat, NEW s \in SUBSET (1..n), s # {}
    PROVE  Max(s) \in s /\ \A y \in s : Max(s) >= y
<1> DEFINE Down == {n - x : x \in s}
<1>1. \A x \in s : x \in Nat /\ x <= n
  OBVIOUS
<1>2. Down \in SUBSET Nat /\ Down # {}
  <2>1. \A x \in s : n - x \in Nat
    BY <1>1
  <2>2. \A y \in Down : y \in Nat
    BY <2>1
  <2>3. PICK x \in s : TRUE
    OBVIOUS
  <2>4. n - x \in Down
    BY <2>3
  <2> HIDE DEF Down
  <2> QED  BY <2>2, <2>4
<1>3. PICK m \in Down : \A y \in Down : m <= y
  <2> HIDE DEF Down
  <2> QED  BY <1>2, LeastOf
<1>4. PICK x \in s : m = n - x
  BY <1>3
<1>5. ASSUME NEW y \in s PROVE x >= y
  <2>1. n - y \in Down
    OBVIOUS
  <2>2. m <= n - y
    BY <1>3, <2>1
  <2> HIDE DEF Down
  <2> QED  BY <1>1, <1>4, <2>2
<1>6. \E z \in s : \A y \in s : z >= y
  BY <1>5
<1> QED  BY <1>6 DEF Max

\* One step of a replay: of a transaction at height op[2], or of a block of the
\* chain op[3] with the transactions op[2].
Folded(op, objs, x) ==
    IF op[1] = "tx" THEN replay_tx(objs, x, op[2])
    ELSE replay_block(objs, op[2][op[3][x]], x)

FoldOf(f, op, base, seq, n) ==
    f = [s \in SUBSET (1..n) |->
            IF s = {} THEN base ELSE Folded(op, f[s \ {Max(s)}], seq[Max(s)])]

LEMMA FoldExists ==
    ASSUME NEW op, NEW base, NEW seq, NEW D \in Nat
    PROVE  \E f : FoldOf(f, op, base, seq, D)
<1> DEFINE Climb(m, x) == Folded(op, m, x)
           Obeys(f, n) == f = [s \in SUBSET (1..n) |->
                IF s = {} THEN base ELSE Climb(f[s \ {Max(s)}], seq[Max(s)])]
           Bad == {n \in 0..D : ~ \E f : Obeys(f, n)}
<1> HIDE DEF Climb
<1>1. D \in Nat
  OBVIOUS
<1>2. Bad = {}
  <2> SUFFICES ASSUME Bad # {} PROVE FALSE
    OBVIOUS
  <2>1. PICK m \in Bad : \A y \in Bad : m <= y
    <3>1. Bad \in SUBSET Nat
      BY <1>1
    <3> HIDE DEF Bad
    <3> QED  BY <3>1, LeastOf
  <2>2. m # 0
    <3>1. SUBSET (1..0) = {{}}
      OBVIOUS
    <3>2. Obeys([s \in SUBSET (1..0) |-> base], 0)
      BY <3>1
    <3> HIDE DEF Obeys
    <3> QED  BY <2>1, <3>2
  <2>3. m \in Nat /\ m - 1 \in 0..D /\ m - 1 \notin Bad
    <3>1. m \in 0..D
      BY <2>1
    <3>2. m \in Nat /\ m - 1 \in 0..D /\ ~(m <= m - 1)
      BY <1>1, <2>2, <3>1
    <3> HIDE DEF Bad
    <3> QED  BY <2>1, <3>2
  <2>4. PICK f : Obeys(f, m - 1)
    BY <2>3
  <2>5. /\ \A s \in SUBSET (1..(m - 1)) : s \in SUBSET (1..m) /\ m \notin s
        /\ \A s \in SUBSET (1..m) : m \notin s => s \in SUBSET (1..(m - 1))
        /\ \A s \in SUBSET (1..m) : s \ {m} \in SUBSET (1..(m - 1))
    BY <2>2, <2>3
  <2> DEFINE g == [s \in SUBSET (1..m) |-> IF m \in s THEN Climb(f[s \ {m}], seq[m]) ELSE f[s]]
  <2>6. ASSUME NEW s \in SUBSET (1..m)
        PROVE  g[s] = IF s = {} THEN base ELSE Climb(g[s \ {Max(s)}], seq[Max(s)])
    <3>1. s # {} => Max(s) \in s /\ \A y \in s : Max(s) >= y
      BY <2>3, MaxIs
    <3>2. \A x \in SUBSET (1..(m - 1)) : g[x] = f[x]
      BY <2>5
    <3>3. CASE m \in s
      <4>1. Max(s) = m
        <5>1. Max(s) \in 1..m /\ Max(s) >= m
          BY <3>1, <3>3
        <5> HIDE DEF Bad
        <5> QED  BY <2>3, <5>1
      <4>2. g[s] = Climb(f[s \ {m}], seq[m])
        BY <3>3
      <4>3. g[s \ {m}] = f[s \ {m}]
        BY <2>5, <3>2
      <4> HIDE DEF g
      <4> QED  BY <3>3, <4>1, <4>2, <4>3
    <3>4. CASE m \notin s
      <4>1. s \in SUBSET (1..(m - 1)) /\ s \ {Max(s)} \in SUBSET (1..(m - 1))
        BY <2>5, <3>4
      <4>2. g[s] = f[s] /\ g[s \ {Max(s)}] = f[s \ {Max(s)}]
        BY <3>2, <4>1
      <4> HIDE DEF g
      <4> QED  BY <2>4, <4>1, <4>2
    <3> QED  BY <3>3, <3>4
  <2>7. Obeys(g, m)
    <3>1. g = [s \in SUBSET (1..m) |-> g[s]]
      OBVIOUS
    <3> HIDE DEF g
    <3> QED  BY <2>6, <3>1
  <2> HIDE DEF Obeys
  <2> QED  BY <2>1, <2>7
<1>3. \E f : Obeys(f, D)
  <2>1. D \in 0..D
    BY <1>1
  <2> HIDE DEF Obeys
  <2> QED  BY <1>2, <2>1
<1> QED  BY <1>3 DEF FoldOf, Climb

LEMMA FoldStarts ==
    ASSUME NEW op, NEW base, NEW seq, NEW D \in Nat, NEW iter, FoldOf(iter, op, base, seq, D)
    PROVE  iter[{}] = base
<1>1. {} \in SUBSET (1..D)
  OBVIOUS
<1> QED  BY <1>1 DEF FoldOf

\* The states a fold leads through.
FoldClimbs(f, op, seq, D) ==
    \A n \in 1..D : f[1..n] = Folded(op, f[1..(n - 1)], seq[n])

LEMMA FoldStates ==
    ASSUME NEW op, NEW base, NEW seq, NEW D \in Nat, NEW iter, FoldOf(iter, op, base, seq, D)
    PROVE  FoldClimbs(iter, op, seq, D)
<1>1. D \in Nat
  OBVIOUS
<1>2. ASSUME NEW n \in 1..D PROVE iter[1..n] = Folded(op, iter[1..(n - 1)], seq[n])
  <2>1. /\ 1..n \in SUBSET (1..D) /\ 1..n # {} /\ n \in Nat /\ n \in 1..n
        /\ (1..n) \ {n} = 1..(n - 1)
    <3>1. n \in Nat /\ n \in 1..n
      BY <1>1
    <3>2. \A i \in 1..n : i \in 1..D
      BY <1>1
    <3>3. \A i \in 1..n : i # n <=> i \in 1..(n - 1)
      BY <3>1
    <3>4. \A i \in 1..(n - 1) : i \in 1..n
      BY <3>1
    <3> QED  BY <3>1, <3>2, <3>3, <3>4
  <2>2. Max(1..n) = n
    <3>1. Max(1..n) \in 1..n /\ Max(1..n) >= n
      BY <2>1, MaxIs
    <3> QED  BY <2>1, <3>1
  <2> QED  BY <2>1, <2>2 DEF FoldOf
<1> QED  BY <1>2 DEF FoldClimbs

\* The tables a block leads through, and those a chain leads through.
BlockRuns(F, objs, txs, h, D) ==
    F[0] = objs /\ \A n \in 1..D : F[n] = replay_tx(F[n - 1], txs[n], h)

ChainRuns(F, chain, txs, from, D) ==
    /\ F[0] = NoObjects
    /\ \A n \in 1..D : F[n] = replay_block(F[n - 1], txs[chain[from + n - 1]], from + n - 1)

\* A block is replayed transaction by transaction.
LEMMA BlockStates ==
    ASSUME NEW objs, NEW txs, NEW D \in Nat, DOMAIN txs = 1..D, NEW h
    PROVE  \E F : BlockRuns(F, objs, txs, h, D) /\ replay_block(objs, txs, h) = F[D]
<1> DEFINE op == <<"tx", h>>
           Obeys(f) == f = [s \in SUBSET (1..D) |->
                IF s = {} THEN objs ELSE replay_tx(f[s \ {Max(s)}], txs[Max(s)], h)]
<1>1. \A m, x : Folded(op, m, x) = replay_tx(m, x, h)
  BY DEF Folded
<1>2. \A f : FoldOf(f, op, objs, txs, D) <=> Obeys(f)
  <2> HIDE DEF op
  <2> QED  BY <1>1 DEF FoldOf
<1>3. \E f : Obeys(f)
  BY <1>2, FoldExists
<1> DEFINE iter == CHOOSE f : Obeys(f)
<1>4. Obeys(iter)
  BY <1>3
<1>5. replay_block(objs, txs, h) = iter[1..D]
  BY DEF replay_block, FoldLeft, MapThenFoldSet
<1>6. FoldOf(iter, op, objs, txs, D)
  BY <1>2, <1>4
<1> HIDE DEF iter, op
<1>7. /\ iter[1..0] = objs
      /\ \A n \in 1..D : iter[1..n] = replay_tx(iter[1..(n - 1)], txs[n], h)
  <2>1. PICK p : p = op
    OBVIOUS
  <2>2. FoldOf(iter, p, objs, txs, D)
    BY <1>6, <2>1
  <2>3. iter[1..0] = objs
    <3>1. iter[{}] = objs
      BY <2>2, FoldStarts
    <3>2. 1..0 = {}
      OBVIOUS
    <3> QED  BY <3>1, <3>2
  <2>4. \A n \in 1..D : iter[1..n] = Folded(p, iter[1..(n - 1)], txs[n])
    <3>1. FoldClimbs(iter, p, txs, D)
      BY <2>2, FoldStates
    <3> QED  BY <3>1 DEF FoldClimbs
  <2> QED  BY <1>1, <2>1, <2>3, <2>4
<1> DEFINE F == [n \in 0..D |-> iter[1..n]]
<1>8. F[0] = objs /\ F[D] = iter[1..D]
  BY <1>7
<1>9. ASSUME NEW n \in 1..D PROVE F[n] = replay_tx(F[n - 1], txs[n], h)
  <2>1. n \in 0..D /\ n - 1 \in 0..D
    OBVIOUS
  <2>2. F[n] = iter[1..n] /\ F[n - 1] = iter[1..(n - 1)]
    BY <2>1
  <2> HIDE DEF F
  <2> QED  BY <1>7, <2>2
<1> HIDE DEF F
<1>10. BlockRuns(F, objs, txs, h, D)
  BY <1>8, <1>9 DEF BlockRuns
<1> QED  BY <1>5, <1>8, <1>10

\* A chain is replayed block by block.
LEMMA ChainStates ==
    ASSUME NEW chain, NEW txs, NEW from \in Nat, NEW to \in Int, NEW D \in Nat, D = to - from + 1
    PROVE  \E F : ChainRuns(F, chain, txs, from, D) /\ replay(chain, txs, from, to) = F[D]
<1> DEFINE op == <<"block", txs, chain>>
           seq == [n \in 1..(to - from + 1) |-> from + n - 1]
           Obeys(f) == f = [s \in SUBSET (1..D) |->
                IF s = {} THEN NoObjects
                ELSE replay_block(f[s \ {Max(s)}], txs[chain[seq[Max(s)]]], seq[Max(s)])]
<1>1. \A m, x : Folded(op, m, x) = replay_block(m, txs[chain[x]], x)
  BY DEF Folded
<1>2. \A f : FoldOf(f, op, NoObjects, seq, D) <=> Obeys(f)
  <2> SUFFICES ASSUME NEW f PROVE FoldOf(f, op, NoObjects, seq, D) <=> Obeys(f)
    OBVIOUS
  <2>1. PICK s : s = seq
    OBVIOUS
  <2>0. PICK p : p = op /\ \A m, x : Folded(p, m, x) = replay_block(m, txs[chain[x]], x)
    BY <1>1
  <2>2. ASSUME NEW x \in SUBSET (1..D)
        PROVE  Folded(p, f[x \ {Max(x)}], s[Max(x)]) =
                  replay_block(f[x \ {Max(x)}], txs[chain[s[Max(x)]]], s[Max(x)])
    BY <2>0
  <2>3. [x \in SUBSET (1..D) |-> IF x = {} THEN NoObjects
                                 ELSE Folded(p, f[x \ {Max(x)}], s[Max(x)])]
      = [x \in SUBSET (1..D) |-> IF x = {} THEN NoObjects
             ELSE replay_block(f[x \ {Max(x)}], txs[chain[s[Max(x)]]], s[Max(x)])]
    BY <2>2
  <2>4. FoldOf(f, p, NoObjects, s, D) <=>
          f = [x \in SUBSET (1..D) |-> IF x = {} THEN NoObjects
             ELSE replay_block(f[x \ {Max(x)}], txs[chain[s[Max(x)]]], s[Max(x)])]
    BY <2>3 DEF FoldOf
  <2> HIDE DEF op, seq
  <2> QED  BY <2>0, <2>1, <2>4
<1>3. \E f : Obeys(f)
  <2>1. PICK s : s = seq
    OBVIOUS
  <2>2. \E f : FoldOf(f, op, NoObjects, s, D)
    BY FoldExists
  <2> QED  BY <1>2, <2>1, <2>2
<1> DEFINE iter == CHOOSE f : Obeys(f)
<1>4. Obeys(iter)
  BY <1>3
<1>5. replay(chain, txs, from, to) = iter[1..D]
  BY DEF replay, FoldLeft, MapThenFoldSet
<1>6. FoldOf(iter, op, NoObjects, seq, D)
  BY <1>2, <1>4
<1>7. \A n \in 1..D : seq[n] = from + n - 1
  OBVIOUS
<1> HIDE DEF iter, op, seq
<1>8. /\ iter[1..0] = NoObjects
      /\ \A n \in 1..D : iter[1..n] =
            replay_block(iter[1..(n - 1)], txs[chain[from + n - 1]], from + n - 1)
  <2>1. PICK p, s : p = op /\ s = seq
    OBVIOUS
  <2>2. FoldOf(iter, p, NoObjects, s, D)
    BY <1>6, <2>1
  <2>3. iter[1..0] = NoObjects
    <3>1. iter[{}] = NoObjects
      BY <2>2, FoldStarts
    <3>2. 1..0 = {}
      OBVIOUS
    <3> QED  BY <3>1, <3>2
  <2>4. \A n \in 1..D : iter[1..n] = Folded(p, iter[1..(n - 1)], s[n])
    <3>1. FoldClimbs(iter, p, s, D)
      BY <2>2, FoldStates
    <3> QED  BY <3>1 DEF FoldClimbs
  <2> QED  BY <1>1, <1>7, <2>1, <2>3, <2>4
<1> DEFINE F == [n \in 0..D |-> iter[1..n]]
<1>9. F[0] = NoObjects /\ F[D] = iter[1..D]
  BY <1>8
<1>10. ASSUME NEW n \in 1..D
       PROVE  F[n] = replay_block(F[n - 1], txs[chain[from + n - 1]], from + n - 1)
  <2>1. n \in 0..D /\ n - 1 \in 0..D
    OBVIOUS
  <2>2. F[n] = iter[1..n] /\ F[n - 1] = iter[1..(n - 1)]
    BY <2>1
  <2> HIDE DEF F
  <2> QED  BY <1>8, <2>2
<1> HIDE DEF F
<1>11. ChainRuns(F, chain, txs, from, D)
  BY <1>9, <1>10 DEF ChainRuns
<1> QED  BY <1>5, <1>9, <1>11

\* Two sequences of tables that start and go on in the same way are the same.
LEMMA SameStates ==
    ASSUME NEW chain, NEW txs, NEW from \in Nat, NEW D \in Nat, NEW F, NEW G,
           ChainRuns(F, chain, txs, from, D), ChainRuns(G, chain, txs, from, D)
    PROVE  F[D] = G[D]
<1> DEFINE Bad == {n \in 0..D : F[n] # G[n]}
<1>1. Bad = {}
  <2> SUFFICES ASSUME Bad # {} PROVE FALSE
    OBVIOUS
  <2>1. Bad \in SUBSET Nat
    OBVIOUS
  <2>2. PICK m \in Bad : \A y \in Bad : m <= y
    <3> HIDE DEF Bad
    <3> QED  BY <2>1, LeastOf
  <2>3. m \in 0..D /\ F[m] # G[m] /\ m # 0
    BY <2>2 DEF ChainRuns
  <2>4. m \in 1..D /\ m - 1 \in 0..D /\ ~(m <= m - 1)
    BY <2>3
  <2>5. F[m - 1] = G[m - 1]
    BY <2>2, <2>4
  <2>6. /\ F[m] = replay_block(F[m - 1], txs[chain[from + m - 1]], from + m - 1)
        /\ G[m] = replay_block(G[m - 1], txs[chain[from + m - 1]], from + m - 1)
    BY <2>4 DEF ChainRuns
  <2> HIDE DEF Bad
  <2> QED  BY <2>3, <2>5, <2>6
<1>2. D \in 0..D
  OBVIOUS
<1> QED  BY <1>1, <1>2

LEMMA ReplayNone ==
    ASSUME NEW chain, NEW txs, NEW from \in Nat
    PROVE  replay(chain, txs, from, from - 1) = NoObjects
<1>1. PICK to \in Int, D \in Nat : to = from - 1 /\ D = to - from + 1 /\ D = 0
  OBVIOUS
<1>2. D = to - from + 1
  BY <1>1
<1>3. PICK F : ChainRuns(F, chain, txs, from, D) /\ replay(chain, txs, from, to) = F[D]
  BY <1>2, ChainStates
<1> QED  BY <1>1, <1>3 DEF ChainRuns

LEMMA ReplayNext ==
    ASSUME NEW chain, NEW txs, NEW from \in Nat, NEW k \in Nat, from <= k
    PROVE  replay(chain, txs, from, k) =
               replay_block(replay(chain, txs, from, k - 1), txs[chain[k]], k)
<1>1. PICK last \in Int, D \in Nat, C \in Nat :
          /\ last = k - 1 /\ C = last - from + 1 /\ D = k - from + 1
          /\ D = C + 1 /\ from + D - 1 = k
  <2>1. k - 1 \in Int /\ k - from + 1 \in Nat /\ (k - 1) - from + 1 \in Nat
    OBVIOUS
  <2> QED  BY <2>1
<1>2. D = k - from + 1 /\ C = last - from + 1 /\ k \in Int
  BY <1>1
<1>3. PICK F : ChainRuns(F, chain, txs, from, D) /\ replay(chain, txs, from, k) = F[D]
  BY <1>2, ChainStates
<1>4. PICK G : ChainRuns(G, chain, txs, from, C) /\ replay(chain, txs, from, last) = G[C]
  BY <1>2, ChainStates
<1>5. F[C] = G[C]
  <2>1. \A n \in 1..C : n \in 1..D
    BY <1>1
  <2>2. ChainRuns(F, chain, txs, from, C)
    BY <1>3, <2>1 DEF ChainRuns
  <2> QED  BY <1>4, <2>2, SameStates
<1>6. D \in 1..D /\ D - 1 = C
  BY <1>1
<1>7. F[D] = replay_block(F[D - 1], txs[chain[from + D - 1]], from + D - 1)
  BY <1>3, <1>6 DEF ChainRuns
<1> QED  BY <1>1, <1>3, <1>4, <1>5, <1>6, <1>7

\* A replay looks at the blocks it replays only.
Agree(c, d, from, to) == \A h \in from..to : c[h] = d[h]

LEMMA ReplayLocal ==
    ASSUME NEW c, NEW d, NEW txs, NEW from \in Nat, NEW to \in Nat, Agree(c, d, from, to),
           NEW k \in (from - 1)..to
    PROVE  replay(c, txs, from, k) = replay(d, txs, from, k)
<1> DEFINE Bad == {n \in 0..(to - from + 1) :
                       replay(c, txs, from, from + n - 1) # replay(d, txs, from, from + n - 1)}
<1>1. Bad = {}
  <2> SUFFICES ASSUME Bad # {} PROVE FALSE
    OBVIOUS
  <2>1. Bad \in SUBSET Nat
    OBVIOUS
  <2>2. PICK m \in Bad : \A y \in Bad : m <= y
    <3> HIDE DEF Bad
    <3> QED  BY <2>1, LeastOf
  <2>3. m \in 0..(to - from + 1)
    BY <2>2
  <2>4. m # 0
    <3>1. replay(c, txs, from, from - 1) = replay(d, txs, from, from - 1)
      BY ReplayNone
    <3>2. from + 0 - 1 = from - 1
      OBVIOUS
    <3> QED  BY <2>2, <3>1, <3>2
  <2>5. PICK x \in Nat : x = from + m - 1 /\ from <= x /\ x \in from..to
    BY <2>3, <2>4
  <2>6. m - 1 \in 0..(to - from + 1) /\ ~(m <= m - 1) /\ from + (m - 1) - 1 = x - 1
    BY <2>3, <2>4, <2>5
  <2>7. replay(c, txs, from, x - 1) = replay(d, txs, from, x - 1)
    BY <2>2, <2>6
  <2>8. replay(c, txs, from, x) # replay(d, txs, from, x)
    BY <2>2, <2>5
  <2>9. c[x] = d[x]
    BY <2>5 DEF Agree
  <2> HIDE DEF Bad
  <2> QED  BY <2>5, <2>7, <2>8, <2>9, ReplayNext
<1>2. PICK n \in 0..(to - from + 1) : from + n - 1 = k
  <2>1. k - from + 1 \in 0..(to - from + 1) /\ from + (k - from + 1) - 1 = k
    OBVIOUS
  <2> QED  BY <2>1
<1> QED  BY <1>1, <1>2

-----------------------------------------------------------------------------
(* What one transaction changes.                                           *)

Table == [ObjIds -> Object \cup {Absent}]

\* Every object of a table sits on a seal of its own.
Owned(home, objs) ==
    \A o \in ObjIds : objs[o] # Absent =>
        objs[o].seal \in CarrierSeals /\ home[objs[o].seal] = o

\* The transaction creates object o at output i.
Creating(tx, i, o) ==
    /\ validate_fee(tx) /\ i \in DOMAIN tx.vout /\ i \in Nat /\ tx.vout[i].env # Absent
    /\ is_create(tx.vout[i].env) /\ o = ObjOf[tx.id]

\* The transaction calls object o at output i.
Calling(objs, tx, i, o) ==
    /\ validate_fee(tx) /\ i \in DOMAIN tx.vout /\ i \in Nat /\ tx.vout[i].env # Absent
    /\ ~ is_create(tx.vout[i].env)
    /\ o \in ObjIds /\ objs[o] # Absent /\ objs[o].seal \in ToSet(tx.vin)

new_state(r, tx, i) == Exec[<<r.code, r.state, tx.vout[i].env.call>>]

LEMMA ReplayTxCases ==
    ASSUME NEW tx, WellFormed(tx), NEW objs, NEW h
    PROVE  \/ replay_tx(objs, tx, h) = objs
           \/ \E i, o : Creating(tx, i, o) /\ replay_tx(objs, tx, h) = [objs EXCEPT ![o] = created(tx, i, h)]
           \/ \E i, o : /\ Calling(objs, tx, i, o)
                        /\ replay_tx(objs, tx, h) =
                             [objs EXCEPT ![o] = called(@, tx, i, h, new_state(objs[o], tx, i))]
                        /\ new_state(objs[o], tx, i) # Absent
<1> DEFINE ins == spending(objs, tx)
           deciding == deciding_outputs(tx, ins # {})
           i == Min(deciding)
<1>1. CASE deciding = {} \/ ~validate_fee(tx)
  BY <1>1 DEF replay_tx
<1>2. CASE deciding # {} /\ validate_fee(tx)
  <2>1. PICK k : k = i
    OBVIOUS
  <2>2. PICK b \in BOOLEAN : b = (ins # {})
    OBVIOUS
  <2>3. /\ k \in Nat /\ k \in DOMAIN tx.vout /\ tx.vout[k].env # Absent
        /\ ~ is_create(tx.vout[k].env) => b
    BY <1>2, <2>1, <2>2, DecidingIs
  <2>4. CASE is_create(tx.vout[k].env)
    <3>1. PICK o : o = ObjOf[tx.id]
      OBVIOUS
    <3>2. replay_tx(objs, tx, h) = [objs EXCEPT ![o] = created(tx, k, h)]
      BY <1>2, <2>1, <2>4, <3>1 DEF replay_tx
    <3>3. Creating(tx, k, o)
      BY <1>2, <2>3, <2>4, <3>1 DEF Creating
    <3> QED  BY <3>2, <3>3
  <2>5. CASE ~ is_create(tx.vout[k].env)
    <3>1. ins # {}
      BY <2>2, <2>3, <2>5
    <3>2. PICK m \in ins : m = Min(ins)
      <4>1. ins \in SUBSET Nat
        BY DEF WellFormed, spending
      <4> HIDE DEF ins
      <4> QED  BY <3>1, <4>1, MinIs
    <3>3. m \in DOMAIN tx.vin /\ holders(objs, tx.vin[m]) # {}
      BY <3>2 DEF spending
    <3>4. PICK o : o = CHOOSE x \in holders(objs, tx.vin[m]) : TRUE
      OBVIOUS
    <3>5. o \in holders(objs, tx.vin[m])
      BY <3>3, <3>4
    <3>6. tx.vin[m] \in ToSet(tx.vin)
      BY <3>3 DEF ToSet
    <3>7. Calling(objs, tx, k, o)
      BY <1>2, <2>3, <2>5, <3>5, <3>6 DEF Calling, holders
    <3>8. replay_tx(objs, tx, h) = replay_call(objs, tx, k, h, o)
      BY <1>2, <2>1, <2>5, <3>2, <3>4 DEF replay_tx
    <3>9. CASE new_state(objs[o], tx, k) = Absent
      BY <3>8, <3>9 DEF replay_call, new_state
    <3>10. CASE new_state(objs[o], tx, k) # Absent
      <4>1. replay_tx(objs, tx, h) =
                [objs EXCEPT ![o] = called(@, tx, k, h, new_state(objs[o], tx, k))]
        BY <3>8, <3>10 DEF replay_call, new_state
      <4> QED  BY <3>7, <3>10, <4>1
    <3> QED  BY <3>9, <3>10
  <2> QED  BY <2>4, <2>5
<1> QED  BY <1>1, <1>2

\* A record that a call leaves.
LEMMA CalledIs ==
    ASSUME NEW tx, WellFormed(tx), NEW objs \in Table, NEW i, NEW o, Calling(objs, tx, i, o),
           NEW h \in Heights, NEW r, r = called(objs[o], tx, i, h, new_state(objs[o], tx, i)),
           new_state(objs[o], tx, i) # Absent
    PROVE  /\ r \in Object /\ r.seal = seal_of(tx, i) /\ r.updated_at = h
           /\ r.code = objs[o].code
<1>1. PICK prev \in Object : prev = objs[o]
  BY DEF Calling, Table
<1>2. PICK st : st = new_state(prev, tx, i)
  OBVIOUS
<1>3. tx.vout[i].env.call \in Calls /\ i \in DOMAIN tx.vout /\ tx.vout[i].env # Absent
  BY DEF Calling, WellFormed
<1>4. st \in States
  <2>1. prev.code \in Codes /\ prev.state \in States
    BY <1>1 DEF Object
  <2> QED  BY <1>1, <1>2, <1>3, <2>1, ProcessorAssumption DEF new_state
<1>5. called(prev, tx, i, h, st) \in Object
  BY <1>3, <1>4, CalledType
<1>6. /\ called(prev, tx, i, h, st).seal = seal_of(tx, i)
      /\ called(prev, tx, i, h, st).updated_at = h
      /\ called(prev, tx, i, h, st).code = prev.code
  BY <1>1 DEF called, Object
<1> QED  BY <1>1, <1>2, <1>5, <1>6

LEMMA CreatedIs ==
    ASSUME NEW tx, WellFormed(tx), NEW i, NEW o, Creating(tx, i, o), NEW h \in Heights,
           NEW r, r = created(tx, i, h)
    PROVE  /\ r \in Object /\ r.seal = seal_of(tx, i) /\ r.updated_at = h
           /\ r.code = default_to(tx.vout[i].env.code, default_to(tx.vout[i].env.blob, DefaultCode))
<1>1. r \in Object
  BY CreatedType DEF Creating
<1> QED  BY <1>1 DEF created

\* A seal that a call spends and the one it goes to belong to the object.
LEMMA CallStays ==
    ASSUME TxsWellFormed, NEW home, OneObjectPerSeal(home), NEW tx \in Txs,
           NEW objs \in Table, Owned(home, objs), NEW i, NEW o, Calling(objs, tx, i, o)
    PROVE  /\ seal_of(tx, i) \in carrier_seals(tx) /\ home[seal_of(tx, i)] = o
           /\ \A s \in ToSet(tx.vin) \cap CarrierSeals : home[s] = o
<1>1. seal_of(tx, i) \in carrier_seals(tx)
  BY CarriesIs DEF Calling
<1>2. i \in DOMAIN tx.vout /\ ~ is_create(tx.vout[i].env)
  BY DEF Calling
<1>3. \A s \in ToSet(tx.vin) \cap CarrierSeals : home[seal_of(tx, i)] = home[s]
  BY <1>1, <1>2 DEF OneObjectPerSeal
<1>4. objs[o].seal \in ToSet(tx.vin) \cap CarrierSeals /\ home[objs[o].seal] = o
  BY DEF Calling, Owned
<1> QED  BY <1>1, <1>3, <1>4

LEMMA CreateOwns ==
    ASSUME TxsWellFormed, NEW home, OneObjectPerSeal(home), NEW tx \in Txs,
           NEW i, NEW o, Creating(tx, i, o)
    PROVE  /\ seal_of(tx, i) \in carrier_seals(tx) /\ home[seal_of(tx, i)] = o
           /\ o \in ObjIds
<1>1. seal_of(tx, i) \in carrier_seals(tx)
  BY CarriesIs DEF Creating
<1>2. i \in DOMAIN tx.vout /\ is_create(tx.vout[i].env) /\ o = ObjOf[tx.id]
  BY DEF Creating
<1>3. tx.id \in TxIds
  BY DEF TxsWellFormed, WellFormed
<1> QED  BY <1>1, <1>2, <1>3, ProcessorAssumption DEF OneObjectPerSeal

\* What a transaction does to an object it changes.
LEMMA ChangeIs ==
    ASSUME TxsWellFormed, NEW home, OneObjectPerSeal(home), NEW tx \in Txs, NEW h \in Heights,
           NEW objs \in Table, Owned(home, objs), NEW o \in ObjIds,
           NEW r, r = replay_tx(objs, tx, h)[o], r # objs[o]
    PROVE  /\ r \in Object /\ r.updated_at = h /\ r.seal \in carrier_seals(tx) /\ home[r.seal] = o
           /\ \/ \E i : Creating(tx, i, o) /\ r = created(tx, i, h)
              \/ \E i : Calling(objs, tx, i, o) /\ r.seal = seal_of(tx, i) /\ r.code = objs[o].code
<1>1. WellFormed(tx)
  BY DEF TxsWellFormed
<1>2. replay_tx(objs, tx, h) # objs
  OBVIOUS
<1>3. ASSUME NEW i, NEW x, Creating(tx, i, x), replay_tx(objs, tx, h) = [objs EXCEPT ![x] = created(tx, i, h)]
      PROVE  r \in Object /\ r.updated_at = h /\ r.seal \in carrier_seals(tx) /\ home[r.seal] = o
             /\ Creating(tx, i, o) /\ r = created(tx, i, h)
  <2>1. PICK new : new = created(tx, i, h)
    OBVIOUS
  <2>2. x = o /\ r = new
    BY <1>3, <2>1 DEF Table
  <2>3. new \in Object /\ new.seal = seal_of(tx, i) /\ new.updated_at = h
    BY <1>1, <1>3, <2>1, CreatedIs
  <2>4. seal_of(tx, i) \in carrier_seals(tx) /\ home[seal_of(tx, i)] = x
    BY <1>3, CreateOwns
  <2> QED  BY <1>3, <2>1, <2>2, <2>3, <2>4
<1>4. ASSUME NEW i, NEW x, Calling(objs, tx, i, x), new_state(objs[x], tx, i) # Absent,
             replay_tx(objs, tx, h) = [objs EXCEPT ![x] = called(@, tx, i, h, new_state(objs[x], tx, i))]
      PROVE  r \in Object /\ r.updated_at = h /\ r.seal \in carrier_seals(tx) /\ home[r.seal] = o
             /\ Calling(objs, tx, i, o) /\ r.seal = seal_of(tx, i) /\ r.code = objs[o].code
  <2>1. PICK new : new = called(objs[x], tx, i, h, new_state(objs[x], tx, i))
    OBVIOUS
  <2>2. x \in ObjIds /\ replay_tx(objs, tx, h) = [objs EXCEPT ![x] = new]
    BY <1>4, <2>1 DEF Calling, Table
  <2>3. x = o /\ r = new
    BY <2>2 DEF Table
  <2>4. new \in Object /\ new.seal = seal_of(tx, i) /\ new.updated_at = h /\ new.code = objs[x].code
    BY <1>1, <1>4, <2>1, CalledIs
  <2>5. seal_of(tx, i) \in carrier_seals(tx) /\ home[seal_of(tx, i)] = x
    BY <1>4, CallStays
  <2> QED  BY <1>4, <2>3, <2>4, <2>5
<1> QED  BY <1>1, <1>2, <1>3, <1>4, ReplayTxCases

\* The table stays a table, with every object on a seal of its own.
LEMMA ReplayTxTyped ==
    ASSUME TxsWellFormed, NEW home, OneObjectPerSeal(home), NEW tx \in Txs, NEW h \in Heights,
           NEW objs \in Table, Owned(home, objs)
    PROVE  replay_tx(objs, tx, h) \in Table /\ Owned(home, replay_tx(objs, tx, h))
<1>1. PICK new : new = replay_tx(objs, tx, h)
  OBVIOUS
<1>2. new = [o \in ObjIds |-> new[o]]
  <2>1. WellFormed(tx)
    BY DEF TxsWellFormed
  <2>2. \/ new = objs
        \/ \E x, r : new = [objs EXCEPT ![x] = r]
    <3>1. CASE new = objs
      BY <3>1
    <3>2. ASSUME NEW i, NEW o, new = [objs EXCEPT ![o] = created(tx, i, h)]
          PROVE  \E x, r : new = [objs EXCEPT ![x] = r]
      BY <3>2
    <3>3. ASSUME NEW i, NEW o, Calling(objs, tx, i, o),
                 new = [objs EXCEPT ![o] = called(@, tx, i, h, new_state(objs[o], tx, i))]
          PROVE  \E x, r : new = [objs EXCEPT ![x] = r]
      <4>1. new = [objs EXCEPT ![o] = called(objs[o], tx, i, h, new_state(objs[o], tx, i))]
        BY <3>3 DEF Calling, Table
      <4> QED  BY <4>1
    <3> QED  BY <1>1, <2>1, <3>1, <3>2, <3>3, ReplayTxCases
  <2> QED  BY <2>2 DEF Table
<1>3. ASSUME NEW o \in ObjIds
      PROVE  /\ new[o] \in Object \cup {Absent}
             /\ new[o] # Absent => new[o].seal \in CarrierSeals /\ home[new[o].seal] = o
  <2>1. CASE new[o] = objs[o]
    BY <2>1 DEF Table, Owned
  <2>2. CASE new[o] # objs[o]
    <3>1. PICK r : r = new[o]
      OBVIOUS
    <3>2. r \in Object /\ r.seal \in carrier_seals(tx) /\ home[r.seal] = o
      BY <1>1, <2>2, <3>1, ChangeIs
    <3> QED  BY <3>1, <3>2, CarriesIs
  <2> QED  BY <2>1, <2>2
<1> QED  BY <1>1, <1>2, <1>3 DEF Table, Owned

\* Tables that agree on what a transaction spends are changed in the same way.
LEMMA SameView ==
    ASSUME NEW tx, WellFormed(tx), NEW before \in Table, NEW objs \in Table, NEW h,
           \A s \in ToSet(tx.vin) : /\ holders(objs, s) = holders(before, s)
                                    /\ \A o \in holders(before, s) : objs[o] = before[o]
    PROVE  \/ replay_tx(before, tx, h) = before /\ replay_tx(objs, tx, h) = objs
           \/ \E i, o : /\ Creating(tx, i, o)
                        /\ replay_tx(before, tx, h) = [before EXCEPT ![o] = created(tx, i, h)]
                        /\ replay_tx(objs, tx, h) = [objs EXCEPT ![o] = created(tx, i, h)]
           \/ \E o \in ObjIds : \E r : /\ before[o] = objs[o]
                                       /\ replay_tx(before, tx, h) = [before EXCEPT ![o] = r]
                                       /\ replay_tx(objs, tx, h) = [objs EXCEPT ![o] = r]
<1> DEFINE ins == spending(before, tx)
           deciding == deciding_outputs(tx, ins # {})
           i == Min(deciding)
<1>1. spending(objs, tx) = ins
  BY DEF spending, ToSet
<1>2. CASE deciding = {} \/ ~validate_fee(tx)
  BY <1>1, <1>2 DEF replay_tx
<1>3. CASE deciding # {} /\ validate_fee(tx)
  <2>1. PICK k : k = i
    OBVIOUS
  <2>2. PICK b \in BOOLEAN : b = (ins # {})
    OBVIOUS
  <2>3. /\ k \in Nat /\ k \in DOMAIN tx.vout /\ tx.vout[k].env # Absent
        /\ ~ is_create(tx.vout[k].env) => b
    BY <1>3, <2>1, <2>2, DecidingIs
  <2>4. CASE is_create(tx.vout[k].env)
    <3>1. PICK o : o = ObjOf[tx.id]
      OBVIOUS
    <3>2. /\ replay_tx(before, tx, h) = [before EXCEPT ![o] = created(tx, k, h)]
          /\ replay_tx(objs, tx, h) = [objs EXCEPT ![o] = created(tx, k, h)]
      BY <1>1, <1>3, <2>1, <2>4, <3>1 DEF replay_tx
    <3>3. Creating(tx, k, o)
      BY <1>3, <2>3, <2>4, <3>1 DEF Creating
    <3> QED  BY <3>2, <3>3
  <2>5. CASE ~ is_create(tx.vout[k].env)
    <3>1. ins # {}
      BY <2>2, <2>3, <2>5
    <3>2. PICK m \in ins : m = Min(ins)
      <4>1. ins \in SUBSET Nat
        BY DEF WellFormed, spending
      <4> HIDE DEF ins
      <4> QED  BY <3>1, <4>1, MinIs
    <3>3. m \in DOMAIN tx.vin /\ holders(before, tx.vin[m]) # {} /\ tx.vin[m] \in ToSet(tx.vin)
      BY <3>2 DEF spending, ToSet
    <3>4. PICK o : o = CHOOSE x \in holders(before, tx.vin[m]) : TRUE
      OBVIOUS
    <3>5. o \in holders(before, tx.vin[m]) /\ holders(objs, tx.vin[m]) = holders(before, tx.vin[m])
      BY <3>3, <3>4
    <3>6. o \in ObjIds /\ objs[o] = before[o]
      BY <3>3, <3>5 DEF holders
    <3>7. /\ replay_tx(before, tx, h) = replay_call(before, tx, k, h, o)
          /\ replay_tx(objs, tx, h) = replay_call(objs, tx, k, h, o)
      BY <1>1, <1>3, <2>1, <2>5, <3>2, <3>4, <3>5 DEF replay_tx
    <3>8. CASE new_state(before[o], tx, k) = Absent
      BY <3>6, <3>7, <3>8 DEF replay_call, new_state
    <3>9. CASE new_state(before[o], tx, k) # Absent
      <4>1. PICK r : r = called(before[o], tx, k, h, new_state(before[o], tx, k))
        OBVIOUS
      <4>2. replay_tx(before, tx, h) = [before EXCEPT ![o] = r]
        BY <3>6, <3>7, <3>9, <4>1 DEF replay_call, new_state, Table
      <4>3. replay_tx(objs, tx, h) = [objs EXCEPT ![o] = r]
        BY <3>6, <3>7, <3>9, <4>1 DEF replay_call, new_state, Table
      <4> QED  BY <3>6, <4>2, <4>3
    <3> QED  BY <3>8, <3>9
  <2> QED  BY <2>4, <2>5
<1> QED  BY <1>2, <1>3

-----------------------------------------------------------------------------
(* A block: its transactions change different objects, and each does to    *)
(* its own what it would do alone, in whatever order and however often.    *)

Changes(objs, tx, h, o) == replay_tx(objs, tx, h)[o] # objs[o]

FitBlock(txs) ==
    /\ txs \in Seq(Txs)
    /\ \A k, m \in DOMAIN txs :
          txs[k].id = txs[m].id \/ ToSet(txs[k].vin) \cap ToSet(txs[m].vin) \cap CarrierSeals # {}
              => k = m
    /\ \A k, m \in DOMAIN txs : carrier_seals(txs[k]) \cap ToSet(txs[m].vin) = {}

\* A table such a block may start from.
Fresh(home, objs, txs, h) ==
    /\ h \in Heights /\ objs \in Table /\ Owned(home, objs)
    /\ \A o \in ObjIds : objs[o] # Absent => objs[o].updated_at # h
    /\ \A k \in DOMAIN txs : objs[ObjOf[txs[k].id]] = Absent

\* A table in which each object is as before the block or as one of its transactions
\* leaves it, and one in which this has been done to all objects of transaction tx.
Mixed(before, txs, h, objs) ==
    objs \in Table /\ \A o \in ObjIds :
        \/ objs[o] = before[o]
        \/ \E k \in DOMAIN txs :
              Changes(before, txs[k], h, o) /\ objs[o] = replay_tx(before, txs[k], h)[o]

Settled(before, tx, h, objs) ==
    \A o \in ObjIds : Changes(before, tx, h, o) => objs[o] = replay_tx(before, tx, h)[o]

LEMMA ChangedOnce ==
    ASSUME TxsWellFormed, NEW home, OneObjectPerSeal(home), ObjIdsDistinct,
           NEW txs, FitBlock(txs), NEW h, NEW before, Fresh(home, before, txs, h),
           NEW k \in DOMAIN txs, NEW m \in DOMAIN txs, NEW o \in ObjIds,
           Changes(before, txs[k], h, o), Changes(before, txs[m], h, o)
    PROVE  k = m
<1>1. PICK x \in Txs, y \in Txs : x = txs[k] /\ y = txs[m]
  BY DEF FitBlock
<1>2. h \in Heights /\ before \in Table /\ Owned(home, before)
  BY DEF Fresh
<1>3. /\ (\E i : Creating(x, i, o)) \/ (\E i : Calling(before, x, i, o))
      /\ (\E i : Creating(y, i, o)) \/ (\E i : Calling(before, y, i, o))
  BY <1>1, <1>2, ChangeIs DEF Changes
<1>4. CASE (\E i : Creating(x, i, o)) /\ (\E i : Creating(y, i, o))
  <2>1. ObjOf[x.id] = o /\ ObjOf[y.id] = o
    BY <1>4 DEF Creating
  <2>2. x.id = y.id
    BY <2>1 DEF ObjIdsDistinct
  <2> QED  BY <1>1, <2>2 DEF FitBlock
<1>5. CASE (\E i : Calling(before, x, i, o)) /\ (\E i : Calling(before, y, i, o))
  <2>1. before[o].seal \in ToSet(x.vin) \cap ToSet(y.vin) \cap CarrierSeals
    BY <1>2, <1>5 DEF Calling, Owned
  <2> QED  BY <1>1, <2>1 DEF FitBlock
<1>6. ASSUME NEW z, z \in {x, y}, NEW i, Creating(z, i, o) PROVE before[o] = Absent
  BY <1>1, <1>6 DEF Creating, Fresh
<1>7. ASSUME NEW z, NEW i, Calling(before, z, i, o) PROVE before[o] # Absent
  BY <1>7 DEF Calling
<1> QED  BY <1>3, <1>4, <1>5, <1>6, <1>7

LEMMA MixedOwned ==
    ASSUME TxsWellFormed, NEW home, OneObjectPerSeal(home),
           NEW txs, FitBlock(txs), NEW h, NEW before, Fresh(home, before, txs, h),
           NEW objs, Mixed(before, txs, h, objs)
    PROVE  objs \in Table /\ Owned(home, objs)
<1>1. ASSUME NEW o \in ObjIds, objs[o] # Absent
      PROVE  objs[o].seal \in CarrierSeals /\ home[objs[o].seal] = o
  <2>1. CASE objs[o] = before[o]
    BY <1>1, <2>1 DEF Fresh, Owned
  <2>2. CASE objs[o] # before[o]
    <3>1. PICK k \in DOMAIN txs : Changes(before, txs[k], h, o) /\ objs[o] = replay_tx(before, txs[k], h)[o]
      BY <2>2 DEF Mixed
    <3>2. PICK tx, r : tx \in Txs /\ tx = txs[k] /\ r = replay_tx(before, tx, h)[o] /\ r # before[o]
      BY <3>1 DEF FitBlock, Changes
    <3>3. h \in Heights /\ before \in Table /\ Owned(home, before)
      BY DEF Fresh
    <3>4. r.seal \in carrier_seals(tx) /\ home[r.seal] = o
      BY <3>2, <3>3, ChangeIs
    <3> QED  BY <3>1, <3>2, <3>4, CarriesIs
  <2> QED  BY <2>1, <2>2
<1> QED  BY <1>1 DEF Mixed, Owned

\* Whatever else of the block has been done, and be it that the transaction itself has
\* been done before, its object ends as if it had been alone.
LEMMA TxInBlock ==
    ASSUME TxsWellFormed, NEW home, OneObjectPerSeal(home), ObjIdsDistinct, CallsCreateNothing,
           NEW txs, FitBlock(txs), NEW h, NEW before, Fresh(home, before, txs, h),
           NEW objs, Mixed(before, txs, h, objs), NEW k \in DOMAIN txs,
           NEW tx, tx = txs[k], NEW o \in ObjIds
    PROVE  replay_tx(objs, tx, h)[o] =
               IF Changes(before, tx, h, o) THEN replay_tx(before, tx, h)[o] ELSE objs[o]
<1>1. /\ tx \in Txs /\ WellFormed(tx) /\ h \in Heights
      /\ before \in Table /\ Owned(home, before) /\ objs \in Table /\ Owned(home, objs)
  BY MixedOwned DEF FitBlock, TxsWellFormed, Fresh
<1>2. ASSUME NEW x \in ObjIds, objs[x] # before[x]
      PROVE  /\ \E m \in DOMAIN txs : objs[x].seal \in carrier_seals(txs[m])
             /\ objs[x].seal \notin ToSet(tx.vin)
             /\ before[x] # Absent /\ before[x].seal \in ToSet(tx.vin)
                   => Changes(before, tx, h, x) /\ objs[x] = replay_tx(before, tx, h)[x]
  <2>1. PICK m \in DOMAIN txs : Changes(before, txs[m], h, x) /\ objs[x] = replay_tx(before, txs[m], h)[x]
    BY <1>2 DEF Mixed
  <2>2. PICK y, r : y \in Txs /\ y = txs[m] /\ r = replay_tx(before, y, h)[x] /\ r # before[x]
    BY <2>1 DEF FitBlock, Changes
  <2>3. r.seal \in carrier_seals(y) /\ ((\E i : Creating(y, i, x)) \/ (\E i : Calling(before, y, i, x)))
    BY <1>1, <2>2, ChangeIs
  <2>4. objs[x].seal \notin ToSet(tx.vin)
    BY <2>1, <2>2, <2>3 DEF FitBlock
  <2>5. ASSUME before[x] # Absent, before[x].seal \in ToSet(tx.vin) PROVE m = k
    <3>1. \E i : Calling(before, y, i, x)
      BY <2>2, <2>3, <2>5 DEF Creating, Fresh
    <3>2. before[x].seal \in ToSet(y.vin) \cap ToSet(tx.vin) \cap CarrierSeals
      BY <1>1, <2>5, <3>1 DEF Calling, Owned
    <3> QED  BY <2>2, <3>2 DEF FitBlock
  <2> QED  BY <2>1, <2>2, <2>3, <2>4, <2>5
<1>3. \A s \in ToSet(tx.vin) : \A x \in holders(objs, s) : objs[x] = before[x]
  BY <1>2 DEF holders
<1>4. CASE \A s \in ToSet(tx.vin) : \A x \in holders(before, s) : objs[x] = before[x]
  <2>1. \A s \in ToSet(tx.vin) : /\ holders(objs, s) = holders(before, s)
                                 /\ \A x \in holders(before, s) : objs[x] = before[x]
    BY <1>3, <1>4 DEF holders
  <2>2. \/ replay_tx(before, tx, h) = before /\ replay_tx(objs, tx, h) = objs
        \/ \E i, x : /\ Creating(tx, i, x)
                     /\ replay_tx(before, tx, h) = [before EXCEPT ![x] = created(tx, i, h)]
                     /\ replay_tx(objs, tx, h) = [objs EXCEPT ![x] = created(tx, i, h)]
        \/ \E x \in ObjIds : \E r : /\ before[x] = objs[x]
                                    /\ replay_tx(before, tx, h) = [before EXCEPT ![x] = r]
                                    /\ replay_tx(objs, tx, h) = [objs EXCEPT ![x] = r]
    BY <1>1, <2>1, SameView
  <2>3. CASE replay_tx(before, tx, h) = before /\ replay_tx(objs, tx, h) = objs
    BY <2>3 DEF Changes
  <2>4. ASSUME NEW i, NEW x, Creating(tx, i, x), NEW r, r = created(tx, i, h),
               NEW b, b = replay_tx(before, tx, h), NEW a, a = replay_tx(objs, tx, h),
               b = [before EXCEPT ![x] = r], a = [objs EXCEPT ![x] = r]
        PROVE  a[o] = IF b[o] # before[o] THEN b[o] ELSE objs[o]
    <3>1. before[x] = Absent /\ r \in Object /\ x \in ObjIds
      BY <1>1, <2>4, CreatedIs, CreateOwns DEF Creating, Fresh
    <3>2. r # Absent
      BY <3>1, AbsentIsNoRecord
    <3> QED  BY <1>1, <2>4, <3>1, <3>2 DEF Table
  <2>5. ASSUME NEW x \in ObjIds, NEW r, before[x] = objs[x],
               NEW b, b = replay_tx(before, tx, h), NEW a, a = replay_tx(objs, tx, h),
               b = [before EXCEPT ![x] = r], a = [objs EXCEPT ![x] = r]
        PROVE  a[o] = IF b[o] # before[o] THEN b[o] ELSE objs[o]
    BY <1>1, <2>5 DEF Table
  <2> QED  BY <2>2, <2>3, <2>4, <2>5 DEF Changes
<1>5. ASSUME NEW s \in ToSet(tx.vin), NEW x \in holders(before, s), objs[x] # before[x]
      PROVE  replay_tx(objs, tx, h)[o] =
               IF Changes(before, tx, h, o) THEN replay_tx(before, tx, h)[o] ELSE objs[o]
  <2>1. x \in ObjIds /\ before[x] # Absent /\ before[x].seal = s /\ s \in CarrierSeals
    BY <1>1, <1>5 DEF holders, Owned
  <2>2. Changes(before, tx, h, x) /\ objs[x] = replay_tx(before, tx, h)[x]
    BY <1>2, <1>5, <2>1
  <2>3. PICK r : r = replay_tx(before, tx, h)[x] /\ r # before[x]
    BY <2>2 DEF Changes
  <2>4. PICK i : Calling(before, tx, i, x)
    <3>1. (\E i : Creating(tx, i, x)) \/ (\E i : Calling(before, tx, i, x))
      BY <1>1, <2>1, <2>3, ChangeIs
    <3> QED  BY <2>1, <3>1 DEF Creating, Fresh
  <2>5. \A z \in ToSet(tx.vin) \cap CarrierSeals : home[z] = x
    BY <1>1, <2>4, CallStays
  <2>6. \A z \in ToSet(tx.vin) : holders(objs, z) = {}
    <3> SUFFICES ASSUME NEW z \in ToSet(tx.vin), NEW y \in holders(objs, z) PROVE FALSE
      OBVIOUS
    <3>1. y \in ObjIds /\ objs[y] # Absent /\ objs[y].seal = z
      BY DEF holders
    <3>2. z \in CarrierSeals /\ home[z] = y
      BY <1>1, <3>1 DEF Owned
    <3> QED  BY <1>3, <1>5, <2>5, <3>2
  <2>7. spending(objs, tx) = {}
    BY <2>6 DEF spending, ToSet
  <2>8. \A n \in DOMAIN tx.vout : tx.vout[n].env # Absent => ~ is_create(tx.vout[n].env)
    BY <1>1, <2>1, <2>4 DEF CallsCreateNothing, Calling
  <2>9. deciding_outputs(tx, FALSE) = {}
    BY <2>4, <2>8 DEF deciding_outputs, Calling
  <2>10. replay_tx(objs, tx, h) = objs
    BY <2>7, <2>9 DEF replay_tx
  <2>11. ASSUME Changes(before, tx, h, o) PROVE o = x
    <3>1. PICK q : q = replay_tx(before, tx, h)[o] /\ q # before[o]
      BY <2>11 DEF Changes
    <3>2. (\E n : Creating(tx, n, o)) \/ (\E n : Calling(before, tx, n, o))
      BY <1>1, <3>1, ChangeIs
    <3>3. \E n : Calling(before, tx, n, o)
      BY <2>8, <3>2 DEF Creating
    <3>4. before[o].seal \in ToSet(tx.vin) \cap CarrierSeals /\ home[before[o].seal] = o
      BY <1>1, <3>3 DEF Calling, Owned
    <3> QED  BY <2>5, <3>4
  <2> QED  BY <2>2, <2>10, <2>11
<1> QED  BY <1>4, <1>5

LEMMA TxMixes ==
    ASSUME TxsWellFormed, NEW home, OneObjectPerSeal(home), ObjIdsDistinct, CallsCreateNothing,
           NEW txs, FitBlock(txs), NEW h, NEW before, Fresh(home, before, txs, h),
           NEW objs, Mixed(before, txs, h, objs), NEW k \in DOMAIN txs,
           NEW new, new = replay_tx(objs, txs[k], h)
    PROVE  /\ Mixed(before, txs, h, new) /\ Settled(before, txs[k], h, new)
           /\ \A m \in DOMAIN txs : Settled(before, txs[m], h, objs) => Settled(before, txs[m], h, new)
<1>1. PICK tx \in Txs : tx = txs[k]
  BY DEF FitBlock
<1>2. new \in Table
  <2>1. objs \in Table /\ Owned(home, objs)
    BY MixedOwned
  <2> QED  BY <1>1, <2>1, ReplayTxTyped DEF Fresh
<1>3. \A o \in ObjIds :
        new[o] = IF Changes(before, tx, h, o) THEN replay_tx(before, tx, h)[o] ELSE objs[o]
  BY <1>1, TxInBlock
<1>4. Mixed(before, txs, h, new)
  <2> SUFFICES ASSUME NEW o \in ObjIds
               PROVE  \/ new[o] = before[o]
                      \/ \E m \in DOMAIN txs :
                            Changes(before, txs[m], h, o) /\ new[o] = replay_tx(before, txs[m], h)[o]
    BY <1>2 DEF Mixed
  <2>1. CASE Changes(before, tx, h, o)
    BY <1>1, <1>3, <2>1
  <2>2. CASE ~ Changes(before, tx, h, o)
    BY <1>3, <2>2 DEF Mixed
  <2> QED  BY <2>1, <2>2
<1>5. Settled(before, txs[k], h, new)
  BY <1>1, <1>3 DEF Settled
<1>6. ASSUME NEW m \in DOMAIN txs, Settled(before, txs[m], h, objs), NEW o \in ObjIds,
             Changes(before, txs[m], h, o)
      PROVE  new[o] = replay_tx(before, txs[m], h)[o]
  <2>1. CASE Changes(before, tx, h, o)
    <3>1. m = k
      BY <1>1, <1>6, <2>1, ChangedOnce
    <3> QED  BY <1>1, <1>3, <2>1, <3>1
  <2>2. CASE ~ Changes(before, tx, h, o)
    BY <1>3, <1>6, <2>2 DEF Settled
  <2> QED  BY <2>1, <2>2
<1>7. \A m \in DOMAIN txs : Settled(before, txs[m], h, objs) => Settled(before, txs[m], h, new)
  BY <1>6 DEF Settled
<1> QED  BY <1>4, <1>5, <1>7

LEMMA SettledSame ==
    ASSUME NEW txs, NEW h, NEW before, NEW a, Mixed(before, txs, h, a), NEW b, Mixed(before, txs, h, b),
           \A k \in DOMAIN txs : Settled(before, txs[k], h, a) /\ Settled(before, txs[k], h, b)
    PROVE  a = b
<1>1. ASSUME NEW o \in ObjIds PROVE a[o] = b[o]
  <2>1. CASE \E k \in DOMAIN txs : Changes(before, txs[k], h, o)
    BY <2>1 DEF Settled
  <2>2. CASE ~ \E k \in DOMAIN txs : Changes(before, txs[k], h, o)
    BY <2>2 DEF Mixed
  <2> QED  BY <2>1, <2>2
<1>2. a \in Table /\ b \in Table
  BY DEF Mixed
<1> QED  BY <1>1, <1>2 DEF Table

\* After a block every transaction is settled.
LEMMA BlockSettles ==
    ASSUME TxsWellFormed, NEW home, OneObjectPerSeal(home), ObjIdsDistinct, CallsCreateNothing,
           NEW txs, FitBlock(txs), NEW h, NEW before, Fresh(home, before, txs, h),
           NEW after, after = replay_block(before, txs, h)
    PROVE  Mixed(before, txs, h, after) /\ \A k \in DOMAIN txs : Settled(before, txs[k], h, after)
<1>1. PICK D \in Nat : DOMAIN txs = 1..D
  <2>1. txs \in Seq(Txs)
    BY DEF FitBlock
  <2>2. Len(txs) \in Nat /\ DOMAIN txs = 1..Len(txs)
    BY <2>1
  <2> QED  BY <2>2
<1>2. PICK F : BlockRuns(F, before, txs, h, D) /\ replay_block(before, txs, h) = F[D]
  BY <1>1, BlockStates
<1> DEFINE Good(n) == /\ Mixed(before, txs, h, F[n])
                      /\ \A k \in 1..n : Settled(before, txs[k], h, F[n])
           Bad == {n \in 0..D : ~ Good(n)}
<1>3. Bad = {}
  <2> SUFFICES ASSUME Bad # {} PROVE FALSE
    OBVIOUS
  <2>1. Bad \in SUBSET Nat
    OBVIOUS
  <2>2. PICK m \in Bad : \A y \in Bad : m <= y
    <3> HIDE DEF Bad
    <3> QED  BY <2>1, LeastOf
  <2>3. Good(0)
    <3>1. F[0] = before /\ 1..0 = {}
      BY <1>2 DEF BlockRuns
    <3> QED  BY <3>1 DEF Mixed, Fresh
  <2>4. m \in 1..D /\ m - 1 \in 0..D /\ ~(m <= m - 1)
    <3>1. m \in 0..D /\ m # 0
      <4> HIDE DEF Good
      <4> QED  BY <2>2, <2>3
    <3> QED  BY <3>1
  <2>5. Good(m - 1)
    <3> HIDE DEF Good
    <3> QED  BY <2>2, <2>4
  <2>6. F[m] = replay_tx(F[m - 1], txs[m], h) /\ m \in DOMAIN txs
    BY <1>1, <1>2, <2>4 DEF BlockRuns
  <2>7. PICK old, new : old = F[m - 1] /\ new = F[m]
    OBVIOUS
  <2>8. /\ Mixed(before, txs, h, new) /\ Settled(before, txs[m], h, new)
        /\ \A k \in DOMAIN txs : Settled(before, txs[k], h, old) => Settled(before, txs[k], h, new)
    <3>1. Mixed(before, txs, h, old) /\ new = replay_tx(old, txs[m], h)
      BY <2>5, <2>6, <2>7
    <3> QED  BY <2>6, <3>1, TxMixes
  <2>9. \A k \in 1..m : k \in DOMAIN txs /\ (k = m \/ k \in 1..(m - 1))
    BY <1>1, <2>4
  <2>10. Good(m)
    BY <2>5, <2>7, <2>8, <2>9
  <2> HIDE DEF Good
  <2> QED  BY <2>2, <2>10
<1>4. Good(D)
  <2> HIDE DEF Good
  <2>1. D \in 0..D
    OBVIOUS
  <2> QED  BY <1>3, <2>1
<1> QED  BY <1>1, <1>2, <1>4

-----------------------------------------------------------------------------
(* A chain: what its replay leads through.                                 *)

Replayed(c, k) == replay(c, BlockTxs, first_height, k)

\* Every object comes from a block of the chain up to height k.
Sourced(home, c, k, objs) ==
    /\ objs \in Table /\ Owned(home, objs)
    /\ \A o \in ObjIds : objs[o] # Absent =>
          /\ objs[o].updated_at \in first_height..k
          /\ \E j \in first_height..k : \E y \in ToSet(BlockTxs[c[j]]) : ObjOf[y.id] = o

LEMMA BlockFits ==
    ASSUME TxsWellFormed, MinedOnce, SpentInLaterBlock, NEW c \in L1Chains, NEW k \in 1..Len(c)
    PROVE  FitBlock(BlockTxs[c[k]])
<1>1. k \in DOMAIN c /\ c[k] \in Blocks
  BY L1Facts
<1>2. PICK txs : txs = BlockTxs[c[k]]
  OBVIOUS
<1>3. txs \in Seq(Txs)
  BY <1>1, <1>2 DEF TxsWellFormed
<1>4. ASSUME NEW n \in DOMAIN txs, NEW m \in DOMAIN txs,
             txs[n].id = txs[m].id \/ ToSet(txs[n].vin) \cap ToSet(txs[m].vin) \cap CarrierSeals # {}
      PROVE  n = m
  BY <1>1, <1>2, <1>4 DEF MinedOnce
<1>5. ASSUME NEW n \in DOMAIN txs, NEW m \in DOMAIN txs
      PROVE  carrier_seals(txs[n]) \cap ToSet(txs[m].vin) = {}
  <2>1. txs[n] \in ToSet(txs) /\ txs[m] \in ToSet(txs)
    BY DEF ToSet
  <2>2. ~(k < k)
    OBVIOUS
  <2> QED  BY <1>1, <1>2, <2>1, <2>2 DEF SpentInLaterBlock
<1> QED  BY <1>2, <1>3, <1>4, <1>5 DEF FitBlock

LEMMA SourcedFresh ==
    ASSUME TxsWellFormed, MinedOnce, ObjIdsDistinct, NEW home,
           NEW c \in L1Chains, NEW k \in first_height..Len(c),
           NEW objs, Sourced(home, c, k - 1, objs)
    PROVE  Fresh(home, objs, BlockTxs[c[k]], k)
<1>1. first_height \in Nat \ {0} /\ k \in 1..Len(c) /\ k \in Nat /\ k \in Heights
  <2>1. Len(c) \in Nat /\ first_height \in Nat \ {0}
    BY L1Facts, HeightFacts
  <2>2. k \in 1..Len(c) /\ k \in Nat
    BY <2>1
  <2> QED  BY <2>1, <2>2, L1Facts
<1>2. PICK txs : txs = BlockTxs[c[k]]
  OBVIOUS
<1>3. txs \in Seq(Txs) /\ k \in DOMAIN c
  BY <1>1, <1>2, L1Facts DEF TxsWellFormed
<1>4. ASSUME NEW o \in ObjIds, objs[o] # Absent PROVE objs[o].updated_at # k
  <2>1. objs[o].updated_at \in first_height..(k - 1)
    BY <1>4 DEF Sourced
  <2> QED  BY <1>1, <2>1
<1>5. ASSUME NEW n \in DOMAIN txs, objs[ObjOf[txs[n].id]] # Absent PROVE FALSE
  <2>1. txs[n] \in Txs
    BY <1>3
  <2>2. ObjOf[txs[n].id] \in ObjIds
    BY <2>1, ProcessorAssumption DEF TxsWellFormed, WellFormed
  <2>3. PICK j \in first_height..(k - 1) : \E y \in ToSet(BlockTxs[c[j]]) : ObjOf[y.id] = ObjOf[txs[n].id]
    BY <1>5, <2>2 DEF Sourced
  <2>4. j \in 1..Len(c) /\ j # k
    <3>1. Len(c) \in Nat
      BY L1Facts
    <3> QED  BY <1>1, <3>1
  <2>5. j \in DOMAIN c /\ c[j] \in Blocks
    BY <2>4, L1Facts
  <2>6. PICK m \in DOMAIN BlockTxs[c[j]] : ObjOf[BlockTxs[c[j]][m].id] = ObjOf[txs[n].id]
    BY <2>3 DEF ToSet
  <2>7. BlockTxs[c[j]] \in Seq(Txs)
    BY <2>5 DEF TxsWellFormed
  <2>8. BlockTxs[c[j]][m] \in Txs
    BY <2>6, <2>7
  <2>9. BlockTxs[c[j]][m].id = txs[n].id
    BY <2>1, <2>6, <2>8 DEF ObjIdsDistinct
  <2> QED  BY <1>2, <1>3, <2>4, <2>5, <2>9 DEF MinedOnce
<1> QED  BY <1>1, <1>2, <1>4, <1>5 DEF Fresh, Sourced

LEMMA SourcedNext ==
    ASSUME NEW home, Replayable(home), NEW c \in L1Chains, NEW k \in first_height..Len(c),
           NEW objs, Sourced(home, c, k - 1, objs),
           NEW after, after = replay_block(objs, BlockTxs[c[k]], k)
    PROVE  Sourced(home, c, k, after)
<1>1. first_height \in Nat \ {0} /\ k \in 1..Len(c) /\ k \in Nat /\ k \in Heights
  <2>1. Len(c) \in Nat /\ first_height \in Nat \ {0}
    BY L1Facts, HeightFacts
  <2>2. k \in 1..Len(c) /\ k \in Nat
    BY <2>1
  <2> QED  BY <2>1, <2>2, L1Facts
<1>2. PICK txs : txs = BlockTxs[c[k]]
  OBVIOUS
<1>3. FitBlock(txs) /\ Fresh(home, objs, txs, k)
  BY <1>1, <1>2, BlockFits, SourcedFresh DEF Replayable
<1>4. Mixed(objs, txs, k, after)
  BY <1>2, <1>3, BlockSettles DEF Replayable
<1>5. after \in Table /\ Owned(home, after)
  BY <1>3, <1>4, MixedOwned DEF Replayable
<1>6. ASSUME NEW o \in ObjIds, after[o] # Absent
      PROVE  /\ after[o].updated_at \in first_height..k
             /\ \E j \in first_height..k : \E y \in ToSet(BlockTxs[c[j]]) : ObjOf[y.id] = o
  <2>1. ASSUME objs[o] # Absent
        PROVE  /\ objs[o].updated_at \in first_height..k
               /\ \E j \in first_height..k : \E y \in ToSet(BlockTxs[c[j]]) : ObjOf[y.id] = o
    <3>1. \A j \in first_height..(k - 1) : j \in first_height..k
      BY <1>1
    <3> QED  BY <2>1, <3>1 DEF Sourced
  <2>2. CASE after[o] = objs[o]
    BY <1>6, <2>1, <2>2
  <2>3. CASE after[o] # objs[o]
    <3>1. PICK n \in DOMAIN txs : Changes(objs, txs[n], k, o) /\ after[o] = replay_tx(objs, txs[n], k)[o]
      BY <1>4, <2>3 DEF Mixed
    <3>2. PICK tx, r : tx \in Txs /\ tx = txs[n] /\ r = replay_tx(objs, tx, k)[o] /\ r # objs[o]
      BY <1>3, <3>1 DEF Changes, FitBlock
    <3>3. /\ r.updated_at = k
          /\ (\E i : Creating(tx, i, o)) \/ (\E i : Calling(objs, tx, i, o))
      BY <1>3, <3>2, ChangeIs DEF Fresh, Replayable
    <3>4. k \in first_height..k
      BY <1>1
    <3>5. CASE \E i : Creating(tx, i, o)
      <4>1. tx \in ToSet(BlockTxs[c[k]]) /\ ObjOf[tx.id] = o
        BY <1>2, <3>2, <3>5 DEF ToSet, Creating
      <4> QED  BY <3>1, <3>2, <3>3, <3>4, <4>1
    <3>6. CASE \E i : Calling(objs, tx, i, o)
      BY <2>1, <3>1, <3>2, <3>3, <3>4, <3>6 DEF Calling
    <3> QED  BY <3>3, <3>5, <3>6
  <2> QED  BY <2>2, <2>3
<1> QED  BY <1>5, <1>6 DEF Sourced

LEMMA ReplaySourced ==
    ASSUME NEW home, Replayable(home), NEW c \in L1Chains, NEW k \in (first_height - 1)..Len(c)
    PROVE  Sourced(home, c, k, Replayed(c, k))
<1>1. Len(c) \in Nat /\ first_height \in Nat \ {0}
  BY L1Facts, HeightFacts
<1> DEFINE Bad == {n \in 0..(Len(c) - first_height + 1) :
                       ~ Sourced(home, c, first_height + n - 1, Replayed(c, first_height + n - 1))}
<1>2. Bad = {}
  <2> SUFFICES ASSUME Bad # {} PROVE FALSE
    OBVIOUS
  <2>1. Bad \in SUBSET Nat
    BY <1>1
  <2>2. PICK m \in Bad : \A y \in Bad : m <= y
    <3> HIDE DEF Bad
    <3> QED  BY <2>1, LeastOf
  <2>3. m \in 0..(Len(c) - first_height + 1)
    BY <2>2
  <2>4. m # 0
    <3>1. Sourced(home, c, first_height - 1, NoObjects)
      BY DEF Sourced, NoObjects, Table, Owned
    <3>2. Replayed(c, first_height - 1) = NoObjects
      BY <1>1, ReplayNone DEF Replayed
    <3>3. first_height + 0 - 1 = first_height - 1
      BY <1>1
    <3> QED  BY <2>2, <3>1, <3>2, <3>3
  <2>5. PICK n \in first_height..Len(c) : n = first_height + m - 1 /\ n \in Nat /\ first_height <= n
    BY <1>1, <2>3, <2>4
  <2>6. /\ m - 1 \in 0..(Len(c) - first_height + 1) /\ ~(m <= m - 1)
        /\ first_height + (m - 1) - 1 = n - 1
    BY <1>1, <2>3, <2>4, <2>5
  <2>7. Sourced(home, c, n - 1, Replayed(c, n - 1))
    BY <2>2, <2>6
  <2>8. Replayed(c, n) = replay_block(Replayed(c, n - 1), BlockTxs[c[n]], n)
    BY <1>1, <2>5, ReplayNext DEF Replayed
  <2>9. Sourced(home, c, n, Replayed(c, n))
    BY <2>7, <2>8, SourcedNext
  <2>10. ~ Sourced(home, c, n, Replayed(c, n))
    BY <2>2, <2>5
  <2> QED  BY <2>9, <2>10
<1>3. PICK n \in 0..(Len(c) - first_height + 1) : first_height + n - 1 = k
  <2>1. k - first_height + 1 \in 0..(Len(c) - first_height + 1) /\ first_height + (k - first_height + 1) - 1 = k
    BY <1>1
  <2> QED  BY <2>1
<1> QED  BY <1>2, <1>3

-----------------------------------------------------------------------------
(* The invariant: what the tables are, as functions of the recorded blocks *)
(* and of the block in hand.                                               *)

\* The objects after the recorded blocks up to height k.
Recorded(k) == Replayed(blocks[Chain], k)

Before == Recorded(next_height - 1)
NextTxs == BlockTxs[l1[next_height]]

in_block == interrupted \/ sync.pc \in {"apply", "block", "cursor"}

\* The first n transactions of the block are done, the rest is still to do.
Progress(n) ==
    /\ n \in 0..Len(NextTxs) /\ Len(sync.todo) = Len(NextTxs) - n
    /\ \A i \in DOMAIN sync.todo : sync.todo[i] = NextTxs[n + i]
    /\ \A k \in 1..n : Settled(Before, NextTxs[k], next_height, objects)

TableReplays ==
    /\ ~in_block => objects = Before
    /\ in_block =>
         /\ recorded_prefix_of(l1) /\ next_height \in DOMAIN l1
         /\ sync.pc \notin {"backtrack", "rollback", "attest"}
         /\ Mixed(Before, NextTxs, next_height, objects)
    /\ sync.pc = "apply" => \E n : Progress(n)
    /\ sync.pc \in {"block", "cursor"} =>
         \A k \in DOMAIN NextTxs : Settled(Before, NextTxs[k], next_height, objects)

\* Every object is found by its seal.
IndexFull(idx, objs) == \A o \in ObjIds : objs[o] # Absent => idx[objs[o].seal] = o

\* What the undo of a log leaves of its object.
Prior(u) == IF u.action = "CREATE" THEN Absent ELSE u.prev

LogReplays(home, u) ==
    /\ u.chain = Chain /\ first_height <= u.height /\ u.height <= next_height
    /\ u.id.height = u.height
    /\ \E s \in CarrierSeals : u.id.low = UndoLow[s] /\ home[s] = u.obj
    /\ u.action = "UPDATE" => u.prev # Absent
    /\ Prior(u) = Recorded(u.height - 1)[u.obj]

LogsReplay(home) ==
    /\ \A u \in undo_logs : LogReplays(home, u)
    /\ \A k \in first_height..(next_height - 1) : \A o \in ObjIds :
          Recorded(k)[o] # Recorded(k - 1)[o] => Logged(undo_logs, o, k)
    /\ \A o \in ObjIds : objects[o] # Before[o] => Logged(undo_logs, o, next_height)

\* A rollback in progress: each object is as after some recorded block, and the logs that
\* take it from there to the target are still to be applied.
WalkReplays ==
    rb.phase = "undo" =>
        /\ rb.logs \subseteq {u \in undo_logs : u.height > rb.target}
        /\ \A u \in undo_logs : u.height > rb.target /\ u \notin rb.logs =>
              \A v \in rb.logs : v.height <= u.height
        /\ \A o \in ObjIds : \E j \in rb.target..(next_height - 1) :
              /\ rb.objects[o] = Recorded(j)[o]
              /\ \A u \in undo_logs : u.obj = o /\ rb.target < u.height /\ u.height <= j => u \in rb.logs
        /\ IndexFull(rb.seals, rb.objects)

\* The chain in hand, as far as it is recorded.
LEMMA RecordedIs ==
    ASSUME NEW home, Replayable(home), ChainTypes, RecordsPlaced,
           NEW c \in L1Chains, recorded_prefix_of(c),
           NEW k \in (first_height - 1)..(next_height - 1)
    PROVE  Recorded(k) = Replayed(c, k) /\ Sourced(home, c, k, Recorded(k))
<1>1. first_height \in Nat \ {0} /\ cursor \in Nat /\ Len(c) \in Nat /\ cursor <= Len(c)
  BY HeightFacts, L1Facts DEF ChainTypes, cursor, recorded_prefix_of
<1>2. \A h \in first_height..cursor : blocks[Chain][h] = c[h]
  BY DEF recorded_prefix_of, local_hash
<1>3. next_height - 1 = IF cursor = 0 THEN first_height - 1 ELSE cursor
  BY <1>1 DEF next_height
<1>4. Recorded(k) = Replayed(c, k)
  <2>1. PICK b : b = blocks[Chain]
    OBVIOUS
  <2>2. CASE k \in (first_height - 1)..cursor
    <3>1. PICK from \in Nat, to \in Nat : from = first_height /\ to = cursor
      BY <1>1
    <3>2. Agree(b, c, from, to)
      BY <1>2, <2>1, <3>1 DEF Agree
    <3>3. k \in (from - 1)..to
      BY <2>2, <3>1
    <3>4. replay(b, BlockTxs, from, k) = replay(c, BlockTxs, from, k)
      BY <3>2, <3>3, ReplayLocal
    <3> QED  BY <2>1, <3>1, <3>4 DEF Recorded, Replayed
  <2>3. CASE k = first_height - 1
    <3>1. /\ replay(b, BlockTxs, first_height, first_height - 1) = NoObjects
          /\ replay(c, BlockTxs, first_height, first_height - 1) = NoObjects
      BY <1>1, ReplayNone
    <3> QED  BY <2>1, <2>3, <3>1 DEF Recorded, Replayed
  <2>4. k \in (first_height - 1)..cursor \/ k = first_height - 1
    BY <1>1, <1>3
  <2> QED  BY <2>2, <2>3, <2>4
<1>5. CASE k \in (first_height - 1)..Len(c)
  BY <1>4, <1>5, ReplaySourced
<1>6. CASE k = first_height - 1
  <2>1. Replayed(c, first_height - 1) = NoObjects
    BY <1>1, ReplayNone DEF Replayed
  <2>2. Sourced(home, c, first_height - 1, NoObjects)
    BY DEF Sourced, NoObjects, Table, Owned
  <2> QED  BY <1>4, <1>6, <2>1, <2>2
<1>7. k \in (first_height - 1)..Len(c) \/ k = first_height - 1
  BY <1>1, <1>3
<1> QED  BY <1>4, <1>5, <1>6, <1>7

LEMMA NextIs ==
    ASSUME ChainTypes, RecordsPlaced
    PROVE  /\ first_height \in Nat \ {0} /\ cursor \in Nat /\ next_height \in Nat
           /\ first_height <= next_height /\ cursor < next_height
           /\ next_height - 1 = IF cursor = 0 THEN first_height - 1 ELSE cursor
BY HeightFacts DEF ChainTypes, RecordsPlaced, cursor, next_height

\* What is recorded is a table with every object on a seal of its own.
LEMMA RecordedTyped ==
    ASSUME NEW home, Replayable(home), ChainInv,
           NEW k \in (first_height - 1)..(next_height - 1)
    PROVE  Recorded(k) \in Table /\ Owned(home, Recorded(k))
<1>1. PICK c \in L1Chains : recorded_prefix_of(c)
  BY DEF ChainInv, LocalChainContinuous
<1>2. ChainTypes /\ RecordsPlaced
  BY DEF ChainInv
<1>3. Sourced(home, c, k, Recorded(k))
  BY <1>1, <1>2, RecordedIs
<1> QED  BY <1>3 DEF Sourced

\* The block in hand is one that can follow.
LEMMA NextFits ==
    ASSUME NEW home, Replayable(home), ChainInv,
           recorded_prefix_of(l1), next_height \in DOMAIN l1
    PROVE  /\ FitBlock(NextTxs) /\ Fresh(home, Before, NextTxs, next_height)
           /\ next_height \in Heights
<1>1. ChainTypes /\ RecordsPlaced /\ l1 \in L1Chains
  BY DEF ChainInv, ChainTypes
<1>2. PICK k : k = next_height
  OBVIOUS
<1>3. k \in Nat /\ k \in 1..Len(l1) /\ k \in first_height..Len(l1) /\ first_height \in Nat \ {0}
  BY <1>1, <1>2, NextIs, L1Facts
<1>4. k - 1 \in (first_height - 1)..(next_height - 1)
  BY <1>2, <1>3
<1>5. Sourced(home, l1, k - 1, Recorded(k - 1))
  BY <1>1, <1>4, RecordedIs
<1>6. FitBlock(BlockTxs[l1[k]])
  BY <1>1, <1>3, BlockFits DEF Replayable
<1>7. Fresh(home, Recorded(k - 1), BlockTxs[l1[k]], k)
  BY <1>1, <1>3, <1>5, SourcedFresh DEF Replayable
<1>8. k \in Heights
  BY <1>1, <1>3, L1Facts
<1> QED  BY <1>2, <1>6, <1>7, <1>8 DEF Before, NextTxs

\* The recorded blocks stay, up to height m.
LEMMA RecordedStays ==
    ASSUME NEW m \in Nat, \A h \in first_height..m : blocks'[Chain][h] = blocks[Chain][h],
           NEW k \in (first_height - 1)..m
    PROVE  Recorded(k)' = Recorded(k)
<1>1. PICK b, d, from : b = blocks'[Chain] /\ d = blocks[Chain] /\ from = first_height /\ from \in Nat
  BY HeightFacts
<1>2. Agree(b, d, from, m)
  BY <1>1 DEF Agree
<1>3. k \in (from - 1)..m
  BY <1>1
<1>4. replay(b, BlockTxs, from, k) = replay(d, BlockTxs, from, k)
  BY <1>1, <1>2, <1>3, ReplayLocal
<1> QED  BY <1>1, <1>4 DEF Recorded, Replayed, first_height

LEMMA RecordedSame ==
    ASSUME blocks' = blocks
    PROVE  \A k : Recorded(k)' = Recorded(k)
BY DEF Recorded, Replayed, first_height

\* A block that is done leaves what its replay leaves.
LEMMA SettledIsReplay ==
    ASSUME NEW home, Replayable(home), ChainInv,
           recorded_prefix_of(l1), next_height \in DOMAIN l1,
           Mixed(Before, NextTxs, next_height, objects),
           \A k \in DOMAIN NextTxs : Settled(Before, NextTxs[k], next_height, objects)
    PROVE  objects = replay_block(Before, NextTxs, next_height)
<1>1. PICK txs, h, b : txs = NextTxs /\ h = next_height /\ b = Before
  OBVIOUS
<1>2. FitBlock(txs) /\ Fresh(home, b, txs, h)
  BY <1>1, NextFits
<1>3. PICK after : after = replay_block(b, txs, h)
  OBVIOUS
<1>4. Mixed(b, txs, h, after) /\ \A k \in DOMAIN txs : Settled(b, txs[k], h, after)
  BY <1>2, <1>3, BlockSettles DEF Replayable
<1>5. objects = after
  BY <1>1, <1>4, SettledSame
<1> QED  BY <1>1, <1>3, <1>5

\* The table is typed, with every object on a seal of its own.
LEMMA TableOwned ==
    ASSUME NEW home, Replayable(home), ChainInv, TableReplays
    PROVE  objects \in Table /\ Owned(home, objects)
<1>1. CASE in_block
  <2>1. PICK txs, h, b : txs = NextTxs /\ h = next_height /\ b = Before
    OBVIOUS
  <2>2. FitBlock(txs) /\ Fresh(home, b, txs, h) /\ Mixed(b, txs, h, objects)
    BY <1>1, <2>1, NextFits DEF TableReplays
  <2> QED  BY <2>2, MixedOwned DEF Replayable
<1>2. CASE ~ in_block
  <2>1. next_height - 1 \in (first_height - 1)..(next_height - 1)
    BY NextIs DEF ChainInv
  <2>2. PICK k : k = next_height - 1
    OBVIOUS
  <2>3. Recorded(k) \in Table /\ Owned(home, Recorded(k))
    BY <2>1, <2>2, RecordedTyped
  <2> QED  BY <1>2, <2>2, <2>3 DEF TableReplays, Before
<1> QED  BY <1>1, <1>2

-----------------------------------------------------------------------------
(* process_tx finds by the index what the replay finds by the objects.     *)

LEMMA SpendingIs ==
    ASSUME StoreTypeOK, SealIndexSound, IndexFull(seals, objects), NEW tx, WellFormed(tx)
    PROVE  /\ target_inputs(tx) = spending(objects, tx)
           /\ \A k \in target_inputs(tx) : holders(objects, tx.vin[k]) = {seals[tx.vin[k]]}
<1>1. tx.vin \in Seq(Seals)
  BY DEF WellFormed
<1>2. ASSUME NEW k \in DOMAIN tx.vin, NEW s \in Seals, s = tx.vin[k], seals[s] # Absent,
             objects[seals[s]] # Absent
      PROVE  holders(objects, s) = {seals[s]}
  <2>1. seals[s] \in ObjIds /\ objects[seals[s]].seal = s
    BY <1>2 DEF StoreTypeOK, SealIndexSound, IndexSound
  <2> QED  BY <1>2, <2>1 DEF holders, IndexFull
<1>3. ASSUME NEW k \in DOMAIN tx.vin, NEW s \in Seals, s = tx.vin[k], holders(objects, s) # {}
      PROVE  seals[s] # Absent /\ objects[seals[s]] # Absent
  <2>1. PICK o \in ObjIds : objects[o] # Absent /\ objects[o].seal = s
    BY <1>3 DEF holders
  <2> QED  BY <2>1, StoreAssumption DEF IndexFull
<1>4. \A k \in DOMAIN tx.vin : tx.vin[k] \in Seals
  BY <1>1
<1>5. ASSUME NEW k \in DOMAIN tx.vin
      PROVE  get_object_by_seal(tx.vin[k]) # Absent <=>
               seals[tx.vin[k]] # Absent /\ objects[seals[tx.vin[k]]] # Absent
  BY DEF get_object_by_seal
<1>6. \A k \in target_inputs(tx) : holders(objects, tx.vin[k]) = {seals[tx.vin[k]]}
  BY <1>2, <1>4, <1>5 DEF target_inputs
<1>7. target_inputs(tx) \subseteq spending(objects, tx)
  BY <1>6 DEF target_inputs, spending
<1>8. spending(objects, tx) \subseteq target_inputs(tx)
  BY <1>3, <1>4, <1>5 DEF target_inputs, spending
<1> QED  BY <1>6, <1>7, <1>8

\* The call of process_tx sets out to do what the replay does.
LEMMA StartIs ==
    ASSUME StoreTypeOK, SealIndexSound, IndexFull(seals, objects), NEW tx, WellFormed(tx), NEW h,
           process_tx(SyncTask, tx, h)
    PROVE  /\ UNCHANGED storeVars /\ job[SyncTask] = NoJob
           /\ \/ /\ job' = [job EXCEPT ![SyncTask] = Returned]
                 /\ replay_tx(objects, tx, h) = objects
              \/ \E i : /\ Creating(tx, i, ObjOf[tx.id])
                        /\ job' = [job EXCEPT ![SyncTask] = create_job(tx, i, h)]
                        /\ replay_tx(objects, tx, h) =
                             [objects EXCEPT ![ObjOf[tx.id]] = created(tx, i, h)]
              \/ \E i, o : /\ Calling(objects, tx, i, o) /\ o = target(tx)
                           /\ job' = [job EXCEPT ![SyncTask] = call_job(tx, i, h, o)]
                           /\ replay_tx(objects, tx, h) = replay_call(objects, tx, i, h, o)
<1> DEFINE has_target == target_inputs(tx) # {}
           deciding == deciding_outputs(tx, has_target)
<1>1. /\ UNCHANGED storeVars /\ job[SyncTask] = NoJob
      /\ job' = [job EXCEPT ![SyncTask] =
                   IF deciding = {} \/ ~validate_fee(tx) THEN Returned
                   ELSE IF is_create(tx.vout[Min(deciding)].env) THEN create_job(tx, Min(deciding), h)
                   ELSE call_job(tx, Min(deciding), h, target(tx))]
  BY DEF process_tx
<1>2. spending(objects, tx) = target_inputs(tx)
  BY SpendingIs
<1>3. CASE deciding = {} \/ ~validate_fee(tx)
  BY <1>1, <1>2, <1>3 DEF replay_tx
<1>4. CASE deciding # {} /\ validate_fee(tx)
  <2>1. PICK k : k = Min(deciding)
    OBVIOUS
  <2>2. PICK b \in BOOLEAN : b = has_target
    OBVIOUS
  <2>3. /\ k \in Nat /\ k \in DOMAIN tx.vout /\ tx.vout[k].env # Absent
        /\ ~ is_create(tx.vout[k].env) => b
    BY <1>4, <2>1, <2>2, DecidingIs
  <2>4. CASE is_create(tx.vout[k].env)
    <3>1. replay_tx(objects, tx, h) = [objects EXCEPT ![ObjOf[tx.id]] = created(tx, k, h)]
      BY <1>2, <1>4, <2>1, <2>4 DEF replay_tx
    <3>2. Creating(tx, k, ObjOf[tx.id])
      BY <1>4, <2>3, <2>4 DEF Creating
    <3>3. job' = [job EXCEPT ![SyncTask] = create_job(tx, k, h)]
      BY <1>1, <1>4, <2>1, <2>4
    <3> QED  BY <1>1, <3>1, <3>2, <3>3
  <2>5. CASE ~ is_create(tx.vout[k].env)
    <3>1. PICK m \in target_inputs(tx) : m = Min(target_inputs(tx))
      <4>1. target_inputs(tx) # {}
        BY <2>2, <2>3, <2>5
      <4>2. target_inputs(tx) \in SUBSET Nat
        BY DEF WellFormed, target_inputs
      <4> QED  BY <4>1, <4>2, MinIs
    <3>2. m \in DOMAIN tx.vin /\ tx.vin[m] \in ToSet(tx.vin)
      BY <3>1 DEF target_inputs, ToSet
    <3>3. PICK o : o = target(tx)
      OBVIOUS
    <3>4. holders(objects, tx.vin[m]) = {o}
      BY <3>1, <3>3, SpendingIs DEF target
    <3>5. o = CHOOSE x \in holders(objects, tx.vin[m]) : TRUE
      BY <3>4
    <3>6. o \in ObjIds /\ objects[o] # Absent /\ objects[o].seal = tx.vin[m]
      BY <3>4 DEF holders
    <3>7. Calling(objects, tx, k, o)
      BY <1>4, <2>3, <2>5, <3>2, <3>6 DEF Calling
    <3>8. replay_tx(objects, tx, h) = replay_call(objects, tx, k, h, o)
      BY <1>2, <1>4, <2>1, <2>5, <3>1, <3>5 DEF replay_tx
    <3>9. job' = [job EXCEPT ![SyncTask] = call_job(tx, k, h, o)]
      BY <1>1, <1>4, <2>1, <2>5, <3>3
    <3> QED  BY <1>1, <3>3, <3>7, <3>8, <3>9
  <2> QED  BY <2>4, <2>5
<1> QED  BY <1>3, <1>4

-----------------------------------------------------------------------------
(* The transaction in hand.                                                *)

\* A process_tx of the sync loop does what the replay of its transaction does.
JobFits(home, logs, j) ==
    LET tx == Head(sync.todo)
    IN  /\ j.pc \in {"wasm", "undo", "execute", "commit"} =>
             /\ j.tx = tx /\ j.height = next_height
             /\ seal_of(tx, j.vout) \in carrier_seals(tx) /\ home[seal_of(tx, j.vout)] = j.obj
             /\ Before[j.obj] = j.prev
             /\ j.action = "CREATE" => j.prev = Absent
             /\ j.action = "CREATE" \/ j.pc = "commit" =>
                   replay_tx(objects, tx, next_height) = [objects EXCEPT ![j.obj] = j.rec]
             /\ j.action = "UPDATE" /\ j.pc # "commit" =>
                   /\ Calling(objects, tx, j.vout, j.obj)
                   /\ j.obj = target(tx) /\ objects[j.obj] = j.prev
                   /\ replay_tx(objects, tx, next_height) =
                         replay_call(objects, tx, j.vout, next_height, j.obj)
             /\ j.pc \in {"execute", "commit"} => Logged(logs, j.obj, next_height)
        /\ j.pc \in {"tree", "transition", "returned"} =>
             Settled(Before, tx, next_height, objects)

JobReplays(home) == JobFits(home, undo_logs, job[SyncTask])

\* The blob of every object there is or was can be had.
Have(blobs) == blobs \cup DhtBlobs \cup {DefaultCode}

CodesKnown ==
    /\ \A o \in ObjIds : objects[o] # Absent => objects[o].code \in Have(wasm)
    /\ \A k \in first_height..(next_height - 1) : \A o \in ObjIds :
          Recorded(k)[o] # Absent => Recorded(k)[o].code \in Have(wasm)

\* So can that of the object about to be saved, and a call is only made again when its
\* blob is there.
JobCodes(blobs, j) ==
    LET tx == Head(sync.todo)
    IN  /\ j.pc = "wasm" => j.rec.code \in Have(blobs) \cup {tx.vout[j.vout].env.blob}
        /\ (j.pc = "undo" /\ j.action = "CREATE") \/ j.pc = "commit" => j.rec.code \in Have(blobs)
        /\ j.pc = "missing" =>
              ~ sync.retried /\ j.code \in DhtBlobs /\ j.code = objects[target(tx)].code
        /\ sync.retried =>
              /\ sync.pc = "apply" /\ sync.todo # <<>>
              /\ j.pc \in {"idle", "wasm", "undo", "execute"} =>
                    objects[target(tx)].code \in blobs \cup {DefaultCode}

JobKnown == JobCodes(wasm, job[SyncTask])

\* Nobody else processes transactions.
Alone == \A t \in Tasks \ {SyncTask} : job[t] = NoJob

ReplayInv(home) ==
    /\ TableReplays /\ IndexFull(seals, objects) /\ LogsReplay(home) /\ WalkReplays
    /\ JobReplays(home) /\ CodesKnown /\ JobKnown /\ Alone

\* The steps that leave what the parts speak of alone.
LEMMA TableKept ==
    ASSUME TableReplays, UNCHANGED <<objects, blocks, last_block, l1, interrupted, sync>>
    PROVE  TableReplays'
<1>1. /\ Before' = Before /\ NextTxs' = NextTxs /\ next_height' = next_height
      /\ in_block' = in_block /\ recorded_prefix_of(l1)' = recorded_prefix_of(l1)
  BY DEF Before, Recorded, Replayed, NextTxs, next_height, cursor, first_height, in_block,
         recorded_prefix_of, local_hash
<1>2. \A n : Progress(n)' <=> Progress(n)
  BY <1>1 DEF Progress
<1> QED  BY <1>1, <1>2 DEF TableReplays

LEMMA LogsKept ==
    ASSUME NEW home, LogsReplay(home), UNCHANGED <<undo_logs, objects, blocks, last_block>>
    PROVE  LogsReplay(home)'
<1>1. next_height' = next_height /\ Before' = Before /\ \A k : Recorded(k)' = Recorded(k)
  BY DEF Before, Recorded, Replayed, next_height, cursor, first_height
<1>2. \A u : LogReplays(home, u)' <=> LogReplays(home, u)
  BY <1>1 DEF LogReplays, first_height
<1> QED  BY <1>1, <1>2 DEF LogsReplay, first_height

LEMMA WalkKept ==
    ASSUME WalkReplays, UNCHANGED <<rb, undo_logs, blocks, last_block>>
    PROVE  WalkReplays'
<1>1. next_height' = next_height /\ \A k : Recorded(k)' = Recorded(k)
  BY DEF Recorded, Replayed, next_height, cursor, first_height
<1> QED  BY <1>1 DEF WalkReplays

\* The transaction at the head of the list is one of the block in hand.
LEMMA HeadIs ==
    ASSUME NEW home, Replayable(home), ChainInv, DaemonInv, TableReplays,
           sync.pc = "apply", sync.todo # <<>>
    PROVE  /\ sync.h = next_height /\ next_height \in Heights
           /\ FitBlock(NextTxs) /\ Fresh(home, Before, NextTxs, next_height)
           /\ Mixed(Before, NextTxs, next_height, objects)
           /\ \E k \in DOMAIN NextTxs : Head(sync.todo) = NextTxs[k]
           /\ Head(sync.todo) \in Txs /\ WellFormed(Head(sync.todo))
<1>1. in_block /\ sync.h = next_height
  BY DEF in_block, ChainInv, PassSound
<1>2. /\ recorded_prefix_of(l1) /\ next_height \in DOMAIN l1
      /\ Mixed(Before, NextTxs, next_height, objects)
  BY <1>1 DEF TableReplays
<1>3. FitBlock(NextTxs) /\ Fresh(home, Before, NextTxs, next_height) /\ next_height \in Heights
  BY <1>2, NextFits
<1>4. PICK todo \in Seq(Txs) : todo = sync.todo /\ todo # <<>>
  BY DEF DaemonInv, SyncTyped, LocalsFit, Locals
<1>5. PICK n : Progress(n)
  BY DEF TableReplays
<1>6. PICK txs \in Seq(Txs) : txs = NextTxs
  BY <1>3 DEF FitBlock
<1>7. /\ n \in 0..Len(txs) /\ Len(todo) = Len(txs) - n
      /\ \A i \in DOMAIN todo : todo[i] = txs[n + i]
  BY <1>4, <1>5, <1>6 DEF Progress
<1>8. Len(todo) \in Nat /\ Len(txs) \in Nat /\ Len(todo) # 0
  BY <1>4
<1>9. n + 1 \in DOMAIN txs /\ 1 \in DOMAIN todo /\ todo[1] = txs[n + 1] /\ Head(todo) = todo[1]
  BY <1>4, <1>7, <1>8
<1>10. Head(todo) \in Txs
  BY <1>4
<1>11. WellFormed(Head(todo))
  BY <1>10 DEF Replayable, TxsWellFormed
<1> QED  BY <1>1, <1>2, <1>3, <1>4, <1>6, <1>9, <1>10, <1>11

\* A job moves on, the table and the loop stay.
LEMMA JobFitsOn ==
    ASSUME NEW home, UNCHANGED <<objects, seals, blocks, last_block, sync>>
    PROVE  /\ JobFits(home, undo_logs', job'[SyncTask]) => JobReplays(home)'
           /\ JobCodes(wasm', job'[SyncTask]) => JobKnown'
<1>1. /\ Before' = Before /\ next_height' = next_height
      /\ \A tx : target(tx)' = target(tx)
  BY DEF Before, Recorded, Replayed, next_height, cursor, first_height, target, target_inputs,
         get_object_by_seal
<1> QED  BY <1>1 DEF JobReplays, JobFits, JobKnown, JobCodes

\* An object that a transaction of the block spends is as before the block.
LEMMA SpentIsBefore ==
    ASSUME TxsWellFormed, NEW home, OneObjectPerSeal(home),
           NEW txs, FitBlock(txs), NEW h, NEW before, Fresh(home, before, txs, h),
           NEW objs, Mixed(before, txs, h, objs), NEW k \in DOMAIN txs,
           NEW o \in ObjIds, objs[o] # Absent, objs[o].seal \in ToSet(txs[k].vin)
    PROVE  before[o] = objs[o]
<1> SUFFICES ASSUME objs[o] # before[o] PROVE FALSE
  OBVIOUS
<1>1. PICK m \in DOMAIN txs : Changes(before, txs[m], h, o) /\ objs[o] = replay_tx(before, txs[m], h)[o]
  BY DEF Mixed
<1>2. PICK y, r : y \in Txs /\ y = txs[m] /\ r = replay_tx(before, y, h)[o] /\ r # before[o]
  BY <1>1 DEF FitBlock, Changes
<1>3. h \in Heights /\ before \in Table /\ Owned(home, before)
  BY DEF Fresh
<1>4. r.seal \in carrier_seals(y)
  BY <1>2, <1>3, ChangeIs
<1> QED  BY <1>1, <1>2, <1>4 DEF FitBlock

LEMMA StartReplays ==
    ASSUME NEW home, Replayable(home), ChainInv, DaemonInv, SealIndexSound, ReplayInv(home),
           start_tx
    PROVE  JobReplays(home)' /\ JobKnown'
<1>1. /\ sync.pc = "apply" /\ sync.todo # <<>> /\ sync' = sync /\ l1' = l1
      /\ process_tx(SyncTask, Head(sync.todo), sync.h)
  BY DEF start_tx, writing
<1>2. PICK tx, h, txs, b :
        tx = Head(sync.todo) /\ h = next_height /\ txs = NextTxs /\ b = Before
  OBVIOUS
<1>3. /\ sync.h = h /\ h \in Heights /\ FitBlock(txs) /\ Fresh(home, b, txs, h)
      /\ Mixed(b, txs, h, objects) /\ tx \in Txs /\ WellFormed(tx)
  BY <1>1, <1>2, HeadIs DEF ReplayInv
<1>4. PICK k \in DOMAIN txs : tx = txs[k]
  BY <1>1, <1>2, HeadIs DEF ReplayInv
<1>5. /\ TxsWellFormed /\ OneObjectPerSeal(home) /\ ObjIdsDistinct /\ CallsCreateNothing
      /\ BlobsAtHand
  BY DEF Replayable
<1>6. StoreTypeOK /\ JobsTyped /\ SyncTask \in Tasks
  BY StoreAssumption DEF DaemonInv
<1>7. UNCHANGED storeVars /\ job[SyncTask] = NoJob
  BY <1>1, <1>2, <1>3, <1>6, StartIs DEF ReplayInv
<1>8. UNCHANGED <<objects, seals, blocks, last_block, l1, sync, undo_logs, wasm>>
  BY <1>1, <1>7 DEF storeVars
<1>9. sync.retried => objects[target(tx)].code \in wasm \cup {DefaultCode}
  BY <1>2, <1>7 DEF ReplayInv, JobKnown, JobCodes, NoJob
<1>10. ASSUME NEW j, job' = [job EXCEPT ![SyncTask] = j],
              JobFits(home, undo_logs, j), JobCodes(wasm, j)
       PROVE  JobReplays(home)' /\ JobKnown'
  <2>1. job'[SyncTask] = j
    BY <1>6, <1>10 DEF JobsTyped
  <2> QED  BY <1>8, <1>10, <2>1, JobFitsOn
<1>11. CASE job' = [job EXCEPT ![SyncTask] = Returned] /\ replay_tx(objects, tx, h) = objects
  <2>1. PICK new : new = replay_tx(objects, tx, h)
    OBVIOUS
  <2>2. Settled(b, tx, h, new)
    BY <1>3, <1>4, <1>5, <2>1, TxMixes
  <2>3. JobFits(home, undo_logs, Returned)
    BY <1>2, <1>11, <2>1, <2>2 DEF JobFits, Returned
  <2>4. JobCodes(wasm, Returned)
    BY <1>1, <1>2, <1>9 DEF JobCodes, Returned
  <2> QED  BY <1>10, <1>11, <2>3, <2>4
<1>12. ASSUME NEW i, NEW o, o = ObjOf[tx.id], Creating(tx, i, o), NEW r, r = created(tx, i, h),
              job' = [job EXCEPT ![SyncTask] = create_job(tx, i, h)],
              replay_tx(objects, tx, h) = [objects EXCEPT ![o] = r]
       PROVE  JobReplays(home)' /\ JobKnown'
  <2>0. PICK p \in {"undo", "wasm"} :
          p = IF tx.vout[i].env.blob \in {Absent, EmptyBlob} THEN "undo" ELSE "wasm"
    OBVIOUS
  <2>1. PICK j :
          /\ p = IF tx.vout[i].env.blob \in {Absent, EmptyBlob} THEN "undo" ELSE "wasm"
          /\ j = [pc |-> p, tx |-> tx, vout |-> i, height |-> h, action |-> "CREATE",
                  obj |-> o, prev |-> Absent, rec |-> r]
    BY <2>0
  <2>2. job' = [job EXCEPT ![SyncTask] = j]
    BY <1>12, <2>1 DEF create_job
  <2>3. seal_of(tx, i) \in carrier_seals(tx) /\ home[seal_of(tx, i)] = o /\ o \in ObjIds
    BY <1>3, <1>5, <1>12, CreateOwns
  <2>4. b[o] = Absent
    BY <1>3, <1>4, <1>12 DEF Fresh
  <2>5. JobFits(home, undo_logs, j)
    BY <1>2, <1>12, <2>1, <2>3, <2>4 DEF JobFits
  <2>6. r.code = default_to(tx.vout[i].env.code, default_to(tx.vout[i].env.blob, DefaultCode))
    BY <1>12 DEF created
  <2>7. r.code \in DhtBlobs \cup {DefaultCode} \cup ({tx.vout[i].env.blob} \ {Absent, EmptyBlob})
    BY <1>3, <1>5, <1>12, <2>6 DEF BlobsAtHand, Creating
  <2>8. JobCodes(wasm, j)
    BY <1>1, <1>2, <1>9, <2>1, <2>7 DEF JobCodes, Have
  <2> QED  BY <1>10, <2>2, <2>5, <2>8
<1>13. ASSUME NEW i, NEW o, Calling(objects, tx, i, o), o = target(tx),
              job' = [job EXCEPT ![SyncTask] = call_job(tx, i, h, o)],
              replay_tx(objects, tx, h) = replay_call(objects, tx, i, h, o)
       PROVE  JobReplays(home)' /\ JobKnown'
  <2>1. PICK j : j = [pc |-> "undo", tx |-> tx, vout |-> i, height |-> h, action |-> "UPDATE",
                      obj |-> o, prev |-> objects[o], rec |-> Absent]
    OBVIOUS
  <2>2. job' = [job EXCEPT ![SyncTask] = j]
    BY <1>13, <2>1 DEF call_job
  <2>3. objects \in Table /\ Owned(home, objects)
    BY TableOwned DEF ReplayInv
  <2>4. seal_of(tx, i) \in carrier_seals(tx) /\ home[seal_of(tx, i)] = o
    BY <1>3, <1>5, <1>13, <2>3, CallStays
  <2>5. b[o] = objects[o]
    BY <1>3, <1>4, <1>5, <1>13, SpentIsBefore DEF Calling
  <2>6. JobFits(home, undo_logs, j)
    BY <1>2, <1>13, <2>1, <2>4, <2>5 DEF JobFits
  <2>7. JobCodes(wasm, j)
    BY <1>1, <1>2, <1>9, <2>1 DEF JobCodes
  <2> QED  BY <1>10, <2>2, <2>6, <2>7
<1>14. \/ /\ job' = [job EXCEPT ![SyncTask] = Returned]
          /\ replay_tx(objects, tx, h) = objects
       \/ \E i : /\ Creating(tx, i, ObjOf[tx.id])
                 /\ job' = [job EXCEPT ![SyncTask] = create_job(tx, i, h)]
                 /\ replay_tx(objects, tx, h) =
                      [objects EXCEPT ![ObjOf[tx.id]] = created(tx, i, h)]
       \/ \E i, o : /\ Calling(objects, tx, i, o) /\ o = target(tx)
                    /\ job' = [job EXCEPT ![SyncTask] = call_job(tx, i, h, o)]
                    /\ replay_tx(objects, tx, h) = replay_call(objects, tx, i, h, o)
  BY <1>1, <1>2, <1>3, <1>6, StartIs DEF ReplayInv
<1> QED  BY <1>11, <1>12, <1>13, <1>14

LEMMA CodesKept ==
    ASSUME CodesKnown, wasm \subseteq wasm', UNCHANGED <<objects, blocks, last_block>>
    PROVE  CodesKnown'
<1>1. next_height' = next_height /\ \A k : Recorded(k)' = Recorded(k)
  BY DEF Recorded, Replayed, next_height, cursor, first_height
<1> QED  BY <1>1 DEF CodesKnown, Have, first_height

LEMMA IndexKept ==
    ASSUME IndexFull(seals, objects), UNCHANGED <<seals, objects>>
    PROVE  IndexFull(seals, objects)'
BY DEF IndexFull

\* A payload is stored.
LEMMA StoreReplays ==
    ASSUME NEW home, Replayable(home), DaemonInv, ReplayInv(home),
           sync' = sync, l1' = l1, interrupted' = interrupted, store_blob(SyncTask)
    PROVE  ReplayInv(home)'
<1> DEFINE j == job[SyncTask]
<1>1. j \in CallJobs /\ JobReady(j) /\ j.pc = "wasm" /\ JobsTyped /\ SyncTask \in Tasks
  BY JobAt, StoreAssumption DEF store_blob, DaemonInv, JobsTyped
<1>2. /\ UNCHANGED <<objects, seals, undo_logs, blocks, last_block, rb>>
      /\ wasm' = wasm \cup {j.tx.vout[j.vout].env.blob}
      /\ job' = [job EXCEPT ![SyncTask] = [j EXCEPT !.pc = "undo"]]
  BY DEF store_blob, save_wasm
<1>3. PICK k : k = [j EXCEPT !.pc = "undo"]
  OBVIOUS
<1>4. /\ k.pc = "undo" /\ k.height = j.height /\ k.tx = j.tx /\ k.vout = j.vout
      /\ k.obj = j.obj /\ k.action = j.action /\ k.rec = j.rec /\ k.prev = j.prev
  BY <1>1, <1>3 DEF CallJobs
<1>5. job'[SyncTask] = k
  BY <1>1, <1>2, <1>3 DEF JobsTyped
<1>6. JobFits(home, undo_logs', k)
  BY <1>1, <1>2, <1>4 DEF ReplayInv, JobReplays, JobFits
<1>7. j.tx = Head(sync.todo)
  BY <1>1 DEF ReplayInv, JobReplays, JobFits
<1>8. JobCodes(wasm', k)
  BY <1>1, <1>2, <1>4, <1>7 DEF ReplayInv, JobKnown, JobCodes, Have
<1>9. JobReplays(home)' /\ JobKnown'
  BY <1>2, <1>5, <1>6, <1>8, JobFitsOn
<1>10. TableReplays' /\ LogsReplay(home)' /\ WalkReplays' /\ CodesKnown' /\ IndexFull(seals, objects)'
  BY <1>2, TableKept, LogsKept, WalkKept, CodesKept, IndexKept DEF ReplayInv
<1>11. Alone'
  BY <1>1, <1>2 DEF ReplayInv, Alone, JobsTyped
<1> QED  BY <1>9, <1>10, <1>11 DEF ReplayInv

\* The undo log is written: what it restores is what the blocks before left.
LEMMA UndoReplays ==
    ASSUME NEW home, Replayable(home), ChainInv, DaemonInv, ReplayInv(home),
           sync' = sync, l1' = l1, interrupted' = interrupted, record_undo(SyncTask)
    PROVE  ReplayInv(home)'
<1> DEFINE j == job[SyncTask]
           p == IF j.action = "CREATE" THEN "commit" ELSE "execute"
<1>1. j \in CallJobs /\ JobReady(j) /\ j.pc = "undo" /\ JobsTyped /\ SyncTask \in Tasks
  BY JobAt, StoreAssumption DEF record_undo, DaemonInv, JobsTyped
<1>2. PICK u : u = [id |-> [height |-> j.height, low |-> UndoLow[<<j.tx.id, j.vout - 1>>]],
                    chain |-> Chain, height |-> j.height, obj |-> j.obj,
                    action |-> j.action, prev |-> j.prev]
  OBVIOUS
<1>3. /\ undo_logs' = {v \in undo_logs : v.id # u.id} \cup {u} /\ rb.phase # "undo"
      /\ UNCHANGED <<objects, seals, blocks, last_block, rb, wasm>>
      /\ job' = [job EXCEPT ![SyncTask] = [j EXCEPT !.pc = p]]
  BY <1>2 DEF record_undo, save_undo_log, can_write, write_lock_free
<1>4. /\ u.chain = Chain /\ u.height = j.height /\ u.obj = j.obj /\ u.action = j.action
      /\ u.prev = j.prev /\ u.id.height = j.height /\ u.id.low = UndoLow[seal_of(j.tx, j.vout)]
  BY <1>2 DEF seal_of
<1>5. /\ j.height = next_height /\ Before[j.obj] = j.prev
      /\ j.action = "CREATE" => j.prev = Absent
      /\ seal_of(j.tx, j.vout) \in carrier_seals(j.tx) /\ home[seal_of(j.tx, j.vout)] = j.obj
      /\ j.obj \in ObjIds
  BY <1>1 DEF ReplayInv, JobReplays, JobFits, CallJobs
<1>6. seal_of(j.tx, j.vout) \in CarrierSeals
  <2>1. j.tx \in Txs
    BY <1>1 DEF CallJobs
  <2> QED  BY <1>5, <2>1, CarriesIs DEF Replayable
<1>7. first_height \in Nat /\ next_height \in Nat /\ first_height <= next_height
  BY NextIs DEF ChainInv
<1>8. ASSUME NEW v \in undo_logs, v.id = u.id PROVE v.obj = u.obj /\ v.height = u.height
  <2>1. LogReplays(home, v)
    BY DEF ReplayInv, LogsReplay
  <2>2. PICK s \in CarrierSeals : v.id.low = UndoLow[s] /\ home[s] = v.obj
    BY <2>1 DEF LogReplays
  <2>3. s = seal_of(j.tx, j.vout)
    BY <1>4, <1>6, <1>8, <2>2 DEF Replayable, UndoIdsDistinct
  <2> QED  BY <1>4, <1>5, <1>8, <2>1, <2>2, <2>3 DEF LogReplays
<1>9. PICK more : more = {v \in undo_logs : v.id # u.id} \cup {u}
  OBVIOUS
<1>10. ASSUME NEW o, NEW k, Logged(undo_logs, o, k) PROVE Logged(more, o, k)
  BY <1>4, <1>8, <1>9, <1>10, LoggedStays
<1>11. LogReplays(home, u)
  <2>1. j.action = "UPDATE" => j.prev # Absent
    BY <1>1, AbsentIsNoRecord DEF JobReady
  <2>2. j.action \in {"CREATE", "UPDATE"}
    BY <1>1 DEF CallJobs
  <2>3. Prior(u) = Recorded(u.height - 1)[u.obj]
    BY <1>4, <1>5, <2>2 DEF Prior, Before
  <2> QED  BY <1>4, <1>5, <1>6, <1>7, <2>1, <2>3 DEF LogReplays
<1>12. next_height' = next_height /\ Before' = Before /\ \A k : Recorded(k)' = Recorded(k)
  BY <1>3 DEF Before, Recorded, Replayed, next_height, cursor, first_height
<1>13. ASSUME NEW v \in more PROVE LogReplays(home, v)'
  <2>1. LogReplays(home, v)
    BY <1>9, <1>11 DEF ReplayInv, LogsReplay
  <2> QED  BY <1>12, <2>1 DEF LogReplays, first_height
<1>14. LogsReplay(home)'
  BY <1>3, <1>9, <1>10, <1>12, <1>13 DEF ReplayInv, LogsReplay, first_height
<1>15. WalkReplays'
  BY <1>3 DEF WalkReplays
<1>16. PICK k : k = [j EXCEPT !.pc = p]
  OBVIOUS
<1>17. /\ k.pc = p /\ k.height = j.height /\ k.tx = j.tx /\ k.vout = j.vout
       /\ k.obj = j.obj /\ k.action = j.action /\ k.rec = j.rec /\ k.prev = j.prev
  BY <1>1, <1>16 DEF CallJobs
<1>18. job'[SyncTask] = k
  BY <1>1, <1>3, <1>16 DEF JobsTyped
<1>19. Logged(more, j.obj, next_height)
  BY <1>4, <1>5, <1>9 DEF Logged
<1>20. k.pc = "commit" <=> j.action = "CREATE"
  BY <1>17
<1>21. JobFits(home, undo_logs', k)
  BY <1>1, <1>3, <1>9, <1>17, <1>19, <1>20 DEF ReplayInv, JobReplays, JobFits
<1>22. JobCodes(wasm', k)
  BY <1>1, <1>3, <1>17 DEF ReplayInv, JobKnown, JobCodes
<1>23. JobReplays(home)' /\ JobKnown'
  BY <1>3, <1>18, <1>21, <1>22, JobFitsOn
<1>24. TableReplays' /\ CodesKnown' /\ IndexFull(seals, objects)'
  BY <1>3, TableKept, CodesKept, IndexKept DEF ReplayInv
<1>25. Alone'
  BY <1>1, <1>3 DEF ReplayInv, Alone, JobsTyped
<1> QED  BY <1>14, <1>15, <1>23, <1>24, <1>25 DEF ReplayInv

\* A call is executed, or turns out to need a blob.
LEMMA ExecuteReplays ==
    ASSUME NEW home, Replayable(home), ChainInv, DaemonInv, ReplayInv(home),
           sync' = sync, l1' = l1, interrupted' = interrupted, execute(SyncTask)
    PROVE  ReplayInv(home)'
<1>0. PICK j, st : /\ j = job[SyncTask]
                   /\ st = Exec[<<j.prev.code, j.prev.state, j.tx.vout[j.vout].env.call>>]
  OBVIOUS
<1>1. /\ j \in CallJobs /\ JobReady(j) /\ j.pc = "execute" /\ JobsTyped /\ SyncTask \in Tasks
      /\ sync.pc = "apply" /\ sync.todo # <<>>
  BY <1>0, JobAt, StoreAssumption DEF execute, DaemonInv, JobsTyped, SyncTyped, NoJob
<1>2. PICK tx, h, txs, b :
        tx = Head(sync.todo) /\ h = next_height /\ txs = NextTxs /\ b = Before
  OBVIOUS
<1>3. /\ h \in Heights /\ FitBlock(txs) /\ Fresh(home, b, txs, h)
      /\ Mixed(b, txs, h, objects) /\ tx \in Txs /\ WellFormed(tx)
  BY <1>1, <1>2, HeadIs DEF ReplayInv
<1>4. PICK n \in DOMAIN txs : tx = txs[n]
  BY <1>1, <1>2, HeadIs DEF ReplayInv
<1>5. /\ UNCHANGED <<objects, seals, undo_logs, blocks, last_block, rb, wasm>>
      /\ job' = [job EXCEPT ![SyncTask] =
               IF j.prev.code \notin wasm \cup {DefaultCode} THEN WasmMissing(j.prev.code)
               ELSE IF st = Absent THEN Returned
               ELSE [j EXCEPT !.pc = "commit",
                              !.rec = called(j.prev, j.tx, j.vout, j.height, st)]]
  BY <1>0 DEF execute, storeVars
<1>6. j.action = "UPDATE" /\ j.prev \in Object /\ j.obj \in ObjIds
  BY <1>1 DEF CallJobs, JobReady
<1>7. /\ j.tx = tx /\ j.height = h /\ Calling(objects, tx, j.vout, j.obj)
      /\ j.obj = target(tx) /\ objects[j.obj] = j.prev /\ b[j.obj] = j.prev
      /\ seal_of(tx, j.vout) \in carrier_seals(tx) /\ home[seal_of(tx, j.vout)] = j.obj
      /\ replay_tx(objects, tx, h) = replay_call(objects, tx, j.vout, h, j.obj)
      /\ Logged(undo_logs, j.obj, h)
  BY <1>0, <1>1, <1>2, <1>6 DEF ReplayInv, JobReplays, JobFits
<1>8. objects[j.obj] # Absent
  BY <1>6, <1>7, AbsentIsNoRecord
<1>9. j.prev.code \in Have(wasm)
  BY <1>6, <1>7, <1>8 DEF ReplayInv, CodesKnown
<1>10. ASSUME NEW k, job' = [job EXCEPT ![SyncTask] = k],
              JobFits(home, undo_logs, k), JobCodes(wasm, k)
       PROVE  JobReplays(home)' /\ JobKnown'
  <2>1. job'[SyncTask] = k
    BY <1>1, <1>10 DEF JobsTyped
  <2> QED  BY <1>5, <1>10, <2>1, JobFitsOn
<1>11. /\ sync.retried => sync.pc = "apply" /\ sync.todo # <<>>
       /\ sync.retried => objects[target(tx)].code \in wasm \cup {DefaultCode}
  BY <1>0, <1>1, <1>2 DEF ReplayInv, JobKnown, JobCodes
<1>12. ASSUME j.prev.code \notin wasm \cup {DefaultCode}
       PROVE  JobReplays(home)' /\ JobKnown'
  <2>1. PICK k : k = WasmMissing(j.prev.code)
    OBVIOUS
  <2>2. k.pc = "missing" /\ k.code = j.prev.code
    BY <2>1 DEF WasmMissing
  <2>3. ~ sync.retried /\ k.code \in DhtBlobs /\ k.code = objects[target(tx)].code
    BY <1>7, <1>9, <1>11, <1>12, <2>2 DEF Have
  <2>4. JobFits(home, undo_logs, k) /\ JobCodes(wasm, k)
    BY <1>2, <2>2, <2>3 DEF JobFits, JobCodes
  <2>5. job' = [job EXCEPT ![SyncTask] = k]
    BY <1>5, <1>12, <2>1
  <2> QED  BY <1>10, <2>4, <2>5
<1>13. ASSUME j.prev.code \in wasm \cup {DefaultCode} /\ st = Absent
       PROVE  JobReplays(home)' /\ JobKnown'
  <2>1. job' = [job EXCEPT ![SyncTask] = Returned]
    BY <1>5, <1>13
  <2>2. PICK new : new = replay_tx(objects, tx, h)
    OBVIOUS
  <2>3. new = objects
    BY <1>0, <1>7, <1>13, <2>2 DEF replay_call
  <2>4. Settled(b, tx, h, new)
    <3>1. ObjIdsDistinct /\ CallsCreateNothing /\ TxsWellFormed /\ OneObjectPerSeal(home)
      BY DEF Replayable
    <3> QED  BY <1>3, <1>4, <2>2, <3>1, TxMixes
  <2>5. JobFits(home, undo_logs, Returned)
    BY <1>2, <2>3, <2>4 DEF JobFits, Returned
  <2>6. JobCodes(wasm, Returned)
    BY <1>11 DEF JobCodes, Returned
  <2> QED  BY <1>10, <2>1, <2>5, <2>6
<1>14. ASSUME j.prev.code \in wasm \cup {DefaultCode} /\ st # Absent
       PROVE  JobReplays(home)' /\ JobKnown'
  <2>1. PICK r : r = called(j.prev, j.tx, j.vout, j.height, st)
    OBVIOUS
  <2>2. PICK k : k = [j EXCEPT !.pc = "commit", !.rec = r]
    OBVIOUS
  <2>3. /\ k.pc = "commit" /\ k.height = j.height /\ k.tx = j.tx /\ k.vout = j.vout
        /\ k.obj = j.obj /\ k.action = j.action /\ k.rec = r /\ k.prev = j.prev
    BY <1>1, <2>2 DEF CallJobs
  <2>4. job' = [job EXCEPT ![SyncTask] = k]
    BY <1>5, <1>14, <2>1, <2>2
  <2>5. PICK p : p = j.prev
    OBVIOUS
  <2>6. r.code = p.code
    BY <1>6, <2>1, <2>5 DEF called, Object
  <2>7. replay_tx(objects, tx, h) = [objects EXCEPT ![j.obj] = r]
    <3>1. replay_call(objects, tx, j.vout, h, j.obj) =
            [objects EXCEPT ![j.obj] = called(objects[j.obj], tx, j.vout, h, st)]
      BY <1>0, <1>7, <1>14 DEF replay_call
    <3>2. r = called(objects[j.obj], tx, j.vout, h, st)
      BY <1>7, <2>1
    <3> QED  BY <1>7, <3>1, <3>2
  <2>8. JobFits(home, undo_logs, k)
    BY <1>2, <1>6, <1>7, <2>3, <2>7 DEF JobFits
  <2>9. JobCodes(wasm, k)
    BY <1>9, <1>11, <2>3, <2>5, <2>6 DEF JobCodes
  <2> QED  BY <1>10, <2>4, <2>8, <2>9
<1>15. JobReplays(home)' /\ JobKnown'
  BY <1>12, <1>13, <1>14
<1>16. TableReplays' /\ LogsReplay(home)' /\ WalkReplays' /\ CodesKnown' /\ IndexFull(seals, objects)'
  BY <1>5, TableKept, LogsKept, WalkKept, CodesKept, IndexKept DEF ReplayInv
<1>17. Alone'
  BY <1>1, <1>5 DEF ReplayInv, Alone, JobsTyped
<1> QED  BY <1>15, <1>16, <1>17 DEF ReplayInv

\* The index follows an object that moves to a seal of its own.
LEMMA MoveFillsIndex ==
    ASSUME NEW home, NEW idx, NEW objs \in Table, Owned(home, objs), IndexFull(idx, objs),
           NEW o \in ObjIds, NEW r \in Object, NEW new, new = [objs EXCEPT ![o] = r],
           Owned(home, new)
    PROVE  IndexFull(index_moved(idx, objs, o, r), new)
<1> SUFFICES ASSUME NEW x \in ObjIds, new[x] # Absent
             PROVE  index_moved(idx, objs, o, r)[new[x].seal] = x
  BY DEF IndexFull
<1>1. new[o] = r /\ \A y \in ObjIds : y # o => new[y] = objs[y]
  BY DEF Table
<1>2. r # Absent /\ r.seal \in Seals /\ home[r.seal] = o
  BY <1>1, AbsentIsNoRecord DEF Owned, Object
<1>3. CASE x = o
  BY <1>1, <1>2, <1>3 DEF index_moved
<1>4. CASE x # o
  <2>1. PICK s : s = objs[x].seal
    OBVIOUS
  <2>2. objs[x] \in Object /\ s \in Seals /\ home[s] = x /\ idx[s] = x /\ new[x] = objs[x]
    BY <1>1, <1>4, <2>1 DEF Table, Object, Owned, IndexFull
  <2>3. s # r.seal /\ (objs[o] # Absent => s # objs[o].seal)
    BY <1>2, <1>4, <2>2 DEF Owned
  <2> QED  BY <2>1, <2>2, <2>3 DEF index_moved
<1> QED  BY <1>3, <1>4

\* The object is saved.
LEMMA CommitReplays ==
    ASSUME NEW home, Replayable(home), ChainInv, DaemonInv, ReplayInv(home),
           sync' = sync, l1' = l1, interrupted' = interrupted, commit_object(SyncTask)
    PROVE  ReplayInv(home)'
<1>0. PICK j : j = job[SyncTask]
  OBVIOUS
<1>1. /\ j \in CallJobs /\ JobReady(j) /\ j.pc = "commit" /\ JobsTyped /\ SyncTask \in Tasks
      /\ sync.pc = "apply" /\ sync.todo # <<>>
  BY <1>0, JobAt, StoreAssumption DEF commit_object, DaemonInv, JobsTyped, SyncTyped, NoJob
<1>2. PICK tx, h, txs, b :
        tx = Head(sync.todo) /\ h = next_height /\ txs = NextTxs /\ b = Before
  OBVIOUS
<1>3. /\ h \in Heights /\ FitBlock(txs) /\ Fresh(home, b, txs, h)
      /\ Mixed(b, txs, h, objects) /\ tx \in Txs /\ WellFormed(tx)
  BY <1>1, <1>2, HeadIs DEF ReplayInv
<1>4. PICK n \in DOMAIN txs : tx = txs[n]
  BY <1>1, <1>2, HeadIs DEF ReplayInv
<1>5. /\ objects' = [objects EXCEPT ![j.obj] = j.rec]
      /\ seals' = index_moved(seals, objects, j.obj, j.rec)
      /\ UNCHANGED <<undo_logs, blocks, last_block, rb, wasm>> /\ rb.phase # "undo"
      /\ job' = [job EXCEPT ![SyncTask] = [j EXCEPT !.pc = "tree"]]
  BY <1>0 DEF commit_object, save_object_commit, can_write, write_lock_free
<1>6. j.rec \in Object /\ j.obj \in ObjIds
  BY <1>1 DEF CallJobs, JobReady
<1>7. /\ replay_tx(objects, tx, h) = [objects EXCEPT ![j.obj] = j.rec]
      /\ Logged(undo_logs, j.obj, h)
  BY <1>0, <1>1, <1>2 DEF ReplayInv, JobReplays, JobFits
<1>8. PICK new : new = replay_tx(objects, tx, h) /\ new = objects'
  BY <1>5, <1>7
<1>9. /\ ObjIdsDistinct /\ CallsCreateNothing /\ TxsWellFormed /\ OneObjectPerSeal(home)
  BY DEF Replayable
<1>10. /\ Mixed(b, txs, h, new) /\ Settled(b, tx, h, new)
       /\ \A m \in DOMAIN txs : Settled(b, txs[m], h, objects) => Settled(b, txs[m], h, new)
  BY <1>3, <1>4, <1>8, <1>9, TxMixes
<1>11. /\ Before' = b /\ NextTxs' = txs /\ next_height' = h /\ in_block' = in_block
       /\ recorded_prefix_of(l1)' = recorded_prefix_of(l1) /\ \A k : Recorded(k)' = Recorded(k)
  BY <1>2, <1>5 DEF Before, Recorded, Replayed, NextTxs, next_height, cursor, first_height, in_block,
         recorded_prefix_of, local_hash
<1>12. TableReplays'
  <2>1. in_block
    BY <1>1 DEF in_block
  <2>2. recorded_prefix_of(l1) /\ h \in DOMAIN l1
    BY <1>2, <2>1 DEF ReplayInv, TableReplays
  <2>3. PICK m : Progress(m)
    BY <1>1 DEF ReplayInv, TableReplays
  <2>4. m \in 0..Len(txs) /\ \A k \in 1..m : k \in DOMAIN txs
    <3>1. txs \in Seq(Txs)
      BY <1>3 DEF FitBlock
    <3>2. Len(txs) \in Nat /\ DOMAIN txs = 1..Len(txs)
      BY <3>1
    <3>3. PICK D \in Nat : D = Len(txs) /\ DOMAIN txs = 1..D
      BY <3>2
    <3>4. m \in 0..D
      BY <1>2, <2>3, <3>3 DEF Progress
    <3>5. \A k \in 1..m : k \in 1..D
      BY <3>4
    <3> QED  BY <3>3, <3>4, <3>5
  <2>5. Progress(m)'
    BY <1>2, <1>8, <1>10, <1>11, <2>3, <2>4 DEF Progress
  <2> QED  BY <1>1, <1>8, <1>10, <1>11, <2>1, <2>2, <2>5 DEF TableReplays
<1>13. objects \in Table /\ Owned(home, objects) /\ Owned(home, new)
  BY <1>3, <1>8, <1>9, <1>10, MixedOwned
<1>14. IndexFull(seals, objects)'
  <2>1. IndexFull(index_moved(seals, objects, j.obj, j.rec), new)
    BY <1>5, <1>6, <1>8, <1>13, MoveFillsIndex DEF ReplayInv
  <2> QED  BY <1>5, <1>8, <2>1
<1>15. LogsReplay(home)'
  <2>1. \A u : LogReplays(home, u)' <=> LogReplays(home, u)
    BY <1>2, <1>11 DEF LogReplays, first_height
  <2>2. ASSUME NEW o \in ObjIds, objects'[o] # b[o] PROVE Logged(undo_logs, o, h)
    <3>1. CASE o = j.obj
      BY <1>7, <3>1
    <3>2. CASE o # j.obj
      <4>1. objects'[o] = objects[o]
        BY <1>5, <1>13, <3>2 DEF Table
      <4> QED  BY <1>2, <2>2, <4>1 DEF ReplayInv, LogsReplay
    <3> QED  BY <3>1, <3>2
  <2> QED  BY <1>2, <1>5, <1>11, <2>1, <2>2 DEF ReplayInv, LogsReplay, first_height
<1>16. WalkReplays'
  BY <1>5 DEF WalkReplays
<1>17. PICK k : k = [j EXCEPT !.pc = "tree"]
  OBVIOUS
<1>18. k.pc = "tree" /\ job'[SyncTask] = k
  BY <1>1, <1>5, <1>17 DEF CallJobs, JobsTyped
<1>19. JobReplays(home)' /\ JobKnown'
  <2>1. Settled(Before, tx, next_height, objects)'
    BY <1>8, <1>10, <1>11
  <2>2. JobReplays(home)'
    BY <1>2, <1>18, <2>1 DEF JobReplays, JobFits
  <2>3. JobKnown'
    BY <1>1, <1>18 DEF JobKnown, JobCodes
  <2> QED  BY <2>2, <2>3
<1>20. CodesKnown'
  <2>1. j.rec.code \in Have(wasm)
    BY <1>0, <1>1 DEF ReplayInv, JobKnown, JobCodes
  <2>2. ASSUME NEW o \in ObjIds, objects'[o] # Absent PROVE objects'[o].code \in Have(wasm)
    BY <1>5, <1>13, <2>1, <2>2 DEF ReplayInv, CodesKnown, Table
  <2> QED  BY <1>2, <1>5, <1>11, <2>2 DEF ReplayInv, CodesKnown, Have, first_height
<1>21. Alone'
  BY <1>1, <1>5 DEF ReplayInv, Alone, JobsTyped
<1> QED  BY <1>12, <1>14, <1>15, <1>16, <1>19, <1>20, <1>21 DEF ReplayInv

\* Only the program counter of the job moves.
LEMMA RestReplays ==
    ASSUME NEW home, DaemonInv, ReplayInv(home),
           sync' = sync, l1' = l1, interrupted' = interrupted,
           update_tree(SyncTask) \/ record_transition(SyncTask)
    PROVE  ReplayInv(home)'
<1>0. PICK j : j = job[SyncTask]
  OBVIOUS
<1>1. /\ j \in CallJobs /\ j.pc \in {"tree", "transition"} /\ JobsTyped /\ SyncTask \in Tasks
  BY <1>0, JobAt, StoreAssumption DEF update_tree, record_transition, DaemonInv, JobsTyped
<1>2. /\ UNCHANGED <<objects, seals, undo_logs, blocks, last_block, rb, wasm>>
      /\ \/ job' = [job EXCEPT ![SyncTask] = Returned]
         \/ job' = [job EXCEPT ![SyncTask] = [j EXCEPT !.pc = "transition"]]
  <2>1. ASSUME update_tree(SyncTask)
        PROVE  /\ UNCHANGED <<objects, seals, undo_logs, blocks, last_block, rb, wasm>>
               /\ \/ job' = [job EXCEPT ![SyncTask] = Returned]
                  \/ job' = [job EXCEPT ![SyncTask] = [j EXCEPT !.pc = "transition"]]
    <3>1. job' = [job EXCEPT ![SyncTask] = IF j.action = "CREATE" THEN Returned
                                            ELSE [j EXCEPT !.pc = "transition"]]
      BY <1>0, <1>1, <2>1 DEF update_tree, JobsTyped
    <3> QED  BY <2>1, <3>1 DEF update_tree, save_object_smt, tables
  <2>2. ASSUME record_transition(SyncTask)
        PROVE  /\ UNCHANGED <<objects, seals, undo_logs, blocks, last_block, rb, wasm>>
               /\ job' = [job EXCEPT ![SyncTask] = Returned]
    BY <2>2 DEF record_transition, save_transition
  <2> QED  BY <2>1, <2>2
<1>3. PICK k : job' = [job EXCEPT ![SyncTask] = k] /\ k.pc \in {"returned", "transition"}
  <2>1. [j EXCEPT !.pc = "transition"].pc = "transition" /\ Returned.pc = "returned"
    BY <1>1 DEF CallJobs, Returned
  <2> QED  BY <1>2, <2>1
<1>4. job'[SyncTask] = k
  BY <1>1, <1>3 DEF JobsTyped
<1>5. Settled(Before, Head(sync.todo), next_height, objects)
  BY <1>0, <1>1 DEF ReplayInv, JobReplays, JobFits
<1>6. JobFits(home, undo_logs', k)
  BY <1>3, <1>5 DEF JobFits
<1>7. JobCodes(wasm', k)
  BY <1>3 DEF ReplayInv, JobKnown, JobCodes
<1>8. JobReplays(home)' /\ JobKnown'
  BY <1>2, <1>4, <1>6, <1>7, JobFitsOn
<1>9. TableReplays' /\ LogsReplay(home)' /\ WalkReplays' /\ CodesKnown' /\ IndexFull(seals, objects)'
  BY <1>2, TableKept, LogsKept, WalkKept, CodesKept, IndexKept DEF ReplayInv
<1>10. Alone'
  BY <1>1, <1>3 DEF ReplayInv, Alone, JobsTyped
<1> QED  BY <1>8, <1>9, <1>10 DEF ReplayInv

\* No transaction is in hand, and the tables stay.
LEMMA QuietReplays ==
    ASSUME NEW home, DaemonInv, ReplayInv(home), UNCHANGED <<storeVars, job>>,
           sync.pc # "apply" \/ sync.todo = <<>>, sync'.retried => sync.retried, TableReplays'
    PROVE  ReplayInv(home)'
<1>1. job[SyncTask] = NoJob /\ ~ sync.retried
  BY DEF DaemonInv, SyncTyped, ReplayInv, JobKnown, JobCodes
<1>2. /\ UNCHANGED <<objects, seals, undo_logs, blocks, last_block, rb, wasm>>
      /\ job'[SyncTask] = NoJob /\ ~ sync'.retried
  BY <1>1 DEF storeVars
<1>3. JobReplays(home)' /\ JobKnown'
  BY <1>2 DEF JobReplays, JobFits, JobKnown, JobCodes, NoJob
<1>4. LogsReplay(home)' /\ WalkReplays' /\ CodesKnown' /\ IndexFull(seals, objects)'
  BY <1>2, LogsKept, WalkKept, CodesKept, IndexKept DEF ReplayInv
<1>5. Alone'
  BY DEF ReplayInv, Alone
<1> QED  BY <1>3, <1>4, <1>5 DEF ReplayInv

\* Outside a block the pass goes on.
LEMMA TablePasses ==
    ASSUME TableReplays, UNCHANGED <<objects, blocks, last_block, l1, interrupted>>,
           sync.pc \notin {"apply", "block", "cursor"}, sync'.pc \notin {"apply", "block", "cursor"},
           interrupted => sync'.pc \notin {"backtrack", "rollback", "attest"}
    PROVE  TableReplays'
<1>1. /\ Before' = Before /\ NextTxs' = NextTxs /\ next_height' = next_height
      /\ (in_block <=> interrupted) /\ (in_block' <=> interrupted)
      /\ recorded_prefix_of(l1)' = recorded_prefix_of(l1)
  BY DEF Before, Recorded, Replayed, NextTxs, next_height, cursor, first_height, in_block,
         recorded_prefix_of, local_hash
<1>2. Mixed(Before, NextTxs, next_height, objects)' <=> Mixed(Before, NextTxs, next_height, objects)
  BY <1>1
<1>3. ~ interrupted => objects' = Before'
  BY <1>1 DEF TableReplays
<1>4. interrupted => /\ recorded_prefix_of(l1)' /\ (next_height \in DOMAIN l1)'
                     /\ Mixed(Before, NextTxs, next_height, objects)'
  BY <1>1, <1>2 DEF TableReplays
<1> QED  BY <1>1, <1>3, <1>4 DEF TableReplays

\* No fork is found while the L1 still shows what is recorded.
LEMMA NoForkFound ==
    ASSUME ChainInv, recorded_prefix_of(l1), sync.pc = "check", sync.last > 0,
           local_hash(sync.last) # Absent
    PROVE  l1[sync.last] = local_hash(sync.last)
<1>1. ChainTypes /\ RecordsPlaced
  BY DEF ChainInv
<1>2. /\ first_height \in Nat \ {0} /\ cursor \in Nat /\ StartHeight \in Nat /\ Heights \subseteq Nat
      /\ cursor \in Heights
  BY <1>1, HeightFacts DEF ChainTypes, cursor
<1>3. sync.last = IF cursor = 0 /\ StartHeight > 0 THEN StartHeight - 1 ELSE cursor
  BY DEF ChainInv, PassSound
<1>4. CASE cursor = 0
  <2>1. sync.last = StartHeight - 1 /\ StartHeight > 0 /\ first_height = StartHeight
    BY <1>2, <1>3, <1>4 DEF first_height
  <2>2. sync.last \in Heights
    <3>1. StartHeight \in Heights /\ 0..StartHeight \subseteq Heights
      BY <1>2, ScannerAssumption
    <3>2. StartHeight - 1 \in 0..StartHeight
      BY <1>2, <2>1
    <3> QED  BY <2>1, <3>1, <3>2
  <2>3. sync.last >= first_height
    BY <1>1, <2>2 DEF RecordsPlaced
  <2> QED  BY <1>2, <2>1, <2>3
<1>5. CASE cursor # 0
  <2>1. sync.last = cursor /\ cursor >= first_height
    BY <1>1, <1>3, <1>5 DEF RecordsPlaced
  <2>2. cursor \in first_height..cursor
    BY <1>2, <2>1
  <2> QED  BY <2>1, <2>2 DEF recorded_prefix_of
<1> QED  BY <1>4, <1>5

LEMMA ReadersReplay ==
    ASSUME NEW home, Replayable(home), ChainInv, DaemonInv, ReplayInv(home),
           \/ get_tip_height \/ check_cursor \/ backtrack_down \/ backtrack_failed
           \/ rollback_return \/ scan_done \/ get_block_hash
    PROVE  ReplayInv(home)'
<1>1. UNCHANGED <<storeVars, job, l1, interrupted>>
  BY DEF get_tip_height, check_cursor, backtrack_down, backtrack_failed, rollback_return,
         scan_done, get_block_hash, reading, procVars
<1>2. UNCHANGED <<objects, blocks, last_block>>
  BY <1>1 DEF storeVars
<1>3. sync.pc \in {"tick", "check", "backtrack", "rollback", "scan"}
  BY DEF get_tip_height, check_cursor, backtrack_down, backtrack_failed, rollback_return,
         scan_done, get_block_hash
<1>4. PICK s \in Locals : s = sync
  BY DEF DaemonInv, SyncTyped, LocalsFit
<1>5. ~ Waiting.retried /\ Waiting.pc = "tick"
  BY DEF Waiting
<1>6. /\ sync'.retried => sync.retried
      /\ sync'.pc \in {"tick", "check", "backtrack", "scan", "txs"}
      /\ interrupted => sync'.pc # "backtrack"
  <2>1. CASE get_tip_height
    <3>1. /\ sync' = [Waiting EXCEPT !.pc = "check", !.tip = Len(l1),
                               !.last = IF cursor = 0 /\ StartHeight > 0
                                        THEN StartHeight - 1 ELSE cursor]
      BY <2>1 DEF get_tip_height
    <3> QED  BY <3>1 DEF Waiting
  <2>2. CASE backtrack_failed \/ scan_done
    <3>1. sync' = Waiting
      BY <2>2 DEF backtrack_failed, scan_done
    <3> QED  BY <1>5, <3>1
  <2>3. CASE check_cursor
    <3>1. \/ sync' = [s EXCEPT !.pc = "scan", !.h = s.last + 1]
          \/ /\ s.last > 0 /\ local_hash(s.last) # Absent /\ l1[s.last] # local_hash(s.last)
             /\ sync' = [s EXCEPT !.pc = "backtrack", !.ancestor = s.last - 1]
      BY <1>4, <2>3 DEF check_cursor
    <3>2. CASE sync' = [s EXCEPT !.pc = "scan", !.h = s.last + 1]
      BY <1>4, <3>2 DEF Locals
    <3>3. CASE /\ s.last > 0 /\ local_hash(s.last) # Absent /\ l1[s.last] # local_hash(s.last)
               /\ sync' = [s EXCEPT !.pc = "backtrack", !.ancestor = s.last - 1]
      <4>1. sync.pc = "check"
        BY <2>3 DEF check_cursor
      <4>2. ~ recorded_prefix_of(l1)
        BY <1>4, <3>3, <4>1, NoForkFound
      <4>3. ~ interrupted
        BY <4>2 DEF ReplayInv, TableReplays, in_block
      <4>4. sync'.pc = "backtrack" /\ sync'.retried = s.retried
        BY <3>3 DEF Locals
      <4> QED  BY <1>4, <4>3, <4>4
    <3> QED  BY <3>1, <3>2, <3>3
  <2>4. CASE backtrack_down
    <3>1. sync' = [s EXCEPT !.ancestor = @ - 1] /\ sync.pc = "backtrack"
      BY <1>4, <2>4 DEF backtrack_down
    <3>2. sync'.pc = "backtrack" /\ sync'.retried = s.retried
      BY <1>4, <3>1 DEF Locals
    <3>3. ~ interrupted
      BY <3>1 DEF ReplayInv, TableReplays, in_block
    <3> QED  BY <1>4, <3>2, <3>3
  <2>5. CASE rollback_return
    <3>1. sync' = [s EXCEPT !.pc = "scan", !.last = s.ancestor, !.h = s.ancestor + 1]
      BY <1>4, <2>5 DEF rollback_return
    <3> QED  BY <1>4, <3>1 DEF Locals
  <2>6. CASE get_block_hash
    <3>1. \/ sync' = [s EXCEPT !.pc = "txs", !.hash = l1[s.h]]
          \/ sync' = [s EXCEPT !.h = @ + 1]
      BY <1>4, <2>6 DEF get_block_hash
    <3>2. sync.pc = "scan"
      BY <2>6 DEF get_block_hash
    <3> QED  BY <1>4, <3>1, <3>2 DEF Locals
  <2> QED  BY <2>1, <2>2, <2>3, <2>4, <2>5, <2>6
<1>7. TableReplays'
  BY <1>1, <1>2, <1>3, <1>6, TablePasses DEF ReplayInv
<1> QED  BY <1>1, <1>3, <1>6, <1>7, QuietReplays

\* The transactions of the next block are fetched.
LEMMA FetchReplays ==
    ASSUME NEW home, Replayable(home), ChainInv, DaemonInv, ReplayInv(home), get_block_txs
    PROVE  ReplayInv(home)'
<1>1. UNCHANGED <<storeVars, job, l1, interrupted>> /\ sync.pc = "txs"
  BY DEF get_block_txs, reading, procVars
<1>2. UNCHANGED <<objects, blocks, last_block>>
  BY <1>1 DEF storeVars
<1>3. PICK s \in Locals : s = sync
  BY DEF DaemonInv, SyncTyped, LocalsFit
<1>4. "txs_error" \notin Env
  BY DEF Replayable, OnlyBlocks
<1>5. sync' = [s EXCEPT !.pc = "apply", !.todo = BlockTxs[s.hash]]
  BY <1>3, <1>4 DEF get_block_txs, fault
<1>6. /\ recorded_prefix_of(l1) /\ s.h = next_height /\ s.hash = l1[next_height]
  BY <1>1, <1>3 DEF ChainInv, PassSound
<1>7. next_height \in DOMAIN l1 /\ l1[next_height] \in Blocks
  <2>1. s.h \in 1..s.tip /\ s.tip <= Len(l1) /\ l1 \in L1Chains
    BY <1>1, <1>3 DEF DaemonInv, SyncTyped, LocalsFit
  <2>2. Len(l1) \in Nat /\ s.tip \in Nat
    BY <1>3, <2>1, L1Facts, StoreAssumption DEF Locals
  <2>3. s.h \in 1..Len(l1)
    BY <2>1, <2>2
  <2> QED  BY <1>6, <2>1, <2>3, L1Facts
<1>8. sync'.pc = "apply" /\ sync'.todo = NextTxs /\ sync'.retried = sync.retried
  BY <1>3, <1>5, <1>6 DEF Locals, NextTxs
<1>9. /\ Before' = Before /\ NextTxs' = NextTxs /\ next_height' = next_height
      /\ recorded_prefix_of(l1)' = recorded_prefix_of(l1)
  BY <1>1, <1>2 DEF Before, Recorded, Replayed, NextTxs, next_height, cursor, first_height,
         recorded_prefix_of, local_hash
<1>10. Mixed(Before, NextTxs, next_height, objects)
  <2>1. CASE interrupted
    BY <2>1 DEF ReplayInv, TableReplays, in_block
  <2>2. CASE ~ interrupted
    <3>1. objects = Before
      BY <1>1, <2>2 DEF ReplayInv, TableReplays, in_block
    <3> QED  BY <3>1 DEF Mixed, Table, DaemonInv, StoreTypeOK
  <2> QED  BY <2>1, <2>2
<1>11. Progress(0)'
  <2>1. PICK txs \in Seq(Txs) : txs = NextTxs
    BY <1>7 DEF Replayable, TxsWellFormed, NextTxs
  <2>2. 0 \in 0..Len(txs) /\ Len(txs) = Len(txs) - 0 /\ \A i \in DOMAIN txs : txs[i] = txs[0 + i]
    BY <2>1
  <2>3. 1..0 = {}
    OBVIOUS
  <2> QED  BY <1>8, <1>9, <2>1, <2>2, <2>3 DEF Progress
<1>12. TableReplays'
  <2>1. Mixed(Before, NextTxs, next_height, objects)'
    BY <1>2, <1>9, <1>10
  <2>2. recorded_prefix_of(l1)' /\ (next_height \in DOMAIN l1)'
    BY <1>1, <1>6, <1>7, <1>9
  <2>3. in_block'
    BY <1>8 DEF in_block
  <2> QED  BY <1>8, <1>11, <2>1, <2>2, <2>3 DEF TableReplays
<1> QED  BY <1>1, <1>8, <1>12, QuietReplays

\* All transactions of the block are done.
LEMMA RootReplays ==
    ASSUME NEW home, Replayable(home), ChainInv, DaemonInv, ReplayInv(home), read_root
    PROVE  ReplayInv(home)'
<1>1. UNCHANGED <<storeVars, job, l1, interrupted>> /\ sync.pc = "apply" /\ sync.todo = <<>>
  BY DEF read_root, reading, procVars
<1>2. UNCHANGED <<objects, blocks, last_block>>
  BY <1>1 DEF storeVars
<1>3. PICK s \in Locals : s = sync
  BY DEF DaemonInv, SyncTyped, LocalsFit
<1>4. sync' = [s EXCEPT !.pc = "block", !.root = current_state_root]
  BY <1>3 DEF read_root
<1>5. sync'.pc = "block" /\ sync'.retried = sync.retried
  BY <1>3, <1>4 DEF Locals
<1>6. in_block
  BY <1>1 DEF in_block
<1>7. /\ recorded_prefix_of(l1) /\ next_height \in DOMAIN l1
      /\ Mixed(Before, NextTxs, next_height, objects)
  BY <1>6 DEF ReplayInv, TableReplays
<1>8. PICK n : Progress(n)
  BY <1>1 DEF ReplayInv, TableReplays
<1>9. PICK txs \in Seq(Txs), D \in Nat : txs = NextTxs /\ D = Len(txs) /\ DOMAIN txs = 1..D
  <2>1. PICK q \in Seq(Txs) : q = NextTxs
    BY <1>7, NextFits DEF FitBlock
  <2>2. Len(q) \in Nat /\ DOMAIN q = 1..Len(q)
    BY <2>1
  <2> QED  BY <2>1, <2>2
<1>10. n \in 0..D /\ 0 = D - n
  BY <1>1, <1>8, <1>9 DEF Progress
<1>11. n = D
  BY <1>10
<1>12. \A k \in DOMAIN NextTxs : Settled(Before, NextTxs[k], next_height, objects)
  BY <1>8, <1>9, <1>11 DEF Progress
<1>13. /\ Before' = Before /\ NextTxs' = NextTxs /\ next_height' = next_height
       /\ recorded_prefix_of(l1)' = recorded_prefix_of(l1)
  BY <1>1, <1>2 DEF Before, Recorded, Replayed, NextTxs, next_height, cursor, first_height,
         recorded_prefix_of, local_hash
<1>14. TableReplays'
  <2>1. Mixed(Before, NextTxs, next_height, objects)'
    BY <1>2, <1>7, <1>13
  <2>2. recorded_prefix_of(l1)' /\ (next_height \in DOMAIN l1)'
    BY <1>1, <1>7, <1>13
  <2>3. in_block'
    BY <1>5 DEF in_block
  <2>4. \A k \in DOMAIN NextTxs' : Settled(Before, NextTxs[k], next_height, objects)'
    BY <1>2, <1>12, <1>13
  <2> QED  BY <1>5, <2>1, <2>2, <2>3, <2>4 DEF TableReplays
<1> QED  BY <1>1, <1>5, <1>14, QuietReplays

LEMMA AttestReplays ==
    ASSUME NEW home, DaemonInv, ReplayInv(home), attest
    PROVE  ReplayInv(home)'
<1>1. UNCHANGED <<storeVars, job, l1, interrupted>> /\ sync.pc = "attest"
  BY DEF attest, procVars
<1>2. UNCHANGED <<objects, blocks, last_block>>
  BY <1>1 DEF storeVars
<1>3. PICK s \in Locals : s = sync
  BY DEF DaemonInv, SyncTyped, LocalsFit
<1>4. sync' = [s EXCEPT !.pc = "scan", !.h = @ + 1]
  BY <1>3 DEF attest
<1>5. sync'.pc = "scan" /\ sync'.retried = sync.retried
  BY <1>3, <1>4 DEF Locals
<1>6. TableReplays'
  BY <1>1, <1>2, <1>5, TablePasses DEF ReplayInv
<1> QED  BY <1>1, <1>5, <1>6, QuietReplays

\* A call has returned, and its transaction is settled.
LEMMA ReturnReplays ==
    ASSUME NEW home, Replayable(home), ChainInv, DaemonInv, ReplayInv(home), next_tx
    PROVE  ReplayInv(home)'
<1>1. UNCHANGED <<storeVars, l1, interrupted>> /\ sync.pc = "apply" /\ SyncTask \in Tasks
  BY StoreAssumption DEF next_tx, writing
<1>2. UNCHANGED <<objects, seals, undo_logs, blocks, last_block, rb, wasm>>
  BY <1>1 DEF storeVars
<1>3. PICK s \in Locals : s = sync
  BY DEF DaemonInv, SyncTyped, LocalsFit
<1>4. job[SyncTask] = Returned /\ job' = [job EXCEPT ![SyncTask] = NoJob]
  BY DEF next_tx, ReplayInv, JobKnown, JobCodes
<1>5. s.todo # <<>>
  BY <1>3, <1>4 DEF DaemonInv, SyncTyped, Returned, NoJob
<1>6. sync' = [s EXCEPT !.todo = Tail(s.todo), !.retried = FALSE]
  BY <1>3 DEF next_tx
<1>7. sync'.pc = "apply" /\ sync'.todo = Tail(s.todo) /\ ~ sync'.retried
  BY <1>1, <1>3, <1>6 DEF Locals
<1>8. job'[SyncTask] = NoJob
  BY <1>1, <1>4 DEF DaemonInv, JobsTyped
<1>9. Settled(Before, Head(s.todo), next_height, objects)
  BY <1>3, <1>4 DEF ReplayInv, JobReplays, JobFits, Returned
<1>10. in_block
  BY <1>1 DEF in_block
<1>11. /\ recorded_prefix_of(l1) /\ next_height \in DOMAIN l1
       /\ Mixed(Before, NextTxs, next_height, objects)
  BY <1>10 DEF ReplayInv, TableReplays
<1>12. /\ Before' = Before /\ NextTxs' = NextTxs /\ next_height' = next_height
       /\ recorded_prefix_of(l1)' = recorded_prefix_of(l1)
  BY <1>1, <1>2 DEF Before, Recorded, Replayed, NextTxs, next_height, cursor, first_height,
         recorded_prefix_of, local_hash
<1>13. PICK n : Progress(n)
  BY <1>1 DEF ReplayInv, TableReplays
<1>14. PICK txs \in Seq(Txs), todo \in Seq(Txs) : txs = NextTxs /\ todo = s.todo
  BY <1>3, <1>11, NextFits DEF FitBlock, Locals
<1>15. /\ n \in 0..Len(txs) /\ Len(todo) = Len(txs) - n
       /\ \A i \in DOMAIN todo : todo[i] = txs[n + i]
       /\ \A k \in 1..n : Settled(Before, txs[k], next_height, objects)
  BY <1>3, <1>13, <1>14 DEF Progress
<1>16. Len(todo) \in Nat /\ Len(txs) \in Nat /\ Len(todo) # 0 /\ DOMAIN todo = 1..Len(todo)
  BY <1>5, <1>14
<1>17. PICK D \in Nat, E \in Nat : D = Len(txs) /\ E = Len(todo)
  BY <1>16
<1>18. n + 1 \in 0..D /\ E - 1 = D - (n + 1) /\ n \in Nat /\ 1 \in 1..E
  BY <1>15, <1>16, <1>17
<1>19. Tail(todo) \in Seq(Txs) /\ Len(Tail(todo)) = E - 1 /\ Head(todo) = todo[1]
       /\ \A i \in 1..(E - 1) : Tail(todo)[i] = todo[i + 1]
  BY <1>5, <1>14, <1>17
<1>20. DOMAIN Tail(todo) = 1..(E - 1)
  BY <1>19
<1>21. \A i \in 1..(E - 1) : Tail(todo)[i] = txs[(n + 1) + i]
  <2> SUFFICES ASSUME NEW i \in 1..(E - 1) PROVE Tail(todo)[i] = txs[(n + 1) + i]
    OBVIOUS
  <2>1. i + 1 \in 1..E /\ n + (i + 1) = (n + 1) + i
    BY <1>18
  <2> QED  BY <1>15, <1>16, <1>17, <1>19, <2>1
<1>22. \A k \in 1..(n + 1) : Settled(Before, txs[k], next_height, objects)
  <2>1. Settled(Before, txs[n + 1], next_height, objects)
    <3>1. todo[1] = txs[n + 1]
      BY <1>15, <1>16, <1>17, <1>18
    <3> QED  BY <1>9, <1>14, <1>19, <3>1
  <2>2. \A k \in 1..(n + 1) : k \in 1..n \/ k = n + 1
    BY <1>18
  <2> QED  BY <1>15, <2>1, <2>2
<1>23. Progress(n + 1)'
  <2>1. n + 1 \in 0..Len(txs) /\ Len(Tail(todo)) = Len(txs) - (n + 1)
    BY <1>17, <1>18, <1>19
  <2>2. sync'.todo = Tail(todo) /\ NextTxs' = txs
    BY <1>7, <1>12, <1>14
  <2> QED  BY <1>2, <1>12, <1>20, <1>21, <1>22, <2>1, <2>2 DEF Progress
<1>24. TableReplays'
  <2>1. Mixed(Before, NextTxs, next_height, objects)'
    BY <1>2, <1>11, <1>12
  <2>2. recorded_prefix_of(l1)' /\ (next_height \in DOMAIN l1)'
    BY <1>1, <1>11, <1>12
  <2>3. in_block'
    BY <1>7 DEF in_block
  <2> QED  BY <1>7, <1>23, <2>1, <2>2, <2>3 DEF TableReplays
<1>25. JobReplays(home)' /\ JobKnown'
  BY <1>7, <1>8 DEF JobReplays, JobFits, JobKnown, JobCodes, NoJob
<1>26. LogsReplay(home)' /\ WalkReplays' /\ CodesKnown' /\ IndexFull(seals, objects)'
  BY <1>2, LogsKept, WalkKept, CodesKept, IndexKept DEF ReplayInv
<1>27. Alone'
  BY <1>1, <1>4 DEF ReplayInv, Alone, DaemonInv, JobsTyped
<1> QED  BY <1>24, <1>25, <1>26, <1>27 DEF ReplayInv

\* A missing blob is fetched, and the call made once more.
LEMMA BlobReplays ==
    ASSUME NEW home, Replayable(home), ChainInv, DaemonInv, ReplayInv(home), fetch_blob
    PROVE  ReplayInv(home)'
<1>0. PICK j : j = job[SyncTask]
  OBVIOUS
<1>1. /\ UNCHANGED <<objects, seals, undo_logs, blocks, last_block, rb, l1, interrupted>>
      /\ wasm' = wasm \cup {j.code} /\ sync.pc = "apply" /\ SyncTask \in Tasks
      /\ j.pc = "missing" /\ job' = [job EXCEPT ![SyncTask] = NoJob]
  BY <1>0, StoreAssumption DEF fetch_blob, save_wasm, writing
<1>2. PICK s \in Locals : s = sync
  BY DEF DaemonInv, SyncTyped, LocalsFit
<1>3. sync' = [s EXCEPT !.retried = TRUE]
  BY <1>2 DEF fetch_blob
<1>4. sync'.pc = "apply" /\ sync'.todo = sync.todo /\ sync'.h = sync.h
  BY <1>1, <1>2, <1>3 DEF Locals
<1>5. sync.todo # <<>>
  BY <1>0, <1>1 DEF DaemonInv, SyncTyped, NoJob
<1>6. j.code = objects[target(Head(sync.todo))].code
  BY <1>0, <1>1 DEF ReplayInv, JobKnown, JobCodes
<1>7. job'[SyncTask] = NoJob
  BY <1>1 DEF DaemonInv, JobsTyped
<1>8. target(Head(sync.todo))' = target(Head(sync.todo))
  BY <1>1, <1>4 DEF target, target_inputs, get_object_by_seal
<1>9. JobKnown'
  <2>1. job'[SyncTask].pc = "idle"
    BY <1>7 DEF NoJob
  <2>2. (objects[target(Head(sync.todo))].code \in wasm)'
    BY <1>1, <1>6, <1>8
  <2>3. sync'.pc = "apply" /\ sync'.todo # <<>>
    BY <1>4, <1>5
  <2> QED  BY <2>1, <2>2, <2>3 DEF JobKnown, JobCodes
<1>10. JobReplays(home)'
  BY <1>7 DEF JobReplays, JobFits, NoJob
<1>11. /\ Before' = Before /\ NextTxs' = NextTxs /\ next_height' = next_height
       /\ recorded_prefix_of(l1)' = recorded_prefix_of(l1)
  BY <1>1 DEF Before, Recorded, Replayed, NextTxs, next_height, cursor, first_height,
         recorded_prefix_of, local_hash
<1>12. in_block /\ in_block'
  BY <1>1, <1>4 DEF in_block
<1>13. \A n : Progress(n)' <=> Progress(n)
  BY <1>1, <1>4, <1>11 DEF Progress
<1>14. TableReplays'
  BY <1>1, <1>4, <1>11, <1>12, <1>13 DEF ReplayInv, TableReplays
<1>15. LogsReplay(home)' /\ WalkReplays' /\ CodesKnown' /\ IndexFull(seals, objects)'
  BY <1>1, LogsKept, WalkKept, CodesKept, IndexKept DEF ReplayInv
<1>16. Alone'
  BY <1>1 DEF ReplayInv, Alone, DaemonInv, JobsTyped
<1> QED  BY <1>9, <1>10, <1>14, <1>15, <1>16 DEF ReplayInv

\* No transaction is skipped.
LEMMA NoneSkipped ==
    ASSUME NEW home, Replayable(home), ReplayInv(home)
    PROVE  ~ skip_missing
<1>1. "dht_error" \notin Env
  BY DEF Replayable, OnlyBlocks
<1> QED  BY <1>1 DEF skip_missing, fault, ReplayInv, JobKnown, JobCodes

\* The block is recorded.
LEMMA RecordReplays ==
    ASSUME NEW home, Replayable(home), ChainInv, DaemonInv, ReplayInv(home), record_block
    PROVE  ReplayInv(home)'
<1>1. /\ UNCHANGED <<objects, seals, undo_logs, last_block, rb, wasm, job, l1, interrupted>>
      /\ blocks' = [blocks EXCEPT ![Chain] = [@ EXCEPT ![sync.h] = sync.hash]]
      /\ sync.pc = "block" /\ rb.phase # "undo"
  BY DEF record_block, save_block, can_write, write_lock_free, writing
<1>2. PICK s \in Locals : s = sync
  BY DEF DaemonInv, SyncTyped, LocalsFit
<1>3. sync' = [s EXCEPT !.pc = "cursor"]
  BY <1>2 DEF record_block, goto
<1>4. sync'.pc = "cursor" /\ sync'.retried = sync.retried
  BY <1>2, <1>3 DEF Locals
<1>5. PICK h : h = next_height
  OBVIOUS
<1>6. sync.h = h
  BY <1>1, <1>5 DEF ChainInv, PassSound
<1>7. /\ first_height \in Nat \ {0} /\ cursor \in Nat /\ h \in Nat
      /\ first_height <= h /\ cursor < h
  BY <1>5, NextIs DEF ChainInv
<1>8. ASSUME NEW k, k # h PROVE blocks'[Chain][k] = blocks[Chain][k]
  BY <1>1, <1>6, <1>8, HeightFacts DEF DaemonInv, StoreTypeOK
<1>9. PICK m \in Nat : m = h - 1
  BY <1>7
<1>10. ASSUME NEW k \in (first_height - 1)..m PROVE Recorded(k)' = Recorded(k)
  <2>1. \A x \in first_height..m : blocks'[Chain][x] = blocks[Chain][x]
    <3>1. \A x \in first_height..m : x # h
      BY <1>7, <1>9
    <3> QED  BY <1>8, <3>1
  <2> QED  BY <2>1, RecordedStays
<1>11. next_height' = h /\ cursor' = cursor /\ NextTxs' = NextTxs /\ first_height' = first_height
  BY <1>1, <1>5 DEF next_height, cursor, first_height, NextTxs
<1>12. Before' = Before
  <2>1. m \in (first_height - 1)..m
    BY <1>7, <1>9
  <2>2. Recorded(m)' = Recorded(m)
    BY <1>10, <2>1
  <2>3. Before = Recorded(m) /\ Before' = Recorded(m)'
    BY <1>5, <1>9, <1>11 DEF Before, Recorded
  <2> QED  BY <2>2, <2>3
<1>13. in_block /\ in_block'
  BY <1>1, <1>4 DEF in_block
<1>14. recorded_prefix_of(l1)'
  <2>1. recorded_prefix_of(l1)
    BY <1>13 DEF ReplayInv, TableReplays
  <2>2. \A x \in first_height..cursor : x # h
    BY <1>7
  <2> QED  BY <1>1, <1>8, <1>11, <2>1, <2>2 DEF recorded_prefix_of, local_hash
<1>15. TableReplays'
  <2>1. /\ next_height \in DOMAIN l1 /\ Mixed(Before, NextTxs, next_height, objects)
        /\ \A k \in DOMAIN NextTxs : Settled(Before, NextTxs[k], next_height, objects)
    BY <1>1, <1>13 DEF ReplayInv, TableReplays
  <2>2. (next_height \in DOMAIN l1)' /\ Mixed(Before, NextTxs, next_height, objects)'
    BY <1>1, <1>5, <1>11, <1>12, <2>1
  <2>3. \A k \in DOMAIN NextTxs' : Settled(Before, NextTxs[k], next_height, objects)'
    BY <1>1, <1>5, <1>11, <1>12, <2>1
  <2> QED  BY <1>4, <1>13, <1>14, <2>2, <2>3 DEF TableReplays
<1>16. LogsReplay(home)'
  <2>1. ASSUME NEW u \in undo_logs PROVE LogReplays(home, u)'
    <3>1. LogReplays(home, u)
      BY DEF ReplayInv, LogsReplay
    <3>2. u.height - 1 \in (first_height - 1)..m
      <4>1. u.height \in Nat
        BY StoreAssumption DEF DaemonInv, StoreTypeOK, UndoLog
      <4> QED  BY <1>5, <1>7, <1>9, <3>1, <4>1 DEF LogReplays
    <3>3. Recorded(u.height - 1)' = Recorded(u.height - 1)
      BY <1>10, <3>2
    <3> QED  BY <1>5, <1>11, <3>1, <3>3 DEF LogReplays
  <2>2. ASSUME NEW k \in first_height..(h - 1), NEW o \in ObjIds,
               Recorded(k)'[o] # Recorded(k - 1)'[o]
        PROVE  Logged(undo_logs, o, k)
    <3>1. k \in (first_height - 1)..m /\ k - 1 \in (first_height - 1)..m
      BY <1>7, <1>9
    <3>2. Recorded(k)' = Recorded(k) /\ Recorded(k - 1)' = Recorded(k - 1)
      BY <1>10, <3>1
    <3> QED  BY <1>5, <2>2, <3>2 DEF ReplayInv, LogsReplay
  <2>3. \A o \in ObjIds : objects'[o] # Before'[o] => Logged(undo_logs, o, h)
    BY <1>1, <1>5, <1>12 DEF ReplayInv, LogsReplay
  <2> QED  BY <1>1, <1>11, <2>1, <2>2, <2>3 DEF LogsReplay
<1>17. CodesKnown'
  <2>1. ASSUME NEW k \in first_height..(h - 1), NEW o \in ObjIds, Recorded(k)'[o] # Absent
        PROVE  Recorded(k)'[o].code \in Have(wasm)
    <3>1. k \in (first_height - 1)..m
      BY <1>7, <1>9
    <3>2. Recorded(k)' = Recorded(k)
      BY <1>10, <3>1
    <3> QED  BY <1>5, <2>1, <3>2 DEF ReplayInv, CodesKnown
  <2> QED  BY <1>1, <1>11, <2>1 DEF ReplayInv, CodesKnown, Have
<1>18. WalkReplays'
  BY <1>1 DEF WalkReplays
<1>19. job'[SyncTask] = NoJob /\ ~ sync'.retried
  BY <1>1, <1>4 DEF DaemonInv, SyncTyped, ReplayInv, JobKnown, JobCodes
<1>20. JobReplays(home)' /\ JobKnown'
  BY <1>19 DEF JobReplays, JobFits, JobKnown, JobCodes, NoJob
<1>21. Alone' /\ IndexFull(seals, objects)'
  BY <1>1, IndexKept DEF ReplayInv, Alone
<1> QED  BY <1>15, <1>16, <1>17, <1>18, <1>20, <1>21 DEF ReplayInv

\* The cursor moves: the block in hand is now one of the recorded ones.
LEMMA CursorReplays ==
    ASSUME NEW home, Replayable(home), ChainInv, DaemonInv, ReplayInv(home), record_cursor
    PROVE  ReplayInv(home)'
<1>1. /\ UNCHANGED <<objects, seals, undo_logs, blocks, rb, wasm, job, l1>> /\ interrupted' = FALSE
      /\ last_block' = [last_block EXCEPT ![Chain] = sync.h]
      /\ sync.pc = "cursor" /\ rb.phase # "undo"
  BY DEF record_cursor, set_last_sync_block, can_write, write_lock_free
<1>2. PICK s \in Locals : s = sync
  BY DEF DaemonInv, SyncTyped, LocalsFit
<1>3. sync' = [s EXCEPT !.pc = "attest"]
  BY <1>2 DEF record_cursor, goto
<1>4. sync'.pc = "attest" /\ sync'.retried = sync.retried
  BY <1>2, <1>3 DEF Locals
<1>5. PICK h : h = next_height
  OBVIOUS
<1>6. sync.h = h /\ sync.hash = l1[h] /\ blocks[Chain][h] = l1[h]
  BY <1>1, <1>5 DEF ChainInv, PassSound, local_hash
<1>7. /\ first_height \in Nat \ {0} /\ cursor \in Nat /\ h \in Nat
      /\ first_height <= h /\ cursor < h
  BY <1>5, NextIs DEF ChainInv
<1>8. cursor' = h
  BY <1>1, <1>6, HeightFacts DEF DaemonInv, StoreTypeOK, cursor
<1>9. next_height' = h + 1 /\ first_height' = first_height
  <2>1. h # 0 /\ first_height' = first_height
    BY <1>7 DEF first_height
  <2>2. next_height' = IF cursor' = 0 THEN first_height' ELSE cursor' + 1
    BY DEF next_height
  <2> QED  BY <1>8, <2>1, <2>2
<1>10. \A k : Recorded(k)' = Recorded(k)
  BY <1>1, RecordedSame
<1>11. Before' = Recorded(h)
  <2>1. (h + 1) - 1 = h
    BY <1>7
  <2>2. Before' = Recorded(h)'
    BY <1>9, <2>1 DEF Before, Recorded
  <2> QED  BY <1>10, <2>2
<1>12. in_block
  BY <1>1 DEF in_block
<1>13. Recorded(h) = objects
  <2>1. /\ recorded_prefix_of(l1) /\ next_height \in DOMAIN l1
        /\ Mixed(Before, NextTxs, next_height, objects)
        /\ \A k \in DOMAIN NextTxs : Settled(Before, NextTxs[k], next_height, objects)
    BY <1>1, <1>12 DEF ReplayInv, TableReplays
  <2>2. objects = replay_block(Before, NextTxs, next_height)
    BY <2>1, SettledIsReplay DEF ReplayInv
  <2>3. PICK b, from : b = blocks[Chain] /\ from = first_height /\ from \in Nat /\ from <= h
    BY <1>7
  <2>4. replay(b, BlockTxs, from, h) = replay_block(replay(b, BlockTxs, from, h - 1), BlockTxs[b[h]], h)
    BY <1>7, <2>3, ReplayNext
  <2> QED  BY <1>5, <1>6, <2>2, <2>3, <2>4 DEF Recorded, Replayed, Before, NextTxs
<1>14. TableReplays'
  BY <1>1, <1>4, <1>11, <1>13 DEF TableReplays, in_block
<1>15. LogsReplay(home)'
  <2>1. ASSUME NEW u \in undo_logs PROVE LogReplays(home, u)'
    <3>1. LogReplays(home, u)
      BY DEF ReplayInv, LogsReplay
    <3>2. u.height \in Nat
      BY StoreAssumption DEF DaemonInv, StoreTypeOK, UndoLog
    <3>3. u.height <= h + 1
      BY <1>5, <1>7, <3>1, <3>2 DEF LogReplays
    <3> QED  BY <1>9, <1>10, <3>1, <3>3 DEF LogReplays
  <2>2. ASSUME NEW k \in first_height..h, NEW o \in ObjIds,
               Recorded(k)[o] # Recorded(k - 1)[o]
        PROVE  Logged(undo_logs, o, k)
    <3>1. CASE k = h
      BY <1>5, <1>13, <2>2, <3>1 DEF ReplayInv, LogsReplay, Before
    <3>2. CASE k # h
      <4>1. k \in first_height..(h - 1)
        BY <1>7, <3>2
      <4> QED  BY <1>5, <2>2, <4>1 DEF ReplayInv, LogsReplay
    <3> QED  BY <3>1, <3>2
  <2>3. (h + 1) - 1 = h
    BY <1>7
  <2> QED  BY <1>1, <1>9, <1>10, <1>11, <1>13, <2>1, <2>2, <2>3 DEF LogsReplay
<1>16. CodesKnown'
  <2>1. ASSUME NEW k \in first_height..h, NEW o \in ObjIds, Recorded(k)[o] # Absent
        PROVE  Recorded(k)[o].code \in Have(wasm)
    <3>1. CASE k = h
      BY <1>13, <2>1, <3>1 DEF ReplayInv, CodesKnown
    <3>2. CASE k # h
      <4>1. k \in first_height..(h - 1)
        BY <1>7, <3>2
      <4> QED  BY <1>5, <2>1, <4>1 DEF ReplayInv, CodesKnown
    <3> QED  BY <3>1, <3>2
  <2>2. (h + 1) - 1 = h
    BY <1>7
  <2> QED  BY <1>1, <1>9, <1>10, <2>1, <2>2 DEF ReplayInv, CodesKnown, Have
<1>17. WalkReplays'
  BY <1>1 DEF WalkReplays
<1>18. job'[SyncTask] = NoJob /\ ~ sync'.retried
  BY <1>1, <1>4 DEF DaemonInv, SyncTyped, ReplayInv, JobKnown, JobCodes
<1>19. JobReplays(home)' /\ JobKnown'
  BY <1>18 DEF JobReplays, JobFits, JobKnown, JobCodes, NoJob
<1>20. Alone' /\ IndexFull(seals, objects)'
  BY <1>1, IndexKept DEF ReplayInv, Alone
<1> QED  BY <1>14, <1>15, <1>16, <1>17, <1>19, <1>20 DEF ReplayInv

\* The index follows an object that goes back to a seal of its own.
LEMMA UndoFillsIndex ==
    ASSUME NEW home, NEW idx, NEW objs \in Table, Owned(home, objs), IndexFull(idx, objs),
           NEW u \in UndoLog, u.action = "UPDATE" => u.prev # Absent,
           NEW new, new = undone(objs, u), Owned(home, new)
    PROVE  IndexFull(undone_seals(idx, objs, u), new)
<1> SUFFICES ASSUME NEW x \in ObjIds, new[x] # Absent
             PROVE  undone_seals(idx, objs, u)[new[x].seal] = x
  BY DEF IndexFull
<1>1. PICK o \in ObjIds, p \in Object \cup {Absent}, a \in {"CREATE", "UPDATE"} :
        o = u.obj /\ p = u.prev /\ a = u.action
  BY DEF UndoLog
<1>2. PICK idx0 : idx0 = index_without(idx, objs, o)
  OBVIOUS
<1>3. DOMAIN idx0 = Seals /\ \A s \in Seals : ~(objs[o] # Absent /\ s = objs[o].seal) => idx0[s] = idx[s]
  BY <1>2 DEF index_without
<1>4. undone_seals(idx, objs, u) = IF a = "UPDATE" /\ p # Absent THEN [idx0 EXCEPT ![p.seal] = o] ELSE idx0
  BY <1>1, <1>2 DEF undone_seals
<1>5. new = IF a = "CREATE" THEN [objs EXCEPT ![o] = Absent] ELSE [objs EXCEPT ![o] = p]
  BY <1>1 DEF undone
<1>6. CASE x = o
  <2>1. a = "UPDATE" /\ new[o] = p /\ p # Absent /\ p \in Object
    BY <1>1, <1>5, <1>6 DEF Table
  <2>2. p.seal \in Seals
    BY <2>1 DEF Object
  <2> QED  BY <1>3, <1>4, <1>6, <2>1, <2>2
<1>7. CASE x # o
  <2>1. PICK s : s = objs[x].seal
    OBVIOUS
  <2>2. new[x] = objs[x] /\ s \in Seals /\ home[s] = x /\ idx[s] = x
    <3>1. new[x] = objs[x]
      BY <1>5, <1>7 DEF Table
    <3>2. objs[x] \in Object /\ objs[x] # Absent
      BY <3>1 DEF Table
    <3> QED  BY <2>1, <3>1, <3>2 DEF Object, Owned, IndexFull
  <2>3. ~(objs[o] # Absent /\ s = objs[o].seal)
    BY <1>7, <2>2 DEF Owned
  <2>4. a = "UPDATE" /\ p # Absent => s # p.seal
    <3>1. ASSUME a = "UPDATE", p # Absent PROVE home[p.seal] = o
      <4>1. new[o] = p
        BY <1>5, <3>1 DEF Table
      <4> QED  BY <3>1, <4>1 DEF Owned
    <3> QED  BY <1>7, <2>2, <3>1
  <2> QED  BY <1>3, <1>4, <2>1, <2>2, <2>3, <2>4
<1> QED  BY <1>6, <1>7

\* The fork has been found: every log above it is to be applied.
LEMMA BeginReplays ==
    ASSUME NEW home, Replayable(home), ChainInv, DaemonInv, ReplayInv(home), backtrack_found
    PROVE  ReplayInv(home)'
<1>1. PICK a : a = sync.ancestor
  OBVIOUS
<1>2. /\ UNCHANGED <<objects, seals, undo_logs, blocks, last_block, wasm, job, l1, interrupted>>
      /\ rb' = [phase |-> "undo", chain |-> Chain, target |-> a,
                logs |-> {u \in undo_logs : u.chain = Chain /\ u.height > a},
                objects |-> objects, seals |-> seals]
      /\ sync.pc = "backtrack"
  BY <1>1 DEF backtrack_found, rollback_begin, tables, writing
<1>3. PICK s \in Locals : s = sync
  BY DEF DaemonInv, SyncTyped, LocalsFit
<1>4. sync' = [s EXCEPT !.pc = "rollback"]
  BY <1>3 DEF backtrack_found, goto
<1>5. sync'.pc = "rollback" /\ sync'.retried = sync.retried
  BY <1>3, <1>4 DEF Locals
<1>6. ~ in_block /\ ~ interrupted
  BY <1>2 DEF ReplayInv, TableReplays, in_block
<1>7. TableReplays'
  BY <1>2, <1>5, <1>6, TablePasses DEF ReplayInv
<1>8. /\ next_height' = next_height /\ \A k : Recorded(k)' = Recorded(k)
  BY <1>2 DEF Recorded, Replayed, next_height, cursor, first_height
<1>9. PICK h : h = next_height
  OBVIOUS
<1>10. a \in Nat /\ h \in Nat /\ h - 1 \in a..(h - 1)
  <2>1. AboveFork(a)
    BY <1>1, <1>2 DEF ChainInv, PassSound
  <2>2. /\ cursor \in Nat /\ h \in Nat /\ a \in Nat /\ a + 1 <= cursor
        /\ h - 1 = IF cursor = 0 THEN first_height - 1 ELSE cursor
    BY <1>9, <2>1, NextIs DEF AboveFork, ChainInv
  <2> QED  BY <2>2
<1>11. WalkReplays'
  <2>1. \A u \in undo_logs : u.chain = Chain
    BY DEF ReplayInv, LogsReplay, LogReplays
  <2>2. ASSUME NEW o \in ObjIds PROVE objects[o] = Recorded(h - 1)[o]
    BY <1>6, <1>9 DEF ReplayInv, TableReplays, Before
  <2>3. PICK logs : logs = {u \in undo_logs : u.chain = Chain /\ u.height > a}
    OBVIOUS
  <2>4. rb'.logs = logs /\ rb'.target = a /\ rb'.objects = objects /\ rb'.seals = seals
    BY <1>2, <2>3
  <2>5. IndexFull(rb'.seals, rb'.objects)
    BY <2>4 DEF ReplayInv
  <2>6. ASSUME NEW o \in ObjIds
        PROVE  \E j \in a..(h - 1) :
                 /\ objects[o] = Recorded(j)[o]
                 /\ \A u \in undo_logs : u.obj = o /\ a < u.height /\ u.height <= j => u \in logs
    <3>1. \A u \in undo_logs : a < u.height => u \in logs
      <4>1. \A u \in undo_logs : u.height \in Nat
        BY StoreAssumption DEF DaemonInv, StoreTypeOK, UndoLog
      <4> QED  BY <1>10, <2>1, <2>3, <4>1
    <3> QED  BY <1>10, <2>2, <3>1
  <2>7. /\ logs \subseteq {u \in undo_logs : u.height > a}
        /\ \A u \in undo_logs : u.height > a => u \in logs
    BY <2>1, <2>3
  <2>8. undo_logs' = undo_logs /\ IndexFull(rb.seals, rb.objects)'
    BY <1>2, <2>5
  <2> QED  BY <1>8, <1>9, <2>4, <2>6, <2>7, <2>8 DEF WalkReplays
<1>12. job'[SyncTask] = NoJob /\ ~ sync'.retried
  BY <1>2, <1>5 DEF DaemonInv, SyncTyped, ReplayInv, JobKnown, JobCodes
<1>13. JobReplays(home)' /\ JobKnown'
  BY <1>12 DEF JobReplays, JobFits, JobKnown, JobCodes, NoJob
<1>14. LogsReplay(home)' /\ CodesKnown' /\ IndexFull(seals, objects)' /\ Alone'
  BY <1>2, LogsKept, CodesKept, IndexKept DEF ReplayInv, Alone
<1> QED  BY <1>7, <1>11, <1>13, <1>14 DEF ReplayInv

\* What a rollback is about to publish is a table, with every object on a seal of its own.
LEMMA WalkOwned ==
    ASSUME NEW home, Replayable(home), ChainInv, DaemonInv, WalkReplays, rb.phase = "undo"
    PROVE  /\ rb \in Rollbacks /\ rb.objects \in Table /\ Owned(home, rb.objects)
           /\ rb.chain = Chain /\ rb.target = sync.ancestor /\ rb.target \in Nat
           /\ first_height <= rb.target /\ rb.target < cursor
<1>1. rb \in Rollbacks
  BY RollbackPhase DEF DaemonInv
<1>2. PICK a \in Heights : a = rb.target /\ a \in Nat
  BY <1>1, StoreAssumption DEF Rollbacks
<1>3. /\ rb.chain = Chain /\ a = sync.ancestor /\ AboveFork(a) /\ a > 0
      /\ local_hash(a) = l1[a]
  BY <1>2 DEF ChainInv, RollbackSound
<1>4. a + 1 <= cursor /\ cursor <= Len(l1) /\ cursor \in Nat /\ l1 \in L1Chains /\ first_height \in Nat
  BY <1>3, HeightFacts DEF AboveFork, ChainInv, ChainTypes, RecordsPlaced, cursor
<1>5. a \in 1..Len(l1)
  <2>1. Len(l1) \in Nat
    BY <1>4, L1Facts
  <2> QED  BY <1>2, <1>3, <1>4, <2>1
<1>6. l1[a] \in Blocks /\ l1[a] # Absent
  BY <1>4, <1>5, L1Facts, HeightFacts
<1>7. first_height <= a
  <2>1. a >= first_height
    BY <1>2, <1>3, <1>6 DEF ChainInv, RecordsPlaced
  <2> QED  BY <1>2, <1>4, <2>1
<1>8. rb.objects \in Table
  BY <1>1 DEF Rollbacks, Table
<1>9. ASSUME NEW o \in ObjIds, rb.objects[o] # Absent
      PROVE  rb.objects[o].seal \in CarrierSeals /\ home[rb.objects[o].seal] = o
  <2>1. PICK j \in a..(next_height - 1) : rb.objects[o] = Recorded(j)[o]
    BY <1>2 DEF WalkReplays
  <2>2. next_height \in Nat
    BY NextIs DEF ChainInv
  <2>3. j \in (first_height - 1)..(next_height - 1)
    BY <1>2, <1>4, <1>7, <2>1, <2>2
  <2>4. Owned(home, Recorded(j))
    BY <2>3, RecordedTyped
  <2> QED  BY <1>9, <2>1, <2>4 DEF Owned
<1> QED  BY <1>1, <1>2, <1>3, <1>4, <1>7, <1>8, <1>9 DEF Owned

\* One log is applied: the object is back at what it was before that block.
LEMMA WalkReplaysOn ==
    ASSUME NEW home, Replayable(home), ChainInv, DaemonInv, LogsReplay(home), WalkReplays,
           rollback_undo
    PROVE  WalkReplays'
<1>1. /\ rb \in Rollbacks /\ rb.objects \in Table /\ Owned(home, rb.objects)
      /\ rb.target \in Nat /\ first_height <= rb.target
  BY WalkOwned DEF rollback_undo
<1>2. PICK u \in rb.logs :
        /\ is_next_undo(u, rb.logs)
        /\ rb' = [rb EXCEPT !.logs = @ \ {u},
                            !.objects = undone(rb.objects, u),
                            !.seals = undone_seals(rb.seals, rb.objects, u)]
  BY DEF rollback_undo
<1>3. UNCHANGED <<undo_logs, blocks, last_block>> /\ rb.phase = "undo"
  BY DEF rollback_undo, tables
<1>4. next_height' = next_height /\ first_height' = first_height /\ \A k : Recorded(k)' = Recorded(k)
  BY <1>3 DEF Recorded, Replayed, next_height, cursor, first_height
<1>5. PICK logs, a, old, h : logs = rb.logs /\ a = rb.target /\ old = rb.objects /\ h = next_height
  OBVIOUS
<1>6. PICK new : new = undone(old, u)
  OBVIOUS
<1>7. /\ rb'.logs = logs \ {u} /\ rb'.target = a /\ rb'.objects = new
      /\ rb'.seals = undone_seals(rb.seals, old, u)
  BY <1>1, <1>2, <1>5, <1>6 DEF Rollbacks
<1>8. /\ a \in Nat /\ h \in Nat /\ first_height \in Nat /\ first_height <= a
      /\ u \in UndoLog /\ u \in undo_logs
      /\ a < u.height /\ u.height \in Nat /\ u.height <= h
      /\ u.action = "UPDATE" => u.prev # Absent
      /\ Prior(u) = Recorded(u.height - 1)[u.obj]
  <2>1. logs \subseteq {v \in undo_logs : v.height > a}
    BY <1>3, <1>5 DEF WalkReplays
  <2>2. u \in undo_logs /\ u.height > a
    BY <1>2, <1>5, <2>1
  <2>3. LogReplays(home, u)
    BY <2>2 DEF LogsReplay
  <2>4. u \in UndoLog /\ u.height \in Nat
    BY <2>2, StoreAssumption DEF DaemonInv, StoreTypeOK, UndoLog
  <2>5. h \in Nat /\ first_height \in Nat
    BY <1>5, NextIs DEF ChainInv
  <2> QED  BY <1>1, <1>5, <2>2, <2>3, <2>4, <2>5 DEF LogReplays
<1>9. \A v \in undo_logs : v.height \in Nat
  BY StoreAssumption DEF DaemonInv, StoreTypeOK, UndoLog
<1>10. \A v \in undo_logs : v.height > a /\ v \notin logs => \A w \in logs : w.height <= v.height
  BY <1>3, <1>5 DEF WalkReplays
<1>11. PICK o \in ObjIds : o = u.obj
  BY <1>8 DEF UndoLog
<1>12. new[o] = Prior(u) /\ \A x \in ObjIds : x # o => new[x] = old[x]
  <2>1. u.action \in {"CREATE", "UPDATE"}
    BY <1>8 DEF UndoLog
  <2> QED  BY <1>1, <1>5, <1>6, <1>8, <1>11, <2>1 DEF undone, Prior, Table
<1>13. ASSUME NEW x \in ObjIds
       PROVE  \E j \in a..(h - 1) :
                 /\ new[x] = Recorded(j)[x]
                 /\ \A v \in undo_logs : v.obj = x /\ a < v.height /\ v.height <= j => v \in logs \ {u}
  <2>1. CASE x # o
    <3>1. PICK j \in a..(h - 1) :
             /\ old[x] = Recorded(j)[x]
             /\ \A v \in undo_logs : v.obj = x /\ a < v.height /\ v.height <= j => v \in logs
      BY <1>3, <1>5 DEF WalkReplays
    <3>2. \A v \in undo_logs : v.obj = x /\ a < v.height /\ v.height <= j => v \in logs \ {u}
      BY <1>11, <2>1, <3>1
    <3> QED  BY <1>12, <2>1, <3>1, <3>2
  <2>2. CASE x = o
    <3>1. PICK j \in a..(h - 1) : j = u.height - 1
      BY <1>8
    <3>2. ASSUME NEW v \in undo_logs, v.obj = x, a < v.height, v.height <= j
          PROVE  v \in logs \ {u}
      <4>1. v.height \in Nat /\ v.height < u.height
        BY <1>8, <1>9, <3>1, <3>2
      <4>2. v # u
        BY <1>8, <4>1
      <4>3. v \in logs
        <5>1. v \notin logs => u.height <= v.height
          BY <1>2, <1>5, <1>8, <1>10, <3>2, <4>1
        <5> QED  BY <1>8, <4>1, <5>1
      <4> QED  BY <4>2, <4>3
    <3>3. new[x] = Recorded(j)[x]
      BY <1>8, <1>11, <1>12, <2>2, <3>1
    <3> QED  BY <3>2, <3>3
  <2> QED  BY <2>1, <2>2
<1>14. ASSUME NEW v \in undo_logs, v.height > a, v \notin logs \ {u}, NEW w \in logs \ {u}
       PROVE  w.height <= v.height
  <2>1. CASE v = u
    <3>1. undone_before(u, w)
      BY <1>2, <1>5, <1>14 DEF is_next_undo
    <3>2. u.height > w.height \/ u.height = w.height
      BY <3>1 DEF undone_before
    <3>3. w \in undo_logs
      BY <1>3, <1>5, <1>14 DEF WalkReplays
    <3> QED  BY <1>8, <1>9, <2>1, <3>2, <3>3
  <2>2. CASE v # u
    BY <1>10, <1>14, <2>2
  <2> QED  BY <2>1, <2>2
<1>15. IndexFull(rb.seals, rb.objects)'
  <2>1. ASSUME NEW x \in ObjIds, new[x] # Absent
        PROVE  new[x].seal \in CarrierSeals /\ home[new[x].seal] = x
    <3>1. PICK j \in a..(h - 1) : new[x] = Recorded(j)[x]
      BY <1>13
    <3>2. j \in (first_height - 1)..(next_height - 1)
      BY <1>5, <1>8, <3>1
    <3>3. Owned(home, Recorded(j))
      BY <3>2, RecordedTyped
    <3> QED  BY <2>1, <3>1, <3>3 DEF Owned
  <2>2. Owned(home, new)
    BY <2>1 DEF Owned
  <2>3. IndexFull(undone_seals(rb.seals, old, u), new)
    <3>1. IndexFull(rb.seals, old) /\ old \in Table /\ Owned(home, old)
      BY <1>1, <1>3, <1>5 DEF WalkReplays
    <3> QED  BY <1>6, <1>8, <2>2, <3>1, UndoFillsIndex
  <2> QED  BY <1>7, <2>3
<1>16. logs \ {u} \subseteq {v \in undo_logs : v.height > a}
  BY <1>3, <1>5 DEF WalkReplays
<1> QED  BY <1>3, <1>4, <1>5, <1>7, <1>13, <1>14, <1>15, <1>16 DEF WalkReplays

\* When all logs are applied, every object is as after the block at the fork.
LEMMA WalkEnds ==
    ASSUME NEW home, Replayable(home), ChainInv, DaemonInv, LogsReplay(home), WalkReplays,
           rb.phase = "undo", rb.logs = {}
    PROVE  rb.objects = Recorded(rb.target)
<1>1. /\ rb.objects \in Table /\ rb.target \in Nat /\ first_height <= rb.target
      /\ rb.target < cursor
  BY WalkOwned
<1>2. PICK a \in Nat, h \in Nat, f \in Nat : a = rb.target /\ h = next_height /\ f = first_height
  BY <1>1, NextIs DEF ChainInv
<1>3. a \in (f - 1)..(h - 1)
  <2>1. cursor \in Nat /\ cursor < h
    BY <1>2, NextIs DEF ChainInv
  <2> QED  BY <1>1, <1>2, <2>1
<1>4. Recorded(a) \in Table
  BY <1>2, <1>3, RecordedTyped
<1>5. ASSUME NEW o \in ObjIds PROVE rb.objects[o] = Recorded(a)[o]
  <2>1. PICK j \in a..(h - 1) :
           /\ rb.objects[o] = Recorded(j)[o]
           /\ \A u \in undo_logs : ~(u.obj = o /\ a < u.height /\ u.height <= j)
    BY <1>2 DEF WalkReplays
  <2> DEFINE Bad == {n \in a..j : Recorded(n)[o] # Recorded(a)[o]}
  <2>2. Bad = {}
    <3> SUFFICES ASSUME Bad # {} PROVE FALSE
      OBVIOUS
    <3>1. Bad \in SUBSET Nat
      BY <1>2
    <3>2. PICK k \in Bad : \A y \in Bad : k <= y
      <4> HIDE DEF Bad
      <4> QED  BY <3>1, LeastOf
    <3>3. k \in a..j /\ Recorded(k)[o] # Recorded(a)[o]
      BY <3>2
    <3>4. k \in Nat /\ k # a /\ k - 1 \in a..j /\ ~(k <= k - 1) /\ k \in f..(h - 1) /\ a < k /\ k <= j
      <4>1. k # a
        BY <3>3
      <4> QED  BY <1>1, <1>2, <2>1, <3>3, <4>1
    <3>5. Recorded(k - 1)[o] = Recorded(a)[o]
      BY <3>2, <3>4
    <3>6. Logged(undo_logs, o, k)
      BY <1>2, <3>3, <3>4, <3>5 DEF LogsReplay
    <3> HIDE DEF Bad
    <3> QED  BY <2>1, <3>4, <3>6 DEF Logged
  <2>3. j \in a..j
    BY <1>2, <2>1
  <2> QED  BY <2>1, <2>2, <2>3
<1> QED  BY <1>1, <1>2, <1>4, <1>5 DEF Table

\* The rollback commits.
LEMMA BackReplays ==
    ASSUME NEW home, Replayable(home), ChainInv, DaemonInv, ReplayInv(home), rollback_commit,
           UNCHANGED <<job, sync, l1, interrupted>>
    PROVE  ReplayInv(home)'
<1>1. rb.phase = "undo" /\ rb.logs = {}
  BY DEF rollback_commit
<1>2. PICK a \in Nat, f \in Nat, h \in Nat :
        /\ a = rb.target /\ f = first_height /\ h = next_height /\ f <= a /\ a <= h - 1
        /\ rb.chain = Chain /\ 0 < f
  <2>1. /\ rb.target \in Nat /\ first_height <= rb.target /\ rb.target < cursor /\ rb.chain = Chain
    BY <1>1, WalkOwned DEF ReplayInv
  <2>2. /\ first_height \in Nat \ {0} /\ next_height \in Nat /\ cursor \in Nat
        /\ cursor < next_height
    BY NextIs DEF ChainInv
  <2>3. rb.target <= next_height - 1 /\ 0 < first_height
    BY <2>1, <2>2
  <2> QED  BY <2>1, <2>2, <2>3
<1>3. rb.objects = Recorded(a)
  BY <1>1, <1>2, WalkEnds DEF ReplayInv
<1>4. /\ objects' = rb.objects /\ seals' = rb.seals /\ wasm' = wasm
      /\ undo_logs' = {u \in undo_logs : ~(u.chain = Chain /\ u.height > a)}
      /\ blocks' = [blocks EXCEPT ![Chain] = [x \in Heights |-> IF x > a THEN Absent ELSE @[x]]]
      /\ last_block' = [last_block EXCEPT ![Chain] = a] /\ rb' = [phase |-> "read"]
  BY <1>2 DEF rollback_commit
<1>5. a \in Heights /\ 0..a \subseteq Heights
  <2>1. a \in Heights
    BY <1>1, <1>2, WalkOwned DEF ReplayInv, Rollbacks
  <2> QED  BY <2>1, ScannerAssumption
<1>6. \A x \in f..a : blocks'[Chain][x] = blocks[Chain][x]
  <2> SUFFICES ASSUME NEW x \in f..a PROVE blocks'[Chain][x] = blocks[Chain][x]
    OBVIOUS
  <2>1. x \in 0..a /\ ~(x > a)
    BY <1>2
  <2>2. x \in Heights
    BY <1>5, <2>1
  <2>3. blocks'[Chain] = [y \in Heights |-> IF y > a THEN Absent ELSE blocks[Chain][y]]
    BY <1>4, HeightFacts DEF DaemonInv, StoreTypeOK
  <2> QED  BY <2>1, <2>2, <2>3
<1>7. ASSUME NEW k \in (f - 1)..a PROVE Recorded(k)' = Recorded(k)
  BY <1>2, <1>6, RecordedStays
<1>8. cursor' = a
  BY <1>4, HeightFacts DEF DaemonInv, StoreTypeOK, cursor
<1>9. next_height' = a + 1 /\ first_height' = f
  <2>1. a # 0 /\ first_height' = f
    BY <1>2 DEF first_height
  <2>2. next_height' = IF cursor' = 0 THEN first_height' ELSE cursor' + 1
    BY DEF next_height
  <2> QED  BY <1>8, <2>1, <2>2
<1>10. Before' = rb.objects
  <2>1. (a + 1) - 1 = a /\ a \in (f - 1)..a
    BY <1>2
  <2>2. Before' = Recorded(a)'
    BY <1>9, <2>1 DEF Before, Recorded
  <2> QED  BY <1>3, <1>7, <2>1, <2>2
<1>11. sync.pc = "rollback"
  BY <1>1 DEF ChainInv, RollbackSound
<1>12. ~ in_block'
  BY <1>11 DEF ReplayInv, TableReplays, in_block
<1>13. TableReplays'
  BY <1>4, <1>10, <1>11, <1>12 DEF TableReplays
<1>14. LogsReplay(home)'
  <2>1. ASSUME NEW u \in undo_logs' PROVE LogReplays(home, u)'
    <3>1. u \in undo_logs /\ LogReplays(home, u)
      BY <1>4 DEF ReplayInv, LogsReplay
    <3>2. u.height \in Nat /\ f <= u.height /\ u.height <= a
      <4>1. u.height \in Nat
        BY <3>1, StoreAssumption DEF DaemonInv, StoreTypeOK, UndoLog
      <4> QED  BY <1>2, <1>4, <3>1, <4>1 DEF LogReplays
    <3>3. u.height - 1 \in (f - 1)..a /\ u.height <= a + 1
      BY <1>2, <3>2
    <3>4. Recorded(u.height - 1)' = Recorded(u.height - 1)
      BY <1>7, <3>3
    <3> QED  BY <1>2, <1>9, <3>1, <3>3, <3>4 DEF LogReplays
  <2>2. ASSUME NEW k \in f..a, NEW o \in ObjIds, Recorded(k)'[o] # Recorded(k - 1)'[o]
        PROVE  Logged(undo_logs', o, k)
    <3>1. k \in (f - 1)..a /\ k - 1 \in (f - 1)..a /\ k \in f..(h - 1) /\ ~(k > a)
      BY <1>2
    <3>2. Recorded(k)' = Recorded(k) /\ Recorded(k - 1)' = Recorded(k - 1)
      BY <1>7, <3>1
    <3>3. Logged(undo_logs, o, k)
      BY <1>2, <2>2, <3>1, <3>2 DEF ReplayInv, LogsReplay
    <3> QED  BY <1>4, <3>1, <3>3 DEF Logged
  <2>3. (a + 1) - 1 = a
    BY <1>2
  <2> QED  BY <1>4, <1>9, <1>10, <2>1, <2>2, <2>3 DEF LogsReplay
<1>15. CodesKnown'
  <2>1. ASSUME NEW k \in f..a, NEW o \in ObjIds, Recorded(k)[o] # Absent
        PROVE  Recorded(k)[o].code \in Have(wasm)
    <3>1. k \in f..(h - 1)
      BY <1>2
    <3> QED  BY <1>2, <2>1, <3>1 DEF ReplayInv, CodesKnown
  <2>2. \A k \in f..a : Recorded(k)' = Recorded(k)
    <3>1. \A k \in f..a : k \in (f - 1)..a
      BY <1>2
    <3> QED  BY <1>7, <3>1
  <2>3. (a + 1) - 1 = a /\ a \in f..a
    BY <1>2
  <2>4. \A o \in ObjIds : objects'[o] # Absent => objects'[o].code \in Have(wasm)
    BY <1>3, <1>4, <2>1, <2>3
  <2> QED  BY <1>4, <1>9, <2>1, <2>2, <2>3, <2>4 DEF CodesKnown, Have
<1>16. WalkReplays'
  BY <1>4 DEF WalkReplays
<1>17. job'[SyncTask] = NoJob /\ ~ sync'.retried
  BY <1>11 DEF DaemonInv, SyncTyped, ReplayInv, JobKnown, JobCodes
<1>18. JobReplays(home)' /\ JobKnown'
  BY <1>17 DEF JobReplays, JobFits, JobKnown, JobCodes, NoJob
<1>19. Alone' /\ IndexFull(seals, objects)'
  BY <1>1, <1>4 DEF ReplayInv, Alone, WalkReplays
<1> QED  BY <1>13, <1>14, <1>15, <1>16, <1>18, <1>19 DEF ReplayInv

LEMMA RollbackReplays ==
    ASSUME NEW home, Replayable(home), ChainInv, DaemonInv, ReplayInv(home), rollback_step
    PROVE  ReplayInv(home)'
<1>1. /\ UNCHANGED <<job, sync, l1, interrupted>> /\ sync.pc = "rollback"
      /\ rollback_undo \/ rollback_commit \/ rollback_read \/ rollback_install
  BY DEF rollback_step, writing
<1>2. CASE rollback_commit
  BY <1>1, <1>2, BackReplays
<1>3. CASE rollback_undo \/ rollback_read \/ rollback_install
  <2>1. UNCHANGED <<objects, seals, undo_logs, blocks, last_block, wasm>>
    BY <1>3 DEF rollback_undo, rollback_read, rollback_install, tables
  <2>2. WalkReplays'
    <3>1. CASE rollback_undo
      BY <3>1, WalkReplaysOn DEF ReplayInv
    <3>2. CASE rollback_read \/ rollback_install
      <4>1. rb'.phase # "undo"
        BY <3>2 DEF rollback_read, rollback_install, NoRollback
      <4> QED  BY <4>1 DEF WalkReplays
    <3> QED  BY <1>3, <3>1, <3>2
  <2>3. job[SyncTask] = NoJob /\ ~ sync.retried
    BY <1>1 DEF DaemonInv, SyncTyped, ReplayInv, JobKnown, JobCodes
  <2>4. JobReplays(home)' /\ JobKnown'
    BY <1>1, <2>3 DEF JobReplays, JobFits, JobKnown, JobCodes, NoJob
  <2>5. TableReplays' /\ LogsReplay(home)' /\ CodesKnown' /\ IndexFull(seals, objects)' /\ Alone'
    BY <1>1, <2>1, TableKept, LogsKept, CodesKept, IndexKept DEF ReplayInv, Alone
  <2> QED  BY <2>2, <2>4, <2>5 DEF ReplayInv
<1> QED  BY <1>1, <1>2, <1>3

\* A transaction of the block is picked up.
LEMMA StartedReplays ==
    ASSUME NEW home, Replayable(home), ChainInv, DaemonInv, SealIndexSound, ReplayInv(home),
           start_tx
    PROVE  ReplayInv(home)'
<1>1. /\ process_tx(SyncTask, Head(sync.todo), sync.h)
      /\ UNCHANGED <<sync, l1, interrupted>>
  BY DEF start_tx, writing
<1>2. /\ UNCHANGED <<objects, seals, undo_logs, blocks, last_block, rb, wasm>>
      /\ \E j : job' = [job EXCEPT ![SyncTask] = j]
  BY <1>1 DEF process_tx, storeVars
<1>3. TableReplays' /\ LogsReplay(home)' /\ WalkReplays' /\ CodesKnown' /\ IndexFull(seals, objects)'
  BY <1>1, <1>2, TableKept, LogsKept, WalkKept, CodesKept, IndexKept DEF ReplayInv
<1>4. Alone'
  BY <1>2 DEF ReplayInv, Alone, DaemonInv, JobsTyped
<1> QED  BY <1>3, <1>4, StartReplays DEF ReplayInv

LEMMA TxReplays ==
    ASSUME NEW home, Replayable(home), ChainInv, DaemonInv, ReplayInv(home), tx_step
    PROVE  ReplayInv(home)'
<1>1. process_step(SyncTask) /\ sync' = sync /\ l1' = l1 /\ interrupted' = interrupted
  BY DEF tx_step, writing
<1> QED
  BY <1>1, StoreReplays, UndoReplays, ExecuteReplays, CommitReplays, RestReplays DEF process_step

\* The L1 moves: under a block in hand it only grows.
LEMMA GrowthStays ==
    ASSUME NEW home, Replayable(home), ChainInv, ReplayInv(home), l1_grows, in_block
    PROVE  /\ recorded_prefix_of(l1)' /\ (next_height \in DOMAIN l1)' /\ NextTxs' = NextTxs
<1>1. UNCHANGED <<storeVars, job, sync, interrupted>>
  BY DEF l1_grows, procVars
<1>2. UNCHANGED <<blocks, last_block>>
  BY <1>1 DEF storeVars
<1>3. {"reorg_interrupted", "reorg_in_pass"} \cap Env = {}
  BY DEF Replayable, OnlyBlocks
<1>4. PICK c \in L1Chains : /\ Len(c) > Len(l1) /\ l1' = c
                            /\ IsPrefix(l1, c) \/ (sync.pc = "tick" /\ ~ interrupted)
  BY <1>3 DEF l1_grows
<1>5. /\ l1 \in Seq(Blocks) /\ c \in Seq(Blocks) /\ Len(l1) \in Nat /\ Len(c) \in Nat
      /\ cursor \in Nat /\ cursor <= Len(l1) /\ first_height \in Nat \ {0}
  BY <1>4, L1Facts, HeightFacts, ScannerAssumption DEF ChainInv, ChainTypes, RecordsPlaced, cursor
<1>6. next_height' = next_height /\ cursor' = cursor /\ \A h : local_hash(h)' = local_hash(h)
  BY <1>2 DEF next_height, cursor, first_height, local_hash
<1>7. recorded_prefix_of(l1) /\ next_height \in DOMAIN l1
  BY DEF ReplayInv, TableReplays
<1>8. IsPrefix(l1, c)
  BY <1>4 DEF in_block
<1>9. \A h \in 1..Len(l1) : c[h] = l1[h]
  <2>1. SubSeq(c, 1, Len(l1)) = l1
    BY <1>5, <1>8 DEF IsPrefix
  <2>2. \A h \in 1..Len(l1) : SubSeq(c, 1, Len(l1))[h] = c[h]
    BY <1>4, <1>5
  <2> QED  BY <2>1, <2>2
<1>10. next_height \in 1..Len(l1)
  BY <1>5, <1>7
<1>11. next_height \in DOMAIN c /\ c[next_height] = l1[next_height]
  BY <1>4, <1>5, <1>9, <1>10
<1>12. NextTxs' = NextTxs
  BY <1>4, <1>6, <1>11 DEF NextTxs
<1>13. cursor <= Len(c) /\ \A h \in first_height..cursor : local_hash(h) = c[h]
  BY <1>4, <1>5, <1>7, <1>9, SMTT(30) DEF recorded_prefix_of
<1>14. recorded_prefix_of(l1)'
  BY <1>4, <1>6, <1>13 DEF recorded_prefix_of, first_height
<1> QED  BY <1>4, <1>6, <1>11, <1>12, <1>14

LEMMA GrowthReplays ==
    ASSUME NEW home, Replayable(home), ChainInv, DaemonInv, ReplayInv(home), l1_grows
    PROVE  ReplayInv(home)'
<1>1. UNCHANGED <<storeVars, job, sync, interrupted>>
  BY DEF l1_grows, procVars
<1>2. UNCHANGED <<objects, seals, undo_logs, blocks, last_block, rb, wasm>>
  BY <1>1 DEF storeVars
<1>3. /\ Before' = Before /\ next_height' = next_height /\ (in_block' <=> in_block)
  BY <1>1, <1>2 DEF Before, Recorded, Replayed, next_height, cursor, first_height, in_block
<1>4. ASSUME in_block
      PROVE  /\ recorded_prefix_of(l1)' /\ (next_height \in DOMAIN l1)' /\ NextTxs' = NextTxs
  BY <1>4, GrowthStays
<1>5. TableReplays'
  <2>1. CASE ~ in_block
    <3>1. sync.pc \notin {"apply", "block", "cursor"}
      BY <2>1 DEF in_block
    <3> QED  BY <1>1, <1>2, <1>3, <2>1, <3>1 DEF ReplayInv, TableReplays
  <2>2. CASE in_block
    <3>1. Mixed(Before, NextTxs, next_height, objects)'
      BY <1>2, <1>3, <1>4, <2>2 DEF ReplayInv, TableReplays
    <3>2. \A n : Progress(n)' <=> Progress(n)
      BY <1>1, <1>2, <1>3, <1>4, <2>2 DEF Progress
    <3>3. sync'.pc = "apply" => \E n : Progress(n)'
      BY <1>1, <3>2 DEF ReplayInv, TableReplays
    <3>4. sync'.pc \in {"block", "cursor"} =>
            \A k \in DOMAIN NextTxs' : Settled(Before', NextTxs'[k], next_height', objects')
      BY <1>1, <1>2, <1>3, <1>4, <2>2 DEF ReplayInv, TableReplays
    <3>5. sync'.pc \notin {"backtrack", "rollback", "attest"}
      BY <1>1, <2>2 DEF ReplayInv, TableReplays
    <3> QED  BY <1>3, <1>4, <2>2, <3>1, <3>3, <3>4, <3>5 DEF TableReplays
  <2> QED  BY <2>1, <2>2
<1>6. LogsReplay(home)' /\ WalkReplays' /\ CodesKnown' /\ IndexFull(seals, objects)'
  BY <1>2, LogsKept, WalkKept, CodesKept, IndexKept DEF ReplayInv
<1>7. JobReplays(home)' /\ JobKnown'
  BY <1>1, <1>2, JobFitsOn DEF ReplayInv, JobReplays, JobKnown
<1>8. Alone'
  BY <1>1 DEF ReplayInv, Alone
<1> QED  BY <1>5, <1>6, <1>7, <1>8 DEF ReplayInv

\* A crash leaves the block as it is, to be processed once more.
LEMMA CrashReplays ==
    ASSUME NEW home, DaemonInv, ReplayInv(home), crash
    PROVE  ReplayInv(home)'
<1>1. /\ sync' = Waiting /\ l1' = l1 /\ interrupted' = (interrupted \/ mid_block)
      /\ job' = [t \in Tasks |-> NoJob] /\ rb' = NoRollback
      /\ UNCHANGED <<objects, seals, undo_logs, blocks, last_block, wasm>>
  BY DEF crash, open, tables
<1>2. /\ Before' = Before /\ NextTxs' = NextTxs /\ next_height' = next_height
      /\ recorded_prefix_of(l1)' = recorded_prefix_of(l1)
  BY <1>1 DEF Before, Recorded, Replayed, NextTxs, next_height, cursor, first_height,
         recorded_prefix_of, local_hash
<1>3. sync'.pc = "tick" /\ ~ sync'.retried /\ rb'.phase = "idle"
  BY <1>1 DEF Waiting, NoRollback
<1>4. in_block' <=> in_block
  BY <1>1, <1>3 DEF in_block, mid_block
<1>5. Mixed(Before, NextTxs, next_height, objects)' <=> Mixed(Before, NextTxs, next_height, objects)
  BY <1>1, <1>2
<1>6. TableReplays'
  BY <1>1, <1>2, <1>3, <1>4, <1>5 DEF ReplayInv, TableReplays
<1>7. LogsReplay(home)' /\ CodesKnown' /\ IndexFull(seals, objects)'
  BY <1>1, LogsKept, CodesKept, IndexKept DEF ReplayInv
<1>8. WalkReplays'
  BY <1>3 DEF WalkReplays
<1>9. job'[SyncTask] = NoJob /\ SyncTask \in Tasks
  BY <1>1, ScannerAssumption
<1>10. JobReplays(home)' /\ JobKnown'
  BY <1>3, <1>9 DEF JobReplays, JobFits, JobKnown, JobCodes, NoJob
<1>11. Alone'
  BY <1>1 DEF Alone
<1> QED  BY <1>6, <1>7, <1>8, <1>10, <1>11 DEF ReplayInv

\* No transaction comes over the gossip.
LEMMA NoGossip ==
    ASSUME NEW home, Replayable(home), ReplayInv(home)
    PROVE  ~ mempool_recv /\ ~ mempool_step /\ ~ mempool_return
<1>1. Mempool = {} /\ job[MempoolTask].pc = "idle"
  BY ScannerAssumption DEF Replayable, OnlyBlocks, ReplayInv, Alone, NoJob
<1>2. ~ process_step(MempoolTask)
  BY <1>1 DEF process_step, store_blob, record_undo, execute, commit_object, update_tree,
              record_transition
<1> QED  BY <1>1, <1>2 DEF mempool_recv, mempool_step, mempool_return

LEMMA ReplayStep ==
    ASSUME NEW home, Replayable(home), ChainInv, DaemonInv, SealIndexSound, ReplayInv(home),
           [Next]_vars
    PROVE  ReplayInv(home)'
<1>1. CASE \/ get_tip_height \/ check_cursor \/ backtrack_down \/ backtrack_failed
           \/ rollback_return \/ scan_done \/ get_block_hash
  BY <1>1, ReadersReplay
<1>2. CASE get_block_txs
  BY <1>2, FetchReplays
<1>3. CASE read_root \/ attest
  BY <1>3, RootReplays, AttestReplays
<1>4. CASE next_tx \/ fetch_blob \/ skip_missing
  BY <1>4, ReturnReplays, BlobReplays, NoneSkipped
<1>5. CASE record_block \/ record_cursor
  BY <1>5, RecordReplays, CursorReplays
<1>6. CASE backtrack_found \/ rollback_step
  BY <1>6, BeginReplays, RollbackReplays
<1>7. CASE start_tx \/ tx_step
  BY <1>7, StartedReplays, TxReplays
<1>8. CASE mempool_recv \/ mempool_step \/ mempool_return
  BY <1>8, NoGossip
<1>9. CASE l1_grows
  BY <1>9, GrowthReplays
<1>10. CASE crash
  BY <1>10, CrashReplays
<1>11. CASE tip_error \/ UNCHANGED vars
  <2>1. UNCHANGED <<storeVars, job, l1, sync, interrupted>>
    BY <1>11 DEF tip_error, reading, vars, procVars
  <2>2. UNCHANGED <<objects, seals, undo_logs, blocks, last_block, rb, wasm>>
    BY <2>1 DEF storeVars
  <2>3. TableReplays' /\ LogsReplay(home)' /\ WalkReplays' /\ CodesKnown' /\ IndexFull(seals, objects)'
    BY <2>1, <2>2, TableKept, LogsKept, WalkKept, CodesKept, IndexKept DEF ReplayInv
  <2>4. JobReplays(home)' /\ JobKnown' /\ Alone'
    BY <2>1, <2>2, JobFitsOn DEF ReplayInv, JobReplays, JobKnown, Alone
  <2> QED  BY <2>3, <2>4 DEF ReplayInv
<1> QED
  BY <1>1, <1>2, <1>3, <1>4, <1>5, <1>6, <1>7, <1>8, <1>9, <1>10, <1>11
  DEF Next, SyncNext, MempoolNext

LEMMA ReplayEmpty ==
    ASSUME NEW chain, NEW txs, NEW from \in Nat, NEW to \in Nat, to < from
    PROVE  replay(chain, txs, from, to) = NoObjects
<1>1. 1..(to - from + 1) = {} /\ 1..(from - 1 - from + 1) = {}
  OBVIOUS
<1>2. [n \in 1..(to - from + 1) |-> from + n - 1] = [n \in 1..(from - 1 - from + 1) |-> from + n - 1]
  BY <1>1
<1>3. replay(chain, txs, from, to) = replay(chain, txs, from, from - 1)
  BY <1>2 DEF replay
<1> QED  BY <1>3, ReplayNone

\* The tables as a fresh node has them.
LEMMA RecordedAtCursor ==
    ASSUME ChainInv
    PROVE  recorded_state = Before
<1>1. /\ first_height \in Nat \ {0} /\ cursor \in Nat
      /\ next_height - 1 = IF cursor = 0 THEN first_height - 1 ELSE cursor
  BY NextIs DEF ChainInv
<1>2. CASE cursor = 0
  <2>1. PICK from \in Nat : from = first_height /\ 0 < from
    BY <1>1
  <2>2. /\ replay(blocks[Chain], BlockTxs, from, 0) = NoObjects
        /\ replay(blocks[Chain], BlockTxs, from, from - 1) = NoObjects
    BY <2>1, ReplayEmpty, ReplayNone
  <2> QED  BY <1>1, <1>2, <2>1, <2>2 DEF recorded_state, Before, Recorded, Replayed
<1>3. CASE cursor # 0
  BY <1>1, <1>3 DEF recorded_state, Before, Recorded, Replayed
<1> QED  BY <1>2, <1>3

LEMMA ReplayInit ==
    ASSUME NEW home, Init
    PROVE  ReplayInv(home)
<1>1. /\ objects = NoObjects /\ seals = [s \in Seals |-> Absent] /\ undo_logs = {}
      /\ rb = NoRollback /\ job = [t \in Tasks |-> NoJob] /\ sync = Waiting /\ ~ interrupted
  BY DEF Init, ProcInit, StoreInit, NoObjects
<1>2. ChainInv
  BY ChainInit
<1>3. cursor = 0 /\ next_height = first_height /\ first_height \in Nat \ {0}
  BY HeightFacts DEF Init, ProcInit, StoreInit, cursor, next_height
<1>4. Before = NoObjects
  BY <1>3, ReplayNone DEF Before, Recorded, Replayed
<1>5. sync.pc = "tick" /\ ~ sync.retried /\ rb.phase = "idle"
  BY <1>1 DEF Waiting, NoRollback
<1>6. TableReplays
  BY <1>1, <1>4, <1>5 DEF TableReplays, in_block
<1>7. \A o \in ObjIds : objects[o] = Absent
  BY <1>1 DEF NoObjects
<1>8. first_height..(next_height - 1) = {}
  BY <1>3
<1>9. IndexFull(seals, objects) /\ LogsReplay(home) /\ WalkReplays /\ CodesKnown
  BY <1>1, <1>4, <1>5, <1>7, <1>8 DEF IndexFull, LogsReplay, WalkReplays, CodesKnown
<1>10. job[SyncTask] = NoJob
  BY <1>1, ScannerAssumption
<1>11. job[SyncTask].pc = "idle"
  BY <1>10 DEF NoJob
<1>12. JobReplays(home) /\ JobKnown
  BY <1>5, <1>11 DEF JobReplays, JobFits, JobKnown, JobCodes
<1>13. Alone
  BY <1>1 DEF Alone
<1> QED  BY <1>6, <1>9, <1>12, <1>13 DEF ReplayInv

\* What it takes, and that the pass is steady.
LEMMA ReplayIsSteady ==
    ASSUME NEW home, Replayable(home)
    PROVE  TxsWellFormed /\ HashLinked /\ SteadyPass
BY DEF Replayable, OnlyBlocks, SteadyPass

DaemonReplays(home) == ChainInv /\ DaemonInv /\ ReplayInv(home)

LEMMA DaemonReplaysAlways ==
    ASSUME NEW home, Replayable(home)
    PROVE  Spec => []DaemonReplays(home)
<1>1. TxsWellFormed /\ HashLinked /\ SteadyPass
  BY ReplayIsSteady
<1>2. Init => DaemonReplays(home)
  BY ChainInit, DaemonInit, ReplayInit DEF DaemonReplays
<1>3. DaemonReplays(home) /\ SealIndexSound /\ [Next]_vars => DaemonReplays(home)'
  BY <1>1, ChainStep, DaemonStep, ReplayStep DEF DaemonReplays
<1>4. Spec => []SealIndexSound
  BY <1>1, DaemonIndexCorrect
<1> QED  BY <1>2, <1>3, <1>4, PTL DEF Spec

\* Between two blocks the object table of the sync loop (main.rs) is what a fresh node
\* obtains from the recorded blocks, for every set of chains, blocks and transactions
\* that is Replayable, wherever a crash has hit, whatever was reprocessed and whatever
\* rollback_to_block has taken back.
THEOREM StateIsReplayCorrect ==
    ASSUME NEW home, Replayable(home)
    PROVE  Spec => []StateIsReplay
<1>1. DaemonReplays(home) => StateIsReplay
  <2> SUFFICES ASSUME DaemonReplays(home), between_blocks PROVE objects = recorded_state
    BY DEF StateIsReplay
  <2>1. ~ in_block
    BY DEF between_blocks, in_block
  <2> QED  BY <2>1, RecordedAtCursor DEF DaemonReplays, ReplayInv, TableReplays
<1> QED  BY <1>1, DaemonReplaysAlways, PTL

-----------------------------------------------------------------------------
(* The root that is signed.                                                *)

\* From the read of the root to the attestation, nothing moves.
RootRead ==
    /\ sync.pc \in {"block", "cursor", "attest"} => sync.root = smt_of(objects)
    /\ sync.pc = "attest" => local_hash(sync.h) = sync.hash

AttestInv == TreeInv /\ RootRead /\ AttestedRootIsReplay

\* What is signed has been replayed.
LEMMA AttestSound ==
    ASSUME NEW home, Replayable(home), DaemonReplays(home), AttestInv, attest
    PROVE  AttestedRootIsReplay'
<1>1. /\ sync.pc = "attest"
      /\ attested' = attested \cup {[height |-> sync.h, hash |-> sync.hash, root |-> sync.root]}
  BY DEF attest
<1>2. ChainInv /\ ReplayInv(home) /\ ChainTypes /\ RecordsPlaced /\ l1 \in L1Chains
  BY DEF DaemonReplays, ChainInv, ChainTypes
<1>3. recorded_prefix_of(l1) /\ sync.h = cursor /\ cursor > 0
  BY <1>1, <1>2 DEF ChainInv, PassSound
<1>4. /\ first_height \in Nat \ {0} /\ cursor \in Nat /\ next_height - 1 = cursor
      /\ first_height <= cursor
  BY <1>2, <1>3, NextIs DEF RecordsPlaced
<1>5. cursor <= Len(l1) /\ local_hash(cursor) = l1[cursor]
  BY <1>3, <1>4 DEF recorded_prefix_of
<1>6. objects = Recorded(cursor)
  <2>1. ~ in_block
    BY <1>1, <1>2 DEF ReplayInv, TableReplays
  <2> QED  BY <1>2, <1>4, <2>1 DEF ReplayInv, TableReplays, Before
<1>7. Recorded(cursor) = Replayed(l1, cursor)
  <2>1. cursor \in (first_height - 1)..(next_height - 1)
    BY <1>4
  <2> QED  BY <1>2, <1>3, <2>1, RecordedIs
<1>8. sync.root = smt_of(replay(l1, BlockTxs, first_height, cursor)) /\ sync.hash = l1[cursor]
  BY <1>1, <1>3, <1>5, <1>6, <1>7 DEF AttestInv, RootRead, Replayed
<1>9. first_height' = first_height
  BY DEF first_height
<1>10. ASSUME NEW a \in attested'
       PROVE  \E c \in L1Chains :
                /\ a.height <= Len(c) /\ c[a.height] = a.hash
                /\ a.root = smt_of(replay(c, BlockTxs, first_height, a.height))
  <2>1. CASE a \in attested
    BY <2>1 DEF AttestInv, AttestedRootIsReplay
  <2>2. CASE a = [height |-> sync.h, hash |-> sync.hash, root |-> sync.root]
    <3>1. a.height = cursor /\ a.hash = sync.hash /\ a.root = sync.root
      BY <1>3, <2>2
    <3> QED  BY <1>2, <1>5, <1>8, <3>1
  <2> QED  BY <1>1, <2>1, <2>2
<1> QED  BY <1>9, <1>10 DEF AttestedRootIsReplay

\* The tree has been brought up to date when the root is read.
LEMMA RootReadSound ==
    ASSUME NEW home, DaemonReplays(home), TreeInv, read_root
    PROVE  RootRead'
<1>1. /\ sync.pc = "apply" /\ sync.todo = <<>> /\ UNCHANGED storeVars
      /\ sync' = [sync EXCEPT !.pc = "block", !.root = current_state_root]
  BY DEF read_root, reading, procVars
<1>2. PICK s \in Locals : s = sync
  BY DEF DaemonReplays, DaemonInv, SyncTyped, LocalsFit
<1>3. sync'.pc = "block" /\ sync'.root = smt
  BY <1>1, <1>2 DEF Locals, current_state_root
<1>4. rb.phase = "idle"
  BY <1>1 DEF DaemonReplays, ChainInv, RollbackSound
<1>5. saving[SyncTask] = Absent
  BY <1>1, ScannerAssumption DEF DaemonReplays, DaemonInv, SyncTyped, JobsTyped, NoJob
<1>6. smt = smt_of(objects)
  BY <1>4, <1>5, TreeSettled DEF DaemonReplays, DaemonInv
<1>7. smt_of(objects)' = smt_of(objects)
  BY <1>1 DEF storeVars, smt_of
<1> QED  BY <1>3, <1>6, <1>7 DEF RootRead

\* Everything else keeps the root that was read, or goes nowhere near it.
LEMMA RootReadStep ==
    ASSUME NEW home, Replayable(home), DaemonReplays(home), AttestInv, [Next]_vars
    PROVE  RootRead'
<1>1. PICK s \in Locals : s = sync
  BY DEF DaemonReplays, DaemonInv, SyncTyped, LocalsFit
<1>2. ASSUME UNCHANGED <<objects, blocks, sync>> PROVE RootRead'
  BY <1>2 DEF AttestInv, RootRead, smt_of, local_hash
<1>3. ASSUME sync'.pc \notin {"block", "cursor", "attest"} PROVE RootRead'
  BY <1>3 DEF RootRead
<1>4. ASSUME sync'.pc = sync.pc, sync.pc \notin {"block", "cursor", "attest"} PROVE RootRead'
  BY <1>3, <1>4
<1>5. CASE get_tip_height \/ backtrack_failed \/ scan_done \/ crash
  <2>1. sync'.pc \in {"check", "tick"}
    <3>1. CASE get_tip_height
      <4>1. sync' = [Waiting EXCEPT !.pc = "check", !.tip = Len(l1),
                               !.last = IF cursor = 0 /\ StartHeight > 0
                                        THEN StartHeight - 1 ELSE cursor]
        BY <3>1 DEF get_tip_height
      <4> QED  BY <4>1 DEF Waiting
    <3>2. CASE backtrack_failed \/ scan_done \/ crash
      <4>1. sync' = Waiting
        BY <3>2 DEF backtrack_failed, scan_done, crash
      <4> QED  BY <4>1 DEF Waiting
    <3> QED  BY <1>5, <3>1, <3>2
  <2> QED  BY <1>3, <2>1
<1>6. CASE check_cursor \/ backtrack_found \/ rollback_return \/ get_block_txs \/ attest
  <2>1. sync'.pc \in {"backtrack", "scan", "rollback", "apply"}
    BY <1>1, <1>6
       DEF check_cursor, backtrack_found, goto, rollback_return, get_block_txs, attest, Locals
  <2> QED  BY <1>3, <2>1
<1>7. CASE backtrack_down \/ get_block_hash
  <2>1. sync'.pc \in {"backtrack", "scan", "txs"}
    BY <1>1, <1>7 DEF backtrack_down, get_block_hash, Locals
  <2> QED  BY <1>3, <2>1
<1>8. CASE rollback_step \/ start_tx \/ tx_step
  <2>1. sync' = sync /\ sync.pc \in {"rollback", "apply"}
    BY <1>8 DEF rollback_step, start_tx, tx_step
  <2> QED  BY <1>4, <2>1
<1>9. CASE next_tx \/ fetch_blob \/ skip_missing
  <2>1. sync'.pc = sync.pc /\ sync.pc = "apply"
    BY <1>1, <1>9 DEF next_tx, fetch_blob, skip_missing, Locals
  <2> QED  BY <1>4, <2>1
<1>10. CASE read_root
  BY <1>10, RootReadSound DEF AttestInv
<1>11. CASE record_block
  <2>1. objects' = objects /\ sync' = [s EXCEPT !.pc = "cursor"] /\ sync.pc = "block"
    BY <1>1, <1>11 DEF record_block, save_block, goto
  <2>2. sync'.pc = "cursor" /\ sync'.root = sync.root
    BY <1>1, <2>1 DEF Locals
  <2>3. sync.root = smt_of(objects) /\ smt_of(objects)' = smt_of(objects)
    BY <2>1 DEF AttestInv, RootRead, smt_of
  <2> QED  BY <2>2, <2>3 DEF RootRead
<1>12. CASE record_cursor
  <2>1. /\ UNCHANGED <<objects, blocks>> /\ sync' = [s EXCEPT !.pc = "attest"]
        /\ sync.pc = "cursor"
    BY <1>1, <1>12 DEF record_cursor, set_last_sync_block, goto
  <2>2. /\ sync'.pc = "attest" /\ sync'.root = sync.root /\ sync'.h = sync.h
        /\ sync'.hash = sync.hash
    BY <1>1, <2>1 DEF Locals
  <2>3. sync.root = smt_of(objects) /\ smt_of(objects)' = smt_of(objects)
    BY <2>1 DEF AttestInv, RootRead, smt_of
  <2>4. local_hash(sync.h) = sync.hash
    BY <2>1 DEF DaemonReplays, ChainInv, PassSound
  <2>5. (local_hash(sync.h))' = local_hash(sync.h)
    BY <2>1, <2>2 DEF local_hash
  <2> QED  BY <2>2, <2>3, <2>4, <2>5 DEF RootRead
<1>13. CASE mempool_recv \/ mempool_step \/ mempool_return
  BY <1>13, NoGossip DEF DaemonReplays
<1>14. CASE l1_grows \/ tip_error \/ UNCHANGED vars
  <2>1. UNCHANGED <<objects, blocks, sync>>
    BY <1>14 DEF l1_grows, tip_error, reading, vars, procVars, storeVars
  <2> QED  BY <1>2, <2>1
<1> QED
  BY <1>5, <1>6, <1>7, <1>8, <1>9, <1>10, <1>11, <1>12, <1>13, <1>14
  DEF Next, SyncNext, MempoolNext

LEMMA AttestStep ==
    ASSUME NEW home, Replayable(home), DaemonReplays(home), DaemonReplays(home)', AttestInv,
           [Next]_vars
    PROVE  AttestInv'
<1>1. TxsWellFormed
  BY ReplayIsSteady
<1>2. [StoreNext]_storeVars
  BY <1>1, DaemonStep DEF DaemonReplays
<1>3. \A t \in Tasks \ {SyncTask} : saving[t] = Absent /\ saving'[t] = Absent
  <2>1. \A t \in Tasks \ {SyncTask} : saving[t] = Absent
    BY DEF DaemonReplays, DaemonInv, JobsTyped, ReplayInv, Alone, NoJob
  <2>2. \A t \in Tasks \ {SyncTask} : saving'[t] = Absent
    BY DEF DaemonReplays, DaemonInv, JobsTyped, ReplayInv, Alone, NoJob
  <2> QED  BY <2>1, <2>2
<1>4. TreeInv'
  BY <1>2, <1>3, TreeStep DEF AttestInv, DaemonReplays, DaemonInv
<1>5. RootRead'
  BY RootReadStep
<1>6. AttestedRootIsReplay'
  <2>1. CASE attest
    BY <2>1, AttestSound
  <2>2. CASE ~ attest
    <3>1. attested' = attested
      <4>1. CASE \/ get_tip_height \/ check_cursor \/ backtrack_down \/ backtrack_failed
                 \/ rollback_return \/ scan_done \/ get_block_hash \/ get_block_txs \/ read_root
                 \/ tip_error \/ l1_grows \/ crash \/ UNCHANGED vars
        BY <4>1 DEF get_tip_height, check_cursor, backtrack_down, backtrack_failed,
           rollback_return, scan_done, get_block_hash, get_block_txs, read_root, tip_error,
           l1_grows, crash, reading, vars
      <4>2. CASE \/ backtrack_found \/ rollback_step \/ start_tx \/ tx_step \/ next_tx \/ fetch_blob
                 \/ skip_missing \/ record_block \/ record_cursor \/ mempool_recv
                 \/ mempool_step \/ mempool_return
        BY <4>2 DEF backtrack_found, rollback_step, start_tx, tx_step, next_tx, fetch_blob,
           skip_missing, record_block, record_cursor, mempool_recv, mempool_step,
           mempool_return, writing
      <4> QED  BY <2>2, <4>1, <4>2 DEF Next, SyncNext, MempoolNext
    <3> QED  BY <3>1 DEF AttestInv, AttestedRootIsReplay, first_height
  <2> QED  BY <2>1, <2>2
<1> QED  BY <1>4, <1>5, <1>6 DEF AttestInv

\* Under the same conditions a signed (height, block_hash, state_root) names the root
\* that every node replaying the chain of that block computes.
THEOREM AttestedRootCorrect ==
    ASSUME NEW home, Replayable(home)
    PROVE  Spec => []AttestedRootIsReplay
<1>1. Init => AttestInv
  <2> SUFFICES ASSUME Init PROVE AttestInv
    OBVIOUS
  <2>1. StoreInit /\ sync = Waiting /\ attested = {}
    BY DEF Init, ProcInit
  <2>2. TreeInv
    BY <2>1, StoreAssumption DEF StoreInit, TreeInv, NoRollback, smt_of
  <2>3. RootRead /\ AttestedRootIsReplay
    BY <2>1 DEF RootRead, AttestedRootIsReplay, Waiting
  <2> QED  BY <2>2, <2>3 DEF AttestInv
<1>2. DaemonReplays(home) /\ DaemonReplays(home)' /\ AttestInv /\ [Next]_vars => AttestInv'
  BY AttestStep
<1>3. AttestInv => AttestedRootIsReplay
  BY DEF AttestInv
<1> QED  BY <1>1, <1>2, <1>3, DaemonReplaysAlways, PTL DEF Spec

-----------------------------------------------------------------------------
(* The history of the objects.                                             *)

\* The object was called since its creation, and the record of its last call.
CalledSince(o, r) == ObjOf[r.seal[1]] # o
Note(o, r) == [txid |-> r.seal[1], obj |-> o, height |-> r.updated_at]

\* A transition is of a transaction of the block recorded at its height, or of the block
\* in hand.
Placed(r) ==
    \/ /\ r.height \in first_height..(next_height - 1)
       /\ \E i \in DOMAIN BlockTxs[local_hash(r.height)] :
             BlockTxs[local_hash(r.height)][i].id = r.txid
    \/ in_block /\ r.height = next_height /\ \E i \in DOMAIN NextTxs : NextTxs[i].id = r.txid

AllPlaced == \A r \in transitions : Placed(r)

\* The save of the object has been committed, its record is still to come.
Pending(j, o) == j.pc \in {"tree", "transition"} /\ j.obj = o

\* Every call of the tables as they are, and as the recorded blocks left them, has its
\* record.
CallsNoted ==
    /\ \A k \in first_height..(next_height - 1) : \A o \in ObjIds :
          Recorded(k)[o] # Absent /\ CalledSince(o, Recorded(k)[o])
              => Note(o, Recorded(k)[o]) \in transitions
    /\ \A o \in ObjIds : objects[o] # Absent /\ CalledSince(o, objects[o])
              => Pending(job[SyncTask], o) \/ Note(o, objects[o]) \in transitions

\* What the transaction in hand will write down.
JobNoted(j) ==
    j.pc \in {"wasm", "undo", "execute", "commit", "tree", "transition"} =>
        /\ j.tx = Head(sync.todo) /\ j.height = next_height
        /\ j.action = "CREATE" => j.obj = ObjOf[j.tx.id]
        /\ j.action = "CREATE" \/ j.pc \in {"commit", "tree", "transition"} =>
              j.rec.seal[1] = j.tx.id /\ j.rec.updated_at = j.height
        /\ j.pc \in {"tree", "transition"} => objects[j.obj] = j.rec /\ j.rec # Absent

HistoryInv ==
    /\ faults \in Nat /\ AllPlaced /\ (faults = 0 => CallsNoted)
    /\ JobNoted(job[SyncTask])

\* The steps that leave the history alone.
LEMMA HistoryRests ==
    ASSUME HistoryInv, UNCHANGED <<objects, transitions, blocks, last_block>>,
           faults' = faults \/ faults' = faults + 1,
           in_block => in_block' /\ NextTxs' = NextTxs,
           JobNoted(job[SyncTask])',
           \A o \in ObjIds : Pending(job[SyncTask], o) =>
               faults' # 0 \/ Pending(job'[SyncTask], o) \/ ~ CalledSince(o, objects[o])
    PROVE  HistoryInv'
<1>1. /\ next_height' = next_height /\ first_height' = first_height
      /\ (\A k : Recorded(k)' = Recorded(k)) /\ (\A h : local_hash(h)' = local_hash(h))
  BY DEF next_height, cursor, first_height, Recorded, Replayed, local_hash
<1>2. ASSUME NEW r \in transitions PROVE Placed(r)'
  <2>1. Placed(r)
    BY DEF HistoryInv, AllPlaced
  <2> QED  BY <1>1, <2>1 DEF Placed
<1>3. AllPlaced'
  BY <1>2 DEF AllPlaced
<1>4. faults' \in Nat /\ (faults' = 0 => faults = 0)
  BY DEF HistoryInv
<1>5. ASSUME faults' = 0 PROVE CallsNoted'
  <2>1. CallsNoted
    BY <1>4, <1>5 DEF HistoryInv
  <2> QED  BY <1>1, <1>5, <2>1 DEF CallsNoted
<1> QED  BY <1>3, <1>4, <1>5 DEF HistoryInv

\* The loop reads, outside process_tx.
LEMMA HistoryUnread ==
    ASSUME HistoryInv, UNCHANGED <<objects, transitions, blocks, last_block>>,
           faults' = faults \/ faults' = faults + 1,
           in_block => in_block' /\ NextTxs' = NextTxs, job'[SyncTask] = NoJob,
           faults' # 0 \/ job[SyncTask].pc \notin {"tree", "transition"}
    PROVE  HistoryInv'
<1>1. JobNoted(job[SyncTask])'
  BY DEF JobNoted, NoJob
<1>2. \A o \in ObjIds : Pending(job[SyncTask], o) => faults' # 0
  BY DEF Pending
<1> QED  BY <1>1, <1>2, HistoryRests

\* A transaction changes one object.
LEMMA ChangesOne ==
    ASSUME NEW tx, WellFormed(tx), NEW objs \in Table, NEW h,
           NEW o \in ObjIds, NEW p \in ObjIds, Changes(objs, tx, h, o), Changes(objs, tx, h, p)
    PROVE  o = p
<1>1. PICK x, r : replay_tx(objs, tx, h) = objs \/ replay_tx(objs, tx, h) = [objs EXCEPT ![x] = r]
  BY ReplayTxCases
<1>2. PICK new : new = replay_tx(objs, tx, h)
  OBVIOUS
<1>3. new[o] # objs[o] /\ new[p] # objs[p]
  BY <1>2 DEF Changes
<1> QED  BY <1>1, <1>2, <1>3 DEF Table

\* A step of process_tx that leaves the tables of the history alone.
LEMMA HistoryGoesOn ==
    ASSUME NEW home, DaemonReplays(home), HistoryInv, NEW j, sync.pc = "apply",
           UNCHANGED <<objects, transitions, blocks, last_block, sync, l1, interrupted, faults>>,
           job' = [job EXCEPT ![SyncTask] = j], JobNoted(j),
           \A o \in ObjIds : Pending(job[SyncTask], o) =>
               Pending(j, o) \/ ~ CalledSince(o, objects[o])
    PROVE  HistoryInv'
<1>1. job'[SyncTask] = j
  BY ScannerAssumption DEF DaemonReplays, DaemonInv, JobsTyped
<1>2. next_height' = next_height /\ in_block' /\ NextTxs' = NextTxs
  BY DEF next_height, cursor, first_height, in_block, NextTxs
<1>3. JobNoted(job[SyncTask])'
  BY <1>1, <1>2 DEF JobNoted
<1> QED  BY <1>1, <1>2, <1>3, HistoryRests

LEMMA StartNoted ==
    ASSUME NEW home, DaemonReplays(home), HistoryInv, start_tx
    PROVE  HistoryInv'
<1>1. /\ sync.pc = "apply" /\ UNCHANGED <<sync, l1, interrupted, faults>>
      /\ process_tx(SyncTask, Head(sync.todo), sync.h)
  BY DEF start_tx, writing
<1>2. PICK tx, h : tx = Head(sync.todo) /\ h = sync.h
  OBVIOUS
<1>3. h = next_height
  BY <1>1, <1>2 DEF DaemonReplays, ChainInv, PassSound
<1>4. UNCHANGED storeVars /\ job[SyncTask] = NoJob
  BY <1>1 DEF process_tx
<1>5. UNCHANGED <<objects, transitions, blocks, last_block>>
  BY <1>4 DEF storeVars
<1>6. PICK j : /\ job' = [job EXCEPT ![SyncTask] = j]
               /\ \/ j = Returned
                  \/ \E i : j = create_job(tx, i, h)
                  \/ \E i, o : j = call_job(tx, i, h, o)
  <2>1. PICK i, b1, b2 :
          job' = [job EXCEPT ![SyncTask] =
               IF b1 THEN Returned
               ELSE IF b2 THEN create_job(tx, i, h)
               ELSE call_job(tx, i, h, target(tx))]
    BY <1>1, <1>2 DEF process_tx
  <2> QED  BY <2>1
<1>7. JobNoted(j)
  <2>1. CASE j = Returned
    BY <2>1 DEF JobNoted, Returned
  <2>2. ASSUME NEW i, j = create_job(tx, i, h) PROVE JobNoted(j)
    <3>1. PICK r : r = created(tx, i, h)
      OBVIOUS
    <3>2. r.seal[1] = tx.id /\ r.updated_at = h
      BY <3>1 DEF created, seal_of
    <3>3. /\ j.pc \in {"undo", "wasm"} /\ j.tx = tx /\ j.height = h /\ j.obj = ObjOf[tx.id]
          /\ j.rec = r
      BY <2>2, <3>1 DEF create_job
    <3> QED  BY <1>2, <1>3, <3>2, <3>3 DEF JobNoted
  <2>3. ASSUME NEW i, NEW o, j = call_job(tx, i, h, o) PROVE JobNoted(j)
    <3>1. j.pc = "undo" /\ j.tx = tx /\ j.height = h /\ j.action = "UPDATE"
      BY <2>3 DEF call_job
    <3> QED  BY <1>2, <1>3, <3>1 DEF JobNoted
  <2> QED  BY <1>6, <2>1, <2>2, <2>3
<1>8. \A o \in ObjIds : ~ Pending(job[SyncTask], o)
  BY <1>4 DEF Pending, NoJob
<1> QED  BY <1>1, <1>5, <1>6, <1>7, <1>8, HistoryGoesOn

\* Before the commit nothing is noted.
LEMMA WorkNoted ==
    ASSUME NEW home, DaemonReplays(home), HistoryInv, sync.pc = "apply",
           UNCHANGED <<sync, l1, interrupted, faults>>,
           store_blob(SyncTask) \/ record_undo(SyncTask) \/ execute(SyncTask)
    PROVE  HistoryInv'
<1>1. PICK j : j = job[SyncTask]
  OBVIOUS
<1>2. /\ UNCHANGED <<objects, transitions, blocks, last_block>>
      /\ j.pc \in {"wasm", "undo", "execute"}
  BY <1>1 DEF store_blob, save_wasm, record_undo, save_undo_log, execute, storeVars
<1>3. j \in CallJobs /\ JobReady(j) /\ JobNoted(j)
  BY <1>1, <1>2, JobAt, ScannerAssumption DEF DaemonReplays, DaemonInv, JobsTyped, HistoryInv
<1>4. \A o \in ObjIds : ~ Pending(job[SyncTask], o)
  BY <1>1, <1>2 DEF Pending
<1>5. ASSUME NEW p, NEW k, job' = [job EXCEPT ![SyncTask] = k], k = [j EXCEPT !.pc = p],
             p = "undo" \/ p = "execute" \/ (p = "commit" /\ j.action = "CREATE")
      PROVE  HistoryInv'
  <2>1. /\ k.pc = p /\ k.height = j.height /\ k.tx = j.tx
        /\ k.obj = j.obj /\ k.action = j.action /\ k.rec = j.rec
    BY <1>3, <1>5 DEF CallJobs
  <2>2. JobNoted(k)
    BY <1>2, <1>3, <1>5, <2>1 DEF JobNoted
  <2> QED  BY <1>2, <1>4, <1>5, <2>2, HistoryGoesOn
<1>6. CASE store_blob(SyncTask)
  <2>1. job' = [job EXCEPT ![SyncTask] = [j EXCEPT !.pc = "undo"]]
    BY <1>1, <1>6 DEF store_blob
  <2> QED  BY <1>5, <2>1
<1>7. CASE record_undo(SyncTask)
  <2>1. PICK p : /\ p = IF j.action = "CREATE" THEN "commit" ELSE "execute"
                 /\ job' = [job EXCEPT ![SyncTask] = [j EXCEPT !.pc = p]]
    BY <1>1, <1>7 DEF record_undo
  <2> QED  BY <1>5, <2>1
<1>8. CASE execute(SyncTask)
  <2>1. PICK st, b1, b2 :
          /\ j.pc = "execute"
          /\ job' = [job EXCEPT ![SyncTask] =
               IF b1 THEN WasmMissing(j.prev.code)
               ELSE IF b2 THEN Returned
               ELSE [j EXCEPT !.pc = "commit",
                              !.rec = called(j.prev, j.tx, j.vout, j.height, st)]]
    BY <1>1, <1>8 DEF execute
  <2>2. CASE job' = [job EXCEPT ![SyncTask] = WasmMissing(j.prev.code)]
    <3>1. JobNoted(WasmMissing(j.prev.code))
      BY DEF JobNoted, WasmMissing
    <3> QED  BY <1>2, <1>4, <2>2, <3>1, HistoryGoesOn
  <2>3. CASE job' = [job EXCEPT ![SyncTask] = Returned]
    <3>1. JobNoted(Returned)
      BY DEF JobNoted, Returned
    <3> QED  BY <1>2, <1>4, <2>3, <3>1, HistoryGoesOn
  <2>4. CASE job' = [job EXCEPT ![SyncTask] =
                       [j EXCEPT !.pc = "commit", !.rec = called(j.prev, j.tx, j.vout, j.height, st)]]
    <3>1. PICK r : r = called(j.prev, j.tx, j.vout, j.height, st)
      OBVIOUS
    <3>2. j.action = "UPDATE" /\ j.prev \in Object
      BY <1>3, <2>1 DEF CallJobs, JobReady
    <3>3. r.seal = seal_of(j.tx, j.vout) /\ r.updated_at = j.height
      BY <3>1, <3>2 DEF called, Object
    <3>4. PICK k : k = [j EXCEPT !.pc = "commit", !.rec = r]
      OBVIOUS
    <3>5. /\ k.pc = "commit" /\ k.height = j.height /\ k.tx = j.tx
          /\ k.obj = j.obj /\ k.action = j.action /\ k.rec = r
      BY <1>3, <3>4 DEF CallJobs
    <3>6. JobNoted(k)
      BY <1>2, <1>3, <3>2, <3>3, <3>5 DEF JobNoted, seal_of
    <3> QED  BY <1>2, <1>4, <2>4, <3>1, <3>4, <3>6, HistoryGoesOn
  <2> QED  BY <2>1, <2>2, <2>3, <2>4
<1> QED  BY <1>6, <1>7, <1>8

\* The tree update: of a new object there is nothing to note.
LEMMA TreeNoted ==
    ASSUME NEW home, DaemonReplays(home), HistoryInv, sync.pc = "apply",
           UNCHANGED <<sync, l1, interrupted, faults>>, update_tree(SyncTask)
    PROVE  HistoryInv'
<1>1. PICK j : j = job[SyncTask]
  OBVIOUS
<1>2. UNCHANGED <<objects, transitions, blocks, last_block>> /\ j.pc = "tree"
  BY <1>1 DEF update_tree, save_object_smt, tables
<1>3. j \in CallJobs /\ JobReady(j) /\ JobNoted(j)
  BY <1>1, <1>2, JobAt, ScannerAssumption DEF DaemonReplays, DaemonInv, JobsTyped, HistoryInv
<1>4. job' = [job EXCEPT ![SyncTask] =
                IF j.action = "CREATE" THEN Returned ELSE [j EXCEPT !.pc = "transition"]]
  BY <1>1, ScannerAssumption DEF update_tree, DaemonReplays, DaemonInv, JobsTyped
<1>5. CASE j.action = "CREATE"
  <2>1. JobNoted(Returned)
    BY DEF JobNoted, Returned
  <2>2. ASSUME NEW o \in ObjIds, Pending(job[SyncTask], o) PROVE ~ CalledSince(o, objects[o])
    BY <1>1, <1>2, <1>3, <1>5, <2>2 DEF Pending, JobNoted, CalledSince
  <2> QED  BY <1>2, <1>4, <1>5, <2>1, <2>2, HistoryGoesOn
<1>6. CASE j.action # "CREATE"
  <2>1. PICK k : k = [j EXCEPT !.pc = "transition"]
    OBVIOUS
  <2>2. /\ k.pc = "transition" /\ k.height = j.height /\ k.tx = j.tx
        /\ k.obj = j.obj /\ k.action = j.action /\ k.rec = j.rec
    BY <1>3, <2>1 DEF CallJobs
  <2>3. JobNoted(k) /\ \A o \in ObjIds : Pending(job[SyncTask], o) => Pending(k, o)
    BY <1>1, <1>2, <1>3, <2>2 DEF JobNoted, Pending
  <2> QED  BY <1>2, <1>4, <1>6, <2>1, <2>3, HistoryGoesOn
<1> QED  BY <1>5, <1>6

\* The object is saved, and its call is to be noted.
LEMMA CommitNoted ==
    ASSUME NEW home, DaemonReplays(home), HistoryInv, sync.pc = "apply",
           UNCHANGED <<sync, l1, interrupted, faults>>, commit_object(SyncTask)
    PROVE  HistoryInv'
<1>1. PICK j : j = job[SyncTask]
  OBVIOUS
<1>2. /\ UNCHANGED <<transitions, blocks, last_block>> /\ j.pc = "commit"
      /\ objects' = [objects EXCEPT ![j.obj] = j.rec]
      /\ job' = [job EXCEPT ![SyncTask] = [j EXCEPT !.pc = "tree"]]
  BY <1>1 DEF commit_object, save_object_commit
<1>3. j \in CallJobs /\ JobReady(j) /\ JobNoted(j)
  BY <1>1, <1>2, JobAt, ScannerAssumption DEF DaemonReplays, DaemonInv, JobsTyped, HistoryInv
<1>4. PICK k : k = [j EXCEPT !.pc = "tree"]
  OBVIOUS
<1>5. /\ k.pc = "tree" /\ k.height = j.height /\ k.tx = j.tx
      /\ k.obj = j.obj /\ k.action = j.action /\ k.rec = j.rec /\ job'[SyncTask] = k
  BY <1>2, <1>3, <1>4, ScannerAssumption DEF CallJobs, DaemonReplays, DaemonInv, JobsTyped
<1>6. /\ next_height' = next_height /\ first_height' = first_height /\ NextTxs' = NextTxs
      /\ (in_block' <=> in_block)
      /\ (\A m : Recorded(m)' = Recorded(m)) /\ (\A h : local_hash(h)' = local_hash(h))
  BY <1>2 DEF next_height, cursor, first_height, Recorded, Replayed, local_hash, NextTxs, in_block
<1>7. /\ j.obj \in ObjIds /\ objects'[j.obj] = j.rec
      /\ \A o \in ObjIds : o # j.obj => objects'[o] = objects[o]
      /\ j.rec # Absent
  BY <1>2, <1>3, AbsentIsNoRecord DEF CallJobs, JobReady, DaemonReplays, DaemonInv, StoreTypeOK
<1>8. JobNoted(job[SyncTask])'
  BY <1>2, <1>3, <1>5, <1>6, <1>7 DEF JobNoted
<1>9. AllPlaced'
  BY <1>2, <1>6 DEF HistoryInv, AllPlaced, Placed
<1>10. ASSUME faults = 0 PROVE CallsNoted'
  <2>1. CallsNoted
    BY <1>10 DEF HistoryInv
  <2>2. ASSUME NEW o \in ObjIds, objects'[o] # Absent, CalledSince(o, objects'[o])
        PROVE  Pending(job'[SyncTask], o) \/ Note(o, objects'[o]) \in transitions
    <3>1. CASE o = j.obj
      BY <1>5, <3>1 DEF Pending
    <3>2. CASE o # j.obj
      BY <1>1, <1>2, <1>7, <2>1, <2>2, <3>2 DEF CallsNoted, Pending
    <3> QED  BY <3>1, <3>2
  <2> QED  BY <1>2, <1>6, <2>1, <2>2 DEF CallsNoted
<1> QED  BY <1>8, <1>9, <1>10 DEF HistoryInv

\* No transaction of the block in hand is in the history of an earlier one.
LEMMA EarlierNotes ==
    ASSUME MinedOnce, ChainInv, recorded_prefix_of(l1), next_height \in DOMAIN l1,
           NEW r, Placed(r), r.height \in Nat, r.height < next_height, NEW n \in DOMAIN NextTxs
    PROVE  r.txid # NextTxs[n].id
<1>1. /\ first_height \in Nat \ {0} /\ cursor \in Nat /\ next_height \in Nat
      /\ next_height - 1 = IF cursor = 0 THEN first_height - 1 ELSE cursor
  BY NextIs DEF ChainInv
<1>2. PICK h \in Nat : h = r.height
  OBVIOUS
<1>3. /\ h \in first_height..(next_height - 1)
      /\ \E i \in DOMAIN BlockTxs[local_hash(h)] : BlockTxs[local_hash(h)][i].id = r.txid
  BY <1>1, <1>2 DEF Placed
<1>4. h \in first_height..cursor /\ h # next_height
  BY <1>1, <1>2, <1>3
<1>5. l1 \in L1Chains /\ Len(l1) \in Nat /\ DOMAIN l1 = 1..Len(l1)
  BY L1Facts DEF ChainInv, ChainTypes
<1>6. local_hash(h) = l1[h] /\ h \in DOMAIN l1
  BY <1>1, <1>4, <1>5 DEF recorded_prefix_of
<1>7. PICK i \in DOMAIN BlockTxs[l1[h]] : BlockTxs[l1[h]][i].id = r.txid
  BY <1>3, <1>6
<1> QED  BY <1>4, <1>5, <1>6, <1>7 DEF MinedOnce, NextTxs

\* An object on a seal of a transaction of the block was changed by it.
LEMMA ChangedBy ==
    ASSUME TxsWellFormed, NEW home, OneObjectPerSeal(home),
           NEW txs, FitBlock(txs), NEW h, NEW before, Fresh(home, before, txs, h),
           NEW objs, Mixed(before, txs, h, objs), NEW n \in DOMAIN txs,
           NEW o \in ObjIds, objs[o] # before[o], objs[o].seal[1] = txs[n].id
    PROVE  Changes(before, txs[n], h, o)
<1>1. PICK m \in DOMAIN txs : Changes(before, txs[m], h, o) /\ objs[o] = replay_tx(before, txs[m], h)[o]
  BY DEF Mixed
<1>2. PICK x, r : x \in Txs /\ x = txs[m] /\ r = replay_tx(before, x, h)[o] /\ r # before[o]
  BY <1>1 DEF FitBlock, Changes
<1>3. h \in Heights /\ before \in Table /\ Owned(home, before)
  BY DEF Fresh
<1>4. r.seal \in carrier_seals(x)
  BY <1>2, <1>3, ChangeIs
<1>5. r.seal[1] = x.id
  BY <1>4 DEF carrier_seals, seal_of
<1>6. m = n
  BY <1>1, <1>2, <1>5 DEF FitBlock
<1> QED  BY <1>1, <1>6

\* What is recorded was changed at a recorded height.
LEMMA RecordedEarlier ==
    ASSUME NEW home, Replayable(home), ChainInv,
           NEW k \in (first_height - 1)..(next_height - 1), NEW o \in ObjIds, NEW r,
           r = Recorded(k)[o], r # Absent
    PROVE  r.updated_at \in first_height..k
<1>1. PICK c \in L1Chains : recorded_prefix_of(c)
  BY DEF ChainInv, LocalChainContinuous
<1>2. ChainTypes /\ RecordsPlaced
  BY DEF ChainInv
<1>3. Sourced(home, c, k, Recorded(k))
  BY <1>1, <1>2, RecordedIs
<1> QED  BY <1>3 DEF Sourced

\* The record of a call is written, over none that is needed.
LEMMA CallNoted ==
    ASSUME NEW home, Replayable(home), DaemonReplays(home), HistoryInv, sync.pc = "apply",
           UNCHANGED <<sync, l1, interrupted, faults>>, record_transition(SyncTask)
    PROVE  HistoryInv'
<1>1. PICK j, tx, h, txs, b : /\ j = job[SyncTask] /\ tx = Head(sync.todo) /\ h = next_height
                              /\ txs = NextTxs /\ b = Before
  OBVIOUS
<1>2. ChainInv /\ DaemonInv /\ ReplayInv(home) /\ TableReplays
  BY DEF DaemonReplays, ReplayInv
<1>3. /\ j.pc = "transition" /\ UNCHANGED <<objects, blocks, last_block>>
      /\ job' = [job EXCEPT ![SyncTask] = Returned]
      /\ transitions' = {v \in transitions : v.txid # j.tx.id} \cup
                          {[txid |-> j.tx.id, obj |-> j.obj, height |-> j.height]}
  BY <1>1 DEF record_transition, save_transition
<1>4. j \in CallJobs /\ JobNoted(j) /\ sync.todo # <<>> /\ job'[SyncTask] = Returned
  BY <1>1, <1>2, <1>3, JobAt, ScannerAssumption
     DEF DaemonInv, JobsTyped, SyncTyped, HistoryInv, NoJob
<1>5. /\ j.tx = tx /\ j.height = h /\ j.rec.seal[1] = tx.id /\ j.rec.updated_at = h
      /\ objects[j.obj] = j.rec /\ j.rec # Absent /\ j.obj \in ObjIds
  BY <1>1, <1>3, <1>4 DEF JobNoted, CallJobs
<1>6. /\ FitBlock(txs) /\ Fresh(home, b, txs, h) /\ Mixed(b, txs, h, objects)
      /\ tx \in Txs /\ WellFormed(tx) /\ \E n \in DOMAIN txs : tx = txs[n]
  BY <1>1, <1>2, <1>4, HeadIs
<1>7. PICK n \in DOMAIN txs : tx = txs[n]
  BY <1>6
<1>8. in_block
  BY DEF in_block
<1>9. recorded_prefix_of(l1) /\ next_height \in DOMAIN l1
  BY <1>2, <1>8 DEF TableReplays
<1>10. /\ TxsWellFormed /\ OneObjectPerSeal(home) /\ MinedOnce
  BY DEF Replayable
<1>11. /\ first_height \in Nat \ {0} /\ h \in Nat /\ first_height <= h
  BY <1>1, <1>2, NextIs DEF ChainInv
<1>12. /\ next_height' = h /\ first_height' = first_height /\ NextTxs' = txs /\ in_block'
       /\ (\A m : Recorded(m)' = Recorded(m)) /\ (\A x : local_hash(x)' = local_hash(x))
  BY <1>1, <1>3 DEF next_height, cursor, first_height, Recorded, Replayed, local_hash, NextTxs, in_block
<1>13. JobNoted(job[SyncTask])'
  BY <1>4 DEF JobNoted, Returned
<1>14. PICK new : new = [txid |-> tx.id, obj |-> j.obj, height |-> h]
  OBVIOUS
<1>15. transitions' = {v \in transitions : v.txid # tx.id} \cup {new}
  BY <1>3, <1>5, <1>14
<1>16. AllPlaced'
  <2>1. ASSUME NEW r \in transitions PROVE Placed(r)'
    <3>1. Placed(r)
      BY DEF HistoryInv, AllPlaced
    <3> QED  BY <1>1, <1>12, <3>1 DEF Placed
  <2>2. Placed(new)'
    BY <1>7, <1>12, <1>14 DEF Placed
  <2> QED  BY <1>15, <2>1, <2>2 DEF AllPlaced
<1>17. ASSUME NEW k \in (first_height - 1)..(h - 1), NEW o \in ObjIds, NEW r, r = Recorded(k)[o],
              r # Absent, Note(o, r) \in transitions
       PROVE  Note(o, r) \in transitions'
  <2>1. r.updated_at \in first_height..k
    BY <1>1, <1>2, <1>17, RecordedEarlier
  <2>2. PICK v \in transitions : v = Note(o, r)
    BY <1>17
  <2>3. v.height = r.updated_at
    BY <2>2 DEF Note
  <2>4. v.height \in Nat /\ v.height < h
    BY <1>11, <2>1, <2>3
  <2>5. Placed(v)
    BY DEF HistoryInv, AllPlaced
  <2>6. v.txid # tx.id
    BY <1>1, <1>2, <1>7, <1>9, <1>10, <2>4, <2>5, EarlierNotes
  <2> QED  BY <1>15, <2>2, <2>6
<1>18. ASSUME faults = 0 PROVE CallsNoted'
  <2>1. CallsNoted
    BY <1>18 DEF HistoryInv
  <2>2. ASSUME NEW k \in first_height..(h - 1), NEW o \in ObjIds, Recorded(k)[o] # Absent,
               CalledSince(o, Recorded(k)[o])
        PROVE  Note(o, Recorded(k)[o]) \in transitions'
    <3>1. Note(o, Recorded(k)[o]) \in transitions
      BY <1>1, <2>1, <2>2 DEF CallsNoted
    <3>2. k \in (first_height - 1)..(h - 1)
      BY <1>11
    <3> QED  BY <1>17, <2>2, <3>1, <3>2
  <2>3. ASSUME NEW o \in ObjIds, objects[o] # Absent, CalledSince(o, objects[o])
        PROVE  Note(o, objects[o]) \in transitions'
    <3>1. CASE o = j.obj
      <4>1. Note(o, objects[o]) = new
        BY <1>5, <1>14, <3>1 DEF Note
      <4> QED  BY <1>15, <4>1
    <3>2. CASE o # j.obj
      <4>1. Note(o, objects[o]) \in transitions
        BY <1>1, <2>1, <2>3, <3>2 DEF CallsNoted, Pending
      <4>2. CASE objects[o] = b[o]
        <5>1. PICK k \in (first_height - 1)..(h - 1) : k = h - 1
          BY <1>11
        <5>2. objects[o] = Recorded(k)[o]
          BY <1>1, <4>2, <5>1 DEF Before
        <5> QED  BY <1>17, <2>3, <4>1, <5>2
      <4>3. CASE objects[o] # b[o]
        <5>1. objects[j.obj] # b[j.obj]
          BY <1>5, <1>6 DEF Fresh
        <5>2. Changes(b, txs[n], h, j.obj)
          BY <1>5, <1>6, <1>7, <1>10, <5>1, ChangedBy
        <5>3. ASSUME objects[o].seal[1] = tx.id PROVE FALSE
          <6>1. Changes(b, txs[n], h, o)
            BY <1>6, <1>7, <1>10, <4>3, <5>3, ChangedBy
          <6>2. b \in Table
            BY <1>6 DEF Fresh
          <6> QED  BY <1>5, <1>6, <1>7, <3>2, <5>2, <6>1, <6>2, ChangesOne
        <5>4. Note(o, objects[o]).txid # tx.id
          BY <5>3 DEF Note
        <5> QED  BY <1>15, <4>1, <5>4
      <4> QED  BY <4>2, <4>3
    <3> QED  BY <3>1, <3>2
  <2> QED  BY <1>3, <1>12, <2>2, <2>3 DEF CallsNoted
<1> QED  BY <1>13, <1>16, <1>18 DEF HistoryInv

LEMMA TxNoted ==
    ASSUME NEW home, Replayable(home), DaemonReplays(home), HistoryInv, tx_step
    PROVE  HistoryInv'
<1>1. /\ sync.pc = "apply" /\ UNCHANGED <<sync, l1, interrupted, faults>>
      /\ process_step(SyncTask)
  BY DEF tx_step, writing
<1>2. CASE store_blob(SyncTask) \/ record_undo(SyncTask) \/ execute(SyncTask)
  BY <1>1, <1>2, WorkNoted
<1>3. CASE commit_object(SyncTask)
  BY <1>1, <1>3, CommitNoted
<1>4. CASE update_tree(SyncTask)
  BY <1>1, <1>4, TreeNoted
<1>5. CASE record_transition(SyncTask)
  BY <1>1, <1>5, CallNoted
<1> QED  BY <1>1, <1>2, <1>3, <1>4, <1>5 DEF process_step

\* The block is recorded, above all that has been noted.
LEMMA RecordNoted ==
    ASSUME NEW home, DaemonReplays(home), HistoryInv, record_block
    PROVE  HistoryInv'
<1>1. /\ UNCHANGED <<objects, transitions, last_block, job, l1, interrupted, faults>>
      /\ blocks' = [blocks EXCEPT ![Chain] = [@ EXCEPT ![sync.h] = sync.hash]]
      /\ sync.pc = "block"
  BY DEF record_block, save_block, writing
<1>2. ChainInv /\ DaemonInv
  BY DEF DaemonReplays
<1>3. PICK s \in Locals : s = sync
  BY <1>2 DEF DaemonInv, SyncTyped, LocalsFit
<1>4. sync'.pc = "cursor"
  BY <1>3 DEF record_block, goto, Locals
<1>5. PICK h : h = next_height
  OBVIOUS
<1>6. sync.h = h
  BY <1>1, <1>2, <1>5 DEF ChainInv, PassSound
<1>7. /\ first_height \in Nat \ {0} /\ h \in Nat /\ first_height <= h
  BY <1>2, <1>5, NextIs DEF ChainInv
<1>8. ASSUME NEW k, k # h PROVE blocks'[Chain][k] = blocks[Chain][k]
  BY <1>1, <1>2, <1>6, <1>8, HeightFacts DEF DaemonInv, StoreTypeOK
<1>9. PICK m \in Nat : m = h - 1
  BY <1>7
<1>10. \A x \in first_height..m : blocks'[Chain][x] = blocks[Chain][x] /\ local_hash(x)' = local_hash(x)
  <2>1. \A x \in first_height..m : x # h
    BY <1>7, <1>9
  <2> QED  BY <1>8, <2>1 DEF local_hash
<1>11. ASSUME NEW k \in first_height..m PROVE Recorded(k)' = Recorded(k)
  <2>1. k \in (first_height - 1)..m
    BY <1>7
  <2> QED  BY <1>10, <2>1, RecordedStays
<1>12. next_height' = h /\ NextTxs' = NextTxs /\ first_height' = first_height
  BY <1>1, <1>5 DEF next_height, cursor, first_height, NextTxs
<1>13. in_block /\ in_block'
  BY <1>1, <1>4 DEF in_block
<1>14. job[SyncTask] = NoJob
  BY <1>1, <1>2 DEF DaemonInv, SyncTyped
<1>15. JobNoted(job[SyncTask])'
  BY <1>1, <1>14 DEF JobNoted, NoJob
<1>16. AllPlaced'
  <2>1. ASSUME NEW r \in transitions PROVE Placed(r)'
    <3>1. Placed(r)
      BY DEF HistoryInv, AllPlaced
    <3>2. CASE r.height \in first_height..m
      BY <1>5, <1>9, <1>10, <1>12, <1>13, <3>1, <3>2 DEF Placed
    <3>3. CASE r.height \notin first_height..m
      BY <1>5, <1>9, <1>12, <1>13, <3>1, <3>3 DEF Placed
    <3> QED  BY <3>2, <3>3
  <2> QED  BY <1>1, <2>1 DEF AllPlaced
<1>17. ASSUME faults = 0 PROVE CallsNoted'
  <2>1. CallsNoted
    BY <1>17 DEF HistoryInv
  <2> QED  BY <1>1, <1>5, <1>9, <1>11, <1>12, <2>1 DEF CallsNoted
<1> QED  BY <1>1, <1>15, <1>16, <1>17 DEF HistoryInv

\* The cursor moves, and the notes of the block in hand are those of the last recorded one.
LEMMA CursorNoted ==
    ASSUME NEW home, DaemonReplays(home), DaemonReplays(home)', HistoryInv, record_cursor
    PROVE  HistoryInv'
<1>1. /\ UNCHANGED <<objects, transitions, blocks, job, l1, faults>> /\ interrupted' = FALSE
      /\ last_block' = [last_block EXCEPT ![Chain] = sync.h] /\ sync.pc = "cursor"
  BY DEF record_cursor, set_last_sync_block
<1>2. ChainInv /\ DaemonInv
  BY DEF DaemonReplays
<1>3. PICK s \in Locals : s = sync
  BY <1>2 DEF DaemonInv, SyncTyped, LocalsFit
<1>4. sync'.pc = "attest"
  BY <1>3 DEF record_cursor, goto, Locals
<1>5. PICK h : h = next_height
  OBVIOUS
<1>6. sync.h = h /\ local_hash(h) = l1[h]
  BY <1>1, <1>2, <1>5 DEF ChainInv, PassSound
<1>7. /\ first_height \in Nat \ {0} /\ h \in Nat /\ first_height <= h
  BY <1>2, <1>5, NextIs DEF ChainInv
<1>8. cursor' = h
  BY <1>1, <1>2, <1>6, HeightFacts DEF DaemonInv, StoreTypeOK, cursor
<1>9. next_height' = h + 1 /\ first_height' = first_height /\ (h + 1) - 1 = h
  <2>1. h # 0 /\ first_height' = first_height
    BY <1>7 DEF first_height
  <2>2. next_height' = IF cursor' = 0 THEN first_height' ELSE cursor' + 1
    BY DEF next_height
  <2> QED  BY <1>7, <1>8, <2>1, <2>2
<1>10. (\A k : Recorded(k)' = Recorded(k)) /\ \A k : local_hash(k)' = local_hash(k)
  BY <1>1, RecordedSame DEF local_hash
<1>11. objects' = Recorded(h)
  <2>1. ~ in_block'
    BY <1>1, <1>4 DEF in_block
  <2>2. objects' = Before'
    BY <2>1 DEF DaemonReplays, ReplayInv, TableReplays
  <2>3. Before' = Recorded(h)'
    BY <1>9 DEF Before, Recorded
  <2> QED  BY <1>10, <2>2, <2>3
<1>12. job[SyncTask] = NoJob
  BY <1>1, <1>2 DEF DaemonInv, SyncTyped
<1>13. JobNoted(job[SyncTask])'
  BY <1>1, <1>12 DEF JobNoted, NoJob
<1>14. AllPlaced'
  <2>1. ASSUME NEW r \in transitions PROVE Placed(r)'
    <3>1. Placed(r)
      BY DEF HistoryInv, AllPlaced
    <3>2. r.height \in first_height..h
      BY <1>5, <1>7, <3>1 DEF Placed
    <3>3. \E i \in DOMAIN BlockTxs[local_hash(r.height)] : BlockTxs[local_hash(r.height)][i].id = r.txid
      BY <1>5, <1>6, <3>1 DEF Placed, NextTxs
    <3> QED  BY <1>9, <1>10, <3>2, <3>3 DEF Placed
  <2> QED  BY <1>1, <2>1 DEF AllPlaced
<1>15. ASSUME faults = 0 PROVE CallsNoted'
  <2>1. CallsNoted
    BY <1>15 DEF HistoryInv
  <2>2. ASSUME NEW o \in ObjIds, objects[o] # Absent, CalledSince(o, objects[o])
        PROVE  Note(o, objects[o]) \in transitions
    BY <1>12, <2>1, <2>2 DEF CallsNoted, Pending, NoJob
  <2>3. ASSUME NEW k \in first_height..h, NEW o \in ObjIds, Recorded(k)[o] # Absent,
               CalledSince(o, Recorded(k)[o])
        PROVE  Note(o, Recorded(k)[o]) \in transitions
    <3>1. CASE k = h
      BY <1>1, <1>11, <2>2, <2>3, <3>1
    <3>2. CASE k # h
      <4>1. k \in first_height..(h - 1)
        BY <1>7, <3>2
      <4> QED  BY <1>5, <2>1, <2>3, <4>1 DEF CallsNoted
    <3> QED  BY <3>1, <3>2
  <2> QED  BY <1>1, <1>9, <1>10, <2>2, <2>3 DEF CallsNoted
<1> QED  BY <1>1, <1>13, <1>14, <1>15 DEF HistoryInv

\* A rollback drops the notes of the blocks it gives up, and keeps the others.
LEMMA BackNoted ==
    ASSUME NEW home, Replayable(home), DaemonReplays(home), HistoryInv, rollback_commit,
           UNCHANGED <<job, sync, l1, interrupted, faults>>
    PROVE  HistoryInv'
<1>1. rb.phase = "undo" /\ rb.logs = {}
  BY DEF rollback_commit
<1>2. ChainInv /\ DaemonInv /\ ReplayInv(home)
  BY DEF DaemonReplays
<1>3. PICK a \in Nat, f \in Nat, h \in Nat :
        /\ a = rb.target /\ f = first_height /\ h = next_height /\ f <= a /\ a <= h - 1
        /\ rb.chain = Chain /\ 0 < f
  <2>1. /\ rb.target \in Nat /\ first_height <= rb.target /\ rb.target < cursor /\ rb.chain = Chain
    BY <1>1, <1>2, WalkOwned DEF ReplayInv
  <2>2. /\ first_height \in Nat \ {0} /\ next_height \in Nat /\ cursor \in Nat
        /\ cursor < next_height
    BY <1>2, NextIs DEF ChainInv
  <2>3. rb.target <= next_height - 1 /\ 0 < first_height
    BY <2>1, <2>2
  <2> QED  BY <2>1, <2>2, <2>3
<1>4. rb.objects = Recorded(a)
  BY <1>1, <1>2, <1>3, WalkEnds DEF ReplayInv
<1>5. /\ objects' = rb.objects
      /\ transitions' = {t \in transitions : t.height <= a}
      /\ blocks' = [blocks EXCEPT ![Chain] = [x \in Heights |-> IF x > a THEN Absent ELSE @[x]]]
      /\ last_block' = [last_block EXCEPT ![Chain] = a]
  BY <1>3 DEF rollback_commit
<1>6. 0..a \subseteq Heights
  <2>1. a \in Heights
    BY <1>1, <1>2, <1>3, WalkOwned DEF ReplayInv, Rollbacks
  <2> QED  BY <2>1, ScannerAssumption
<1>7. \A x \in f..a : blocks'[Chain][x] = blocks[Chain][x] /\ local_hash(x)' = local_hash(x)
  <2> SUFFICES ASSUME NEW x \in f..a PROVE blocks'[Chain][x] = blocks[Chain][x]
    BY DEF local_hash
  <2>1. x \in 0..a /\ ~(x > a)
    BY <1>3
  <2>2. x \in Heights
    BY <1>6, <2>1
  <2>3. blocks'[Chain] = [y \in Heights |-> IF y > a THEN Absent ELSE blocks[Chain][y]]
    BY <1>2, <1>5, HeightFacts DEF DaemonInv, StoreTypeOK
  <2> QED  BY <2>1, <2>2, <2>3
<1>8. ASSUME NEW k \in f..a
      PROVE  Recorded(k)' = Recorded(k) /\ k \in (f - 1)..(h - 1) /\ k \in f..(h - 1)
  <2>1. k \in (f - 1)..a /\ k \in (f - 1)..(h - 1) /\ k \in f..(h - 1)
    BY <1>3
  <2> QED  BY <1>3, <1>7, <2>1, RecordedStays
<1>9. cursor' = a
  BY <1>2, <1>5, HeightFacts DEF DaemonInv, StoreTypeOK, cursor
<1>10. next_height' = a + 1 /\ first_height' = f /\ (a + 1) - 1 = a
  <2>1. a # 0 /\ first_height' = f
    BY <1>3 DEF first_height
  <2>2. next_height' = IF cursor' = 0 THEN first_height' ELSE cursor' + 1
    BY DEF next_height
  <2> QED  BY <1>3, <1>9, <2>1, <2>2
<1>11. sync.pc = "rollback"
  BY <1>1, <1>2 DEF ChainInv, RollbackSound
<1>12. ~ in_block
  BY <1>2, <1>11 DEF ReplayInv, TableReplays
<1>13. job[SyncTask] = NoJob
  BY <1>2, <1>11 DEF DaemonInv, SyncTyped
<1>14. JobNoted(job[SyncTask])'
  BY <1>13 DEF JobNoted, NoJob
<1>15. AllPlaced'
  <2>1. ASSUME NEW r \in transitions' PROVE Placed(r)'
    <3>1. r \in transitions /\ r.height <= a /\ Placed(r)
      BY <1>5 DEF HistoryInv, AllPlaced
    <3>2. /\ r.height \in f..(h - 1)
          /\ \E i \in DOMAIN BlockTxs[local_hash(r.height)] : BlockTxs[local_hash(r.height)][i].id = r.txid
      BY <1>3, <1>12, <3>1 DEF Placed
    <3>3. r.height \in f..a
      BY <1>3, <3>1, <3>2
    <3> QED  BY <1>7, <1>10, <3>2, <3>3 DEF Placed
  <2> QED  BY <2>1 DEF AllPlaced
<1>16. ASSUME faults = 0 PROVE CallsNoted'
  <2>1. CallsNoted
    BY <1>16 DEF HistoryInv
  <2>2. ASSUME NEW k \in f..a, NEW o \in ObjIds, Recorded(k)[o] # Absent,
               CalledSince(o, Recorded(k)[o])
        PROVE  Note(o, Recorded(k)[o]) \in transitions'
    <3>1. Note(o, Recorded(k)[o]) \in transitions
      BY <1>3, <1>8, <2>1, <2>2 DEF CallsNoted
    <3>2. PICK r : r = Recorded(k)[o]
      OBVIOUS
    <3>3. r.updated_at \in f..k
      BY <1>2, <1>3, <1>8, <2>2, <3>2, RecordedEarlier
    <3>4. Note(o, r).height <= a
      <4>1. Note(o, r).height = r.updated_at
        BY DEF Note
      <4> QED  BY <1>3, <3>3, <4>1
    <3> QED  BY <1>5, <3>1, <3>2, <3>4
  <2>3. a \in f..a
    BY <1>3
  <2>4. \A o \in ObjIds : objects'[o] # Absent /\ CalledSince(o, objects'[o])
            => Note(o, objects'[o]) \in transitions'
    BY <1>4, <1>5, <2>2, <2>3
  <2> QED  BY <1>8, <1>10, <2>2, <2>4 DEF CallsNoted
<1> QED  BY <1>14, <1>15, <1>16 DEF HistoryInv

\* The loop outside process_tx, and its rollback but for the commit.
LEMMA ReadersNoted ==
    ASSUME NEW home, DaemonReplays(home), HistoryInv,
           \/ get_tip_height \/ check_cursor \/ backtrack_down \/ backtrack_found
           \/ backtrack_failed \/ rollback_return \/ scan_done \/ get_block_hash
           \/ get_block_txs \/ read_root \/ attest
    PROVE  HistoryInv'
<1>1. UNCHANGED <<objects, transitions, blocks, last_block, job, l1, interrupted>>
  <2>1. CASE backtrack_found
    BY <2>1 DEF backtrack_found, rollback_begin, tables, writing
  <2>2. CASE ~ backtrack_found
    BY <2>2 DEF get_tip_height, check_cursor, backtrack_down, backtrack_failed, rollback_return,
         scan_done, get_block_hash, get_block_txs, read_root, attest, reading, procVars, storeVars
  <2> QED  BY <2>1, <2>2
<1>2. faults' = faults \/ faults' = faults + 1
  BY DEF get_tip_height, check_cursor, backtrack_down, backtrack_found, backtrack_failed,
         rollback_return, scan_done, get_block_hash, get_block_txs, read_root, attest,
         no_fault, fault, writing
<1>3. PICK s \in Locals : s = sync
  BY DEF DaemonReplays, DaemonInv, SyncTyped, LocalsFit
<1>4. in_block => in_block'
  <2>1. CASE read_root
    <3>1. sync'.pc = "block"
      BY <1>3, <2>1 DEF read_root, Locals
    <3> QED  BY <3>1 DEF in_block
  <2>2. CASE ~ read_root
    <3>1. sync.pc \notin {"apply", "block", "cursor"}
      BY <2>2 DEF get_tip_height, check_cursor, backtrack_down, backtrack_found, backtrack_failed,
         rollback_return, scan_done, get_block_hash, get_block_txs, attest
    <3> QED  BY <1>1, <3>1 DEF in_block
  <2> QED  BY <2>1, <2>2
<1>5. NextTxs' = NextTxs
  BY <1>1 DEF NextTxs, next_height, cursor, first_height
<1>6. job[SyncTask] = NoJob
  <2>1. sync.pc # "apply" \/ sync.todo = <<>>
    BY DEF get_tip_height, check_cursor, backtrack_down, backtrack_found, backtrack_failed,
         rollback_return, scan_done, get_block_hash, get_block_txs, read_root, attest
  <2> QED  BY <2>1 DEF DaemonReplays, DaemonInv, SyncTyped
<1>7. job[SyncTask].pc \notin {"tree", "transition"}
  BY <1>6 DEF NoJob
<1> QED  BY <1>1, <1>2, <1>4, <1>5, <1>6, <1>7, HistoryUnread

LEMMA RollbackNoted ==
    ASSUME NEW home, Replayable(home), DaemonReplays(home), HistoryInv, rollback_step
    PROVE  HistoryInv'
<1>1. /\ UNCHANGED <<job, sync, l1, interrupted, faults>> /\ sync.pc = "rollback"
      /\ rollback_undo \/ rollback_commit \/ rollback_read \/ rollback_install
  BY DEF rollback_step, writing
<1>2. CASE rollback_commit
  BY <1>1, <1>2, BackNoted
<1>3. CASE rollback_undo \/ rollback_read \/ rollback_install
  <2>1. UNCHANGED <<objects, transitions, blocks, last_block>>
    BY <1>3 DEF rollback_undo, rollback_read, rollback_install, tables
  <2>2. NextTxs' = NextTxs /\ (in_block' <=> in_block)
    BY <1>1, <2>1 DEF NextTxs, next_height, cursor, first_height, in_block
  <2>3. job[SyncTask] = NoJob
    BY <1>1 DEF DaemonReplays, DaemonInv, SyncTyped
  <2>4. job[SyncTask].pc \notin {"tree", "transition"}
    BY <2>3 DEF NoJob
  <2> QED  BY <1>1, <2>1, <2>2, <2>3, <2>4, HistoryUnread
<1> QED  BY <1>1, <1>2, <1>3

\* The call has returned, or its blob was missing.
LEMMA ReturnNoted ==
    ASSUME NEW home, DaemonReplays(home), HistoryInv, next_tx \/ fetch_blob
    PROVE  HistoryInv'
<1>1. /\ UNCHANGED <<objects, transitions, blocks, last_block, l1, interrupted, faults>>
      /\ sync.pc = "apply" /\ job' = [job EXCEPT ![SyncTask] = NoJob]
  BY DEF next_tx, fetch_blob, save_wasm, storeVars, writing
<1>2. job[SyncTask].pc \in {"returned", "missing"}
  BY DEF next_tx, fetch_blob, Returned
<1>3. job'[SyncTask] = NoJob
  BY <1>1, ScannerAssumption DEF DaemonReplays, DaemonInv, JobsTyped
<1>4. PICK s \in Locals : s = sync
  BY DEF DaemonReplays, DaemonInv, SyncTyped, LocalsFit
<1>5. sync'.pc = "apply"
  BY <1>1, <1>4 DEF next_tx, fetch_blob, Locals
<1>6. NextTxs' = NextTxs /\ in_block'
  BY <1>1, <1>5 DEF NextTxs, next_height, cursor, first_height, in_block
<1> QED  BY <1>1, <1>2, <1>3, <1>6, HistoryUnread

\* A crash is a fault, after which only the place of the records is promised.
LEMMA CrashNoted ==
    ASSUME HistoryInv, crash
    PROVE  HistoryInv'
<1>1. /\ sync' = Waiting /\ l1' = l1 /\ interrupted' = (interrupted \/ mid_block)
      /\ job' = [t \in Tasks |-> NoJob] /\ faults' = faults + 1
      /\ UNCHANGED <<objects, transitions, blocks, last_block>>
  BY DEF crash, open, tables, fault
<1>2. faults' # 0
  BY <1>1 DEF HistoryInv
<1>3. job'[SyncTask] = NoJob
  BY <1>1, ScannerAssumption
<1>4. in_block => in_block' /\ NextTxs' = NextTxs
  BY <1>1 DEF NextTxs, next_height, cursor, first_height, in_block, mid_block
<1> QED  BY <1>1, <1>2, <1>3, <1>4, HistoryUnread

\* The loop does not move.
LEMMA StillNoted ==
    ASSUME NEW home, Replayable(home), DaemonReplays(home), HistoryInv,
           l1_grows \/ tip_error \/ UNCHANGED vars
    PROVE  HistoryInv'
<1>1. UNCHANGED <<storeVars, job, sync, interrupted>>
  BY DEF l1_grows, tip_error, reading, vars, procVars
<1>2. UNCHANGED <<objects, transitions, blocks, last_block>>
  BY <1>1 DEF storeVars
<1>3. faults' = faults \/ faults' = faults + 1
  BY DEF l1_grows, tip_error, vars, fault
<1>4. next_height' = next_height /\ (in_block' <=> in_block)
  BY <1>1, <1>2 DEF next_height, cursor, first_height, in_block
<1>5. in_block => NextTxs' = NextTxs
  <2>1. CASE l1_grows
    BY <2>1, GrowthStays DEF DaemonReplays
  <2>2. CASE tip_error \/ UNCHANGED vars
    <3>1. l1' = l1
      BY <2>2 DEF tip_error, reading, vars
    <3> QED  BY <1>4, <3>1 DEF NextTxs
  <2> QED  BY <2>1, <2>2
<1>6. JobNoted(job[SyncTask])'
  BY <1>1, <1>2, <1>4 DEF HistoryInv, JobNoted
<1>7. \A o \in ObjIds : Pending(job[SyncTask], o) => Pending(job'[SyncTask], o)
  BY <1>1
<1> QED  BY <1>2, <1>3, <1>4, <1>5, <1>6, <1>7, HistoryRests

LEMMA HistoryStep ==
    ASSUME NEW home, Replayable(home), DaemonReplays(home), DaemonReplays(home)', HistoryInv,
           [Next]_vars
    PROVE  HistoryInv'
<1>1. CASE \/ get_tip_height \/ check_cursor \/ backtrack_down \/ backtrack_found
           \/ backtrack_failed \/ rollback_return \/ scan_done \/ get_block_hash
           \/ get_block_txs \/ read_root \/ attest
  BY <1>1, ReadersNoted
<1>2. CASE rollback_step
  BY <1>2, RollbackNoted
<1>3. CASE start_tx \/ tx_step
  BY <1>3, StartNoted, TxNoted
<1>4. CASE next_tx \/ fetch_blob \/ skip_missing
  BY <1>4, ReturnNoted, NoneSkipped DEF DaemonReplays
<1>5. CASE record_block \/ record_cursor
  BY <1>5, RecordNoted, CursorNoted
<1>6. CASE mempool_recv \/ mempool_step \/ mempool_return
  BY <1>6, NoGossip DEF DaemonReplays
<1>7. CASE l1_grows \/ tip_error \/ UNCHANGED vars
  BY <1>7, StillNoted
<1>8. CASE crash
  BY <1>8, CrashNoted
<1> QED
  BY <1>1, <1>2, <1>3, <1>4, <1>5, <1>6, <1>7, <1>8 DEF Next, SyncNext, MempoolNext

LEMMA HistoryInit ==
    ASSUME Init
    PROVE  HistoryInv
<1>1. /\ objects = [o \in ObjIds |-> Absent] /\ transitions = {} /\ faults = 0
      /\ job = [t \in Tasks |-> NoJob]
  BY DEF Init, ProcInit, StoreInit
<1>2. cursor = 0 /\ next_height = first_height /\ first_height \in Nat \ {0}
  BY HeightFacts DEF Init, ProcInit, StoreInit, cursor, next_height
<1>3. first_height..(next_height - 1) = {}
  BY <1>2
<1>4. job[SyncTask] = NoJob
  BY <1>1, ScannerAssumption
<1>5. AllPlaced /\ CallsNoted /\ JobNoted(job[SyncTask])
  BY <1>1, <1>3, <1>4 DEF AllPlaced, CallsNoted, JobNoted, NoJob
<1> QED  BY <1>1, <1>5 DEF HistoryInv

\* Under the same conditions every transition record is of a transaction of the block
\* recorded at its height, across crashes and rollbacks, and as long as nothing has
\* failed an object that was called has the record of its last call.
THEOREM HistoryCorrect ==
    ASSUME NEW home, Replayable(home)
    PROVE  Spec => []HistoryMatches
<1>1. Init => HistoryInv
  BY HistoryInit
<1>2. DaemonReplays(home) /\ DaemonReplays(home)' /\ HistoryInv /\ [Next]_vars => HistoryInv'
  BY HistoryStep
<1>3. DaemonReplays(home) /\ HistoryInv => HistoryMatches
  <2> SUFFICES ASSUME DaemonReplays(home), HistoryInv, between_blocks PROVE HistoryMatches
    BY DEF HistoryMatches
  <2>1. ~ in_block
    BY DEF between_blocks, in_block
  <2>2. job[SyncTask] = NoJob
    BY DEF between_blocks, DaemonReplays, DaemonInv, SyncTyped
  <2>3. ASSUME NEW r \in transitions
        PROVE  /\ r.height \in first_height..cursor
               /\ \E i \in DOMAIN BlockTxs[local_hash(r.height)] :
                     BlockTxs[local_hash(r.height)][i].id = r.txid
    <3>1. /\ r.height \in first_height..(next_height - 1)
          /\ \E i \in DOMAIN BlockTxs[local_hash(r.height)] :
                BlockTxs[local_hash(r.height)][i].id = r.txid
      BY <2>1 DEF HistoryInv, AllPlaced, Placed
    <3>2. /\ first_height \in Nat \ {0} /\ cursor \in Nat
          /\ next_height - 1 = IF cursor = 0 THEN first_height - 1 ELSE cursor
      BY NextIs DEF DaemonReplays, ChainInv
    <3>3. r.height \in first_height..cursor
      BY <3>1, <3>2
    <3> QED  BY <3>1, <3>3
  <2>4. ASSUME faults = 0, NEW o \in ObjIds, objects[o] # Absent, ObjOf[objects[o].seal[1]] # o
        PROVE  [txid |-> objects[o].seal[1], obj |-> o, height |-> objects[o].updated_at]
                   \in transitions
    <3>1. CallsNoted /\ ~ Pending(job[SyncTask], o)
      BY <2>2, <2>4 DEF HistoryInv, Pending, NoJob
    <3> QED  BY <2>4, <3>1 DEF CallsNoted, CalledSince, Note
  <2> QED  BY <2>3, <2>4 DEF HistoryMatches
<1> QED  BY <1>1, <1>2, <1>3, DaemonReplaysAlways, PTL DEF Spec
=============================================================================
