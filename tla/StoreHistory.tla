---------------------------- MODULE StoreHistory ----------------------------
(***************************************************************************)
(* The store with a history of overlapping calls.                          *)
(*                                                                         *)
(* save_object commits an object and updates the tree afterwards, and      *)
(* rollback_to_block commits, reads all objects and installs a new tree    *)
(* afterwards.  Nothing orders the second halves of two calls that write   *)
(* one object: overlapped is the set of the objects for which such a call  *)
(* has run into another one since their leaf was last written alone.       *)
(***************************************************************************)
EXTENDS StateStore

VARIABLE overlapped

trackedVars == <<storeVars, overlapped>>

\* Objects whose save is between commit and tree update.
in_flight == {saving[t].obj : t \in {u \in Tasks : saving[u] # Absent}}

\* A save is on its own unless another save of the object is under way or a
\* rollback has read the table and not yet installed what it read.
alone(o) == o \notin in_flight /\ rb.phase # "install"

tracked_save(t, o, r) ==
    /\ save_object_commit(t, o, r)
    /\ overlapped' = IF alone(o) THEN overlapped \ {o} ELSE overlapped \cup {o}

\* A rollback rewrites every leaf; it overlaps the saves that committed before.
tracked_rollback ==
    /\ rollback_commit
    /\ overlapped' = in_flight

\* StateStore::open rebuilds the tree with nobody else running.
tracked_open ==
    /\ open
    /\ overlapped' = {}

TrackedInit == StoreInit /\ overlapped = {}

TrackedNext ==
    \/ \E t \in Tasks, o \in ObjIds : \E r \in Object : tracked_save(t, o, r)
    \/ tracked_rollback
    \/ tracked_open
    \/ /\ \/ \E t \in Tasks :
              \/ save_object_smt(t)
              \/ \E u \in UndoLog : save_undo_log(t, u)
              \/ \E tr \in Transition : save_transition(t, tr)
              \/ \E c \in ChainIds, h \in Heights, b \in Blocks : save_block(t, c, h, b)
              \/ \E c \in ChainIds, h \in Heights : set_last_sync_block(t, c, h)
              \/ \E k \in Codes : save_wasm(t, k)
          \/ \E c \in ChainIds, h \in Heights : rollback_begin(c, h)
          \/ rollback_undo
          \/ rollback_read
          \/ rollback_install
       /\ UNCHANGED overlapped

TrackedSpec == TrackedInit /\ [][TrackedNext]_trackedVars

-----------------------------------------------------------------------------
(* Properties.                                                             *)

\* Whenever no store call is in progress, current_state_root is the root of
\* the persisted objects, except for the leaves of objects that overlapping
\* calls have written: however many tasks save and roll back, calls on
\* different objects never disturb each other's leaf, and a later save of
\* the object on its own, a rollback or a restart repairs it.  For an
\* overlapped object the code does not keep the order of the commits
\* (RootMatchesStore fails).
RootMatchesUnlessOverlapped ==
    quiescent => \A o \in ObjIds \ overlapped : smt[o] = smt_of(objects)[o]
=============================================================================
