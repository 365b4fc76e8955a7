---------------------------- MODULE MCStateStore ----------------------------
(* Bounded instance of StateStore: tasks save and log objects, and the     *)
(* sync loop rolls back, in any interleaving.  Object records differ only  *)
(* in their seal, the one field the index and the rollback look at, and    *)
(* undo logs record the object as it is now, as the block processor does.  *)
(* Transitions, block records, cursor and blobs meet objects, index and    *)
(* tree nowhere; their calls are left to the runs of the scanner.          *)
EXTENDS StoreHistory, FiniteSets, TLC

CONSTANTS
    MaxUndo,    \* bound on the undo logs alive at once
    TopHeight   \* the height the saved records carry

ASSUME MCAssumption == TopHeight \in Heights

Sample(S) == CHOOSE x \in S : TRUE

MCSave(t) ==
    \E o \in ObjIds, s \in Seals :
        tracked_save(t, o,
            [code |-> Sample(Codes), seal |-> s, satoshis |-> Sample(Values),
             owner |-> Sample(Owners), state |-> Sample(States),
             created_at |-> TopHeight, updated_at |-> TopHeight])

MCUndo(t) ==
    \E o \in ObjIds, c \in ChainIds, h \in Heights \ {0}, l \in Lows :
        /\ Cardinality(undo_logs) < MaxUndo
        /\ save_undo_log(t,
              [id |-> [height |-> h, low |-> l], chain |-> c, height |-> h,
               obj |-> o, prev |-> objects[o],
               action |-> IF objects[o] = Absent THEN "CREATE" ELSE "UPDATE"])

MCNext ==
    \/ \E t \in Tasks : MCSave(t)
    \/ tracked_rollback
    \/ tracked_open
    \/ /\ \/ \E t \in Tasks : save_object_smt(t) \/ MCUndo(t)
          \/ \E c \in ChainIds, h \in Heights : rollback_begin(c, h)
          \/ rollback_undo
          \/ rollback_read
          \/ rollback_install
       /\ UNCHANGED overlapped

\* Objects and seals are told apart by nothing.
MCSymmetry == Permutations(ObjIds) \cup Permutations(Seals)

MCSpec == TrackedInit /\ [][MCNext]_trackedVars
=============================================================================
