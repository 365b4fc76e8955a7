---------------------------- MODULE BridgeProofs ----------------------------
(***************************************************************************)
(* Proofs about module Bridge: the tables are well typed, the replay guard *)
(* binds a source object to one transfer, everything minted has a quorum,  *)
(* every mint is paid for, and no overlap of calls leaves an object locked *)
(* for nothing.                                                            *)
(*                                                                         *)
(* The inductive invariant, part by part: which locals a call has at every *)
(* program counter (BridgeTypes); a mint past the replay guard owns the    *)
(* entry of its object, and past the verifier it was judged by registered  *)
(* validators (GuardSound, VerdictSound); a mint past its wait holds the   *)
(* mutex (MutexHeld); records carry the object of their id and the status  *)
(* their step writes (RecordsSound); mints made, possible and allowed by   *)
(* pending writes stay within locks, cancels and restarts (Budget); table  *)
(* and cache differ only by locks in flight (CacheSound); and a locked     *)
(* object is released by a cached transfer or a running call (Rescued).    *)
(***************************************************************************)
EXTENDS Bridge, FiniteSetTheorems, TLAPS

Object == [owner : Owners, locked : BOOLEAN]

(* The locals of a call, by program counter.                               *)
LockLocals ==
    [pc : {<<"lock", "object">>, <<"lock", "save">>, <<"lock", "cache">>}, op : {"lock"},
     id : TransferId, obj : Object, tr : BridgeTransfer]
WaitLocals ==
    [pc : {<<"mint", "wait">>}, op : {"mint"}, id : TransferId, proof : Proofs]
GuardLocals ==
    [pc : {<<"mint", "guard">>, <<"mint", "recheck">>, <<"mint", "read">>},
     op : {"mint"}, id : TransferId, proof : Proofs]
VerifyLocals ==
    [pc : {<<"mint", "verify">>}, op : {"mint"}, id : TransferId, proof : Proofs,
     tr : BridgeTransfer, total : Nat]
VerifiedLocals ==
    [pc : {<<"verified", "cache">>, <<"verified", "save">>, <<"mint", "object">>}, op : {"mint"},
     id : TransferId, proof : Proofs, total : Nat, tr : BridgeTransfer]
DoneLocals ==
    [pc : {<<"failed", "cache">>, <<"failed", "save">>, <<"unlock", "read">>,
           <<"minted", "cache">>, <<"minted", "save">>}, op : {"mint"},
     id : TransferId, tr : BridgeTransfer]
CancelLocals ==
    [pc : {<<"cancel", "owner">>}, op : {"cancel"}, id : TransferId, tr : BridgeTransfer,
     caller : Callers, signed : BOOLEAN]
CancelledLocals ==
    [pc : {<<"unlock", "read">>, <<"cancelled", "cache">>, <<"cancelled", "save">>}, op : {"cancel"},
     id : TransferId, tr : BridgeTransfer]
UnlockLocals ==
    [pc : {<<"unlock", "save">>}, op : {"mint", "cancel"}, id : TransferId, tr : BridgeTransfer,
     obj : Object]
Locals ==
    {Idle} \cup LockLocals \cup WaitLocals \cup GuardLocals \cup VerifyLocals \cup VerifiedLocals
        \cup DoneLocals \cup CancelLocals \cup CancelledLocals \cup UnlockLocals

BridgeTypes ==
    /\ BridgeTypeOK
    /\ IsFiniteSet(known)
    /\ task \in [Tasks -> Locals]

-----------------------------------------------------------------------------
(* Types.                                                                  *)

\* The program counter of a call tells its locals.
LEMMA LocalsAt ==
    ASSUME NEW t \in Locals
    PROVE  /\ t.pc \in {<<"lock", "object">>, <<"lock", "save">>, <<"lock", "cache">>} => t \in LockLocals
           /\ t.pc = <<"mint", "wait">> => t \in WaitLocals
           /\ t.pc \in {<<"mint", "guard">>, <<"mint", "recheck">>, <<"mint", "read">>} => t \in GuardLocals
           /\ t.pc = <<"mint", "verify">> => t \in VerifyLocals
           /\ t.pc \in {<<"verified", "cache">>, <<"verified", "save">>, <<"mint", "object">>}
                => t \in VerifiedLocals
           /\ t.pc \in {<<"failed", "cache">>, <<"failed", "save">>, <<"minted", "cache">>, <<"minted", "save">>}
                => t \in DoneLocals
           /\ t.pc = <<"cancel", "owner">> => t \in CancelLocals
           /\ t.pc \in {<<"cancelled", "cache">>, <<"cancelled", "save">>} => t \in CancelledLocals
           /\ t.pc = <<"unlock", "read">> => t \in DoneLocals \/ t \in CancelledLocals
           /\ t.pc = <<"unlock", "save">> => t \in UnlockLocals
<1>1. CASE t = Idle
  BY <1>1 DEF Idle
<1>2. CASE t \in LockLocals
  BY <1>2 DEF LockLocals
<1>3. CASE t \in WaitLocals
  BY <1>3 DEF WaitLocals
<1>4. CASE t \in GuardLocals
  BY <1>4 DEF GuardLocals
<1>5. CASE t \in VerifyLocals
  BY <1>5 DEF VerifyLocals
<1>6. CASE t \in VerifiedLocals
  BY <1>6 DEF VerifiedLocals
<1>7. CASE t \in DoneLocals
  BY <1>7 DEF DoneLocals
<1>8. CASE t \in CancelLocals
  BY <1>8 DEF CancelLocals
<1>9. CASE t \in CancelledLocals
  BY <1>9 DEF CancelledLocals
<1>10. CASE t \in UnlockLocals
  BY <1>10 DEF UnlockLocals
<1> QED
  BY <1>1, <1>2, <1>3, <1>4, <1>5, <1>6, <1>7, <1>8, <1>9, <1>10 DEF Locals

\* Every step of a call keeps its locals well formed and touches no other call.
LEMMA TaskTypes ==
    ASSUME BridgeTypes, NEW k \in Tasks, task_step(k)
    PROVE  task' \in [Tasks -> Locals] /\ \A j \in Tasks \ {k} : task'[j] = task[j]
<1> DEFINE t == task[k]
           Goal == task' \in [Tasks -> Locals] /\ \A j \in Tasks \ {k} : task'[j] = task[j]
<1>1. task \in [Tasks -> Locals] /\ t \in Locals
  BY DEF BridgeTypes
<1>2. ASSUME NEW u \in Locals, task' = [task EXCEPT ![k] = u] PROVE Goal
  BY <1>1, <1>2
<1>3. ASSUME NEW pc, [t EXCEPT !.pc = pc] \in Locals, task' = goto(k, pc) PROVE Goal
  BY <1>1, <1>2, <1>3 DEF goto
<1>4. ASSUME task' = returned(k) PROVE Goal
  BY <1>2, <1>4 DEF returned, Locals
<1>5. ASSUME mint_return(k) PROVE Goal
  BY <1>4, <1>5 DEF mint_return
<1> SUFFICES Goal
  OBVIOUS
<1> HIDE DEF Goal
<1>6. CASE lock_object(k) \/ lock_save(k)
  <2>1. t \in LockLocals
    BY <1>1, <1>6, LocalsAt DEF lock_object, lock_save, at
  <2>2. ASSUME NEW pc \in {<<"lock", "save">>, <<"lock", "cache">>} PROVE [t EXCEPT !.pc = pc] \in Locals
    BY <2>1 DEF LockLocals, Locals
  <2>3. \E pc \in {<<"lock", "save">>, <<"lock", "cache">>} : task' = goto(k, pc)
    BY <1>6 DEF lock_object, lock_save
  <2> QED  BY <1>3, <2>2, <2>3
<1>7. CASE lock_cache(k)
  BY <1>4, <1>7 DEF lock_cache
<1>8. CASE mint_lock(k)
  <2>1. t \in WaitLocals
    BY <1>1, <1>8, LocalsAt DEF mint_lock, at
  <2>2. [t EXCEPT !.pc = <<"mint", "guard">>] \in Locals
    BY <2>1 DEF WaitLocals, GuardLocals, Locals
  <2> QED  BY <1>3, <1>8, <2>2 DEF mint_lock
<1>9. CASE mint_guard(k) \/ mint_recheck(k)
  <2>1. t \in GuardLocals
    BY <1>1, <1>9, LocalsAt DEF mint_guard, mint_recheck, at
  <2>2. ASSUME NEW pc \in {<<"mint", "recheck">>, <<"mint", "read">>} PROVE [t EXCEPT !.pc = pc] \in Locals
    BY <2>1 DEF GuardLocals, Locals
  <2>3. mint_return(k) \/ \E pc \in {<<"mint", "recheck">>, <<"mint", "read">>} : task' = goto(k, pc)
    BY <1>9 DEF mint_guard, mint_recheck
  <2> QED  BY <1>3, <1>5, <2>2, <2>3
<1>10. CASE mint_read(k)
  <2>1. t \in GuardLocals
    BY <1>1, <1>10, LocalsAt DEF mint_read, at
  <2> DEFINE u == [pc |-> <<"mint", "verify">>, op |-> "mint", id |-> t.id,
                   proof |-> t.proof, tr |-> transfers[t.id], total |-> Cardinality(known)]
  <2>2. CASE transfers[t.id] # None /\ ~is_minted(t.id)
    <3>1. Cardinality(known) \in Nat
      BY FS_CardinalityType DEF BridgeTypes
    <3>2. t.id \in TransferId /\ t.proof \in Proofs
      BY <2>1 DEF GuardLocals
    <3>3. transfers[t.id] \in BridgeTransfer
      BY <2>2, <3>2 DEF BridgeTypes, BridgeTypeOK
    <3>4. u \in VerifyLocals
      BY <3>1, <3>2, <3>3 DEF VerifyLocals
    <3> HIDE DEF u
    <3>5. u \in Locals
      BY <3>4 DEF Locals
    <3>6. task' = [task EXCEPT ![k] = u]
      BY <1>10, <2>2 DEF mint_read, u
    <3> QED  BY <1>2, <3>5, <3>6
  <2> QED  BY <1>5, <1>10, <2>2 DEF mint_read
<1>11. CASE mint_verify(k)
  <2>1. t \in VerifyLocals
    BY <1>1, <1>11, LocalsAt DEF mint_verify, at
  <2> DEFINE failed == [pc |-> <<"failed", "cache">>, op |-> "mint", id |-> t.id,
                        tr |-> [t.tr EXCEPT !.status = "Failed"]]
             verified == [pc |-> <<"verified", "cache">>, op |-> "mint", id |-> t.id, proof |-> t.proof,
                          total |-> t.total, tr |-> [t.tr EXCEPT !.status = "Verified"]]
  <2>2. t.id \in TransferId /\ t.proof \in Proofs /\ t.total \in Nat /\ t.tr \in BridgeTransfer
    BY <2>1 DEF VerifyLocals
  <2>3. \A s \in BridgeStatus : [t.tr EXCEPT !.status = s] \in BridgeTransfer
    BY <2>2 DEF BridgeTransfer
  <2>4. [t.tr EXCEPT !.status = "Failed"] \in BridgeTransfer /\ [t.tr EXCEPT !.status = "Verified"] \in BridgeTransfer
    BY <2>3 DEF BridgeStatus
  <2>5. failed \in DoneLocals /\ verified \in VerifiedLocals
    BY <2>2, <2>4 DEF DoneLocals, VerifiedLocals
  <2>6. mint_return(k) \/ task' = [task EXCEPT ![k] = failed] \/ task' = [task EXCEPT ![k] = verified]
    BY <1>1, <1>11 DEF mint_verify
  <2> HIDE DEF failed, verified
  <2>7. failed \in Locals /\ verified \in Locals
    BY <2>5 DEF Locals
  <2> QED  BY <1>2, <1>5, <2>6, <2>7
<1>12. CASE mint_object(k)
  <2>1. t \in VerifiedLocals
    BY <1>1, <1>12, LocalsAt DEF mint_object, at
  <2> DEFINE u == [pc |-> <<"minted", "cache">>, op |-> "mint", id |-> t.id,
                   tr |-> [t.tr EXCEPT !.status = "Minted"]]
  <2>2. t.id \in TransferId /\ t.tr \in BridgeTransfer
    BY <2>1 DEF VerifiedLocals
  <2>3. [t.tr EXCEPT !.status = "Minted"] \in BridgeTransfer
    BY <2>2 DEF BridgeTransfer, BridgeStatus
  <2>4. u \in DoneLocals
    BY <2>2, <2>3 DEF DoneLocals
  <2>5. task' = [task EXCEPT ![k] = u]
    BY <1>1, <1>12 DEF mint_object
  <2> HIDE DEF u
  <2> QED  BY <1>2, <2>4, <2>5 DEF Locals
<1>13. CASE update_cache(k)
  <2>1. PICK u \in Updates : t.pc = <<u, "cache">> /\ task' = goto(k, <<u, "save">>)
    BY <1>13 DEF update_cache, at
  <2>2. CASE u = "verified"
    <3>1. t \in VerifiedLocals
      BY <1>1, <2>1, <2>2, LocalsAt
    <3>2. [t EXCEPT !.pc = <<u, "save">>] \in Locals
      BY <2>2, <3>1 DEF VerifiedLocals, Locals
    <3> QED  BY <1>3, <2>1, <3>2
  <2>3. CASE u = "failed" \/ u = "minted"
    <3>1. t \in DoneLocals
      BY <1>1, <2>1, <2>3, LocalsAt
    <3>2. [t EXCEPT !.pc = <<u, "save">>] \in Locals
      BY <2>3, <3>1 DEF DoneLocals, Locals
    <3> QED  BY <1>3, <2>1, <3>2
  <2>4. CASE u = "cancelled"
    <3>1. t \in CancelledLocals
      BY <1>1, <2>1, <2>4, LocalsAt
    <3>2. [t EXCEPT !.pc = <<u, "save">>] \in Locals
      BY <2>4, <3>1 DEF CancelledLocals, Locals
    <3> QED  BY <1>3, <2>1, <3>2
  <2> QED  BY <2>2, <2>3, <2>4 DEF Updates
<1>14. CASE update_save(k)
  <2>1. PICK u \in Updates :
           /\ t.pc = <<u, "save">>
           /\ \/ u = "failed" /\ task' = goto(k, <<"unlock", "read">>)
              \/ u = "verified" /\ task' = goto(k, <<"mint", "object">>)
              \/ u = "minted" /\ mint_return(k)
              \/ u = "cancelled" /\ task' = returned(k)
    BY <1>14 DEF update_save, at
  <2>2. CASE u = "verified" /\ task' = goto(k, <<"mint", "object">>)
    <3>1. t \in VerifiedLocals
      BY <1>1, <2>1, <2>2, LocalsAt
    <3>2. [t EXCEPT !.pc = <<"mint", "object">>] \in Locals
      BY <3>1 DEF VerifiedLocals, Locals
    <3> QED  BY <1>3, <2>2, <3>2
  <2>3. CASE u = "failed" /\ task' = goto(k, <<"unlock", "read">>)
    <3>1. t \in DoneLocals
      BY <1>1, <2>1, <2>3, LocalsAt
    <3>2. [t EXCEPT !.pc = <<"unlock", "read">>] \in Locals
      BY <3>1 DEF DoneLocals, Locals
    <3> QED  BY <1>3, <2>3, <3>2
  <2> QED  BY <1>4, <1>5, <2>1, <2>2, <2>3
<1>15. CASE cancel_owner(k)
  <2>1. t \in CancelLocals
    BY <1>1, <1>15, LocalsAt DEF cancel_owner, at
  <2> DEFINE u == [pc |-> <<"unlock", "read">>, op |-> "cancel", id |-> t.id, tr |-> t.tr]
  <2>2. u \in CancelledLocals
    BY <2>1 DEF CancelLocals, CancelledLocals
  <2>3. task' = returned(k) \/ task' = [task EXCEPT ![k] = u]
    BY <1>1, <1>15 DEF cancel_owner
  <2> HIDE DEF u
  <2> QED  BY <1>2, <1>4, <2>2, <2>3 DEF Locals
<1>16. ASSUME after_unlock(k), t.id \in TransferId, t.tr \in BridgeTransfer PROVE Goal
  <2> DEFINE u == [pc |-> <<"cancelled", "cache">>, op |-> "cancel", id |-> t.id,
                   tr |-> [t.tr EXCEPT !.status = "Failed"]]
  <2>1. [t.tr EXCEPT !.status = "Failed"] \in BridgeTransfer
    BY <1>16 DEF BridgeTransfer, BridgeStatus
  <2>2. u \in CancelledLocals
    BY <1>16, <2>1 DEF CancelledLocals
  <2>3. mint_return(k) \/ task' = [task EXCEPT ![k] = u]
    BY <1>1, <1>16 DEF after_unlock
  <2> HIDE DEF u
  <2> QED  BY <1>2, <1>5, <2>2, <2>3 DEF Locals
<1>17. CASE unlock_read(k)
  <2>1. /\ t.id \in TransferId /\ t.tr \in BridgeTransfer /\ t.op \in {"mint", "cancel"}
    <3>1. t \in DoneLocals \/ t \in CancelledLocals
      BY <1>1, <1>17, LocalsAt DEF unlock_read, at
    <3> QED  BY <3>1 DEF DoneLocals, CancelledLocals
  <2> DEFINE obj == objects[t.tr.object]
             u == [pc |-> <<"unlock", "save">>, op |-> t.op, id |-> t.id, tr |-> t.tr, obj |-> obj]
  <2>2. obj \in Object
    BY <2>1 DEF BridgeTypes, BridgeTypeOK, BridgeTransfer, Object
  <2>3. u \in UnlockLocals
    BY <2>1, <2>2 DEF UnlockLocals
  <2>4. after_unlock(k) \/ task' = [task EXCEPT ![k] = u]
    BY <1>1, <1>17 DEF unlock_read
  <2> HIDE DEF u
  <2> QED  BY <1>2, <1>16, <2>1, <2>3, <2>4 DEF Locals
<1>18. CASE unlock_save(k)
  <2>1. t \in UnlockLocals
    BY <1>1, <1>18, LocalsAt DEF unlock_save, at
  <2> QED  BY <1>16, <1>18, <2>1 DEF UnlockLocals, unlock_save
<1> QED
  BY <1>6, <1>7, <1>8, <1>9, <1>10, <1>11, <1>12, <1>13, <1>14, <1>15, <1>17, <1>18 DEF task_step

\* Requests that are accepted start with well-formed locals.
LEMMA RequestTypes ==
    ASSUME BridgeTypes, NEW k \in Tasks, request(k)
    PROVE  /\ task' \in [Tasks -> Locals] /\ \A j \in Tasks \ {k} : task'[j] = task[j]
           /\ calls' \in 0..MaxCalls
           /\ passed' \in [TransferId -> [locks : Nat, cancels : Nat]]
           /\ UNCHANGED <<tables, transfers, transfer_locks, known, now, crashes>>
<1> DEFINE Goal == /\ task' \in [Tasks -> Locals] /\ \A j \in Tasks \ {k} : task'[j] = task[j]
                   /\ calls' \in 0..MaxCalls
                   /\ passed' \in [TransferId -> [locks : Nat, cancels : Nat]]
                   /\ UNCHANGED <<tables, transfers, transfer_locks, known, now, crashes>>
<1>1. /\ task \in [Tasks -> Locals] /\ calls \in 0..MaxCalls /\ now \in 0..MaxTime /\ MaxCalls \in Nat
      /\ passed \in [TransferId -> [locks : Nat, cancels : Nat]]
  BY BridgeAssumption DEF BridgeTypes, BridgeTypeOK
<1>2. ASSUME NEW t \in Locals, idle(k), accept(k, t) PROVE
        /\ task' \in [Tasks -> Locals] /\ \A j \in Tasks \ {k} : task'[j] = task[j]
        /\ calls' \in 0..MaxCalls
  BY <1>1, <1>2 DEF idle, accept
<1> SUFFICES Goal
  OBVIOUS
<1> HIDE DEF Goal
<1>3. ASSUME NEW chain \in Chains, NEW o \in Objects, NEW to \in Recipients, NEW caller \in Callers,
             NEW signed \in BOOLEAN, lock_assets(k, chain, o, to, caller, signed)
      PROVE  Goal
  <2> DEFINE id == <<chain, o, now>>
             tr == [object |-> o, chain |-> chain, to |-> to, created_at |-> now, status |-> "Locked"]
  <2>1. id \in TransferId /\ tr \in BridgeTransfer
    BY <1>1 DEF TransferId, BridgeTransfer, BridgeStatus
  <2>2. objects[o] \in Object
    BY DEF BridgeTypes, BridgeTypeOK, Object
  <2> HIDE DEF id, tr
  <2>3. lock_locals(chain, o, to) = [pc |-> <<"lock", "object">>, op |-> "lock", id |-> id, obj |-> objects[o], tr |-> tr]
    BY DEF lock_locals, id, tr
  <2>4. lock_locals(chain, o, to) \in LockLocals
    BY <2>1, <2>2, <2>3 DEF LockLocals
  <2>5. UNCHANGED <<task, calls, passed>>
        \/ (accept(k, lock_locals(chain, o, to)) /\ passed' = [passed EXCEPT ![id].locks = @ + 1])
    BY <1>3 DEF lock_assets, id
  <2>6. passed' \in [TransferId -> [locks : Nat, cancels : Nat]]
    BY <1>1, <2>1, <2>5
  <2>7. idle(k) /\ UNCHANGED <<tables, transfers, transfer_locks, known, now, crashes>>
    BY <1>3 DEF lock_assets
  <2>8. lock_locals(chain, o, to) \in Locals
    BY <2>4 DEF Locals
  <2> QED  BY <1>1, <1>2, <2>5, <2>6, <2>7, <2>8 DEF Goal
<1>4. ASSUME NEW id \in TransferId, NEW p \in Proofs, mint_from_proof(k, id, p) PROVE Goal
  <2> DEFINE u == [pc |-> <<"mint", "wait">>, op |-> "mint", id |-> id, proof |-> p]
  <2>1. u \in WaitLocals
    BY DEF WaitLocals
  <2>2. /\ idle(k) /\ accept(k, u)
        /\ UNCHANGED <<tables, transfers, transfer_locks, known, now, crashes, passed>>
    BY <1>4 DEF mint_from_proof
  <2> HIDE DEF u
  <2>3. u \in Locals
    BY <2>1 DEF Locals
  <2> QED  BY <1>1, <1>2, <2>2, <2>3 DEF Goal
<1>5. ASSUME NEW id \in TransferId, NEW caller \in Callers, NEW signed \in BOOLEAN,
             cancel_transfer(k, id, caller, signed)
      PROVE  Goal
  <2> DEFINE u == [pc |-> <<"cancel", "owner">>, op |-> "cancel", id |-> id, tr |-> transfers[id],
                   caller |-> caller, signed |-> signed]
  <2>1. CASE cancellable(id) /\ accept(k, u) /\ passed' = [passed EXCEPT ![id].cancels = @ + 1]
    <3>1. transfers[id] \in BridgeTransfer
      BY <2>1 DEF cancellable, BridgeTypes, BridgeTypeOK
    <3>2. u \in CancelLocals
      BY <3>1 DEF CancelLocals
    <3>3. passed' \in [TransferId -> [locks : Nat, cancels : Nat]]
      BY <1>1, <2>1
    <3>4. accept(k, u) /\ idle(k) /\ UNCHANGED <<tables, transfers, transfer_locks, known, now, crashes>>
      BY <1>5, <2>1 DEF cancel_transfer
    <3> HIDE DEF u
    <3>5. u \in Locals
      BY <3>2 DEF Locals
    <3> QED  BY <1>1, <1>2, <3>3, <3>4, <3>5 DEF Goal
  <2>2. CASE UNCHANGED <<task, calls, passed>>
    BY <1>1, <1>5, <2>2 DEF cancel_transfer, Goal
  <2> QED  BY <1>5, <2>1, <2>2 DEF cancel_transfer
<1> QED  BY <1>3, <1>4, <1>5 DEF request

\* What a running call may carry.
LEMMA CallFields ==
    ASSUME NEW t \in Locals
    PROVE  /\ t # Idle => t.id \in TransferId /\ t.op \in {"lock", "mint", "cancel"}
           /\ t \in LockLocals => t.tr \in BridgeTransfer /\ t.obj \in Object
           /\ t \in UnlockLocals => t.tr \in BridgeTransfer /\ t.obj \in Object
           /\ t.pc \in {<<u, s>> : u \in Updates, s \in {"cache", "save"}} => t.tr \in BridgeTransfer
<1>1. t # Idle => t.id \in TransferId /\ t.op \in {"lock", "mint", "cancel"}
  BY DEF Locals, LockLocals, WaitLocals, GuardLocals, VerifyLocals, VerifiedLocals, DoneLocals,
         CancelLocals, CancelledLocals, UnlockLocals
<1>2. /\ t \in LockLocals => t.tr \in BridgeTransfer /\ t.obj \in Object
      /\ t \in UnlockLocals => t.tr \in BridgeTransfer /\ t.obj \in Object
  BY DEF LockLocals, UnlockLocals
<1>3. ASSUME NEW u \in Updates, NEW s \in {"cache", "save"}, t.pc = <<u, s>> PROVE t.tr \in BridgeTransfer
  <2>1. t \in VerifiedLocals \/ t \in DoneLocals \/ t \in CancelledLocals
    BY <1>3, LocalsAt DEF Updates
  <2> QED  BY <2>1 DEF VerifiedLocals, DoneLocals, CancelledLocals
<1> QED  BY <1>1, <1>2, <1>3

\* A call that has something to do is not idle.
LEMMA Running ==
    ASSUME NEW k \in Tasks, task_step(k) PROVE task[k] # Idle
<1> SUFFICES ASSUME task[k].pc = <<"idle", "idle">> PROVE FALSE
  BY DEF Idle
<1> QED
  BY DEF task_step, at, lock_object, lock_save, lock_cache, mint_lock, mint_guard, mint_recheck,
         mint_read, mint_verify, mint_object, update_cache, update_save, cancel_owner, unlock_read, unlock_save

\* A step of a call keeps the tables and the caches well typed.
LEMMA TaskTables ==
    ASSUME BridgeTypes, NEW k \in Tasks, task_step(k)
    PROVE  /\ objects' \in [Objects -> Object]
           /\ \A m \in minted' : m.transfer \in TransferId /\ m.object \in Objects /\ m.to \in Recipients
           /\ saved' \in [TransferId -> BridgeTransfer \cup {None}]
           /\ transfers' \in [TransferId -> BridgeTransfer \cup {None}]
           /\ minted_proofs' \in [Objects -> TransferId \cup {None}]
           /\ transfer_locks' \in [TransferId -> Tasks \cup {None}]
           /\ UNCHANGED <<known, now, history>>
<1> DEFINE t == task[k]
<1>1. t \in Locals /\ t # Idle /\ t.id \in TransferId
  BY Running, CallFields DEF BridgeTypes
<1>a. t.pc \in {<<"lock", "save">>, <<"lock", "cache">>} => t.tr \in BridgeTransfer
  <2>1. t.pc \in {<<"lock", "save">>, <<"lock", "cache">>} => t \in LockLocals
    BY <1>1, LocalsAt
  <2> QED  BY <2>1 DEF LockLocals
<1>b. ASSUME NEW u \in Updates, NEW s \in {"cache", "save"}, t.pc = <<u, s>> PROVE t.tr \in BridgeTransfer
  <2>1. t.pc \in {<<v, w>> : v \in Updates, w \in {"cache", "save"}}
    BY <1>b
  <2> HIDE DEF t
  <2> QED  BY <1>1, <2>1, CallFields
<1> USE DEF BridgeTypes, BridgeTypeOK
<1>2. objects' \in [Objects -> Object]
  <2>1. CASE lock_object(k)
    <3>1. t.tr.object \in Objects /\ t.obj \in Object
      BY <1>1, <2>1, LocalsAt, CallFields DEF lock_object, at, BridgeTransfer
    <3>2. [t.obj EXCEPT !.locked = TRUE] \in Object
      BY <3>1 DEF Object
    <3> QED  BY <2>1, <3>1, <3>2 DEF lock_object, Object
  <2>2. CASE unlock_save(k)
    <3>1. t.tr.object \in Objects /\ t.obj \in Object
      BY <1>1, <2>2, LocalsAt, CallFields DEF unlock_save, at, BridgeTransfer
    <3>2. [t.obj EXCEPT !.locked = FALSE] \in Object
      BY <3>1 DEF Object
    <3> QED  BY <2>2, <3>1, <3>2 DEF unlock_save, Object
  <2>3. CASE objects' = objects
    BY <2>3 DEF Object
  <2> QED
    BY <2>1, <2>2, <2>3
       DEF task_step, tables, lock_save, lock_cache, mint_lock, mint_guard, mint_recheck, mint_read,
           mint_verify, mint_object, update_cache, update_save, cancel_owner, unlock_read
<1>3. \A m \in minted' : m.transfer \in TransferId /\ m.object \in Objects /\ m.to \in Recipients
  <2>1. CASE mint_object(k)
    <3>1. t.tr \in BridgeTransfer
      BY <1>1, <2>1, LocalsAt DEF mint_object, at, VerifiedLocals
    <3>2. t.tr.object \in Objects /\ t.tr.to \in Recipients
      BY <3>1 DEF BridgeTransfer
    <3> DEFINE new == [transfer |-> t.id, at |-> now, object |-> t.tr.object,
                       to |-> t.tr.to, proof |-> t.proof, total |-> t.total]
    <3>3. minted' \subseteq minted \cup {new}
      BY <2>1 DEF mint_object
    <3> QED  BY <1>1, <3>2, <3>3
  <2>2. CASE minted' = minted
    BY <2>2
  <2> QED
    BY <2>1, <2>2
       DEF task_step, tables, lock_object, lock_save, lock_cache, mint_lock, mint_guard, mint_recheck,
           mint_read, mint_verify, update_cache, update_save, cancel_owner, unlock_read, unlock_save
<1>4. saved' \in [TransferId -> BridgeTransfer \cup {None}]
  <2>1. CASE lock_save(k) \/ update_save(k)
    <3>0. t.pc = <<"lock", "save">> \/ \E u \in Updates : t.pc = <<u, "save">>
      BY <2>1 DEF lock_save, update_save, at
    <3>1. t.tr \in BridgeTransfer
      BY <1>a, <1>b, <3>0
    <3>2. saved' = [saved EXCEPT ![t.id] = t.tr]
      BY <2>1 DEF lock_save, update_save
    <3> QED  BY <1>1, <3>1, <3>2
  <2>2. CASE saved' = saved
    BY <2>2
  <2> QED
    BY <2>1, <2>2
       DEF task_step, tables, lock_object, lock_cache, mint_lock, mint_guard, mint_recheck,
           mint_read, mint_verify, mint_object, update_cache, cancel_owner, unlock_read, unlock_save
<1>5. transfers' \in [TransferId -> BridgeTransfer \cup {None}]
  <2>1. CASE lock_cache(k) \/ update_cache(k)
    <3>0. t.pc = <<"lock", "cache">> \/ \E u \in Updates : t.pc = <<u, "cache">>
      BY <2>1 DEF lock_cache, update_cache, at
    <3>1. t.tr \in BridgeTransfer
      BY <1>a, <1>b, <3>0
    <3>2. transfers' = [transfers EXCEPT ![t.id] = t.tr]
      BY <2>1 DEF lock_cache, update_cache
    <3> QED  BY <1>1, <3>1, <3>2
  <2>2. CASE transfers' = transfers
    BY <2>2
  <2> QED
    BY <2>1, <2>2
       DEF task_step, tables, lock_object, lock_save, mint_lock, mint_guard, mint_recheck,
           mint_read, mint_verify, mint_object, update_save, cancel_owner, unlock_read, unlock_save
<1>6. minted_proofs' \in [Objects -> TransferId \cup {None}]
  <2>1. CASE mint_guard(k)
    <3>1. t.proof.object_id \in Objects
      BY <1>1, <2>1, LocalsAt, BridgeAssumption DEF mint_guard, at, GuardLocals
    <3> QED  BY <1>1, <2>1, <3>1 DEF mint_guard
  <2>2. CASE minted_proofs' = minted_proofs
    BY <2>2
  <2> QED
    BY <2>1, <2>2
       DEF task_step, tables, lock_object, lock_save, lock_cache, mint_lock, mint_recheck, mint_read,
           mint_verify, mint_object, update_cache, update_save, cancel_owner, unlock_read, unlock_save
<1>7. transfer_locks' \in [TransferId -> Tasks \cup {None}]
  <2>1. CASE transfer_locks' = [transfer_locks EXCEPT ![t.id] = None]
             \/ transfer_locks' = [transfer_locks EXCEPT ![t.id] = k]
    BY <1>1, <2>1
  <2>2. CASE transfer_locks' = transfer_locks
    BY <2>2
  <2> QED
    BY <2>1, <2>2
       DEF task_step, mint_return, after_unlock, lock_object, lock_save, lock_cache, mint_lock, mint_guard,
           mint_recheck, mint_read, mint_verify, mint_object, update_cache, update_save, cancel_owner,
           unlock_read, unlock_save
<1>8. UNCHANGED <<known, now, history>>
  BY DEF task_step, lock_object, lock_save, lock_cache, mint_lock, mint_guard,
         mint_recheck, mint_read, mint_verify, mint_object, update_cache, update_save, cancel_owner,
         unlock_read, unlock_save
<1> QED  BY <1>2, <1>3, <1>4, <1>5, <1>6, <1>7, <1>8

LEMMA BridgeTypesInvariant == Spec => []BridgeTypes
<1>1. Init => BridgeTypes
  <2> SUFFICES ASSUME Init PROVE BridgeTypes
    OBVIOUS
  <2>1. objects \in [Objects -> [owner : Owners, locked : BOOLEAN]]
    BY BridgeAssumption DEF Init
  <2>2. now \in 0..MaxTime /\ calls \in 0..MaxCalls /\ crashes \in 0..MaxCrashes
    BY BridgeAssumption DEF Init
  <2>3. IsFiniteSet(known)
    BY FS_EmptySet DEF Init
  <2>4. passed \in [TransferId -> [locks : Nat, cancels : Nat]]
    BY DEF Init
  <2> QED  BY <2>1, <2>2, <2>3, <2>4 DEF Init, BridgeTypes, BridgeTypeOK, Locals
<1>2. BridgeTypes /\ [Next]_vars => BridgeTypes'
  <2> SUFFICES ASSUME BridgeTypes, [Next]_vars PROVE BridgeTypes'
    OBVIOUS
  <2>1. ASSUME NEW k \in Tasks, request(k) PROVE BridgeTypes'
    BY <2>1, RequestTypes DEF BridgeTypes, BridgeTypeOK, tables
  <2>2. ASSUME NEW k \in Tasks, task_step(k) PROVE BridgeTypes'
    BY <2>2, TaskTypes, TaskTables DEF BridgeTypes, BridgeTypeOK, Object, history
  <2>3. ASSUME NEW v \in Validators, register_validator(v) PROVE BridgeTypes'
    <3>1. IsFiniteSet(known') /\ known' \subseteq Validators
      BY <2>3, FS_AddElement DEF register_validator, BridgeTypes, BridgeTypeOK
    <3> QED  BY <2>3, <3>1 DEF register_validator, BridgeTypes, BridgeTypeOK, tables, history
  <2>4. CASE restart
    <3>1. IsFiniteSet(known') /\ known' \subseteq Validators
      BY <2>4, FS_EmptySet DEF restart
    <3>2. crashes' \in 0..MaxCrashes
      BY <2>4, BridgeAssumption DEF restart, BridgeTypes, BridgeTypeOK
    <3>3. task' \in [Tasks -> Locals]
      BY <2>4 DEF restart, Locals
    <3> QED  BY <2>4, <3>1, <3>2, <3>3 DEF restart, BridgeTypes, BridgeTypeOK, tables
  <2>5. CASE tick
    <3>1. now' \in 0..MaxTime
      BY <2>5, BridgeAssumption DEF tick, BridgeTypes, BridgeTypeOK
    <3> QED  BY <2>5, <3>1 DEF tick, BridgeTypes, BridgeTypeOK, tables, memory, history
  <2>6. CASE UNCHANGED vars
    BY <2>6 DEF vars, BridgeTypes, BridgeTypeOK, tables, memory, history
  <2> QED  BY <2>1, <2>2, <2>3, <2>4, <2>5, <2>6 DEF Next, finished
<1> QED  BY <1>1, <1>2, PTL DEF Spec

-----------------------------------------------------------------------------
(* What each step does to the locals of its call.                          *)

Kept(k) == task'[k].id = task[k].id /\ task'[k].op = task[k].op
Judging(k) == Kept(k) /\ task'[k].proof = task[k].proof
Moved(k) == Kept(k) /\ task'[k].tr = task[k].tr
Closed(k, status) == Kept(k) /\ task'[k].tr = [task[k].tr EXCEPT !.status = status]

\* What follows unlock_object.
Unlocked(k) ==
    \/ task[k].op = "mint" /\ task'[k] = Idle /\ transfer_locks' = [transfer_locks EXCEPT ![task[k].id] = None]
    \/ /\ task[k].op = "cancel" /\ task'[k].pc = <<"cancelled", "cache">> /\ Closed(k, "Failed")
       /\ transfer_locks' = transfer_locks

LEMMA LockEffects ==
    ASSUME BridgeTypes, NEW k \in Tasks
    PROVE  /\ lock_object(k) => /\ task[k].op = "lock" /\ task[k].pc = <<"lock", "object">>
                                /\ task'[k].pc = <<"lock", "save">> /\ Moved(k)
           /\ lock_save(k) => /\ task[k].op = "lock" /\ task[k].pc = <<"lock", "save">>
                              /\ task'[k].pc = <<"lock", "cache">> /\ Moved(k)
           /\ lock_cache(k) => /\ task[k].op = "lock" /\ task[k].pc = <<"lock", "cache">>
                               /\ task'[k] = Idle
<1>1. task \in [Tasks -> Locals] /\ task[k] \in Locals
  BY DEF BridgeTypes
<1>2. lock_object(k) \/ lock_save(k) \/ lock_cache(k) => task[k] \in LockLocals
  BY <1>1, LocalsAt DEF lock_object, lock_save, lock_cache, at
<1> QED
  BY <1>1, <1>2 DEF LockLocals, lock_object, lock_save, lock_cache, at, goto, returned, Moved, Kept

LEMMA MintEffects ==
    ASSUME BridgeTypes, NEW k \in Tasks
    PROVE  /\ mint_lock(k) => /\ task[k].op = "mint" /\ task[k].pc = <<"mint", "wait">>
                              /\ task'[k].pc = <<"mint", "guard">> /\ Judging(k)
           /\ mint_guard(k) => /\ task[k].op = "mint" /\ task[k].pc = <<"mint", "guard">>
                               /\ task[k].proof.object_id \in Objects
                               /\ \/ task'[k] = Idle
                                  \/ task'[k].pc \in {<<"mint", "recheck">>, <<"mint", "read">>} /\ Judging(k)
           /\ mint_recheck(k) => /\ task[k].op = "mint" /\ task[k].pc = <<"mint", "recheck">>
                                 /\ \/ task'[k] = Idle
                                    \/ task'[k].pc = <<"mint", "read">> /\ Judging(k)
           /\ mint_read(k) => /\ task[k].op = "mint" /\ task[k].pc = <<"mint", "read">>
                              /\ \/ task'[k] = Idle
                                 \/ /\ task'[k].pc = <<"mint", "verify">> /\ Judging(k)
                                    /\ transfers[task[k].id] # None /\ ~is_minted(task[k].id)
                                    /\ task'[k].tr = transfers[task[k].id]
<1>1. task \in [Tasks -> Locals] /\ task[k] \in Locals
  BY DEF BridgeTypes
<1>2. mint_lock(k) => task[k] \in WaitLocals
  BY <1>1, LocalsAt DEF mint_lock, at
<1>3. mint_guard(k) \/ mint_recheck(k) \/ mint_read(k) => task[k] \in GuardLocals
  BY <1>1, LocalsAt DEF mint_guard, mint_recheck, mint_read, at
<1>5. mint_guard(k) => /\ task[k].op = "mint" /\ task[k].pc = <<"mint", "guard">>
                       /\ task[k].proof.object_id \in Objects
                       /\ \/ task'[k] = Idle
                          \/ task'[k].pc \in {<<"mint", "recheck">>, <<"mint", "read">>} /\ Judging(k)
  BY <1>1, <1>3, BridgeAssumption DEF GuardLocals, mint_guard, at, goto, mint_return, returned, Judging, Kept
<1>6. mint_recheck(k) => /\ task[k].op = "mint" /\ task[k].pc = <<"mint", "recheck">>
                         /\ \/ task'[k] = Idle
                            \/ task'[k].pc = <<"mint", "read">> /\ Judging(k)
  BY <1>1, <1>3 DEF GuardLocals, mint_recheck, at, goto, mint_return, returned, Judging, Kept
<1>7. mint_read(k) => /\ task[k].op = "mint" /\ task[k].pc = <<"mint", "read">>
                      /\ \/ task'[k] = Idle
                         \/ /\ task'[k].pc = <<"mint", "verify">> /\ Judging(k)
                            /\ transfers[task[k].id] # None /\ ~is_minted(task[k].id)
                            /\ task'[k].tr = transfers[task[k].id]
  BY <1>1, <1>3 DEF GuardLocals, mint_read, at, goto, mint_return, returned, Judging, Kept
<1>8. mint_lock(k) => /\ task[k].op = "mint" /\ task[k].pc = <<"mint", "wait">>
                      /\ task'[k].pc = <<"mint", "guard">> /\ Judging(k)
  BY <1>1, <1>2 DEF WaitLocals, mint_lock, at, goto, Judging, Kept
<1> QED  BY <1>5, <1>6, <1>7, <1>8

LEMMA VerifyEffects ==
    ASSUME BridgeTypes, NEW k \in Tasks
    PROVE  /\ mint_verify(k) => /\ task[k].op = "mint" /\ task[k].pc = <<"mint", "verify">>
                                /\ task[k] \in VerifyLocals
                                /\ \/ task'[k] = Idle
                                   \/ task'[k].pc = <<"failed", "cache">> /\ Closed(k, "Failed")
                                   \/ /\ task'[k].pc = <<"verified", "cache">> /\ Closed(k, "Verified")
                                      /\ Judging(k) /\ task'[k].total = task[k].total
                                      /\ verify_proof(task[k].proof, task[k].total, known)
                                      /\ task[k].proof.object_id = task[k].tr.object
           /\ mint_object(k) => /\ task[k].op = "mint" /\ task[k].pc = <<"mint", "object">>
                                /\ task[k] \in VerifiedLocals
                                /\ task'[k].pc = <<"minted", "cache">> /\ Closed(k, "Minted")
<1>1. task \in [Tasks -> Locals] /\ task[k] \in Locals
  BY DEF BridgeTypes
<1>2. mint_verify(k) => task[k] \in VerifyLocals
  BY <1>1, LocalsAt DEF mint_verify, at
<1>3. mint_object(k) => task[k] \in VerifiedLocals
  BY <1>1, LocalsAt DEF mint_object, at
<1>4. mint_object(k) => /\ task[k].op = "mint" /\ task[k].pc = <<"mint", "object">>
                        /\ task'[k].pc = <<"minted", "cache">> /\ Closed(k, "Minted")
  BY <1>1, <1>3 DEF VerifiedLocals, mint_object, at, Closed, Kept
<1>5. ASSUME mint_verify(k)
      PROVE  /\ task[k].op = "mint" /\ task[k].pc = <<"mint", "verify">>
             /\ \/ task'[k] = Idle
                \/ task'[k].pc = <<"failed", "cache">> /\ Closed(k, "Failed")
                \/ /\ task'[k].pc = <<"verified", "cache">> /\ Closed(k, "Verified")
                   /\ Judging(k) /\ task'[k].total = task[k].total
                   /\ verify_proof(task[k].proof, task[k].total, known)
                   /\ task[k].proof.object_id = task[k].tr.object
  BY <1>1, <1>2, <1>5 DEF VerifyLocals, mint_verify, at, mint_return, returned, Closed, Judging, Kept
<1> QED  BY <1>2, <1>3, <1>4, <1>5

LEMMA UpdateEffects ==
    ASSUME BridgeTypes, NEW k \in Tasks
    PROVE  /\ update_cache(k) => \E u \in Updates :
                  /\ task[k].pc = <<u, "cache">> /\ task'[k].pc = <<u, "save">> /\ Moved(k)
                  /\ task[k].op = IF u = "cancelled" THEN "cancel" ELSE "mint"
                  /\ u = "verified" => Judging(k) /\ task'[k].total = task[k].total
           /\ update_save(k) => \E u \in Updates :
                  /\ task[k].pc = <<u, "save">>
                  /\ task[k].op = IF u = "cancelled" THEN "cancel" ELSE "mint"
                  /\ \/ u = "failed" /\ task'[k].pc = <<"unlock", "read">> /\ Moved(k)
                     \/ /\ u = "verified" /\ task'[k].pc = <<"mint", "object">> /\ Moved(k)
                        /\ Judging(k) /\ task'[k].total = task[k].total
                     \/ u \in {"minted", "cancelled"} /\ task'[k] = Idle
<1> DEFINE t == task[k]
<1>1. task \in [Tasks -> Locals] /\ t \in Locals
  BY DEF BridgeTypes
<1>2. ASSUME NEW u \in Updates, NEW s \in {"cache", "save"}, t.pc = <<u, s>>
      PROVE  /\ t.op = IF u = "cancelled" THEN "cancel" ELSE "mint"
             /\ u = "verified" => t \in VerifiedLocals
             /\ u \in {"failed", "minted"} => t \in DoneLocals
             /\ u = "cancelled" => t \in CancelledLocals
  <2>1. /\ u = "verified" => t \in VerifiedLocals
        /\ u \in {"failed", "minted"} => t \in DoneLocals
        /\ u = "cancelled" => t \in CancelledLocals
    BY <1>1, <1>2, LocalsAt DEF Updates
  <2> QED  BY <2>1 DEF VerifiedLocals, DoneLocals, CancelledLocals, Updates
<1>3. ASSUME NEW u \in Updates, NEW s \in {"cache", "save"}, t.pc = <<u, s>>, NEW pc, task' = goto(k, pc)
      PROVE  /\ task'[k].pc = pc /\ Moved(k)
             /\ u = "verified" => Judging(k) /\ task'[k].total = task[k].total
  <2>1. t \in VerifiedLocals \/ t \in DoneLocals \/ t \in CancelledLocals
    BY <1>2, <1>3 DEF Updates
  <2>2. u = "verified" => t \in VerifiedLocals
    BY <1>2, <1>3
  <2>3. task'[k] = [t EXCEPT !.pc = pc]
    BY <1>1, <1>3 DEF goto
  <2> HIDE DEF t
  <2>4. [t EXCEPT !.pc = pc].pc = pc /\ [t EXCEPT !.pc = pc].tr = t.tr
        /\ [t EXCEPT !.pc = pc].id = t.id /\ [t EXCEPT !.pc = pc].op = t.op
    BY <2>1 DEF VerifiedLocals, DoneLocals, CancelledLocals
  <2>5. u = "verified" => [t EXCEPT !.pc = pc].proof = t.proof /\ [t EXCEPT !.pc = pc].total = t.total
    BY <2>2 DEF VerifiedLocals
  <2> QED  BY <2>3, <2>4, <2>5 DEF Moved, Kept, Judging, t
<1>4. ASSUME update_cache(k)
      PROVE  \E u \in Updates :
                  /\ task[k].pc = <<u, "cache">> /\ task'[k].pc = <<u, "save">> /\ Moved(k)
                  /\ task[k].op = IF u = "cancelled" THEN "cancel" ELSE "mint"
                  /\ u = "verified" => Judging(k) /\ task'[k].total = task[k].total
  <2>1. PICK u \in Updates : t.pc = <<u, "cache">> /\ task' = goto(k, <<u, "save">>)
    BY <1>4 DEF update_cache, at
  <2> QED  BY <1>2, <1>3, <2>1
<1>5. ASSUME update_save(k)
      PROVE  \E u \in Updates :
                  /\ task[k].pc = <<u, "save">>
                  /\ task[k].op = IF u = "cancelled" THEN "cancel" ELSE "mint"
                  /\ \/ u = "failed" /\ task'[k].pc = <<"unlock", "read">> /\ Moved(k)
                     \/ /\ u = "verified" /\ task'[k].pc = <<"mint", "object">> /\ Moved(k)
                        /\ Judging(k) /\ task'[k].total = task[k].total
                     \/ u \in {"minted", "cancelled"} /\ task'[k] = Idle
  <2>1. PICK u \in Updates :
           /\ t.pc = <<u, "save">>
           /\ \/ u = "failed" /\ task' = goto(k, <<"unlock", "read">>)
              \/ u = "verified" /\ task' = goto(k, <<"mint", "object">>)
              \/ u \in {"minted", "cancelled"} /\ task' = returned(k)
    BY <1>5 DEF update_save, at, mint_return
  <2>2. task' = returned(k) => task'[k] = Idle
    BY <1>1 DEF returned
  <2> QED  BY <1>2, <1>3, <2>1, <2>2
<1> QED  BY <1>4, <1>5

LEMMA CancelEffects ==
    ASSUME BridgeTypes, NEW k \in Tasks
    PROVE  /\ cancel_owner(k) => /\ task[k].op = "cancel" /\ task[k].pc = <<"cancel", "owner">>
                                 /\ \/ task'[k] = Idle
                                    \/ task'[k].pc = <<"unlock", "read">> /\ Moved(k)
           /\ unlock_read(k) => /\ task[k].op \in {"mint", "cancel"} /\ task[k].pc = <<"unlock", "read">>
                                /\ task[k].tr.object \in Objects
                                /\ \/ Unlocked(k) /\ ~objects[task[k].tr.object].locked
                                   \/ /\ task'[k].pc = <<"unlock", "save">> /\ Moved(k)
                                      /\ transfer_locks' = transfer_locks
           /\ unlock_save(k) => /\ task[k].op \in {"mint", "cancel"} /\ task[k].pc = <<"unlock", "save">>
                                /\ task[k] \in UnlockLocals
                                /\ Unlocked(k)
<1> DEFINE t == task[k]
<1>1. task \in [Tasks -> Locals] /\ t \in Locals
  BY DEF BridgeTypes
<1>2. cancel_owner(k) => /\ task[k].op = "cancel" /\ task[k].pc = <<"cancel", "owner">>
                         /\ \/ task'[k] = Idle
                            \/ task'[k].pc = <<"unlock", "read">> /\ Moved(k)
  <2>1. cancel_owner(k) => t \in CancelLocals
    BY <1>1, LocalsAt DEF cancel_owner, at
  <2> QED  BY <1>1, <2>1 DEF CancelLocals, cancel_owner, at, returned, Moved, Kept
<1>3. ASSUME after_unlock(k), t.op \in {"mint", "cancel"} PROVE Unlocked(k)
  BY <1>1, <1>3 DEF after_unlock, Unlocked, mint_return, returned, Closed, Kept
<1>4. ASSUME unlock_read(k)
      PROVE  /\ task[k].op \in {"mint", "cancel"} /\ task[k].pc = <<"unlock", "read">>
             /\ task[k].tr.object \in Objects
             /\ \/ Unlocked(k) /\ ~objects[task[k].tr.object].locked
                \/ /\ task'[k].pc = <<"unlock", "save">> /\ Moved(k)
                   /\ transfer_locks' = transfer_locks
  <2>1. t \in DoneLocals \/ t \in CancelledLocals
    BY <1>1, <1>4, LocalsAt DEF unlock_read, at
  <2>2. t.op \in {"mint", "cancel"} /\ t.tr \in BridgeTransfer
    BY <2>1 DEF DoneLocals, CancelledLocals
  <2>3. t.tr.object \in Objects
    BY <2>2 DEF BridgeTransfer
  <2> QED  BY <1>1, <1>3, <1>4, <2>2, <2>3 DEF unlock_read, at, Moved, Kept
<1>5. ASSUME unlock_save(k)
      PROVE  /\ task[k].op \in {"mint", "cancel"} /\ task[k].pc = <<"unlock", "save">>
             /\ task[k] \in UnlockLocals
             /\ Unlocked(k)
  <2>1. t \in UnlockLocals /\ t.pc = <<"unlock", "save">>
    BY <1>1, <1>5, LocalsAt DEF unlock_save, at
  <2>2. t.op \in {"mint", "cancel"}
    BY <2>1 DEF UnlockLocals
  <2> QED  BY <1>3, <1>5, <2>1, <2>2 DEF unlock_save
<1> QED  BY <1>2, <1>4, <1>5

LEMMA RequestEffects ==
    ASSUME BridgeTypes, NEW k \in Tasks, request(k)
    PROVE  \/ UNCHANGED <<task, passed>>
           \/ /\ task[k] = Idle /\ task'[k].op = "lock" /\ task'[k].pc = <<"lock", "object">>
              /\ task'[k].id \in TransferId
              /\ task'[k].tr \in BridgeTransfer
              /\ task'[k].tr.object = task'[k].id[2] /\ task'[k].tr.status = "Locked"
              /\ passed' = [passed EXCEPT ![task'[k].id].locks = @ + 1]
           \/ /\ task[k] = Idle /\ task'[k].op = "mint" /\ task'[k].pc = <<"mint", "wait">>
              /\ task'[k].id \in TransferId
              /\ UNCHANGED passed
           \/ /\ task[k] = Idle /\ task'[k].op = "cancel" /\ task'[k].pc = <<"cancel", "owner">>
              /\ task'[k].id \in TransferId
              /\ transfers[task'[k].id] # None /\ task'[k].tr = transfers[task'[k].id]
              /\ passed' = [passed EXCEPT ![task'[k].id].cancels = @ + 1]
<1>1. task \in [Tasks -> Locals] /\ now \in 0..MaxTime
  BY DEF BridgeTypes, BridgeTypeOK
<1>2. ASSUME NEW chain \in Chains, NEW o \in Objects, NEW to \in Recipients, NEW caller \in Callers,
             NEW signed \in BOOLEAN, lock_assets(k, chain, o, to, caller, signed),
             ~UNCHANGED <<task, passed>>
      PROVE  /\ task[k] = Idle /\ task'[k].op = "lock" /\ task'[k].pc = <<"lock", "object">>
             /\ task'[k].id \in TransferId
             /\ task'[k].tr \in BridgeTransfer
             /\ task'[k].tr.object = task'[k].id[2] /\ task'[k].tr.status = "Locked"
             /\ passed' = [passed EXCEPT ![task'[k].id].locks = @ + 1]
  <2> DEFINE id == <<chain, o, now>>
             tr == [object |-> o, chain |-> chain, to |-> to, created_at |-> now, status |-> "Locked"]
  <2>1. id \in TransferId /\ tr \in BridgeTransfer /\ tr.object = id[2] /\ tr.status = "Locked"
    BY <1>1 DEF TransferId, BridgeTransfer, BridgeStatus
  <2>2. /\ task[k] = Idle /\ passed' = [passed EXCEPT ![id].locks = @ + 1]
        /\ task'[k] = [pc |-> <<"lock", "object">>, op |-> "lock", id |-> id, obj |-> objects[o], tr |-> tr]
    BY <1>1, <1>2 DEF lock_assets, lock_locals, accept, idle
  <2> HIDE DEF id, tr
  <2> QED  BY <2>1, <2>2
<1>3. ASSUME NEW id \in TransferId, NEW p \in Proofs, mint_from_proof(k, id, p)
      PROVE  /\ task[k] = Idle /\ task'[k].op = "mint" /\ task'[k].pc = <<"mint", "wait">>
             /\ task'[k].id \in TransferId
             /\ UNCHANGED passed
  BY <1>1, <1>3 DEF mint_from_proof, accept, idle
<1>4. ASSUME NEW id \in TransferId, NEW caller \in Callers, NEW signed \in BOOLEAN,
             cancel_transfer(k, id, caller, signed), ~UNCHANGED <<task, passed>>
      PROVE  /\ task[k] = Idle /\ task'[k].op = "cancel" /\ task'[k].pc = <<"cancel", "owner">>
             /\ task'[k].id \in TransferId
             /\ transfers[task'[k].id] # None /\ task'[k].tr = transfers[task'[k].id]
             /\ passed' = [passed EXCEPT ![task'[k].id].cancels = @ + 1]
  <2>1. /\ task[k] = Idle /\ cancellable(id) /\ passed' = [passed EXCEPT ![id].cancels = @ + 1]
        /\ task'[k] = [pc |-> <<"cancel", "owner">>, op |-> "cancel", id |-> id, tr |-> transfers[id],
                       caller |-> caller, signed |-> signed]
    BY <1>1, <1>4 DEF cancel_transfer, accept, idle
  <2> QED  BY <2>1 DEF cancellable
<1> QED  BY <1>2, <1>3, <1>4 DEF request

-----------------------------------------------------------------------------
(* The replay guard and the verdicts of the verifier.                      *)

PastGuard(t) ==
    t.pc \in {<<"mint", "recheck">>, <<"mint", "read">>, <<"mint", "verify">>,
              <<"verified", "cache">>, <<"verified", "save">>, <<"mint", "object">>}

\* What is minted, and every mint past the guard, owns the entry of its object.
GuardSound ==
    /\ \A m \in minted : minted_proofs[m.object] = m.transfer
    /\ \A k \in Tasks : PastGuard(task[k]) => minted_proofs[task[k].proof.object_id] = task[k].id

PastVerifier(t) == t.pc \in {<<"verified", "cache">>, <<"verified", "save">>, <<"mint", "object">>}

Judged(p, total) == \E trusted \in SUBSET Validators : verify_proof(p, total, trusted)

\* What is minted, and every mint past the verifier, has a proof of its object
\* that some set of registered validators judged.
VerdictSound ==
    /\ \A m \in minted : /\ m.proof \in Proofs /\ m.total \in Nat
                         /\ Judged(m.proof, m.total) /\ m.proof.object_id = m.object
    /\ \A k \in Tasks : PastVerifier(task[k]) =>
          Judged(task[k].proof, task[k].total) /\ task[k].proof.object_id = task[k].tr.object

\* How a call comes past the guard and past the verifier.
LEMMA GuardPath ==
    ASSUME BridgeTypes, NEW k \in Tasks, task_step(k)
    PROVE  /\ PastGuard(task'[k]) => /\ Judging(k)
                                     /\ PastGuard(task[k]) \/ mint_guard(k)
           /\ PastVerifier(task'[k]) =>
                 /\ Judging(k) /\ task'[k].total = task[k].total /\ task'[k].tr.object = task[k].tr.object
                 /\ \/ PastVerifier(task[k])
                    \/ /\ verify_proof(task[k].proof, task[k].total, known)
                       /\ task[k].proof.object_id = task[k].tr.object
<1> DEFINE Goal == /\ PastGuard(task'[k]) => Judging(k) /\ (PastGuard(task[k]) \/ mint_guard(k))
                   /\ PastVerifier(task'[k]) =>
                         /\ Judging(k) /\ task'[k].total = task[k].total /\ task'[k].tr.object = task[k].tr.object
                         /\ \/ PastVerifier(task[k])
                            \/ /\ verify_proof(task[k].proof, task[k].total, known)
                               /\ task[k].proof.object_id = task[k].tr.object
<1> SUFFICES Goal
  OBVIOUS
<1>1. ASSUME task'[k] = Idle PROVE Goal
  BY <1>1 DEF Idle, PastGuard, PastVerifier
<1> USE DEF PastGuard, PastVerifier
<1>2. CASE lock_object(k) \/ lock_save(k) \/ lock_cache(k)
  BY <1>1, <1>2, LockEffects
<1>3. CASE mint_lock(k)
  BY <1>3, MintEffects
<1>4. CASE mint_guard(k) \/ mint_recheck(k) \/ mint_read(k)
  BY <1>1, <1>4, MintEffects
<1>5. CASE mint_verify(k)
  <2>1. CASE task'[k].pc = <<"failed", "cache">>
    BY <2>1
  <2>2. CASE /\ task'[k].pc = <<"verified", "cache">> /\ Closed(k, "Verified")
             /\ Judging(k) /\ task'[k].total = task[k].total
             /\ verify_proof(task[k].proof, task[k].total, known)
             /\ task[k].proof.object_id = task[k].tr.object
             /\ task[k].pc = <<"mint", "verify">> /\ task[k] \in VerifyLocals
    <3>1. task'[k].tr.object = task[k].tr.object
      BY <2>2 DEF Closed, VerifyLocals, BridgeTransfer
    <3> QED  BY <2>2, <3>1
  <2> QED  BY <1>1, <1>5, <2>1, <2>2, VerifyEffects
<1>6. CASE mint_object(k)
  BY <1>6, VerifyEffects
<1>7. CASE update_cache(k)
  <2>1. PICK u \in Updates :
           /\ task[k].pc = <<u, "cache">> /\ task'[k].pc = <<u, "save">> /\ Moved(k)
           /\ u = "verified" => Judging(k) /\ task'[k].total = task[k].total
    BY <1>7, UpdateEffects
  <2> QED  BY <2>1 DEF Updates, Moved
<1>8. CASE update_save(k)
  <2>1. PICK u \in Updates :
           /\ task[k].pc = <<u, "save">>
           /\ \/ u = "failed" /\ task'[k].pc = <<"unlock", "read">>
              \/ /\ u = "verified" /\ task'[k].pc = <<"mint", "object">> /\ Moved(k)
                 /\ Judging(k) /\ task'[k].total = task[k].total
              \/ task'[k] = Idle
    BY <1>8, UpdateEffects
  <2> QED  BY <1>1, <2>1 DEF Updates, Moved
<1>9. CASE cancel_owner(k)
  BY <1>1, <1>9, CancelEffects
<1>10. CASE unlock_read(k) \/ unlock_save(k)
  BY <1>1, <1>10, CancelEffects DEF Unlocked
<1> HIDE DEF Goal
<1> QED
  BY <1>2, <1>3, <1>4, <1>5, <1>6, <1>7, <1>8, <1>9, <1>10 DEF task_step

\* Outside the steps of calls nothing is minted or claimed, and no running
\* call appears past the guard.
LEMMA OtherSteps ==
    ASSUME BridgeTypes, [Next]_vars
    PROVE  \/ \E k \in Tasks : task_step(k)
           \/ /\ UNCHANGED <<minted, minted_proofs>>
              /\ \A k \in Tasks : \/ task'[k] = task[k] \/ task'[k] = Idle
                                  \/ task'[k].pc \in {<<"lock", "object">>, <<"mint", "wait">>, <<"cancel", "owner">>}
<1>1. ASSUME NEW k \in Tasks, request(k)
      PROVE  /\ UNCHANGED <<minted, minted_proofs>>
             /\ \A j \in Tasks : \/ task'[j] = task[j]
                                 \/ task'[j].pc \in {<<"lock", "object">>, <<"mint", "wait">>, <<"cancel", "owner">>}
  BY <1>1, RequestTypes, RequestEffects DEF tables
<1>2. CASE restart
  BY <1>2 DEF restart, tables
<1>3. CASE (\E v \in Validators : register_validator(v)) \/ tick \/ UNCHANGED vars
  BY <1>3 DEF register_validator, tick, vars, tables, memory
<1> QED  BY <1>1, <1>2, <1>3 DEF Next, finished

LEMMA GuardInvariant == Spec => [](GuardSound /\ VerdictSound)
<1>1. Init => GuardSound /\ VerdictSound
  BY DEF Init, GuardSound, VerdictSound, PastGuard, PastVerifier, Idle
<1>2. BridgeTypes /\ GuardSound /\ VerdictSound /\ [Next]_vars => GuardSound' /\ VerdictSound'
  <2> SUFFICES ASSUME BridgeTypes, GuardSound, VerdictSound, [Next]_vars PROVE GuardSound' /\ VerdictSound'
    OBVIOUS
  <2>1. ASSUME UNCHANGED <<minted, minted_proofs>>,
               \A k \in Tasks : \/ task'[k] = task[k] \/ task'[k] = Idle
                                \/ task'[k].pc \in {<<"lock", "object">>, <<"mint", "wait">>, <<"cancel", "owner">>}
        PROVE  GuardSound' /\ VerdictSound'
    <3>1. \A k \in Tasks : PastGuard(task'[k]) => task'[k] = task[k]
      BY <2>1 DEF PastGuard, Idle
    <3>2. \A k \in Tasks : PastVerifier(task'[k]) => task'[k] = task[k]
      BY <2>1 DEF PastVerifier, Idle
    <3>3. GuardSound'
      BY <2>1, <3>1 DEF GuardSound
    <3>4. VerdictSound'
      BY <2>1, <3>2 DEF VerdictSound
    <3> QED  BY <3>3, <3>4
  <2>2. ASSUME NEW k \in Tasks, task_step(k) PROVE GuardSound' /\ VerdictSound'
    <3>1. \A j \in Tasks \ {k} : task'[j] = task[j]
      BY <2>2, TaskTypes
    <3>2. \A o \in Objects : minted_proofs[o] # None => minted_proofs'[o] = minted_proofs[o]
      BY <2>2 DEF BridgeTypes, BridgeTypeOK, task_step, tables, lock_object, lock_save, lock_cache, mint_lock,
                  mint_guard, mint_recheck, mint_read, mint_verify, mint_object, update_cache, update_save,
                  cancel_owner, unlock_read, unlock_save
    <3>3. ASSUME NEW j \in Tasks, PastGuard(task[j])
          PROVE  task[j].proof.object_id \in Objects /\ task[j].id # None
      <4>1. task[j] \in GuardLocals \/ task[j] \in VerifyLocals \/ task[j] \in VerifiedLocals
        <5>1. task[j] \in Locals
          BY DEF BridgeTypes
        <5> QED  BY <3>3, <5>1, LocalsAt DEF PastGuard
      <4>2. task[j].id \in TransferId /\ task[j].proof \in Proofs
        BY <4>1 DEF GuardLocals, VerifyLocals, VerifiedLocals
      <4> QED  BY <4>2, AbsenceAssumption, BridgeAssumption
    <3>4. ASSUME NEW j \in Tasks, PastGuard(task[j])
          PROVE  minted_proofs'[task[j].proof.object_id] = task[j].id
      BY <3>2, <3>3, <3>4 DEF GuardSound
    <3>5. ASSUME NEW j \in Tasks, PastGuard(task'[j])
          PROVE  minted_proofs'[task'[j].proof.object_id] = task'[j].id
      <4>1. CASE j # k
        BY <3>1, <3>4, <3>5, <4>1
      <4>2. CASE j = k /\ PastGuard(task[k])
        BY <2>2, <3>4, <3>5, <4>2, GuardPath DEF Judging, Kept
      <4>3. CASE j = k /\ mint_guard(k)
        <5>1. task'[k] # Idle /\ Judging(k)
          BY <2>2, <3>5, <4>3, GuardPath DEF PastGuard, Idle
        <5>2. ~mint_return(k)
          BY <5>1 DEF mint_return, returned, BridgeTypes
        <5>3. minted_proofs'[task[k].proof.object_id] = task[k].id
          BY <4>3, <5>2, MintEffects DEF mint_guard, BridgeTypes, BridgeTypeOK
        <5> QED  BY <4>3, <5>1, <5>3 DEF Judging, Kept
      <4> QED  BY <2>2, <3>5, <4>1, <4>2, <4>3, GuardPath
    <3>6. ASSUME NEW j \in Tasks, PastVerifier(task'[j])
          PROVE  Judged(task'[j].proof, task'[j].total) /\ task'[j].proof.object_id = task'[j].tr.object
      <4>1. CASE j # k
        BY <3>1, <3>6, <4>1 DEF VerdictSound
      <4>2. CASE j = k /\ PastVerifier(task[k])
        BY <2>2, <3>6, <4>2, GuardPath DEF VerdictSound, Judging
      <4>3. CASE j = k /\ ~PastVerifier(task[k])
        <5>1. verify_proof(task[k].proof, task[k].total, known) /\ known \in SUBSET Validators
          BY <2>2, <3>6, <4>3, GuardPath DEF BridgeTypes, BridgeTypeOK
        <5>2. Judged(task[k].proof, task[k].total)
          BY <5>1 DEF Judged
        <5> QED  BY <2>2, <3>6, <4>3, <5>2, GuardPath DEF Judging
      <4> QED  BY <4>1, <4>2, <4>3
    <3>7. ASSUME NEW m \in minted'
          PROVE  /\ minted_proofs'[m.object] = m.transfer
                 /\ m.proof \in Proofs /\ m.total \in Nat
                 /\ Judged(m.proof, m.total) /\ m.proof.object_id = m.object
      <4>1. CASE m \in minted
        <5>1. m.object \in Objects /\ m.transfer # None
          BY <4>1, AbsenceAssumption DEF BridgeTypes, BridgeTypeOK
        <5> QED  BY <3>2, <4>1, <5>1 DEF GuardSound, VerdictSound
      <4>2. CASE /\ mint_object(k)
                 /\ m = [transfer |-> task[k].id, at |-> now, object |-> task[k].tr.object,
                         to |-> task[k].tr.to, proof |-> task[k].proof, total |-> task[k].total]
        <5>1. PastGuard(task[k]) /\ PastVerifier(task[k]) /\ task[k] \in VerifiedLocals
          BY <4>2, VerifyEffects DEF PastGuard, PastVerifier
        <5>2. task[k].proof \in Proofs /\ task[k].total \in Nat
          BY <5>1 DEF VerifiedLocals
        <5>3. Judged(task[k].proof, task[k].total) /\ task[k].proof.object_id = task[k].tr.object
          BY <5>1 DEF VerdictSound
        <5> QED  BY <3>4, <4>2, <5>1, <5>2, <5>3
      <4>3. minted' = minted \/ mint_object(k)
        BY <2>2 DEF task_step, tables, lock_object, lock_save, lock_cache, mint_lock, mint_guard, mint_recheck,
                    mint_read, mint_verify, update_cache, update_save, cancel_owner, unlock_read, unlock_save
      <4> QED  BY <4>1, <4>2, <4>3 DEF mint_object
    <3>8. GuardSound'
      BY <3>5, <3>7 DEF GuardSound
    <3>9. VerdictSound'
      BY <3>6, <3>7 DEF VerdictSound
    <3> QED  BY <3>8, <3>9
  <2> QED  BY <2>1, <2>2, OtherSteps
<1> QED  BY <1>1, <1>2, BridgeTypesInvariant, PTL DEF Spec

\* The tables of the bridge are well typed, and whatever overlaps and however
\* often the process restarts, a source object is only ever minted by one
\* transfer: check_and_insert_minted_proof claims it before any other check.
THEOREM GuardCorrect == Spec => []OneTransferPerObject
<1>1. BridgeTypes /\ GuardSound => OneTransferPerObject
  BY DEF BridgeTypes, GuardSound, OneTransferPerObject
<1> QED  BY <1>1, BridgeTypesInvariant, GuardInvariant, PTL

\* The validators whose attestations count for the root of a judged proof are
\* distinct signers of it, so there are as many as verify_quorum requires.
LEMMA QuorumSigned ==
    ASSUME NEW p \in Proofs, NEW total \in Nat, Judged(p, total)
    PROVE  LET signers == {v \in Validators : \E i \in DOMAIN p.attestations :
                              p.attestations[i].validator = v /\ attests(p.attestations[i], p)}
           IN  total > 0 /\ 3 * Cardinality(signers) >= 2 * total
<1> DEFINE signers == {v \in Validators : \E i \in DOMAIN p.attestations :
                          p.attestations[i].validator = v /\ attests(p.attestations[i], p)}
           D == DOMAIN p.attestations
<1>1. PICK trusted \in SUBSET Validators : verify_proof(p, total, trusted)
  BY DEF Judged
<1> DEFINE I == {i \in counted(p, trusted) : p.attestations[i].state_root = p.source_root}
           f == [i \in D |-> p.attestations[i].validator]
<1>2. total > 0 /\ Cardinality(I) >= required(total)
  BY <1>1 DEF verify_proof, verify_quorum, root_count
<1>3. IsFiniteSet(D) /\ D \subseteq Int
  BY BridgeAssumption, FS_Interval
<1>4. I \subseteq D /\ IsFiniteSet(I) /\ Cardinality(I) \in Nat
  BY <1>3, FS_Subset, FS_CardinalityType DEF counted
<1>5. \A i, j \in I : f[i] = f[j] => i = j
  <2> SUFFICES ASSUME NEW i \in I, NEW j \in I, f[i] = f[j], i < j PROVE FALSE
    BY <1>3, <1>4
  <2>1. i \in 1..(j - 1)
    BY <1>3, <1>4, BridgeAssumption
  <2> QED  BY <1>4, <2>1 DEF counted
<1>6. ASSUME NEW i \in I PROVE f[i] \in signers
  <2>1. i \in D /\ p.attestations[i].validator \in Validators
    BY <1>4 DEF counted
  <2>2. attests(p.attestations[i], p)
    BY <1>1, <2>1 DEF verify_proof, verify_attestation_signatures
  <2> QED  BY <2>1, <2>2
<1>7. IsFiniteSet(signers)
  <2> DEFINE R == {f[i] : i \in D}
  <2>1. f \in Surjection(D, R)
    BY DEF Surjection
  <2>2. signers \subseteq R
    OBVIOUS
  <2> HIDE DEF R, f, D, signers
  <2> QED  BY <1>3, <2>1, <2>2, FS_Surjection, FS_Subset
<1>8. Cardinality(I) <= Cardinality(signers) /\ Cardinality(signers) \in Nat
  <2> DEFINE g == [i \in I |-> f[i]]
  <2> HIDE DEF I, f, signers
  <2>1. g \in Injection(I, signers)
    BY <1>5, <1>6 DEF Injection, IsInjective
  <2> HIDE DEF g
  <2> QED  BY <1>4, <1>7, <2>1, FS_Injection, FS_CardinalityType
<1> HIDE DEF I, signers
<1>9. 3 * Cardinality(signers) >= 2 * total
  BY <1>2, <1>4, <1>8 DEF required
<1> QED  BY <1>2, <1>9 DEF signers

\* Everything minted carries a proof of the minted object that two thirds of
\* the validators counted by the verifier signed, each of them counted once
\* (verify_quorum, verify_attestation_signatures, the binding checks).
THEOREM QuorumMints == Spec => []MintHasQuorum
<1>1. VerdictSound => MintHasQuorum
  <2> SUFFICES ASSUME VerdictSound, NEW m \in minted
               PROVE  LET signers == {v \in Validators : \E i \in DOMAIN m.proof.attestations :
                            /\ m.proof.attestations[i].validator = v
                            /\ attests(m.proof.attestations[i], m.proof)}
                      IN  /\ m.total > 0
                          /\ 3 * Cardinality(signers) >= 2 * m.total
                          /\ m.proof.object_id = m.object
    BY DEF MintHasQuorum
  <2>1. m.proof \in Proofs /\ m.total \in Nat /\ Judged(m.proof, m.total) /\ m.proof.object_id = m.object
    BY DEF VerdictSound
  <2> QED  BY <2>1, QuorumSigned
<1> QED  BY <1>1, GuardInvariant, PTL

-----------------------------------------------------------------------------
(* The mutex of a transfer, and the records that calls carry.              *)

Holding(t) == t # Idle /\ t.op = "mint" /\ t.pc # <<"mint", "wait">>

\* Every mint past its wait holds the mutex of its transfer.
MutexHeld == \A k \in Tasks : Holding(task[k]) => transfer_locks[task[k].id] = k

\* Calls that carry a transfer record.
HasTr(t) ==
    t # Idle /\ t.pc \notin {<<"mint", "wait">>, <<"mint", "guard">>, <<"mint", "recheck">>, <<"mint", "read">>}

\* The status such a record has once it is to be written.
StatusOf(t) ==
    /\ t.op = "lock" => t.tr.status = "Locked"
    /\ t.pc \in {<<"failed", "cache">>, <<"failed", "save">>, <<"cancelled", "cache">>, <<"cancelled", "save">>}
          => t.tr.status = "Failed"
    /\ t.pc \in {<<"verified", "cache">>, <<"verified", "save">>, <<"mint", "object">>}
          => t.tr.status = "Verified"
    /\ t.pc \in {<<"minted", "cache">>, <<"minted", "save">>} => t.tr.status = "Minted"

\* Transfers are of the object in their id, and a mint or a cancel works on a
\* transfer that is cached.
RecordsSound ==
    /\ \A id \in TransferId : transfers[id] # None => transfers[id].object = id[2]
    /\ \A id \in TransferId : saved[id] # None => saved[id].object = id[2]
    /\ \A k \in Tasks : HasTr(task[k]) =>
          /\ task[k].tr.object = task[k].id[2] /\ StatusOf(task[k])
          /\ task[k].op \in {"mint", "cancel"} => transfers[task[k].id] # None

-----------------------------------------------------------------------------
(* How often a transfer can be minted.                                     *)

\* A call that may still make the cached transfer mintable again.
Writer(t, id) ==
    /\ t # Idle /\ t.id = id
    /\ t.op = "lock" \/ (t.op = "cancel" /\ t.pc # <<"cancelled", "save">>)
Writers(T, id) == {k \in Tasks : Writer(T[k], id)}

Minting(t, id) ==
    /\ t # Idle /\ t.id = id
    /\ t.pc \in {<<"mint", "verify">>, <<"failed", "cache">>, <<"verified", "cache">>,
                 <<"verified", "save">>, <<"mint", "object">>}
Recording(t, id) == t # Idle /\ t.id = id /\ t.pc = <<"minted", "cache">>

\* A mint without a further write of the cache is possible.
Open(T, X, id) ==
    \/ \E k \in Tasks : Minting(T[k], id)
    \/ /\ X[id] # None /\ X[id].status # "Minted"
       /\ \A k \in Tasks : ~Recording(T[k], id)
Chance(T, X, id) == IF Open(T, X, id) THEN 1 ELSE 0

Mints(M, id) == {m \in M : m.transfer = id}

\* Mints made, the one that is possible and those that pending writes may
\* allow are paid for by locks, cancels and restarts.
Budget ==
    /\ IsFiniteSet(minted)
    /\ \A id \in TransferId :
          Cardinality(Mints(minted, id)) + Chance(task, transfers, id) + Cardinality(Writers(task, id))
              <= passed[id].locks + passed[id].cancels + crashes

-----------------------------------------------------------------------------
(* Who still releases a locked object.                                     *)

\* Cache and table name the same transfers but for locks about to be cached,
\* and every cancel was counted.
CacheSound ==
    /\ \A id \in TransferId : transfers[id] # None => saved[id] # None
    /\ \A id \in TransferId : saved[id] # None /\ transfers[id] = None =>
          \E k \in Tasks : task[k].pc = <<"lock", "cache">> /\ task[k].id = id
    /\ \A k \in Tasks : task[k].pc = <<"lock", "cache">> => saved[task[k].id] # None
    /\ \A k \in Tasks : task[k] # Idle /\ task[k].op = "cancel" => passed[task[k].id].cancels > 0

\* A call that will cache a Locked or Minted transfer of the object, or unlock it.
Rescuer(t, o) ==
    /\ t # Idle /\ t.id[2] = o
    /\ \/ t.pc \in {<<"lock", "save">>, <<"lock", "cache">>}
       \/ /\ t.op = "mint"
          /\ t.pc \in {<<"failed", "save">>, <<"unlock", "read">>, <<"unlock", "save">>,
                       <<"verified", "save">>, <<"mint", "object">>, <<"minted", "cache">>}

Cancelled(X, P, o) == \E id \in TransferId : id[2] = o /\ X[id] # None /\ P[id].cancels > 0
Releasable(X, o) ==
    \E id \in TransferId : id[2] = o /\ X[id] # None /\ X[id].status \in {"Locked", "Minted"}

Rescued ==
    crashes = 0 =>
        \A o \in Objects : objects[o].locked =>
            \/ Cancelled(transfers, passed, o)
            \/ Releasable(transfers, o)
            \/ \E k \in Tasks : Rescuer(task[k], o)

-----------------------------------------------------------------------------
(* Invariance of the mutex and of the records.                             *)

\* A step keeps the id of its call, and takes or frees only the mutex it says.
LEMMA LockPath ==
    ASSUME BridgeTypes, NEW k \in Tasks, task_step(k)
    PROVE  /\ task'[k] = Idle \/ Kept(k)
           /\ Holding(task'[k]) => Holding(task[k]) \/ mint_lock(k)
           /\ \/ transfer_locks' = transfer_locks
              \/ mint_lock(k)
              \/ /\ Holding(task[k]) /\ task'[k] = Idle
                 /\ transfer_locks' = [transfer_locks EXCEPT ![task[k].id] = None]
<1> DEFINE Goal == /\ task'[k] = Idle \/ Kept(k)
                   /\ Holding(task'[k]) => Holding(task[k]) \/ mint_lock(k)
                   /\ \/ transfer_locks' = transfer_locks
                      \/ mint_lock(k)
                      \/ /\ Holding(task[k]) /\ task'[k] = Idle
                         /\ transfer_locks' = [transfer_locks EXCEPT ![task[k].id] = None]
<1> SUFFICES Goal
  OBVIOUS
<1>1. ~Holding(Idle) /\ task[k] # Idle
  BY Running DEF Holding
<1>2. CASE lock_object(k) \/ lock_save(k) \/ lock_cache(k)
  <2>1. transfer_locks' = transfer_locks
    BY <1>2 DEF lock_object, lock_save, lock_cache
  <2> QED  BY <1>1, <1>2, <2>1, LockEffects DEF Holding, Moved, Kept
<1>3. CASE mint_lock(k)
  BY <1>3, MintEffects DEF Judging
<1>4. CASE mint_guard(k) \/ mint_recheck(k) \/ mint_read(k)
  <2>1. Holding(task[k])
    BY <1>1, <1>4, MintEffects DEF Holding
  <2>2. /\ task[k].op = "mint"
        /\ task'[k] = Idle \/ Kept(k)
    BY <1>4, MintEffects DEF Judging
  <2>3. transfer_locks' = transfer_locks \/ mint_return(k)
    BY <1>4 DEF mint_guard, mint_recheck, mint_read
  <2>4. mint_return(k) => task'[k] = Idle
    BY DEF mint_return, returned, BridgeTypes
  <2> QED  BY <2>1, <2>2, <2>3, <2>4 DEF mint_return
<1>5. CASE mint_verify(k) \/ mint_object(k)
  <2>1. Holding(task[k])
    BY <1>1, <1>5, VerifyEffects DEF Holding
  <2>2. task'[k] = Idle \/ Kept(k)
    BY <1>5, VerifyEffects DEF Closed
  <2>3. transfer_locks' = transfer_locks \/ mint_return(k)
    BY <1>5 DEF mint_verify, mint_object
  <2>4. mint_return(k) => task'[k] = Idle
    BY DEF mint_return, returned, BridgeTypes
  <2> QED  BY <2>1, <2>2, <2>3, <2>4 DEF mint_return
<1>6. CASE update_cache(k)
  <2>1. /\ transfer_locks' = transfer_locks /\ Kept(k)
        /\ \E u \in Updates : task[k].pc = <<u, "cache">>
    BY <1>6, UpdateEffects DEF update_cache, Moved
  <2>2. Holding(task'[k]) => Holding(task[k])
    BY <1>1, <2>1 DEF Holding, Kept, Updates
  <2> QED  BY <2>1, <2>2
<1>7. CASE update_save(k)
  <2>1. PICK u \in Updates :
           /\ task[k].pc = <<u, "save">>
           /\ task[k].op = IF u = "cancelled" THEN "cancel" ELSE "mint"
           /\ \/ u = "failed" /\ Kept(k)
              \/ u = "verified" /\ Kept(k)
              \/ u \in {"minted", "cancelled"} /\ task'[k] = Idle
    BY <1>7, UpdateEffects DEF Moved
  <2>2. task[k].op = "mint" => Holding(task[k])
    BY <1>1, <2>1 DEF Holding, Updates
  <2>3. transfer_locks' = transfer_locks \/ (task[k].pc = <<"minted", "save">> /\ mint_return(k))
    BY <1>7 DEF update_save, at
  <2>4. mint_return(k) => task'[k] = Idle
    BY DEF mint_return, returned, BridgeTypes
  <2>5. task[k].pc = <<"minted", "save">> => task[k].op = "mint"
    BY <2>1 DEF Updates
  <2>6. Holding(task'[k]) => Holding(task[k])
    BY <1>1, <2>1, <2>2 DEF Kept, Holding
  <2> QED  BY <2>1, <2>2, <2>3, <2>4, <2>5, <2>6 DEF mint_return
<1>8. CASE cancel_owner(k)
  <2>1. transfer_locks' = transfer_locks
    BY <1>8 DEF cancel_owner
  <2> QED  BY <1>1, <1>8, <2>1, CancelEffects DEF Holding, Moved, Kept
<1>9. CASE unlock_read(k) \/ unlock_save(k)
  <2>1. /\ task[k].op \in {"mint", "cancel"} /\ task[k].pc # <<"mint", "wait">>
        /\ Unlocked(k) \/ (Kept(k) /\ transfer_locks' = transfer_locks)
    BY <1>9, CancelEffects DEF Moved
  <2>2. task[k].op = "mint" => Holding(task[k])
    BY <1>1, <2>1 DEF Holding
  <2>3. CASE Kept(k) /\ transfer_locks' = transfer_locks
    BY <2>1, <2>2, <2>3 DEF Holding, Kept
  <2>4. CASE Unlocked(k)
    BY <1>1, <2>2, <2>4 DEF Unlocked, Closed, Kept, Holding
  <2> QED  BY <2>1, <2>3, <2>4
<1> HIDE DEF Goal
<1> QED
  BY <1>2, <1>3, <1>4, <1>5, <1>6, <1>7, <1>8, <1>9 DEF task_step

LEMMA MutexInvariant == Spec => []MutexHeld
<1>1. Init => MutexHeld
  BY DEF Init, MutexHeld, Holding
<1>2. BridgeTypes /\ MutexHeld /\ [Next]_vars => MutexHeld'
  <2> SUFFICES ASSUME BridgeTypes, MutexHeld, [Next]_vars, NEW j \in Tasks, Holding(task'[j])
               PROVE  transfer_locks'[task'[j].id] = j
    BY DEF MutexHeld
  <2>1. ASSUME NEW k \in Tasks, request(k) PROVE transfer_locks'[task'[j].id] = j
    <3>1. transfer_locks' = transfer_locks /\ \A i \in Tasks \ {k} : task'[i] = task[i]
      BY <2>1, RequestTypes
    <3>2. task'[k] = task[k] \/ ~Holding(task'[k])
      BY <2>1, RequestEffects DEF Holding
    <3> QED  BY <3>1, <3>2 DEF MutexHeld
  <2>2. ASSUME NEW k \in Tasks, task_step(k) PROVE transfer_locks'[task'[j].id] = j
    <3>1. \A i \in Tasks \ {k} : task'[i] = task[i]
      BY <2>2, TaskTypes
    <3>2. task[k] # Idle /\ task[k].id \in TransferId /\ transfer_locks \in [TransferId -> Tasks \cup {None}]
      BY <2>2, Running, CallFields DEF BridgeTypes, BridgeTypeOK
    <3>3. CASE mint_lock(k)
      <4>1. /\ transfer_locks[task[k].id] = None
            /\ transfer_locks' = [transfer_locks EXCEPT ![task[k].id] = k]
            /\ task'[k].id = task[k].id
        BY <3>3, MintEffects DEF mint_lock, Judging, Kept
      <4>2. CASE j = k
        BY <3>2, <4>1, <4>2
      <4>3. CASE j # k
        <5>1. transfer_locks[task[j].id] = j /\ task'[j] = task[j]
          BY <3>1, <4>3 DEF MutexHeld
        <5>2. task[j].id # task[k].id
          BY <4>1, <5>1, BridgeAssumption
        <5>3. task[j].id \in TransferId
          BY <5>1, CallFields DEF BridgeTypes, Holding
        <5> QED  BY <3>2, <4>1, <5>1, <5>2, <5>3
      <4> QED  BY <4>2, <4>3
    <3>4. CASE ~mint_lock(k)
      <4>1. Holding(task[j]) /\ task'[j].id = task[j].id /\ task'[j] # Idle
        BY <2>2, <3>1, <3>4, LockPath DEF Holding, Kept
      <4>2. transfer_locks[task[j].id] = j /\ task[j].id \in TransferId
        BY <4>1, CallFields DEF BridgeTypes, Holding, MutexHeld
      <4>3. CASE transfer_locks' = transfer_locks
        BY <4>1, <4>2, <4>3
      <4>4. CASE /\ Holding(task[k]) /\ task'[k] = Idle
                 /\ transfer_locks' = [transfer_locks EXCEPT ![task[k].id] = None]
        <5>1. j # k /\ transfer_locks[task[k].id] = k
          BY <4>1, <4>4 DEF MutexHeld
        <5>2. task[j].id # task[k].id
          BY <4>2, <5>1
        <5> QED  BY <3>2, <4>1, <4>2, <4>4, <5>2
      <4> QED  BY <2>2, <3>4, <4>3, <4>4, LockPath
    <3> QED  BY <3>3, <3>4
  <2>3. CASE restart
    BY <2>3 DEF restart, Holding
  <2>4. CASE (\E v \in Validators : register_validator(v)) \/ tick \/ UNCHANGED vars
    BY <2>4 DEF register_validator, tick, vars, memory, MutexHeld
  <2> QED  BY <2>1, <2>2, <2>3, <2>4 DEF Next, finished
<1> QED  BY <1>1, <1>2, BridgeTypesInvariant, PTL DEF Spec

\* The record a call carries comes from the cache and keeps its object.
LEMMA RecordPath ==
    ASSUME BridgeTypes, NEW k \in Tasks, task_step(k), HasTr(task'[k])
    PROVE  /\ Kept(k)
           /\ \/ /\ HasTr(task[k]) /\ task'[k].tr.object = task[k].tr.object
                 /\ StatusOf(task[k]) => StatusOf(task'[k])
              \/ /\ task[k].op = "mint" /\ StatusOf(task'[k])
                 /\ transfers[task[k].id] # None /\ task'[k].tr = transfers[task[k].id]
<1> DEFINE From == /\ Kept(k) /\ HasTr(task[k]) /\ task'[k].tr.object = task[k].tr.object
                   /\ StatusOf(task[k]) => StatusOf(task'[k])
           Read == /\ Kept(k) /\ task[k].op = "mint" /\ StatusOf(task'[k])
                   /\ transfers[task[k].id] # None /\ task'[k].tr = transfers[task[k].id]
<1> SUFFICES From \/ Read
  OBVIOUS
<1>1. task'[k] # Idle /\ task[k] # Idle /\ task[k] \in Locals
  BY Running DEF HasTr, BridgeTypes
<1>2. ASSUME NEW s \in BridgeStatus, Closed(k, s), HasTr(task[k])
      PROVE  Kept(k) /\ task'[k].tr.object = task[k].tr.object /\ task'[k].tr.status = s
  <2>1. task[k].tr \in BridgeTransfer
    BY <1>1, <1>2 DEF Locals, HasTr, LockLocals, WaitLocals, GuardLocals, VerifyLocals, VerifiedLocals,
                      DoneLocals, CancelLocals, CancelledLocals, UnlockLocals
  <2> QED  BY <1>2, <2>1 DEF Closed, BridgeTransfer
<1>3. CASE lock_object(k) \/ lock_save(k) \/ lock_cache(k)
  BY <1>1, <1>3, LockEffects DEF Moved, Kept, HasTr, StatusOf
<1>4. CASE mint_lock(k) \/ mint_guard(k) \/ mint_recheck(k)
  BY <1>1, <1>4, MintEffects DEF HasTr
<1>5. CASE mint_read(k)
  BY <1>1, <1>5, MintEffects DEF Judging, Kept, StatusOf
<1>6. CASE mint_verify(k)
  <2>1. HasTr(task[k]) /\ task[k].op = "mint"
    BY <1>1, <1>6, VerifyEffects DEF HasTr
  <2>2. \/ task'[k].pc = <<"failed", "cache">> /\ Closed(k, "Failed")
        \/ task'[k].pc = <<"verified", "cache">> /\ Closed(k, "Verified")
    BY <1>1, <1>6, VerifyEffects
  <2> QED  BY <1>2, <2>1, <2>2 DEF BridgeStatus, StatusOf, Kept
<1>7. CASE mint_object(k)
  <2>1. /\ HasTr(task[k]) /\ task[k].op = "mint"
        /\ task'[k].pc = <<"minted", "cache">> /\ Closed(k, "Minted")
    BY <1>1, <1>7, VerifyEffects DEF HasTr
  <2> QED  BY <1>2, <2>1 DEF BridgeStatus, StatusOf, Kept
<1>8. CASE update_cache(k)
  <2>1. PICK u \in Updates : task[k].pc = <<u, "cache">> /\ task'[k].pc = <<u, "save">> /\ Moved(k)
    BY <1>8, UpdateEffects
  <2> QED  BY <1>1, <2>1 DEF Updates, Moved, Kept, StatusOf, HasTr
<1>9. CASE update_save(k)
  <2>1. PICK u \in Updates :
           /\ task[k].pc = <<u, "save">>
           /\ \/ u = "failed" /\ task'[k].pc = <<"unlock", "read">> /\ Moved(k)
              \/ u = "verified" /\ task'[k].pc = <<"mint", "object">> /\ Moved(k)
    BY <1>1, <1>9, UpdateEffects
  <2> QED  BY <1>1, <2>1 DEF Updates, Moved, Kept, StatusOf, HasTr
<1>10. CASE cancel_owner(k)
  BY <1>1, <1>10, CancelEffects DEF HasTr, Moved, Kept, StatusOf
<1>11. CASE unlock_read(k) \/ unlock_save(k)
  <2>1. /\ HasTr(task[k]) /\ task[k].op \in {"mint", "cancel"}
        /\ \/ Unlocked(k)
           \/ task'[k].pc = <<"unlock", "save">> /\ Moved(k)
    BY <1>1, <1>11, CancelEffects DEF HasTr
  <2>2. CASE Unlocked(k)
    <3>1. task[k].op = "cancel" /\ task'[k].pc = <<"cancelled", "cache">> /\ Closed(k, "Failed")
      BY <1>1, <2>2 DEF Unlocked
    <3> QED  BY <1>2, <2>1, <3>1 DEF BridgeStatus, StatusOf, Kept
  <2>3. CASE task'[k].pc = <<"unlock", "save">> /\ Moved(k)
    BY <2>1, <2>3 DEF Moved, Kept, StatusOf
  <2> QED  BY <2>1, <2>2, <2>3
<1> HIDE DEF From, Read
<1> QED
  BY <1>3, <1>4, <1>5, <1>6, <1>7, <1>8, <1>9, <1>10, <1>11 DEF task_step

\* Which steps write the cache and the table, and what.
LEMMA Writes ==
    ASSUME BridgeTypes, NEW k \in Tasks, task_step(k)
    PROVE  /\ \/ transfers' = transfers /\ ~lock_cache(k) /\ ~update_cache(k)
              \/ /\ lock_cache(k) \/ update_cache(k)
                 /\ transfers' = [transfers EXCEPT ![task[k].id] = task[k].tr]
                 /\ HasTr(task[k]) /\ saved' = saved
           /\ \/ saved' = saved
              \/ /\ lock_save(k) \/ update_save(k)
                 /\ saved' = [saved EXCEPT ![task[k].id] = task[k].tr]
                 /\ HasTr(task[k]) /\ transfers' = transfers
           /\ task[k].id \in TransferId
           /\ HasTr(task[k]) => task[k].tr \in BridgeTransfer
<1>1. task[k] # Idle /\ task[k] \in Locals /\ task[k].id \in TransferId
  BY Running, CallFields DEF BridgeTypes
<1>2. HasTr(task[k]) => task[k].tr \in BridgeTransfer
  BY <1>1 DEF Locals, HasTr, LockLocals, WaitLocals, GuardLocals, VerifyLocals, VerifiedLocals,
              DoneLocals, CancelLocals, CancelledLocals, UnlockLocals
<1>3. lock_cache(k) \/ update_cache(k) =>
         /\ transfers' = [transfers EXCEPT ![task[k].id] = task[k].tr]
         /\ HasTr(task[k]) /\ saved' = saved
  BY <1>1 DEF lock_cache, update_cache, at, HasTr, Updates, tables
<1>4. lock_save(k) \/ update_save(k) =>
         /\ saved' = [saved EXCEPT ![task[k].id] = task[k].tr]
         /\ HasTr(task[k]) /\ transfers' = transfers
  BY <1>1 DEF lock_save, update_save, at, HasTr, Updates
<1>5. ~lock_cache(k) /\ ~update_cache(k) => transfers' = transfers
  BY DEF task_step, lock_object, lock_save, mint_lock, mint_guard, mint_recheck,
         mint_read, mint_verify, mint_object, update_save, cancel_owner, unlock_read, unlock_save
<1>6. ~lock_save(k) /\ ~update_save(k) => saved' = saved
  BY DEF task_step, tables, lock_object, lock_cache, mint_lock, mint_guard, mint_recheck,
         mint_read, mint_verify, mint_object, update_cache, cancel_owner, unlock_read, unlock_save
<1> QED  BY <1>1, <1>2, <1>3, <1>4, <1>5, <1>6

LEMMA RecordsInvariant == Spec => []RecordsSound
<1>1. Init => RecordsSound
  BY DEF Init, RecordsSound, HasTr
<1>2. BridgeTypes /\ RecordsSound /\ [Next]_vars => RecordsSound'
  <2> SUFFICES ASSUME BridgeTypes, RecordsSound, [Next]_vars PROVE RecordsSound'
    OBVIOUS
  <2> DEFINE Fine(t, X) == /\ t.tr.object = t.id[2] /\ StatusOf(t)
                           /\ t.op \in {"mint", "cancel"} => X[t.id] # None
  <2>1. ASSUME NEW k \in Tasks, request(k) PROVE RecordsSound'
    <3>1. UNCHANGED <<saved, transfers>> /\ \A i \in Tasks \ {k} : task'[i] = task[i]
      BY <2>1, RequestTypes DEF tables
    <3>2. ASSUME NEW j \in Tasks, HasTr(task'[j]) PROVE Fine(task'[j], transfers)
      <4>1. CASE task'[j] = task[j]
        BY <3>2, <4>1 DEF RecordsSound
      <4>2. CASE j = k /\ task'[k] # task[k]
        <5>1. \/ /\ task'[k].op = "lock" /\ task'[k].pc = <<"lock", "object">>
                 /\ task'[k].tr.object = task'[k].id[2] /\ task'[k].tr.status = "Locked"
              \/ task'[k].pc = <<"mint", "wait">>
              \/ /\ task'[k].op = "cancel" /\ task'[k].pc = <<"cancel", "owner">>
                 /\ task'[k].id \in TransferId
                 /\ transfers[task'[k].id] # None /\ task'[k].tr = transfers[task'[k].id]
          BY <2>1, <4>2, RequestEffects
        <5>2. CASE task'[k].op = "lock" /\ task'[k].pc = <<"lock", "object">>
          BY <4>2, <5>1, <5>2 DEF StatusOf
        <5>3. CASE task'[k].pc = <<"mint", "wait">>
          BY <3>2, <4>2, <5>3 DEF HasTr
        <5>4. CASE /\ task'[k].op = "cancel" /\ task'[k].pc = <<"cancel", "owner">>
                   /\ task'[k].id \in TransferId
                   /\ transfers[task'[k].id] # None /\ task'[k].tr = transfers[task'[k].id]
          BY <4>2, <5>4 DEF StatusOf, RecordsSound
        <5> QED  BY <5>1, <5>2, <5>3, <5>4
      <4> QED  BY <3>1, <4>1, <4>2
    <3> QED  BY <3>1, <3>2 DEF RecordsSound
  <2>2. ASSUME NEW k \in Tasks, task_step(k) PROVE RecordsSound'
    <3> DEFINE t == task[k]
    <3>1. \A i \in Tasks \ {k} : task'[i] = task[i]
      BY <2>2, TaskTypes
    <3>2. t.id \in TransferId /\ (HasTr(t) => t.tr \in BridgeTransfer /\ t.tr # None /\ t.tr.object = t.id[2])
      BY <2>2, Writes, AbsenceAssumption DEF RecordsSound
    <3>3. transfers \in [TransferId -> BridgeTransfer \cup {None}] /\ saved \in [TransferId -> BridgeTransfer \cup {None}]
      BY DEF BridgeTypes, BridgeTypeOK
    <3>4. transfers' = transfers \/ (HasTr(t) /\ transfers' = [transfers EXCEPT ![t.id] = t.tr])
      BY <2>2, Writes
    <3>5. saved' = saved \/ (HasTr(t) /\ saved' = [saved EXCEPT ![t.id] = t.tr])
      BY <2>2, Writes
    <3> HIDE DEF t
    <3>6. \A id \in TransferId : /\ transfers'[id] # None => transfers'[id].object = id[2]
                                 /\ transfers[id] # None => transfers'[id] # None
      BY <3>2, <3>3, <3>4 DEF RecordsSound
    <3>7. \A id \in TransferId : saved'[id] # None => saved'[id].object = id[2]
      BY <3>2, <3>3, <3>5 DEF RecordsSound
    <3>8. ASSUME NEW j \in Tasks, HasTr(task'[j]) PROVE Fine(task'[j], transfers')
      <4>1. CASE j # k
        <5>1. task'[j] = task[j] /\ task[j] # Idle /\ task[j] \in Locals
          BY <3>1, <3>8, <4>1 DEF BridgeTypes, HasTr
        <5>2. task[j].id \in TransferId
          BY <5>1, CallFields
        <5> QED  BY <3>6, <3>8, <5>1, <5>2 DEF RecordsSound
      <4>2. CASE j = k
        <5>1. \/ /\ Kept(k) /\ HasTr(t) /\ task'[k].tr.object = t.tr.object
                 /\ StatusOf(t) => StatusOf(task'[k])
              \/ /\ Kept(k) /\ StatusOf(task'[k])
                 /\ transfers[t.id] # None /\ task'[k].tr = transfers[t.id]
          BY <2>2, <3>8, <4>2, RecordPath DEF t
        <5>2. HasTr(t) => Fine(t, transfers)
          BY DEF RecordsSound, t
        <5>3. Kept(k) => task'[k].id = t.id /\ task'[k].op = t.op
          BY DEF Kept, t
        <5>4. transfers[t.id] # None => transfers'[t.id] # None /\ transfers[t.id].object = t.id[2]
          BY <3>2, <3>6 DEF RecordsSound
        <5> QED  BY <4>2, <5>1, <5>2, <5>3, <5>4
      <4> QED  BY <4>1, <4>2
    <3> QED  BY <3>6, <3>7, <3>8 DEF RecordsSound
  <2>3. CASE restart
    BY <2>3 DEF restart, tables, HasTr, RecordsSound
  <2>4. CASE (\E v \in Validators : register_validator(v)) \/ tick \/ UNCHANGED vars
    BY <2>4 DEF register_validator, tick, vars, tables, memory, RecordsSound
  <2> QED  BY <2>1, <2>2, <2>3, <2>4 DEF Next, finished
<1> QED  BY <1>1, <1>2, BridgeTypesInvariant, PTL DEF Spec

-----------------------------------------------------------------------------
(* Invariance of the budget of mints.                                      *)

\* A call that mints or records a mint holds the mutex.
LEMMA MintsHold ==
    ASSUME NEW t \in Locals, NEW id, Minting(t, id) \/ Recording(t, id)
    PROVE  Holding(t) /\ t.id = id
<1>1. t \in VerifyLocals \/ t \in DoneLocals \/ t \in VerifiedLocals
  BY LocalsAt DEF Minting, Recording
<1>2. t.op = "mint"
  BY <1>1 DEF VerifyLocals, DoneLocals, VerifiedLocals
<1> QED  BY <1>2 DEF Minting, Recording, Holding

\* How one call moves between the roles that the budget counts.
LEMMA RolePath ==
    ASSUME BridgeTypes, RecordsSound, NEW k \in Tasks, task_step(k), NEW id
    PROVE  /\ Writer(task'[k], id) => Writer(task[k], id)
           /\ Minting(task'[k], id) =>
                 \/ Minting(task[k], id)
                 \/ Holding(task[k]) /\ task[k].id = id /\ transfers[id] # None /\ transfers[id].status # "Minted"
           /\ Recording(task[k], id) => update_cache(k)
<1> DEFINE Goal == /\ Writer(task'[k], id) => Writer(task[k], id)
                   /\ Minting(task'[k], id) =>
                         \/ Minting(task[k], id)
                         \/ /\ Holding(task[k]) /\ task[k].id = id
                            /\ transfers[id] # None /\ transfers[id].status # "Minted"
<1>1. task[k] # Idle /\ task[k] \in Locals
  BY Running DEF BridgeTypes
<1>2. Recording(task[k], id) => update_cache(k)
  BY DEF Recording, task_step, at, lock_object, lock_save, lock_cache, mint_lock, mint_guard, mint_recheck,
         mint_read, mint_verify, mint_object, update_save, cancel_owner, unlock_read, unlock_save
<1> SUFFICES Goal
  BY <1>2
<1>3. CASE task'[k] = Idle
  BY <1>3 DEF Writer, Minting
<1>4. CASE task'[k] # Idle
  <2>1. task'[k].id = task[k].id /\ task'[k].op = task[k].op
    BY <1>4, LockPath DEF Kept
  <2>2. CASE lock_object(k) \/ lock_save(k) \/ lock_cache(k)
    BY <1>1, <1>4, <2>1, <2>2, LockEffects DEF Writer, Minting
  <2>3. CASE mint_lock(k) \/ mint_guard(k) \/ mint_recheck(k)
    BY <1>1, <1>4, <2>1, <2>3, MintEffects DEF Writer, Minting
  <2>4. CASE mint_read(k)
    BY <1>1, <1>4, <2>1, <2>4, MintEffects DEF Writer, Minting, is_minted, Holding
  <2>5. CASE mint_verify(k) \/ mint_object(k)
    <3>1. task[k].op = "mint" /\ task[k].pc \in {<<"mint", "verify">>, <<"mint", "object">>}
      BY <2>5, VerifyEffects
    <3> QED  BY <1>1, <2>1, <3>1 DEF Writer, Minting
  <2>6. CASE update_cache(k)
    <3>1. PICK u \in Updates : task[k].pc = <<u, "cache">> /\ task'[k].pc = <<u, "save">>
      BY <2>6, UpdateEffects
    <3> QED  BY <1>1, <2>1, <3>1 DEF Writer, Minting, Updates
  <2>7. CASE update_save(k)
    <3>1. PICK u \in Updates :
             /\ task[k].pc = <<u, "save">>
             /\ task[k].op = IF u = "cancelled" THEN "cancel" ELSE "mint"
             /\ \/ u = "failed" /\ task'[k].pc = <<"unlock", "read">>
                \/ u = "verified" /\ task'[k].pc = <<"mint", "object">>
      BY <1>4, <2>7, UpdateEffects
    <3> QED  BY <1>1, <2>1, <3>1 DEF Writer, Minting, Updates
  <2>8. CASE cancel_owner(k)
    BY <1>1, <1>4, <2>1, <2>8, CancelEffects DEF Writer, Minting
  <2>9. CASE unlock_read(k) \/ unlock_save(k)
    <3>1. /\ task[k].pc \in {<<"unlock", "read">>, <<"unlock", "save">>}
          /\ task'[k].pc \in {<<"unlock", "save">>, <<"cancelled", "cache">>}
      BY <1>4, <2>9, CancelEffects DEF Unlocked
    <3> QED  BY <1>1, <2>1, <3>1 DEF Writer, Minting
  <2> HIDE DEF Goal
  <2> QED  BY <2>2, <2>3, <2>4, <2>5, <2>6, <2>7, <2>8, <2>9 DEF task_step
<1> QED  BY <1>3, <1>4

\* A write of the cache is one of a minting call, records a mint, or is the
\* last one of a writer.
LEMMA CacheWrite ==
    ASSUME BridgeTypes, RecordsSound, NEW k \in Tasks, task_step(k), lock_cache(k) \/ update_cache(k)
    PROVE  LET id == task[k].id
           IN  \/ Minting(task[k], id)
               \/ Recording(task[k], id) /\ task[k].tr.status = "Minted"
               \/ Writer(task[k], id) /\ ~Writer(task'[k], id)
<1>1. task[k] # Idle /\ HasTr(task[k])
  BY Running, Writes
<1>2. CASE lock_cache(k)
  BY <1>1, <1>2, LockEffects DEF Writer
<1>3. CASE update_cache(k)
  <2>1. PICK u \in Updates : /\ task[k].pc = <<u, "cache">> /\ task'[k].pc = <<u, "save">> /\ Kept(k)
                             /\ task[k].op = IF u = "cancelled" THEN "cancel" ELSE "mint"
    BY <1>3, UpdateEffects DEF Moved
  <2>2. CASE u \in {"failed", "verified"}
    BY <1>1, <2>1, <2>2 DEF Minting
  <2>3. CASE u = "minted"
    BY <1>1, <2>1, <2>3 DEF Recording, RecordsSound, StatusOf
  <2>4. CASE u = "cancelled"
    BY <1>1, <2>1, <2>4 DEF Writer, Kept
  <2> QED  BY <2>2, <2>3, <2>4 DEF Updates
<1> QED  BY <1>2, <1>3

\* A mint becomes possible again only when a writer is used up, and a mint
\* uses up the one that is possible.
LEMMA OpenStep ==
    ASSUME BridgeTypes, MutexHeld, RecordsSound, NEW k \in Tasks, task_step(k), NEW id \in TransferId
    PROVE  /\ Writers(task', id) \subseteq Writers(task, id)
           /\ Open(task', transfers', id) =>
                 \/ Open(task, transfers, id)
                 \/ k \in Writers(task, id) /\ k \notin Writers(task', id)
           /\ mint_object(k) /\ task[k].id = id =>
                 Open(task, transfers, id) /\ ~Open(task', transfers', id)
<1>1. \A j \in Tasks \ {k} : task'[j] = task[j]
  BY TaskTypes
<1>2. \A j \in Tasks : task[j] \in Locals
  BY DEF BridgeTypes
<1>3. ASSUME NEW i \in Tasks, NEW j \in Tasks, Holding(task[i]), Holding(task[j]), task[i].id = task[j].id
      PROVE  i = j
  BY <1>3 DEF MutexHeld
<1>4. Writers(task', id) \subseteq Writers(task, id)
  BY <1>1, RolePath DEF Writers
<1>5. ASSUME Open(task', transfers', id), ~Open(task, transfers, id)
      PROVE  k \in Writers(task, id) /\ k \notin Writers(task', id)
  <2>1. CASE \E j \in Tasks : Minting(task'[j], id)
    <3>1. PICK j \in Tasks : Minting(task'[j], id)
      BY <2>1
    <3>2. j = k /\ ~Minting(task[k], id)
      BY <1>1, <1>5, <3>1 DEF Open
    <3>3. /\ Holding(task[k]) /\ task[k].id = id
          /\ transfers[id] # None /\ transfers[id].status # "Minted"
      BY <3>1, <3>2, RolePath
    <3>4. PICK i \in Tasks : Recording(task[i], id)
      BY <1>5, <3>3 DEF Open
    <3>5. i = k
      BY <1>2, <1>3, <3>3, <3>4, MintsHold
    <3>6. task[k].pc = <<"minted", "cache">> /\ update_cache(k)
      BY <3>4, <3>5, RolePath DEF Recording
    <3>7. task'[k].pc = <<"minted", "save">>
      BY <3>6, UpdateEffects DEF Updates
    <3> QED  BY <3>1, <3>2, <3>7 DEF Minting
  <2>2. CASE /\ transfers'[id] # None /\ transfers'[id].status # "Minted"
             /\ \A j \in Tasks : ~Recording(task'[j], id)
    <3>1. CASE (lock_cache(k) \/ update_cache(k)) /\ task[k].id = id
      <4>1. transfers' = [transfers EXCEPT ![id] = task[k].tr]
        BY <3>1, Writes
      <4>2. transfers'[id] = task[k].tr
        BY <4>1 DEF BridgeTypes, BridgeTypeOK
      <4> QED  BY <1>5, <2>2, <3>1, <4>2, CacheWrite DEF Open, Writers
    <3>2. CASE ~((lock_cache(k) \/ update_cache(k)) /\ task[k].id = id)
      <4>1. transfers'[id] = transfers[id]
        BY <3>2, Writes DEF BridgeTypes, BridgeTypeOK
      <4>2. PICK i \in Tasks : Recording(task[i], id)
        BY <1>5, <2>2, <4>1 DEF Open
      <4>3. i = k
        BY <1>1, <2>2, <4>2
      <4> QED  BY <3>2, <4>2, <4>3, RolePath DEF Recording
    <3> QED  BY <3>1, <3>2
  <2> QED  BY <1>5, <2>1, <2>2 DEF Open
<1>6. ASSUME mint_object(k), task[k].id = id
      PROVE  Open(task, transfers, id) /\ ~Open(task', transfers', id)
  <2>1. task[k] # Idle
    BY Running
  <2>2. /\ task[k].pc = <<"mint", "object">> /\ task'[k].pc = <<"minted", "cache">>
        /\ task[k].op = "mint" /\ Kept(k)
    BY <1>6, VerifyEffects DEF Closed
  <2>3. Minting(task[k], id) /\ Holding(task[k])
    BY <1>6, <2>1, <2>2 DEF Minting, Holding
  <2>4. Recording(task'[k], id) /\ ~Minting(task'[k], id)
    BY <1>6, <2>2 DEF Recording, Minting, Kept, Idle
  <2>5. ASSUME NEW j \in Tasks, Minting(task'[j], id) PROVE FALSE
    <3>1. j # k /\ Minting(task[j], id)
      BY <1>1, <2>4, <2>5
    <3>2. Holding(task[j]) /\ task[j].id = id
      BY <1>2, <3>1, MintsHold
    <3> QED  BY <1>3, <1>6, <2>3, <3>1, <3>2
  <2> QED  BY <2>3, <2>4, <2>5 DEF Open
<1> QED  BY <1>4, <1>5, <1>6

\* The sets that are counted are finite.
LEMMA Counts ==
    ASSUME NEW T, NEW M, IsFiniteSet(M), NEW id
    PROVE  /\ IsFiniteSet(Writers(T, id)) /\ Cardinality(Writers(T, id)) \in Nat
           /\ IsFiniteSet(Mints(M, id)) /\ Cardinality(Mints(M, id)) \in Nat
<1>1. Writers(T, id) \subseteq Tasks /\ Mints(M, id) \subseteq M
  BY DEF Writers, Mints
<1> QED  BY <1>1, BridgeAssumption, FS_Subset, FS_CardinalityType

\* A step of a call spends what the budget allows.
LEMMA BudgetStep ==
    ASSUME BridgeTypes, MutexHeld, RecordsSound, Budget, NEW k \in Tasks, task_step(k)
    PROVE  Budget'
<1>1. UNCHANGED <<passed, crashes>>
  BY TaskTables DEF history
<1>2. CASE mint_object(k)
  <2> DEFINE new == [transfer |-> task[k].id, at |-> now, object |-> task[k].tr.object,
                     to |-> task[k].tr.to, proof |-> task[k].proof, total |-> task[k].total]
  <2>1. minted' \subseteq minted \cup {new}
    BY <1>2 DEF mint_object
  <2>2. new.transfer = task[k].id
    OBVIOUS
  <2> HIDE DEF new
  <2>3. IsFiniteSet(minted')
    BY <2>1, FS_AddElement, FS_Subset DEF Budget
  <2>4. ASSUME NEW id \in TransferId
        PROVE  Cardinality(Mints(minted', id)) + Chance(task', transfers', id) + Cardinality(Writers(task', id))
                  <= passed[id].locks + passed[id].cancels + crashes
    <3> DEFINE A == Mints(minted, id)
               B == Mints(minted', id)
               V == Writers(task, id)
               W == Writers(task', id)
    <3>1. IsFiniteSet(A) /\ IsFiniteSet(B) /\ Cardinality(A) \in Nat /\ Cardinality(B) \in Nat
      BY <2>3, Counts DEF Budget
    <3>2. IsFiniteSet(V) /\ IsFiniteSet(W) /\ Cardinality(V) \in Nat /\ Cardinality(W) \in Nat
      BY <2>3, Counts
    <3>3. W \subseteq V /\ (Open(task', transfers', id) => Open(task, transfers, id) \/ (k \in V /\ k \notin W))
      BY OpenStep
    <3>4. k \notin V
      BY <1>2, VerifyEffects DEF Writers, Writer
    <3>5. CASE task[k].id = id
      <4>1. Open(task, transfers, id) /\ ~Open(task', transfers', id)
        BY <1>2, <3>5, OpenStep
      <4>2. B \subseteq A \cup {new}
        BY <2>1 DEF Mints
      <4> HIDE DEF A, B, V, W
      <4>3. Cardinality(B) <= Cardinality(A) + 1
        <5>1. IsFiniteSet(A \cup {new}) /\ Cardinality(A \cup {new}) \in Nat
              /\ Cardinality(A \cup {new}) <= Cardinality(A) + 1
          <6>1. /\ IsFiniteSet(A \cup {new})
                /\ Cardinality(A \cup {new}) = IF new \in A THEN Cardinality(A) ELSE Cardinality(A) + 1
            BY <3>1, FS_AddElement
          <6> QED  BY <3>1, <6>1
        <5>2. Cardinality(B) <= Cardinality(A \cup {new})
          BY <4>2, <5>1, FS_Subset
        <5> QED  BY <3>1, <5>1, <5>2
      <4>4. Cardinality(W) <= Cardinality(V)
        BY <3>2, <3>3, FS_Subset
      <4>5. Chance(task, transfers, id) = 1 /\ Chance(task', transfers', id) = 0
        BY <4>1 DEF Chance
      <4>6. Cardinality(A) + 1 + Cardinality(V) <= passed[id].locks + passed[id].cancels + crashes
        BY <4>5 DEF Budget, A, V
      <4>7. passed[id].locks + passed[id].cancels + crashes \in Nat
        BY DEF BridgeTypes, BridgeTypeOK
      <4> QED  BY <3>1, <3>2, <4>3, <4>4, <4>5, <4>6, <4>7 DEF B, W
    <3>6. CASE task[k].id # id
      <4>1. B \subseteq A
        BY <2>1, <2>2, <3>6 DEF Mints
      <4> HIDE DEF A, B, V, W
      <4>2. Cardinality(B) <= Cardinality(A) /\ Cardinality(W) <= Cardinality(V)
        BY <3>1, <3>2, <3>3, <4>1, FS_Subset
      <4>3. Chance(task', transfers', id) <= Chance(task, transfers, id)
            /\ Chance(task', transfers', id) \in Nat /\ Chance(task, transfers, id) \in Nat
        BY <3>3, <3>4 DEF Chance
      <4>4. Cardinality(A) + Chance(task, transfers, id) + Cardinality(V)
               <= passed[id].locks + passed[id].cancels + crashes
        BY DEF Budget, A, V
      <4>5. passed[id].locks + passed[id].cancels + crashes \in Nat
        BY DEF BridgeTypes, BridgeTypeOK
      <4> QED  BY <3>1, <3>2, <4>2, <4>3, <4>4, <4>5 DEF B, W
    <3> QED  BY <3>5, <3>6
  <2> QED  BY <1>1, <2>3, <2>4 DEF Budget
<1>3. CASE ~mint_object(k)
  <2>1. minted' = minted /\ IsFiniteSet(minted)
    BY <1>3 DEF Budget, task_step, tables, lock_object, lock_save, lock_cache, mint_lock, mint_guard, mint_recheck,
                mint_read, mint_verify, update_cache, update_save, cancel_owner, unlock_read, unlock_save
  <2>2. ASSUME NEW id \in TransferId
        PROVE  Cardinality(Mints(minted, id)) + Chance(task', transfers', id) + Cardinality(Writers(task', id))
                  <= passed[id].locks + passed[id].cancels + crashes
    <3> DEFINE a == Cardinality(Mints(minted, id))
               V == Writers(task, id)
               W == Writers(task', id)
    <3>1. a \in Nat /\ IsFiniteSet(V) /\ IsFiniteSet(W) /\ Cardinality(V) \in Nat /\ Cardinality(W) \in Nat
      BY <2>1, Counts
    <3>2. W \subseteq V /\ (Open(task', transfers', id) => Open(task, transfers, id) \/ (k \in V /\ k \notin W))
      BY OpenStep
    <3>3. a + Chance(task, transfers, id) + Cardinality(V) <= passed[id].locks + passed[id].cancels + crashes
      BY DEF Budget
    <3> HIDE DEF a, V, W
    <3>4. passed[id].locks + passed[id].cancels + crashes \in Nat
      BY DEF BridgeTypes, BridgeTypeOK
    <3>5. CASE k \in V /\ k \notin W
      <4>1. W \subseteq V \ {k} /\ IsFiniteSet(V \ {k}) /\ Cardinality(V \ {k}) = Cardinality(V) - 1
        BY <3>1, <3>2, <3>5, FS_RemoveElement
      <4>2. Cardinality(W) <= Cardinality(V) - 1
        BY <4>1, FS_Subset
      <4>3. Chance(task', transfers', id) \in 0..1 /\ Chance(task, transfers, id) \in 0..1
        BY DEF Chance
      <4> QED  BY <3>1, <3>3, <3>4, <4>2, <4>3 DEF a, W
    <3>6. CASE ~(k \in V /\ k \notin W)
      <4>1. Cardinality(W) <= Cardinality(V)
        BY <3>1, <3>2, FS_Subset
      <4>2. /\ Chance(task', transfers', id) \in 0..1 /\ Chance(task, transfers, id) \in 0..1
            /\ Chance(task', transfers', id) <= Chance(task, transfers, id)
        BY <3>2, <3>6 DEF Chance
      <4> QED  BY <3>1, <3>3, <3>4, <4>1, <4>2 DEF a, W
    <3> QED  BY <3>5, <3>6
  <2> QED  BY <1>1, <2>1, <2>2 DEF Budget
<1> QED  BY <1>2, <1>3

\* A request adds at most one writer to a transfer, and is then counted.
LEMMA BudgetRequest ==
    ASSUME BridgeTypes, Budget, NEW k \in Tasks, request(k)
    PROVE  Budget'
<1>1. UNCHANGED <<minted, transfers, crashes>> /\ \A j \in Tasks \ {k} : task'[j] = task[j]
  BY RequestTypes DEF tables
<1>2. CASE task' = task /\ passed' = passed
  BY <1>1, <1>2 DEF Budget
<1>3. CASE ~(task' = task /\ passed' = passed)
  <2>1. /\ task[k] = Idle
        /\ task'[k].pc \in {<<"lock", "object">>, <<"mint", "wait">>, <<"cancel", "owner">>}
        /\ task'[k].id \in TransferId
        /\ \/ task'[k].op = "lock" /\ passed' = [passed EXCEPT ![task'[k].id].locks = @ + 1]
           \/ task'[k].op = "mint" /\ passed' = passed
           \/ task'[k].op = "cancel" /\ passed' = [passed EXCEPT ![task'[k].id].cancels = @ + 1]
    BY <1>3, RequestEffects
  <2>2. ASSUME NEW id \in TransferId
        PROVE  Cardinality(Mints(minted, id)) + Chance(task', transfers, id) + Cardinality(Writers(task', id))
                  <= passed'[id].locks + passed'[id].cancels + crashes
    <3> DEFINE a == Cardinality(Mints(minted, id))
               V == Writers(task, id)
               W == Writers(task', id)
    <3>1. a \in Nat /\ IsFiniteSet(V) /\ IsFiniteSet(W) /\ Cardinality(V) \in Nat /\ Cardinality(W) \in Nat
      BY Counts DEF Budget
    <3>2. a + Chance(task, transfers, id) + Cardinality(V) <= passed[id].locks + passed[id].cancels + crashes
      BY DEF Budget
    <3>3. W \subseteq V \cup {k} /\ k \notin V /\ (k \in W => task'[k].id = id /\ task'[k].op \in {"lock", "cancel"})
      BY <1>1, <2>1 DEF Writers, Writer
    <3>4. \A j \in Tasks : /\ Minting(task'[j], id) <=> Minting(task[j], id)
                           /\ Recording(task'[j], id) <=> Recording(task[j], id)
      BY <1>1, <2>1 DEF Minting, Recording
    <3>5. Chance(task', transfers, id) = Chance(task, transfers, id) /\ Chance(task, transfers, id) \in 0..1
      <4>1. Open(task', transfers, id) <=> Open(task, transfers, id)
        BY <3>4 DEF Open
      <4> QED  BY <4>1 DEF Chance
    <3>6. passed[id] \in [locks : Nat, cancels : Nat] /\ crashes \in Nat
      BY DEF BridgeTypes, BridgeTypeOK
    <3>7. passed \in [TransferId -> [locks : Nat, cancels : Nat]]
      BY DEF BridgeTypes, BridgeTypeOK
    <3> HIDE DEF a, V, W
    <3>8. CASE k \in W
      <4>1. Cardinality(W) <= Cardinality(V) + 1
        <5>1. IsFiniteSet(V \cup {k}) /\ Cardinality(V \cup {k}) = Cardinality(V) + 1
          BY <3>1, <3>3, FS_AddElement
        <5> QED  BY <3>3, <5>1, FS_Subset
      <4>2. passed'[id].locks + passed'[id].cancels = passed[id].locks + passed[id].cancels + 1
        BY <2>1, <3>3, <3>6, <3>7, <3>8
      <4>3. passed[id].locks + passed[id].cancels \in Nat
        BY <3>6
      <4> QED  BY <3>1, <3>2, <3>5, <3>6, <4>1, <4>2, <4>3 DEF a, W
    <3>9. CASE k \notin W
      <4>1. Cardinality(W) <= Cardinality(V)
        BY <3>1, <3>3, <3>9, FS_Subset
      <4>2. /\ passed'[id].locks + passed'[id].cancels >= passed[id].locks + passed[id].cancels
            /\ passed'[id].locks + passed'[id].cancels \in Nat
        BY <2>1, <3>6, <3>7
      <4>3. passed[id].locks + passed[id].cancels \in Nat
        BY <3>6
      <4> QED  BY <3>1, <3>2, <3>5, <3>6, <4>1, <4>2, <4>3 DEF a, W
    <3> QED  BY <3>8, <3>9
  <2> QED  BY <1>1, <2>2 DEF Budget
<1> QED  BY <1>2, <1>3

LEMMA BudgetInvariant == Spec => []Budget
<1>1. Init => Budget
  <2> SUFFICES ASSUME Init PROVE Budget
    OBVIOUS
  <2>1. IsFiniteSet(minted) /\ Cardinality({}) = 0
    BY FS_EmptySet DEF Init
  <2>2. ASSUME NEW id \in TransferId
        PROVE  /\ Mints(minted, id) = {} /\ Writers(task, id) = {} /\ Chance(task, transfers, id) = 0
               /\ passed[id].locks = 0 /\ passed[id].cancels = 0 /\ crashes = 0
    BY DEF Init, Mints, Writers, Writer, Chance, Open, Minting
  <2> QED  BY <2>1, <2>2 DEF Budget
<1>2. BridgeTypes /\ MutexHeld /\ RecordsSound /\ Budget /\ [Next]_vars => Budget'
  <2> SUFFICES ASSUME BridgeTypes, MutexHeld, RecordsSound, Budget, [Next]_vars PROVE Budget'
    OBVIOUS
  <2>1. CASE restart
    <3>1. IsFiniteSet(minted) /\ minted' = minted /\ crashes' = crashes + 1 /\ passed' = passed
      BY <2>1 DEF restart, tables, Budget
    <3>2. ASSUME NEW id \in TransferId
          PROVE  Cardinality(Mints(minted, id)) + Chance(task', transfers', id) + Cardinality(Writers(task', id))
                    <= passed[id].locks + passed[id].cancels + (crashes + 1)
      <4>1. Writers(task', id) = {} /\ Cardinality({}) = 0
        BY <2>1, FS_EmptySet DEF restart, Writers, Writer
      <4>2. Cardinality(Mints(minted, id)) \in Nat /\ Cardinality(Writers(task, id)) \in Nat
        BY <3>1, Counts
      <4>3. Chance(task', transfers', id) \in 0..1 /\ Chance(task, transfers, id) \in 0..1
        BY DEF Chance
      <4>4. passed[id].locks + passed[id].cancels \in Nat /\ crashes \in Nat
        BY DEF BridgeTypes, BridgeTypeOK
      <4>5. Cardinality(Mints(minted, id)) + Chance(task, transfers, id) + Cardinality(Writers(task, id))
               <= passed[id].locks + passed[id].cancels + crashes
        BY DEF Budget
      <4> QED  BY <4>1, <4>2, <4>3, <4>4, <4>5
    <3> QED  BY <3>1, <3>2 DEF Budget
  <2>2. CASE (\E v \in Validators : register_validator(v)) \/ tick \/ UNCHANGED vars
    BY <2>2 DEF register_validator, tick, vars, tables, memory, history, Budget
  <2> QED  BY <2>1, <2>2, BudgetStep, BudgetRequest DEF Next, finished
<1> QED  BY <1>1, <1>2, BridgeTypesInvariant, MutexInvariant, RecordsInvariant, PTL DEF Spec

\* A transfer is minted at most once for every lock that opened it, every
\* cancel that passed its checks and every restart: mint_from_proof is
\* serialised by the mutex of the transfer, and only lock_assets,
\* cancel_transfer and BridgeManager::new make a minted transfer mintable.
THEOREM ExtraMintsCorrect == Spec => []ExtraMintsExplained
<1>1. BridgeTypes /\ Budget => ExtraMintsExplained
  <2> SUFFICES ASSUME BridgeTypes, Budget, NEW id \in TransferId
               PROVE  Cardinality(Mints(minted, id)) <= passed[id].locks + passed[id].cancels + crashes
    BY DEF ExtraMintsExplained, Mints
  <2>1. Cardinality(Mints(minted, id)) \in Nat /\ Cardinality(Writers(task, id)) \in Nat
    BY Counts DEF Budget
  <2>2. Chance(task, transfers, id) \in 0..1
    BY DEF Chance
  <2>3. passed[id].locks + passed[id].cancels + crashes \in Nat
    BY DEF BridgeTypes, BridgeTypeOK
  <2>4. Cardinality(Mints(minted, id)) + Chance(task, transfers, id) + Cardinality(Writers(task, id))
           <= passed[id].locks + passed[id].cancels + crashes
    BY DEF Budget
  <2> QED  BY <2>1, <2>2, <2>3, <2>4
<1> QED  BY <1>1, BridgeTypesInvariant, BudgetInvariant, PTL

-----------------------------------------------------------------------------
(* Invariance of what releases a lock.                                     *)

\* The program counter tells the step.
LEMMA StepAt ==
    ASSUME NEW k \in Tasks, task_step(k)
    PROVE  /\ task[k].pc = <<"lock", "save">> => lock_save(k)
           /\ task[k].pc = <<"lock", "cache">> => lock_cache(k)
           /\ task[k].pc = <<"mint", "object">> => mint_object(k)
           /\ task[k].pc = <<"minted", "cache">> => update_cache(k)
           /\ task[k].pc \in {<<"failed", "save">>, <<"verified", "save">>} => update_save(k)
           /\ task[k].pc = <<"unlock", "read">> => unlock_read(k)
           /\ task[k].pc = <<"unlock", "save">> => unlock_save(k)
<1> DEFINE pc == task[k].pc
<1>1. /\ lock_object(k) => pc = <<"lock", "object">>
      /\ lock_save(k) => pc = <<"lock", "save">>
      /\ lock_cache(k) => pc = <<"lock", "cache">>
  BY DEF lock_object, lock_save, lock_cache, at
<1>2. /\ mint_lock(k) => pc = <<"mint", "wait">>
      /\ mint_guard(k) => pc = <<"mint", "guard">>
      /\ mint_recheck(k) => pc = <<"mint", "recheck">>
      /\ mint_read(k) => pc = <<"mint", "read">>
      /\ mint_verify(k) => pc = <<"mint", "verify">>
      /\ mint_object(k) => pc = <<"mint", "object">>
  BY DEF mint_lock, mint_guard, mint_recheck, mint_read, mint_verify, mint_object, at
<1>3. /\ update_cache(k) => pc \in {<<"failed", "cache">>, <<"verified", "cache">>,
                                   <<"minted", "cache">>, <<"cancelled", "cache">>}
      /\ update_save(k) => pc \in {<<"failed", "save">>, <<"verified", "save">>,
                                  <<"minted", "save">>, <<"cancelled", "save">>}
  BY DEF update_cache, update_save, at, Updates
<1>4. /\ cancel_owner(k) => pc = <<"cancel", "owner">>
      /\ unlock_read(k) => pc = <<"unlock", "read">>
      /\ unlock_save(k) => pc = <<"unlock", "save">>
  BY DEF cancel_owner, unlock_read, unlock_save, at
<1> QED  BY <1>1, <1>2, <1>3, <1>4 DEF task_step

LEMMA CacheInvariant == Spec => []CacheSound
<1>1. Init => CacheSound
  BY DEF Init, CacheSound, Idle
<1>2. BridgeTypes /\ RecordsSound /\ CacheSound /\ [Next]_vars => CacheSound'
  <2> SUFFICES ASSUME BridgeTypes, RecordsSound, CacheSound, [Next]_vars PROVE CacheSound'
    OBVIOUS
  <2>1. ASSUME NEW k \in Tasks, request(k) PROVE CacheSound'
    <3>1. UNCHANGED <<saved, transfers>> /\ \A j \in Tasks \ {k} : task'[j] = task[j]
      BY <2>1, RequestTypes DEF tables
    <3>2. CASE task' = task /\ passed' = passed
      BY <3>1, <3>2 DEF CacheSound
    <3>3. CASE ~(task' = task /\ passed' = passed)
      <4>1. /\ task[k] = Idle /\ task'[k].id \in TransferId
            /\ task'[k].pc \in {<<"lock", "object">>, <<"mint", "wait">>, <<"cancel", "owner">>}
            /\ \/ task'[k].op = "lock" /\ passed' = [passed EXCEPT ![task'[k].id].locks = @ + 1]
               \/ task'[k].op = "mint" /\ passed' = passed
               \/ task'[k].op = "cancel" /\ passed' = [passed EXCEPT ![task'[k].id].cancels = @ + 1]
        BY <2>1, <3>3, RequestEffects
      <4>2. passed \in [TransferId -> [locks : Nat, cancels : Nat]]
        BY DEF BridgeTypes, BridgeTypeOK
      <4>3. \A id \in TransferId : passed[id].cancels > 0 => passed'[id].cancels > 0
        BY <4>1, <4>2
      <4>4. \A j \in Tasks : task'[j].pc = <<"lock", "cache">> <=> task[j].pc = <<"lock", "cache">>
        BY <3>1, <4>1 DEF Idle
      <4>5. \A j \in Tasks : task[j].pc = <<"lock", "cache">> => task'[j] = task[j]
        BY <3>1, <4>1 DEF Idle
      <4>6. ASSUME NEW j \in Tasks, task'[j] # Idle, task'[j].op = "cancel"
            PROVE  passed'[task'[j].id].cancels > 0
        <5>1. CASE j # k
          <6>1. task'[j] = task[j] /\ task[j].id \in TransferId
            BY <3>1, <4>6, <5>1, CallFields DEF BridgeTypes
          <6> QED  BY <4>3, <4>6, <6>1 DEF CacheSound
        <5>2. CASE j = k
          <6>1. PICK id \in TransferId : id = task'[k].id
            BY <4>1
          <6>2. passed' = [passed EXCEPT ![id].cancels = @ + 1]
            BY <4>1, <4>6, <5>2, <6>1
          <6>3. passed[id].cancels \in Nat /\ passed'[id].cancels = passed[id].cancels + 1
            BY <4>2, <6>2
          <6> QED  BY <5>2, <6>1, <6>3
        <5> QED  BY <5>1, <5>2
      <4>7. \A id \in TransferId : saved[id] # None /\ transfers[id] = None =>
                \E j \in Tasks : task'[j].pc = <<"lock", "cache">> /\ task'[j].id = id
        BY <4>4, <4>5 DEF CacheSound
      <4>8. \A j \in Tasks : task'[j].pc = <<"lock", "cache">> => saved[task'[j].id] # None
        BY <4>4, <4>5 DEF CacheSound
      <4> QED  BY <3>1, <4>6, <4>7, <4>8 DEF CacheSound
    <3> QED  BY <3>2, <3>3
  <2>2. ASSUME NEW k \in Tasks, task_step(k) PROVE CacheSound'
    <3>1. (\A j \in Tasks \ {k} : task'[j] = task[j]) /\ passed' = passed
      BY <2>2, TaskTypes, TaskTables DEF history
    <3>2. /\ task[k] # Idle /\ task[k].id \in TransferId
          /\ HasTr(task[k]) => task[k].tr # None
      BY <2>2, Running, Writes, AbsenceAssumption
    <3>3. transfers \in [TransferId -> BridgeTransfer \cup {None}] /\ saved \in [TransferId -> BridgeTransfer \cup {None}]
      BY DEF BridgeTypes, BridgeTypeOK
    <3>4. \A id \in TransferId : /\ transfers[id] # None => transfers'[id] # None
                                 /\ saved[id] # None => saved'[id] # None
      BY <2>2, <3>2, <3>3, Writes
    <3>5. task'[k] = Idle \/ Kept(k)
      BY <2>2, LockPath
    <3>6. task'[k].pc = <<"lock", "cache">> => lock_save(k) /\ task'[k] # Idle
      <4>1. task'[k].pc = <<"lock", "cache">> => task'[k] # Idle
        BY DEF Idle
      <4>2. ASSUME task'[k].pc = <<"lock", "cache">> PROVE lock_save(k)
        <5>1. task'[k] # Idle
          BY <4>1, <4>2
        <5>2. ~lock_object(k) /\ ~lock_cache(k)
          BY <4>2, <5>1, LockEffects
        <5>3. ~mint_lock(k) /\ ~mint_guard(k) /\ ~mint_recheck(k) /\ ~mint_read(k)
          BY <4>2, <5>1, MintEffects
        <5>4. ~mint_verify(k) /\ ~mint_object(k)
          BY <4>2, <5>1, VerifyEffects
        <5>5. ~update_cache(k)
          BY <4>2, UpdateEffects DEF Updates
        <5>6. ~update_save(k)
          BY <4>2, <5>1, UpdateEffects
        <5>7. ~cancel_owner(k) /\ ~unlock_read(k) /\ ~unlock_save(k)
          BY <4>2, <5>1, CancelEffects DEF Unlocked
        <5> QED  BY <2>2, <5>2, <5>3, <5>4, <5>5, <5>6, <5>7 DEF task_step
      <4> QED  BY <4>1, <4>2
    <3>7. ASSUME NEW id \in TransferId, transfers'[id] # None PROVE saved'[id] # None
      <4>1. CASE transfers[id] # None
        BY <3>4, <4>1 DEF CacheSound
      <4>2. CASE transfers[id] = None
        <5>1. (lock_cache(k) \/ update_cache(k)) /\ task[k].id = id
          BY <2>2, <3>3, <3>7, <4>2, Writes
        <5>2. CASE lock_cache(k)
          BY <3>4, <5>1, <5>2 DEF lock_cache, at, CacheSound
        <5>3. CASE update_cache(k)
          <6>1. HasTr(task[k]) /\ task[k].op \in {"mint", "cancel"}
            BY <2>2, <5>3, Writes, UpdateEffects
          <6> QED  BY <4>2, <5>1, <6>1 DEF RecordsSound
        <5> QED  BY <5>1, <5>2, <5>3
      <4> QED  BY <4>1, <4>2
    <3>8. ASSUME NEW id \in TransferId, saved'[id] # None, transfers'[id] = None
          PROVE  \E j \in Tasks : task'[j].pc = <<"lock", "cache">> /\ task'[j].id = id
      <4>1. transfers[id] = None
        BY <3>4, <3>8
      <4>2. CASE saved[id] # None
        <5>1. PICK j \in Tasks : task[j].pc = <<"lock", "cache">> /\ task[j].id = id
          BY <4>1, <4>2 DEF CacheSound
        <5>2. CASE j # k
          BY <3>1, <5>1, <5>2
        <5>3. CASE j = k
          <6>1. lock_cache(k)
            BY <2>2, <5>1, <5>3, StepAt
          <6>2. transfers'[id] = task[k].tr /\ HasTr(task[k])
            BY <2>2, <3>3, <5>1, <5>3, <6>1, Writes
          <6> QED  BY <3>2, <3>8, <6>2
        <5> QED  BY <5>2, <5>3
      <4>3. CASE saved[id] = None
        <5>1. (lock_save(k) \/ update_save(k)) /\ task[k].id = id /\ HasTr(task[k])
          BY <2>2, <3>3, <3>8, <4>3, Writes
        <5>2. CASE lock_save(k)
          BY <5>1, <5>2, LockEffects DEF Moved, Kept
        <5>3. CASE update_save(k)
          <6>1. task[k].op \in {"mint", "cancel"}
            BY <5>3, UpdateEffects
          <6> QED  BY <4>1, <5>1, <6>1 DEF RecordsSound
        <5> QED  BY <5>1, <5>2, <5>3
      <4> QED  BY <4>2, <4>3
    <3>9. ASSUME NEW j \in Tasks, task'[j].pc = <<"lock", "cache">> PROVE saved'[task'[j].id] # None
      <4>1. CASE j # k
        <5>1. task'[j] = task[j] /\ task[j] # Idle
          BY <3>1, <3>9, <4>1 DEF Idle
        <5>2. task[j].id \in TransferId
          BY <5>1, CallFields DEF BridgeTypes
        <5> QED  BY <3>4, <3>9, <5>1, <5>2 DEF CacheSound
      <4>2. CASE j = k
        <5>1. lock_save(k) /\ task'[k].id = task[k].id
          BY <3>5, <3>6, <3>9, <4>2 DEF Kept
        <5>2. saved' = [saved EXCEPT ![task[k].id] = task[k].tr] /\ HasTr(task[k])
          BY <3>2, <5>1 DEF lock_save, at, HasTr
        <5> QED  BY <3>2, <3>3, <4>2, <5>1, <5>2
      <4> QED  BY <4>1, <4>2
    <3>10. ASSUME NEW j \in Tasks, task'[j] # Idle, task'[j].op = "cancel"
           PROVE  passed'[task'[j].id].cancels > 0
      BY <3>1, <3>2, <3>5, <3>10 DEF Kept, CacheSound
    <3> QED  BY <3>7, <3>8, <3>9, <3>10 DEF CacheSound
  <2>3. CASE restart
    BY <2>3 DEF restart, tables, CacheSound, Idle
  <2>4. CASE (\E v \in Validators : register_validator(v)) \/ tick \/ UNCHANGED vars
    BY <2>4 DEF register_validator, tick, vars, tables, memory, history, CacheSound
  <2> QED  BY <2>1, <2>2, <2>3, <2>4 DEF Next, finished
<1> QED  BY <1>1, <1>2, BridgeTypesInvariant, RecordsInvariant, PTL DEF Spec

\* A call that will release the object still will, or does so in this step.
LEMMA RescuePath ==
    ASSUME BridgeTypes, RecordsSound, NEW k \in Tasks, task_step(k), NEW o \in Objects,
           Rescuer(task[k], o), objects'[o].locked
    PROVE  Rescuer(task'[k], o) \/ Releasable(transfers', o)
<1> DEFINE t == task[k]
<1>1. t # Idle /\ t.id[2] = o /\ t.id \in TransferId
  BY Writes DEF Rescuer
<1>2. ASSUME Kept(k), task'[k] # Idle PROVE task'[k].id[2] = o /\ task'[k].op = t.op
  BY <1>1, <1>2 DEF Kept
<1>3. ASSUME lock_cache(k) \/ update_cache(k), t.tr.status \in {"Locked", "Minted"}
      PROVE  Releasable(transfers', o)
  <2>1. transfers' = [transfers EXCEPT ![t.id] = t.tr] /\ t.tr \in BridgeTransfer
    BY <1>3, Writes
  <2>2. transfers'[t.id] = t.tr /\ t.tr # None
    BY <1>1, <2>1, AbsenceAssumption DEF BridgeTypes, BridgeTypeOK
  <2> QED  BY <1>1, <1>3, <2>2 DEF Releasable
<1>4. CASE t.pc = <<"lock", "save">>
  <2>1. task'[k].pc = <<"lock", "cache">> /\ Kept(k)
    BY <1>4, StepAt, LockEffects DEF Moved
  <2> QED  BY <1>2, <2>1 DEF Rescuer, Idle
<1>5. CASE t.pc = <<"lock", "cache">>
  <2>1. lock_cache(k) /\ t.op = "lock" /\ HasTr(t)
    BY <1>5, StepAt, LockEffects, Writes
  <2>2. t.tr.status = "Locked"
    BY <2>1 DEF RecordsSound, StatusOf
  <2> QED  BY <1>3, <2>1, <2>2
<1>6. CASE t.op = "mint" /\ t.pc = <<"failed", "save">>
  <2>1. PICK u \in Updates :
           /\ t.pc = <<u, "save">>
           /\ \/ u = "failed" /\ task'[k].pc = <<"unlock", "read">> /\ Moved(k)
              \/ u = "verified" /\ task'[k].pc = <<"mint", "object">> /\ Moved(k)
              \/ u \in {"minted", "cancelled"} /\ task'[k] = Idle
    BY <1>6, StepAt, UpdateEffects
  <2>2. u = "failed"
    BY <1>6, <2>1
  <2>3. task'[k].pc = <<"unlock", "read">> /\ Kept(k)
    BY <2>1, <2>2 DEF Moved
  <2> QED  BY <1>2, <1>6, <2>3 DEF Rescuer, Idle
<1>7. CASE t.op = "mint" /\ t.pc = <<"verified", "save">>
  <2>1. PICK u \in Updates :
           /\ t.pc = <<u, "save">>
           /\ \/ u = "failed" /\ task'[k].pc = <<"unlock", "read">> /\ Moved(k)
              \/ u = "verified" /\ task'[k].pc = <<"mint", "object">> /\ Moved(k)
              \/ u \in {"minted", "cancelled"} /\ task'[k] = Idle
    BY <1>7, StepAt, UpdateEffects
  <2>2. u = "verified"
    BY <1>7, <2>1
  <2>3. task'[k].pc = <<"mint", "object">> /\ Kept(k)
    BY <2>1, <2>2 DEF Moved
  <2> QED  BY <1>2, <1>7, <2>3 DEF Rescuer, Idle
<1>8. CASE t.op = "mint" /\ t.pc = <<"mint", "object">>
  <2>1. task'[k].pc = <<"minted", "cache">> /\ Kept(k)
    BY <1>8, StepAt, VerifyEffects DEF Closed
  <2> QED  BY <1>2, <1>8, <2>1 DEF Rescuer, Idle
<1>9. CASE t.op = "mint" /\ t.pc = <<"minted", "cache">>
  <2>1. update_cache(k) /\ HasTr(t)
    BY <1>9, StepAt, Writes
  <2>2. t.tr.status = "Minted"
    BY <1>9, <2>1 DEF RecordsSound, StatusOf
  <2> QED  BY <1>3, <2>1, <2>2
<1>10. CASE t.op = "mint" /\ t.pc = <<"unlock", "read">>
  <2>1. unlock_read(k) /\ objects' = objects
    BY <1>10, StepAt DEF unlock_read, tables
  <2>2. t.tr.object = o
    BY <1>1, <1>10 DEF RecordsSound, HasTr
  <2>3. task'[k].pc = <<"unlock", "save">> /\ Kept(k)
    BY <2>1, <2>2, CancelEffects DEF Moved
  <2> QED  BY <1>2, <1>10, <2>3 DEF Rescuer, Idle
<1>11. CASE t.op = "mint" /\ t.pc = <<"unlock", "save">>
  <2>1. /\ t \in UnlockLocals
        /\ objects' = [objects EXCEPT ![t.tr.object] = [t.obj EXCEPT !.locked = FALSE]]
    BY <1>11, StepAt, CancelEffects DEF unlock_save
  <2>2. t.tr.object = o
    BY <1>1, <1>11 DEF RecordsSound, HasTr
  <2>3. t.obj \in Object
    BY <2>1 DEF UnlockLocals
  <2>4. objects'[o] = [t.obj EXCEPT !.locked = FALSE]
    BY <2>1, <2>2 DEF BridgeTypes, BridgeTypeOK
  <2>5. objects'[o].locked = FALSE
    BY <2>3, <2>4 DEF Object
  <2> QED  BY <2>5
<1> QED
  BY <1>4, <1>5, <1>6, <1>7, <1>8, <1>9, <1>10, <1>11 DEF Rescuer

\* A step keeps a locked object releasable.
LEMMA RescueStep ==
    ASSUME BridgeTypes, RecordsSound, CacheSound, Rescued, NEW k \in Tasks, task_step(k)
    PROVE  Rescued'
<1> SUFFICES ASSUME crashes' = 0, NEW o \in Objects, objects'[o].locked
             PROVE  \/ Cancelled(transfers', passed', o) \/ Releasable(transfers', o)
                    \/ \E j \in Tasks : Rescuer(task'[j], o)
  BY DEF Rescued
<1> DEFINE Goal == \/ Cancelled(transfers', passed', o) \/ Releasable(transfers', o)
                   \/ \E j \in Tasks : Rescuer(task'[j], o)
<1> SUFFICES Goal
  OBVIOUS
<1> HIDE DEF Goal
<1>1. crashes = 0 /\ passed' = passed /\ \A j \in Tasks \ {k} : task'[j] = task[j]
  BY TaskTypes, TaskTables DEF history
<1>2. transfers \in [TransferId -> BridgeTransfer \cup {None}]
  BY DEF BridgeTypes, BridgeTypeOK
<1>3. \/ transfers' = transfers
      \/ /\ lock_cache(k) \/ update_cache(k)
         /\ transfers' = [transfers EXCEPT ![task[k].id] = task[k].tr]
         /\ HasTr(task[k]) /\ task[k].tr # None /\ task[k].tr \in BridgeTransfer
  BY Writes, AbsenceAssumption
<1>4. \A id \in TransferId : transfers[id] # None => transfers'[id] # None
  BY <1>2, <1>3
<1>5. CASE ~objects[o].locked
  <2>1. lock_object(k)
    <3>1. objects' # objects
      BY <1>5
    <3>2. ~unlock_save(k)
      <4> SUFFICES ASSUME unlock_save(k) PROVE FALSE
        OBVIOUS
      <4>1. task[k].obj \in Object
        BY CancelEffects DEF UnlockLocals
      <4>2. [task[k].obj EXCEPT !.locked = FALSE].locked = FALSE
        BY <4>1 DEF Object
      <4>3. objects' = [objects EXCEPT ![task[k].tr.object] = [task[k].obj EXCEPT !.locked = FALSE]]
        BY DEF unlock_save
      <4> QED  BY <1>5, <4>2, <4>3 DEF BridgeTypes, BridgeTypeOK
    <3> QED
      BY <3>1, <3>2 DEF task_step, tables, lock_save, lock_cache, mint_lock, mint_guard, mint_recheck, mint_read,
                        mint_verify, mint_object, update_cache, update_save, cancel_owner, unlock_read
  <2>2. task[k].tr.object = o
    BY <1>5, <2>1 DEF lock_object, BridgeTypes, BridgeTypeOK
  <2>3. /\ task'[k].pc = <<"lock", "save">> /\ task'[k].id = task[k].id
        /\ task[k].pc = <<"lock", "object">>
    BY <2>1, LockEffects DEF Moved, Kept
  <2>4. task[k].id[2] = o
    BY <2>2, <2>3 DEF RecordsSound, HasTr, Idle
  <2>5. Rescuer(task'[k], o)
    BY <2>3, <2>4 DEF Rescuer, Idle
  <2> QED  BY <2>5 DEF Goal
<1>6. CASE objects[o].locked
  <2>1. CASE Cancelled(transfers, passed, o)
    BY <1>1, <1>4, <2>1 DEF Cancelled, Goal
  <2>2. CASE Releasable(transfers, o)
    <3>1. PICK id \in TransferId : id[2] = o /\ transfers[id] # None /\ transfers[id].status \in {"Locked", "Minted"}
      BY <2>2 DEF Releasable
    <3>2. CASE transfers'[id] = transfers[id]
      BY <3>1, <3>2 DEF Releasable, Goal
    <3>3. CASE transfers'[id] # transfers[id]
      <4>1. /\ lock_cache(k) \/ update_cache(k)
            /\ task[k].id = id /\ HasTr(task[k]) /\ transfers'[id] = task[k].tr /\ task[k].tr # None
        BY <1>2, <1>3, <3>3
      <4>2. CASE lock_cache(k)
        <5>1. task[k].tr.status = "Locked"
          BY <4>1, <4>2, LockEffects DEF RecordsSound, StatusOf
        <5> QED  BY <3>1, <4>1, <5>1 DEF Releasable, Goal
      <4>3. CASE update_cache(k)
        <5>1. PICK u \in Updates :
                 /\ task[k].pc = <<u, "cache">> /\ task'[k].pc = <<u, "save">> /\ Kept(k)
                 /\ task[k].op = IF u = "cancelled" THEN "cancel" ELSE "mint"
          BY <4>3, UpdateEffects DEF Moved
        <5>2. CASE u \in {"failed", "verified"}
          <6>1. Rescuer(task'[k], o)
            BY <3>1, <4>1, <5>1, <5>2 DEF Rescuer, Kept, Idle
          <6> QED  BY <6>1 DEF Goal
        <5>3. CASE u = "minted"
          <6>1. task[k].tr.status = "Minted"
            BY <4>1, <5>1, <5>3 DEF RecordsSound, StatusOf
          <6> QED  BY <3>1, <4>1, <6>1 DEF Releasable, Goal
        <5>4. CASE u = "cancelled"
          <6>1. passed[id].cancels > 0
            BY <4>1, <5>1, <5>4 DEF CacheSound, HasTr
          <6> QED  BY <1>1, <3>1, <4>1, <6>1 DEF Cancelled, Goal
        <5> QED  BY <5>2, <5>3, <5>4 DEF Updates
      <4> QED  BY <4>1, <4>2, <4>3
    <3> QED  BY <3>2, <3>3
  <2>3. ASSUME NEW j \in Tasks, Rescuer(task[j], o) PROVE Goal
    <3>1. CASE j # k
      BY <1>1, <2>3, <3>1 DEF Goal
    <3>2. CASE j = k
      BY <2>3, <3>2, RescuePath DEF Goal
    <3> QED  BY <3>1, <3>2
  <2> QED  BY <1>1, <1>6, <2>1, <2>2, <2>3 DEF Rescued
<1> QED  BY <1>5, <1>6

LEMMA RescueInvariant == Spec => []Rescued
<1>1. Init => Rescued
  BY DEF Init, Rescued
<1>2. BridgeTypes /\ RecordsSound /\ CacheSound /\ Rescued /\ [Next]_vars => Rescued'
  <2> SUFFICES ASSUME BridgeTypes, RecordsSound, CacheSound, Rescued, [Next]_vars PROVE Rescued'
    OBVIOUS
  <2>1. ASSUME NEW k \in Tasks, request(k) PROVE Rescued'
    <3>1. UNCHANGED <<objects, transfers, crashes>> /\ \A j \in Tasks \ {k} : task'[j] = task[j]
      BY <2>1, RequestTypes DEF tables
    <3>2. task'[k] = task[k] \/ task[k] = Idle
      BY <2>1, RequestEffects
    <3>3. \A j \in Tasks, o \in Objects : Rescuer(task[j], o) => Rescuer(task'[j], o)
      BY <3>1, <3>2 DEF Rescuer
    <3>4. \A id \in TransferId : passed[id].cancels > 0 => passed'[id].cancels > 0
      <4>1. passed \in [TransferId -> [locks : Nat, cancels : Nat]]
        BY DEF BridgeTypes, BridgeTypeOK
      <4>2. \/ passed' = passed
            \/ \E i \in TransferId : \/ passed' = [passed EXCEPT ![i].locks = @ + 1]
                                     \/ passed' = [passed EXCEPT ![i].cancels = @ + 1]
        BY <2>1, RequestEffects
      <4> QED  BY <4>1, <4>2
    <3>5. \A o \in Objects : Cancelled(transfers, passed, o) => Cancelled(transfers, passed', o)
      BY <3>4 DEF Cancelled
    <3> QED  BY <3>1, <3>3, <3>5 DEF Rescued
  <2>2. CASE restart
    <3>1. crashes' # 0
      BY <2>2 DEF restart, BridgeTypes, BridgeTypeOK
    <3> QED  BY <3>1 DEF Rescued
  <2>3. CASE (\E v \in Validators : register_validator(v)) \/ tick \/ UNCHANGED vars
    BY <2>3 DEF register_validator, tick, vars, tables, memory, history, Rescued
  <2> QED  BY <2>1, <2>2, <2>3, RescueStep DEF Next, finished
<1> QED  BY <1>1, <1>2, BridgeTypesInvariant, RecordsInvariant, CacheInvariant, PTL DEF Spec

\* Once every call has returned, cache and table name the same transfers; and
\* before the first restart a locked object none of whose transfers was
\* cancelled has one that is Locked or Minted, whatever overlapped: neither
\* lock_assets nor a failed mint_from_proof leaves it locked for nothing.
THEOREM LocksReleasable == Spec => []LockReleasable
<1>1. BridgeTypes /\ RecordsSound /\ CacheSound /\ Rescued => LockReleasable
  <2> SUFFICES ASSUME BridgeTypes, RecordsSound, CacheSound, Rescued, \A k \in Tasks : task[k] = Idle
               PROVE  /\ \A id \in TransferId : (transfers[id] = None) <=> (saved[id] = None)
                      /\ crashes = 0 =>
                            \A o \in Objects :
                                LET of_object == {id \in TransferId : transfers[id] # None /\ transfers[id].object = o}
                                IN  objects[o].locked /\ (\A id \in of_object : passed[id].cancels = 0) =>
                                        \E id \in of_object : transfers[id].status \in {"Locked", "Minted"}
    BY DEF LockReleasable
  <2>1. \A id \in TransferId : (transfers[id] = None) <=> (saved[id] = None)
    BY DEF CacheSound, Idle
  <2>2. ASSUME crashes = 0, NEW o \in Objects, objects[o].locked,
               \A id \in TransferId : transfers[id] # None /\ transfers[id].object = o => passed[id].cancels = 0
        PROVE  \E id \in TransferId : /\ transfers[id] # None /\ transfers[id].object = o
                                      /\ transfers[id].status \in {"Locked", "Minted"}
    <3>1. ~\E k \in Tasks : Rescuer(task[k], o)
      BY DEF Rescuer
    <3>2. ~Cancelled(transfers, passed, o)
      BY <2>2 DEF Cancelled, RecordsSound
    <3>3. Releasable(transfers, o)
      BY <2>2, <3>1, <3>2 DEF Rescued
    <3> QED  BY <3>3 DEF Releasable, RecordsSound
  <2> QED  BY <2>1, <2>2
<1> QED
  BY <1>1, BridgeTypesInvariant, RecordsInvariant, CacheInvariant, RescueInvariant, PTL
=============================================================================
