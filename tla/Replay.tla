------------------------------- MODULE Replay -------------------------------
(***************************************************************************)
(* The reference: the object table as a pure function of the L1 blocks.    *)
(* An object is found by the seal it sits on, every WASM blob is at hand,  *)
(* and nothing is stored in between.  The scanner's tables are compared    *)
(* with it.                                                                *)
(***************************************************************************)
EXTENDS BlockProcessor, SequencesExt

NoObjects == [o \in ObjIds |-> Absent]

holders(objs, s) == {o \in ObjIds : objs[o] # Absent /\ objs[o].seal = s}

spending(objs, tx) == {k \in DOMAIN tx.vin : holders(objs, tx.vin[k]) # {}}

\* The call that transaction tx makes on the object o at output i.
replay_call(objs, tx, i, h, o) ==
    LET st == Exec[<<objs[o].code, objs[o].state, tx.vout[i].env.call>>]
    IN  IF st = Absent THEN objs
        ELSE [objs EXCEPT ![o] = called(@, tx, i, h, st)]

replay_tx(objs, tx, h) ==
    LET ins == spending(objs, tx)
        deciding == deciding_outputs(tx, ins # {})
        i == Min(deciding)
    IN  IF deciding = {} \/ ~validate_fee(tx) THEN objs
        ELSE IF is_create(tx.vout[i].env)
             THEN [objs EXCEPT ![ObjOf[tx.id]] = created(tx, i, h)]
        ELSE replay_call(objs, tx, i, h,
                 CHOOSE o \in holders(objs, tx.vin[Min(ins)]) : TRUE)

replay_block(objs, txs, h) ==
    FoldLeft(LAMBDA acc, tx : replay_tx(acc, tx, h), objs, txs)

\* The objects after the blocks chain[from], ..., chain[to].
replay(chain, block_txs, from, to) ==
    FoldLeft(LAMBDA acc, h : replay_block(acc, block_txs[chain[h]], h),
             NoObjects, [n \in 1..(to - from + 1) |-> from + n - 1])
=============================================================================
