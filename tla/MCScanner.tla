----------------------------- MODULE MCScanner ------------------------------
(***************************************************************************)
(* Small L1 histories for Scanner.  Branches a, b and c of one chain hold  *)
(* creations, calls, a deployed contract, a contract whose blob is only on *)
(* the DHT, a trapping call, a call without its fee and a transaction      *)
(* whose call has no target and whose next output creates.                 *)
(***************************************************************************)
EXTENDS Scanner

CONSTANTS NoCode, Empty, k1, k2, alice, coinbase, collector, change

MCTxIds == {"coin", "t1", "t2", "t3", "t4", "t5", "t6", "t7", "t8", "t9"}
MCSeals == MCTxIds \X {0, 1}
MCOwners == MCSeals \cup {alice, coinbase}
MCCalls == {"m2", "m3", "m4", "m6", "m7", "m9", "trap"}
MCStates == {"init"} \cup MCCalls
MCInitState == [w \in MCOwners |-> "init"]
MCExec == [x \in Codes \X MCStates \X MCCalls |->
              IF x[3] = "trap" /\ x[1] # DefaultCode THEN Absent ELSE x[3]]
MCObjOf == [x \in MCTxIds |-> x]
\* Outpoints of distinct transactions get distinct undo ids.
MCIndex == [x \in MCTxIds |-> CASE x = "coin" -> 0 [] x = "t1" -> 1 [] x = "t2" -> 2
              [] x = "t3" -> 3 [] x = "t4" -> 4 [] x = "t5" -> 5 [] x = "t6" -> 6
              [] x = "t7" -> 7 [] x = "t8" -> 8 [] x = "t9" -> 9]
MCUndoLow == [s \in MCSeals |-> 2 * MCIndex[s[1]] + s[2]]
MCLows == 0..19

Plain(v, sc) == [env |-> Absent, value |-> v, script |-> sc]
Create(v, code, blob) ==
    [env |-> [blob |-> blob, op |-> "create", code |-> code, state |-> Absent,
              call |-> Absent, to |-> Absent], value |-> v, script |-> change]
Call(v, m, to) ==
    [env |-> [blob |-> Absent, op |-> "call", code |-> Absent, state |-> Absent,
              call |-> m, to |-> to], value |-> v, script |-> change]
Fee == Plain(2, collector)
Tx(id, vin, vout) == [id |-> id, vin |-> vin, vout |-> vout]
Coin == <<"coin", 0>>

T1 == Tx("t1", <<Coin>>, <<Fee, Create(2, Absent, Absent)>>)
T2 == Tx("t2", <<<<"t1", 1>>>>, <<Call(1, "m2", alice), Fee>>)
T3 == Tx("t3", <<Coin, <<"t2", 0>>>>, <<Call(1, "m3", Absent), Fee>>)
T4 == Tx("t4", <<<<"t1", 1>>>>, <<Call(2, "m4", Absent), Fee>>)
T5 == Tx("t5", <<>>, <<Create(1, Absent, k1), Fee>>)
T6 == Tx("t6", <<<<"t5", 0>>>>, <<Call(1, "trap", alice), Fee>>)
T7 == Tx("t7", <<<<"t5", 0>>>>, <<Call(2, "m7", alice), Fee>>)
T8 == Tx("t8", <<Coin>>, <<Call(1, "m6", Absent), Create(1, k2, Absent), Fee>>)
T9 == Tx("t9", <<<<"t8", 1>>>>, <<Call(1, "m9", Absent), Fee>>)
T9poor == Tx("t9", <<<<"t4", 0>>>>, <<Call(2, "m9", alice), Plain(2, change)>>)

MCBlockTxs == [b \in Blocks |->
    CASE b = "a1" -> <<T1>>
      [] b = "a2" -> <<T2, T8>>
      [] b = "a3" -> <<T3, T9>>
      [] b = "b2" -> <<T4, T5>>
      [] b = "b3" -> <<T6, T9poor>>
      [] b = "b4" -> <<T8>>
      [] b = "c3" -> <<T5, T9>>
      [] b = "c4" -> <<T3, T7>>]

MCL1Chains == {<<"a1">>, <<"a1", "a2">>, <<"a1", "a2", "a3">>,
               <<"a1", "b2", "b3">>, <<"a1", "b2", "b3", "b4">>,
               <<"a1", "a2", "c3">>, <<"a1", "a2", "c3", "c4">>}

ASSUME LinkAssumption == HashLinked
ASSUME TxAssumption == TxsWellFormed
-----------------------------------------------------------------------------
(* Variations.                                                             *)

\* Block a2 creates an object and calls it.
SameBlockTxs == [MCBlockTxs EXCEPT !["a2"] = <<T8, T9>>, !["a3"] = <<T3>>, !["c3"] = <<T5>>]

\* The L1 replaces the first block the node has scanned.
FirstBlockChains == {<<"a1">>, <<"b2", "b3">>}

MempoolT2 == {T2}

\* Every kind of event on four chains.
AdverseChains == {<<"a1">>, <<"a1", "a2">>, <<"a1", "a2", "a3">>, <<"a1", "b2", "b3">>}

\* The object of each seal, and what the undo logs rest on.
MCHome == [s \in MCSeals |-> CASE s[1] \in {"t5", "t6", "t7"} -> "t5"
                              [] s[1] \in {"t8", "t9"} -> "t8"
                              [] OTHER -> "t1"]
ASSUME HomeAssumption == OneObjectPerSeal(MCHome) /\ UndoIdsDistinct
ASSUME SpendAssumption == L1Chains = AdverseChains => SpendsLater

\* What the object table, the history and the attested roots rest on; the block that
\* calls its own object falls short of one condition only.
ASSUME ReplayAssumption == BlockTxs = MCBlockTxs /\ OnlyBlocks => Replayable(MCHome)
ASSUME SameBlockAssumption ==
    BlockTxs = SameBlockTxs =>
        /\ MinedOnce /\ ObjIdsDistinct /\ CallsCreateNothing /\ BlobsAtHand /\ OnlyBlocks
        /\ ~ SpentInLaterBlock
=============================================================================
