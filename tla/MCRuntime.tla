------------------------------ MODULE MCRuntime ------------------------------
(* A small instance of Runtime: contracts with and without the optional      *)
(* exports, states below and above the fixed buffer, answers up to and above  *)
(* the limit of both, true and false ones.                                   *)
EXTENDS Runtime

MCStates == {"none", "blank", "small", "other"}
MCSize == [none |-> 0, blank |-> 1, small |-> 2, other |-> 2]
MCAnswers == {-1, 1, 2, 3}
MCArgs == {"none", "small"}
MCJson == {"blank", "small"}

Abi == {"allocate", "deallocate", "init", "call", "get_state", "restore_state"}

MCModules ==
    { [valid |-> TRUE, exports |-> Abi],
      [valid |-> TRUE, exports |-> {"start", "get_state_size"} \cup Abi],
      [valid |-> TRUE, exports |-> {"allocate", "call", "restore_state"}],
      [valid |-> TRUE, exports |-> {"init", "get_state"}],
      [valid |-> FALSE, exports |-> {}] }

MCHostCost ==
    [host_get_caller |-> 1, host_get_satoshis |-> 1, host_get_seal |-> 1,
     host_emit_event |-> 2, host_stealth_settle |-> 2, host_mweb_peg_out |-> 2,
     host_create_object |-> 3]
=============================================================================
