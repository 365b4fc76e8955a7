------------------------- MODULE MCSparseMerkleTree -------------------------
(* Depth 3: two neighbouring leaves, their cousin, and a leaf of the other *)
(* half.                                                                   *)
EXTENDS SparseMerkleTree

MCKeys == {<<0, 0, 0>>, <<0, 0, 1>>, <<0, 1, 1>>, <<1, 0, 1>>}
=============================================================================
