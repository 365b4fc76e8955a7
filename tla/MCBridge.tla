------------------------------ MODULE MCBridge ------------------------------
(***************************************************************************)
(* One object of the caller and one of somebody else, two validators, and  *)
(* proofs that have a quorum, repeat a validator, or belong to the other   *)
(* object.                                                                 *)
(***************************************************************************)
EXTENDS Bridge, TLC

CONSTANTS k1, k2, o1, o2, alice, bob, jkc, v1, v2

EachItsOwner == [o \in Objects |-> IF o = o1 THEN alice ELSE bob]

att(v) == [validator |-> v, chain |-> jkc, block_height |-> 1, state_root |-> 1, signed |-> TRUE]

proof(o, attestations) ==
    [object_id |-> o, source_chain |-> jkc, source_height |-> 1, source_root |-> 1,
     merkle |-> TRUE, attestations |-> attestations]

Sound == proof(o1, <<att(v1), att(v2)>>)
Repeated == proof(o1, <<att(v1), att(v1)>>)
OtherObject == proof(o2, <<att(v1), att(v2)>>)

MCProofs == {Sound, Repeated, OtherObject}
SoundProofs == {Sound}
MCStrays == {<< <<jkc, o1, 1>>, Sound>>}

=============================================================================
