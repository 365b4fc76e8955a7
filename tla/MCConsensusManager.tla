------------------------- MODULE MCConsensusManager -------------------------
(* Three validators, of which v3 signs what it likes, and a forged         *)
(* attestation of v1.  The node's own key is v1's.  Block b1 is replaced   *)
(* by c1, and v2, which is honest, attests both.                           *)
EXTENDS ConsensusManager

CONSTANTS v1, v2, v3, b1, c1

Att(k, b, r, v) == [key |-> k, block |-> b, root |-> r, validator |-> v, signed |-> TRUE]
Forged(k, b, r, v) == [Att(k, b, r, v) EXCEPT !.signed = FALSE]

MCOwn == {Att(1, b1, 1, v1)}
MCGossip == {Att(1, b1, 1, v2), Att(1, c1, 2, v2), Att(1, b1, 1, v3),
             Att(1, b1, 2, v3), Forged(1, b1, 2, v1)}

\* One of v3's attestations is delivered twice.
MCCopies == [a \in Gossip \cup Own |-> IF a = Att(1, b1, 2, v3) THEN 2 ELSE 1]

ASSUME QuorumAssumption == HonestReplay /\ HonestQuorum /\ MajorityQuorum
=============================================================================
