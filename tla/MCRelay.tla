------------------------------ MODULE MCRelay -------------------------------
(* Two rivals for one height: v1 attests the first, v2 and v3 the second.  *)
EXTENDS Relay, TLC

CONSTANTS v1, v2, v3, b1, c1, h1, h2

att(b, r, v) == [key |-> 1, block |-> b, root |-> r, validator |-> v, signed |-> TRUE]

MCOwn == {att(b1, 1, v1)}
MCGossip == {att(c1, 2, v2), att(c1, 2, v3)}
HandlerSymmetry == Permutations({h1, h2})
OneEach == [a \in Gossip \cup Own |-> 1]
Rivals == {[block |-> b1, root |-> 1], [block |-> c1, root |-> 2]}
=============================================================================
