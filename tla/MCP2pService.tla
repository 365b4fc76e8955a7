---------------------------- MODULE MCP2pService ----------------------------
(* A small instance of P2pService: the sync loop, which calls twice, and one *)
(* RPC caller; one hash that contracts go under, the blob that has it and a  *)
(* blob that has not; channels of capacity one.  The two topics are handled  *)
(* alike, so one of them stands for both.                                    *)
EXTENDS P2pService

CONSTANTS c1, c2, p1, b1, b2

MCSha == [b \in {b1, b2} |-> IF b = b1 THEN "h1" ELSE "h2"]
MCCalls == [c \in {c1, c2} |-> IF c = c1 THEN 2 ELSE 1]
=============================================================================
