------------------------------ MODULE MCVault -------------------------------
(* Roots of two bytes: two that the store could write, one of them also in *)
(* upper case, one that is too short and one that is not hexadecimal.      *)
EXTENDS Vault

Root(hex, bytes, upper) == [hex |-> hex, bytes |-> bytes, upper |-> upper]
MCRoots == {Root(TRUE, <<171, 1>>, FALSE), Root(TRUE, <<171, 2>>, FALSE),
            Root(TRUE, <<171, 1>>, TRUE), Root(TRUE, <<171>>, FALSE), Root(FALSE, <<>>, FALSE)}

\* Delays on both sides of every limit of the encoding: OP_16, one byte, its
\* sign bit (the tests' 144), minus zero, the sign bit of two bytes, more than
\* 16 bits and bit 22.
MCDelays == {<<0, 17>>, <<16, 0>>, <<17, 256>>, <<256, 16>>, <<144, 4194305>>,
             <<128, 40000>>, <<65552, 144>>}
=============================================================================
