----------------------------- MODULE Commitment -----------------------------
(***************************************************************************)
(* What the node promises about its state tree: a map whose published root *)
(* is a function of the map's content alone, whatever sequence of updates  *)
(* led to it.  Two nodes that hold the same objects attest the same root.  *)
(***************************************************************************)
CONSTANTS
    Keys,       \* keys of the map
    Values,     \* values a key may have
    Zero,       \* the value that stands for no entry
    Digest(_)   \* root of a map

VARIABLES
    map,        \* function from the present keys to Values
    published,  \* the root last given out
    current     \* no update since

Put(k, v) ==
    /\ map' = IF v = Zero
              THEN [j \in DOMAIN map \ {k} |-> map[j]]
              ELSE [j \in DOMAIN map \cup {k} |-> IF j = k THEN v ELSE map[j]]
    /\ current' = FALSE
    /\ UNCHANGED published

Publish ==
    /\ published' = Digest(map)
    /\ current' = TRUE
    /\ UNCHANGED map

Init == map = <<>> /\ published = Digest(map) /\ current = TRUE

Next == Publish \/ \E k \in Keys, v \in Values \cup {Zero} : Put(k, v)

Spec == Init /\ [][Next]_<<map, published, current>>
=============================================================================
