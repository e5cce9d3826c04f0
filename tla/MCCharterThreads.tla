------------------------- MODULE MCCharterThreads -------------------------
(* Two requests for a child of a root that may have one.                    *)
EXTENDS CharterThreads

CONSTANTS w1, w2, w3, r1, r2

Family == {w1, w2, w3}
Requesters == {r1, r2}
Asks == [r \in Requesters |-> [window |-> IF r = r1 THEN w2 ELSE w3, parent |-> w1]]
OneChild == [reach |-> None, bridgeable |-> None,
             max_depth |-> None, max_children |-> 1, max_descendants |-> None]
NoConstitutions == {}
=============================================================================
