------------------------------- MODULE Trees -------------------------------
(***************************************************************************)
(* What lies beneath a node of a tree, given the children of every node:   *)
(* the walk over child lists that the region tree, the two trees of loops  *)
(* and the constitution tree share.  Everything beneath x is the least set *)
(* that holds the children of x and the children of its members; it is     *)
(* written as that least set so that facts about it follow by exhibiting a *)
(* set.                                                                    *)
(***************************************************************************)
Beneath(kids, x) ==
  {y \in DOMAIN kids :
     \A S \in SUBSET DOMAIN kids :
        (kids[x] \subseteq S /\ \A z \in S : kids[z] \subseteq S) => y \in S}
=============================================================================
