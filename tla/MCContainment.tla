--------------------------- MODULE MCContainment ---------------------------
(***************************************************************************)
(* The containment layer for TLC, in two scenarios: formations of up to    *)
(* four windows, chartered, inherited and narrowed in any order; and       *)
(* crossings between three, where w1 is the root, the others can be        *)
(* chartered under it, w3 is an instance of w2, and w4 stands aside.       *)
(***************************************************************************)
EXTENDS StructuralContainment, TLC

CONSTANTS w1, w2, w3, w4

Family == {w1, w2, w3, w4}
InstanceSpecs == (w1 :> w1) @@ (w2 :> w2) @@ (w3 :> w2) @@ (w4 :> w4)

Grant(reach, bridgeable, d, c, n) ==
  [reach |-> reach, bridgeable |-> bridgeable,
   max_depth |-> d, max_children |-> c, max_descendants |-> n]

TreeGrants == {Grant(None, None, None, 1, 2), Grant({w1, w2, w3}, TRUE, 2, None, 2)}
TreeRequests == {Grant({w1, w2}, None, None, None, None), Grant({w2}, FALSE, 1, 2, None),
                 Grant(None, TRUE, None, None, 1)}

CrossingGrants == {Grant(None, None, None, None, None)}
CrossingRequests == {Grant({w1, w2}, None, None, None, None), Grant({w2}, FALSE, None, None, None)}

AllGrants == TreeGrants \union CrossingGrants
AllRequests == TreeRequests \union CrossingRequests

Sets(r, w) == [readable |-> r, writable |-> w]
CrossingDeclarations == {Sets({}, {w1}), Sets({w1}, {})}

(* TreeStep and Formation with some of the constitutions.                   *)
FormationOf(roots, windows, grants, requests) ==
  /\ \/ \E w \in roots, k \in grants : CharterRoot(w, k)
     \/ \E w, p \in windows, q \in requests \union {None} : Charter(w, p, q)
     \/ \E w \in windows, q \in requests : Narrow(w, q)
  /\ UNCHANGED boundaryVars

(* Crossing between some of the windows.                                    *)
CrossingOf(windows) ==
  \/ \E w \in windows, d \in Declarations : Register(w, d)
  \/ \E w \in windows : Revoke(w)
  \/ \E s, t \in windows : OpenBridge(s, t)
  \/ \E a, t \in windows : RefuseRead(a, t) \/ RefuseWrite(a, t) \/ RefuseBridge(a, t)
  \/ \E a \in windows : RefuseEgress(a) \/ DecideBridge(a) \/ GateRefusesEgress(a)

FormationScenario == FormationOf(Family, Family, TreeGrants, TreeRequests)

CrossingScenario ==
  \/ FormationOf({w1}, {w1, w2, w3}, CrossingGrants, CrossingRequests)
  \/ CrossingOf({w1, w2, w3})
=============================================================================
