-------------------------- MODULE ConstitutionTree --------------------------
(***************************************************************************)
(* The chartered hierarchy of maxey0_ss/containment/hierarchy.py: which    *)
(* windows a window may name at all, how far it may spawn, and how both    *)
(* are derived from its parent.  Every action is one accepted call; a      *)
(* refused one raises and leaves the tree alone.                           *)
(***************************************************************************)
EXTENDS Naturals, FiniteSets, FiniteSetsExt, Trees

CONSTANTS
  Windows,    \* SCW identifiers, of specifications and of instances
  Grants,     \* the constitutions a root may be given
  Requests,   \* the constitutions a child or a narrowing may ask for
  None        \* an absent field: unbounded reach, no cap, inherit

Caps == Nat \union {None}

Constitution == [reach: (SUBSET Windows) \union {None}, bridgeable: BOOLEAN \union {None},
                 max_depth: Caps, max_children: Caps, max_descendants: Caps]

ASSUME NoneAssumption == /\ None \notin Windows \union BOOLEAN
                         /\ None \notin Nat
                         /\ \A S \in SUBSET Windows : S # None
ASSUME WindowsFinite == IsFiniteSet(Windows)
ASSUME RequestAssumption == Grants \subseteq Constitution /\ Requests \subseteq Constitution

VARIABLES
  chartered,  \* the windows in the tree
  up,         \* parent_id of each, None for a root
  children,   \* the child lists
  depth,      \* distance to the root, fixed when chartered
  charter     \* the constitution granted to each

treeVars == <<chartered, up, children, depth, charter>>

-----------------------------------------------------------------------------
(* Constitutions.                                                           *)

Permits(k, x) == k.reach # None => x \in k.reach

IsBridgeable(k) == k.bridgeable \in {TRUE, None}

(* The stricter of two caps.                                                *)
Tighter(p, c) == IF p = None THEN c ELSE IF c = None THEN p ELSE IF c < p THEN c ELSE p

MayRequestAny(k, q) == q.reach = None => k.reach = None     \* mutant: no subset check

(* derive refuses a request for more than the parent k holds.               *)
MayRequest(k, q) ==
  /\ q.reach = None => k.reach = None
  /\ q.reach # None /\ k.reach # None => q.reach \subseteq k.reach
  /\ q.bridgeable = TRUE => IsBridgeable(k)

Derive(k, q) ==
  [reach |-> q.reach,
   bridgeable |-> IF q.bridgeable = None THEN IsBridgeable(k) ELSE q.bridgeable,
   max_depth |-> Tighter(k.max_depth, q.max_depth),
   max_children |-> Tighter(k.max_children, q.max_children),
   max_descendants |-> Tighter(k.max_descendants, q.max_descendants)]

Tightest(caps) == IF caps \subseteq {None} THEN None ELSE Min(caps \ {None})

(* _intersect, of any number of constitutions: what all of them allow.      *)
Intersect(K) ==
  [reach |-> IF \A k \in K : k.reach = None THEN None
             ELSE {x \in Windows : \A k \in K : Permits(k, x)},
   bridgeable |-> \A k \in K : IsBridgeable(k),
   max_depth |-> Tightest({k.max_depth : k \in K}),
   max_children |-> Tightest({k.max_children : k \in K}),
   max_descendants |-> Tightest({k.max_descendants : k \in K})]

-----------------------------------------------------------------------------
(* The tree.                                                                *)

Parents == [w \in Windows |-> {p \in Windows : up[w] = p}]

Ancestors(w) == Beneath(Parents, w)

Descendants(w) == Beneath(children, w)

(* What a window outside the tree holds: nothing.                           *)
NoCharter == [reach |-> {}, bridgeable |-> FALSE,
              max_depth |-> 0, max_children |-> 0, max_descendants |-> 0]

TreeInit ==
  /\ chartered = {}
  /\ up = [w \in Windows |-> None]
  /\ children = [w \in Windows |-> {}]
  /\ depth = [w \in Windows |-> 0]
  /\ charter = [w \in Windows |-> NoCharter]

(* charter_root does not ask whether there is a root already.               *)
CharterRoot(w, k) ==
  /\ w \notin chartered
  /\ chartered' = chartered \union {w}
  /\ up' = [up EXCEPT ![w] = None]
  /\ children' = [children EXCEPT ![w] = {}]
  /\ depth' = [depth EXCEPT ![w] = 0]
  /\ charter' = [charter EXCEPT ![w] = k]

HasRoomOfParent(p) ==     \* mutant: only the parent's own descendants are counted
  LET k == charter[p]
  IN  /\ k.max_depth # None => depth[p] + 1 <= k.max_depth
      /\ k.max_children # None => Cardinality(children[p]) < k.max_children
      /\ k.max_descendants # None => Cardinality(Descendants(p)) < k.max_descendants

(* The caps a charter under p is checked against: depth and direct children *)
(* with p's, the number of descendants with that of p and every ancestor.   *)
HasRoom(p) ==
  LET k == charter[p]
  IN  /\ k.max_depth # None => depth[p] + 1 <= k.max_depth
      /\ k.max_children # None => Cardinality(children[p]) < k.max_children
      /\ \A a \in {p} \union Ancestors(p) :
           charter[a].max_descendants # None =>
             Cardinality(Descendants(a)) < charter[a].max_descendants

MayCharter(w, p, q) ==
  /\ w # p
  /\ w \notin chartered
  /\ p \in chartered
  /\ HasRoom(p)
  /\ q # None => MayRequest(charter[p], q)

(* A child that asks for nothing inherits its parent's constitution.        *)
Charter(w, p, q) ==
  /\ MayCharter(w, p, q)
  /\ chartered' = chartered \union {w}
  /\ up' = [up EXCEPT ![w] = p]
  /\ children' = [children EXCEPT ![w] = {}, ![p] = @ \union {w}]
  /\ depth' = [depth EXCEPT ![w] = depth[p] + 1]
  /\ charter' = [charter EXCEPT ![w] = IF q = None THEN charter[p] ELSE Derive(charter[p], q)]

(* _reseat walks down from top, giving every node the intersection of its   *)
(* own constitution with the new one of its parent: in the end, with all    *)
(* those on the way down from top, whose own is now k.                      *)
ReseatedChildren(top, k) ==     \* mutant: one level only
  [w \in Windows |->
     IF w = top THEN k
     ELSE IF w \in children[top] THEN Intersect({k, charter[w]})
     ELSE charter[w]]

Reseated(top, k) ==
  LET below == Descendants(top)
      way(w) == {a \in below : a = w \/ w \in Descendants(a)}
  IN  [w \in Windows |->
         IF w = top THEN k
         ELSE IF w \in below THEN Intersect({k} \union {charter[a] : a \in way(w)})
         ELSE charter[w]]

Narrow(w, q) ==
  /\ w \in chartered
  /\ MayRequest(charter[w], q)
  /\ charter' = Reseated(w, Derive(charter[w], q))
  /\ UNCHANGED <<chartered, up, children, depth>>

TreeStep ==
  \/ \E w \in Windows, k \in Grants : CharterRoot(w, k)
  \/ \E w, p \in Windows, q \in Requests \union {None} : Charter(w, p, q)
  \/ \E w \in Windows, q \in Requests : Narrow(w, q)

TreeSpec == TreeInit /\ [][TreeStep]_treeVars

-----------------------------------------------------------------------------
(* Properties.                                                              *)

TreeTypeOK ==
  /\ chartered \subseteq Windows
  /\ up \in [Windows -> Windows \union {None}]
  /\ children \in [Windows -> SUBSET Windows]
  /\ depth \in [Windows -> Nat]
  /\ charter \in [Windows -> Constitution]

TighterCap(c, p) == p # None => c # None /\ c <= p

(* c allows nothing that p does not.                                        *)
Within(c, p) ==
  /\ p.reach # None => c.reach # None /\ c.reach \subseteq p.reach
  /\ IsBridgeable(c) => IsBridgeable(p)
  /\ TighterCap(c.max_depth, p.max_depth)
  /\ TighterCap(c.max_children, p.max_children)
  /\ TighterCap(c.max_descendants, p.max_descendants)

(* However a formation was chartered and narrowed since, no window holds    *)
(* more than any window above it: not by inheriting, not by asking, and not *)
(* by having been chartered before an ancestor was narrowed.                *)
NarrowsDownward ==
  \A w \in chartered : \A a \in Ancestors(w) : Within(charter[w], charter[a])

(* A constitution that was granted never widens.                            *)
GrantsNeverWiden ==
  [][\A w \in chartered : w \in chartered' /\ Within(charter'[w], charter[w])]_treeVars

(* When a window is chartered, no cap is exceeded that any window above it  *)
(* holds: its depth, its siblings and all the descendants are within it.    *)
(* (Caps narrowed later evict nobody, so this is a property of the step.)   *)
GrowthCapped ==
  [][\A w \in chartered' \ chartered : \A a \in Ancestors(w)' :
       /\ TighterCap(depth'[w], charter[a].max_depth)
       /\ \A p \in Windows : up'[w] = p =>
            TighterCap(Cardinality(children'[p]), charter[a].max_children)
       /\ TighterCap(Cardinality(Descendants(a)'), charter[a].max_descendants)]_treeVars
=============================================================================
